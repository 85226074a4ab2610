------------------------------- MODULE MCUser -------------------------------
(* UserController for TLC. *)
EXTENDS UserController

MCNoStatus == [state |-> "", arn |-> FALSE, og |-> 0, made |-> {}]

LoginOrKeys == {[creds |-> {"login"}], [creds |-> {"keys"}]}
LoginOrNone == {[creds |-> {"login"}], [creds |-> {}]}
==============================================================================
