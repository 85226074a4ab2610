------------------------------- MODULE MCPolicy -------------------------------
(* PolicyController for TLC. *)
EXTENDS PolicyController

MCNoStatus == [state |-> "", arn |-> FALSE, og |-> 0]
==============================================================================
