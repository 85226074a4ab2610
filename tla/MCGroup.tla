------------------------------- MODULE MCGroup -------------------------------
(* GroupController for TLC. *)
EXTENDS GroupController

CONSTANTS u1, u2

MCNoStatus == [state |-> "", arn |-> FALSE, og |-> 0]

OneOrBoth == {[users |-> {u1, u2}], [users |-> {u2}]}
==============================================================================
