------------------------------ MODULE MCOperator ------------------------------
(* Operator for TLC: one target, the Policy and a policy given by its ARN. *)
EXTENDS Operator

CONSTANTS role, external

MCNoStatus == [state |-> "", arn |-> FALSE, og |-> 0]

MCBindings == [target : {role}, policy : {policy, external}]
==============================================================================
