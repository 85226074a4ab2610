----------------------------- MODULE MCAttachment -----------------------------
(* AttachmentController for TLC: two targets, one policy of each sort. *)
EXTENDS AttachmentController

CONSTANTS role, user, policy, external

MCNoStatus == [state |-> "", arn |-> FALSE, og |-> 0]

Pair(t, p) == [target |-> t, policy |-> p]

Retargeted == {Pair(role, policy), Pair(user, policy)}
Mixed == {Pair(role, policy), Pair(user, external), Pair(role, NoPolicy)}
==============================================================================
