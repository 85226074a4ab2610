-------------------------------- MODULE MCRole --------------------------------
(* RoleController for TLC: which specs a user may write. *)
EXTENDS RoleController

MCNoStatus == [state |-> "", arn |-> FALSE, og |-> 0, readVer |-> 0]

MCNoObject == [rev |-> 0, doc |-> 0]

Inline  == [inline |-> TRUE, ref |-> FALSE, irsa |-> FALSE, sa |-> FALSE]
ByRef   == [inline |-> FALSE, ref |-> TRUE, irsa |-> FALSE, sa |-> FALSE]
InlineSa == [Inline EXCEPT !.sa = TRUE]
RefSa   == [ByRef EXCEPT !.sa = TRUE]
Irsa    == [inline |-> FALSE, ref |-> FALSE, irsa |-> TRUE, sa |-> FALSE]
Both    == [Inline EXCEPT !.ref = TRUE]

InlineOrRef == {Inline, RefSa}
IrsaOrRef   == {Irsa, RefSa}
WithInvalid == {InlineSa, RefSa, Both}
==============================================================================
