----------------------------- MODULE CloudResource -----------------------------
(***************************************************************************)
(* What the operator promises of one AWS resource it manages for a custom  *)
(* resource (CR), seen from outside: the resource is created only while a  *)
(* CR holds it by a finalizer, its ARN is noted only while it exists and   *)
(* never forgotten, and a CR that knows the ARN disappears only after the  *)
(* resource did.  The promise is as weak as the code: a resource whose ARN *)
(* was never recorded may outlive its CR.                                  *)
(***************************************************************************)
VARIABLES
  phase,    \* of the CR: absent, new (no finalizer yet), held, dying
  known,    \* the CR's status carries the ARN
  ext       \* the AWS resource exists

vars == <<phase, known, ext>>

Init == phase = "absent" /\ known = FALSE /\ ext = FALSE

Apply     == phase = "absent" /\ phase' = "new" /\ UNCHANGED <<known, ext>>
Abandon   == phase = "new" /\ phase' = "absent" /\ UNCHANGED <<known, ext>>
Hold      == phase = "new" /\ phase' = "held" /\ UNCHANGED <<known, ext>>
Withdraw  == phase = "held" /\ phase' = "dying" /\ UNCHANGED <<known, ext>>

InHand == phase \in {"held", "dying"}

Provision   == InHand /\ ~ext /\ ext' = TRUE /\ UNCHANGED <<phase, known>>
Record      == InHand /\ ext /\ known' = TRUE /\ UNCHANGED <<phase, ext>>
Deprovision == InHand /\ known /\ ext /\ ext' = FALSE /\ UNCHANGED <<phase, known>>

Release == /\ phase = "dying" /\ (known => ~ext)
           /\ phase' = "absent" /\ known' = FALSE /\ UNCHANGED ext

Next == \/ Apply \/ Abandon \/ Hold \/ Withdraw
        \/ Provision \/ Record \/ Deprovision \/ Release

Spec == Init /\ [][Next]_vars
==============================================================================
