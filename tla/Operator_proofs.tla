---------------------------- MODULE Operator_proofs ----------------------------
(***************************************************************************)
(* The composed system keeps to what its two controllers assume of their   *)
(* surroundings, but for one race, so what is proved of each of them holds *)
(* beside the other one, for every set of documents, targets and pairs.    *)
(***************************************************************************)
EXTENDS Operator, TLAPS

\* At first nothing refers to the Policy and nothing is attached.
LEMMA InitMaps == Init => P!Init
  BY DEF Init, P!Init, P!BaseInit, P!IamInit, A!BaseInit, A!Absent, P!Absent,
         Refs, Bound, RefersTo

\* A step that changes nothing of the Policy, changes one of what is cached and what
\* is attached at most, and attaches only what exists, is one PolicyController knows.
LEMMA SurroundingStep ==
  ASSUME UNCHANGED policyVars, Refs' = Refs \/ Bound' = Bound,
         Bound' => Bound \/ iam # 0
  PROVE  P!Attachments \/ UNCHANGED P!vars
<1>1. UNCHANGED <<P!base, iam>>  BY DEF policyVars, P!base
<1>2. Refs \in BOOLEAN /\ Refs' \in BOOLEAN /\ Bound \in BOOLEAN /\ Bound' \in BOOLEAN
  BY DEF Refs, Bound, RefersTo
<1>3. CASE Refs' = Refs /\ Bound' = Bound  BY <1>1, <1>3 DEF P!vars, P!attVars
<1>4. CASE Refs' # Refs /\ Bound' = Bound  BY <1>1, <1>2, <1>4 DEF P!Attachments
<1>5. CASE Refs' = Refs /\ Bound' # Bound  BY <1>1, <1>2, <1>5 DEF P!Attachments
<1> QED BY <1>2, <1>3, <1>4, <1>5

\* A Reconcile of the PolicyAttachment writes to the API server and to AWS, not to the
\* cache, and IAM attaches only a policy that exists (policyattachment_controller.go:144).
LEMMA ReconcileKeepsCache == A!Reconcile => acache' = acache
<1> SUFFICES ASSUME A!Reconcile PROVE acache' = acache  OBVIOUS
<1>1. CASE A!NotFound \/ A!Skip
  BY <1>1 DEF A!NotFound, A!Skip, A!LoadAndReturn
<1>2. CASE A!RefsError \/ A!Start
  BY <1>2 DEF A!RefsError, A!Start, A!Load
<1>3. CASE A!AddFinalizer
  BY <1>3 DEF A!AddFinalizer, A!Accepted, A!Refused
<1>4. CASE A!Delete \/ A!Create
  BY <1>4 DEF A!Delete, A!Create, A!NoWrite
<1>5. CASE A!RemoveFinalizer \/ A!Observe
  BY <1>5 DEF A!RemoveFinalizer, A!Observe, A!Accepted, A!Refused
<1>6. CASE A!CreateFailed \/ A!OkStatusUpdate \/ A!Report
  BY <1>6 DEF A!CreateFailed, A!OkStatusUpdate, A!Report, A!ReportError,
              A!Logged, A!Accepted, A!Refused
<1> QED BY <1>1, <1>2, <1>3, <1>4, <1>5, <1>6 DEF A!Reconcile

LEMMA ReconcileAttachesExisting == A!Reconcile => (Bound' => Bound \/ iam # 0)
<1> SUFFICES ASSUME A!Reconcile, Bound' PROVE Bound \/ iam # 0  OBVIOUS
<1>1. PICK p \in attached' : p.policy = policy  BY DEF Bound
<1>2. CASE p \in attached  BY <1>1, <1>2 DEF Bound
<1>3. CASE p \notin attached
  <2>1. A!Create
    BY <1>1, <1>3 DEF A!Reconcile, A!NotFound, A!Skip, A!RefsError, A!Start, A!AddFinalizer,
         A!Delete, A!RemoveFinalizer, A!CreateFailed, A!OkStatusUpdate, A!Observe,
         A!Report, A!awsVars
  <2>2. p = aobj.spec /\ A!Attachable
    BY <2>1, <1>1, <1>3 DEF A!Create
  <2>3. policy \in Alive
    BY <2>2, <1>1, OperatorAssumption DEF A!Attachable
  <2> QED BY <2>3, OperatorAssumption DEF Alive
<1> QED BY <1>2, <1>3

LEMMA AttachmentStep ==
  ASSUME UserOfAttachment \/ SyncAttachment \/ ReconcileAttachment
  PROVE  P!Attachments \/ UNCHANGED P!vars
<1>1. CASE UserOfAttachment \/ SyncAttachment
  <2>1. attached' = attached
    BY <1>1 DEF UserOfAttachment, SyncAttachment, A!User, A!SyncAttachment, A!awsVars
  <2>2. Bound' = Bound  BY <2>1 DEF Bound
  <2> QED BY <2>2, <1>1, SurroundingStep DEF UserOfAttachment, SyncAttachment
<1>2. CASE ReconcileAttachment
  <2>1. acache' = acache  BY <1>2, ReconcileKeepsCache DEF ReconcileAttachment
  <2>2. Refs' = Refs  BY <2>1 DEF Refs, RefersTo
  <2>3. Bound' => Bound \/ iam # 0
    BY <1>2, ReconcileAttachesExisting DEF ReconcileAttachment
  <2> QED BY <2>2, <2>3, <1>2, SurroundingStep DEF ReconcileAttachment
<1> QED BY <1>1, <1>2

\* What is proved of the Policy controller with PolicyAttachments that come and go
\* (policyCleanup, policy_controller.go:163-180) holds with the controller that
\* makes them come and go.
THEOREM PolicyCarriesOver == Spec => PolicySpec
<1>1. [Next]_vars => [P!Next]_(P!vars)
  <2> SUFFICES ASSUME [Next]_vars PROVE P!Next \/ UNCHANGED P!vars  OBVIOUS
  <2>1. CASE UserOfPolicy \/ SyncPolicy \/ ReconcilePolicy
    BY <2>1 DEF UserOfPolicy, SyncPolicy, ReconcilePolicy, P!Next
  <2>2. CASE UserOfAttachment \/ SyncAttachment \/ ReconcileAttachment
    BY <2>2, AttachmentStep DEF P!Next
  <2>3. CASE UNCHANGED vars
    BY <2>3 DEF vars, policyVars, attachmentVars, P!vars, P!base, P!attVars, Refs, Bound, RefersTo
  <2> QED BY <2>1, <2>2, <2>3 DEF Next
<1> QED BY <1>1, InitMaps, PTL DEF Spec, PolicySpec, P!Spec
-----------------------------------------------------------------------------
(* The surroundings of the PolicyAttachment.                               *)

\* A copy of a CR, of either kind: of one that exists it carries the number of the
\* edit that wrote its spec.
Copy(o) ==
  /\ {"uid", "rev", "spec", "deleting"} \subseteq DOMAIN o
  /\ o.uid \in Nat /\ o.rev \in Nat
  /\ o.uid # 0 => o.rev # 0

\* What a deletion makes of it, and what a write of a controller does.
Touched(n, o)   == Copy(n) /\ n.uid = o.uid /\ n.rev = o.rev /\ n.spec = o.spec
Rewritten(n, o) == Touched(n, o) /\ n.deleting = o.deleting

\* The steps of a run for a Policy that is being deleted.
Leaving == {"cleanup", "delete", "removeFinalizer"}

PolicyInv ==
  /\ Copy(pcr) /\ Copy(pcache) /\ Copy(pobj)
  /\ ppc # "idle" => pobj.uid # 0
  /\ pedits \in Nat

\* A cached PolicyAttachment is the stored one or has an older spec.
AttachmentInv ==
  /\ \A o \in {acr, acache, aobj} :
       Copy(o) /\ o.rev <= aedits /\ (o.uid # 0 => o.spec \in Bindings)
  /\ apc # "idle" => aobj.uid # 0
  /\ \A p \in attached : p.target \in Targets
  /\ acr.uid # 0 => acr.rev >= acache.rev
  /\ acr.uid # 0 /\ acr.rev = acache.rev => acache.uid # 0 /\ acache.spec = acr.spec
  /\ aedits \in Nat

\* A PolicyAttachment that refers to the Policy while it is being deleted was
\* written after the Policy's cleanup had looked.
RaceInv ==
  /\ looked \in Nat /\ looked <= aedits
  /\ ppc = "delete" /\ RefersTo(acr) => acr.rev > looked

SharedInv == PolicyInv /\ AttachmentInv /\ RaceInv

LEMMA Touches ==
  ASSUME NEW o, Copy(o)
  PROVE  /\ Rewritten(o, o)
         /\ \A s : Rewritten([o EXCEPT !.status = s], o)
         /\ Rewritten([o EXCEPT !.fin = TRUE], o)
BY DEF Rewritten, Touched, Copy

LEMMA Nothing ==
  /\ Copy(P!Absent) /\ P!Absent.uid = 0 /\ P!Absent.rev = 0
  /\ Copy(A!Absent) /\ A!Absent.uid = 0 /\ A!Absent.rev = 0
BY DEF Copy, P!Absent, A!Absent

\* What users write.
LEMMA UserWrites ==
  ASSUME NEW o, Copy(o), NEW e \in Nat, NEW s
  PROVE  /\ Copy([o EXCEPT !.gen = o.gen + 1, !.rev = e + 1, !.spec = s])
         /\ [o EXCEPT !.gen = o.gen + 1, !.rev = e + 1, !.spec = s].uid = o.uid
         /\ [o EXCEPT !.gen = o.gen + 1, !.rev = e + 1, !.spec = s].rev = e + 1
         /\ [o EXCEPT !.gen = o.gen + 1, !.rev = e + 1, !.spec = s].spec = s
         /\ Touched([o EXCEPT !.deleting = TRUE, !.gen = o.gen + 1], o)
BY DEF Copy, Touched

LEMMA NewCopy ==
  ASSUME NEW e \in Nat, NEW s, NEW o, Copy(o)
  PROVE  /\ Copy([o EXCEPT !.uid = e + 1, !.gen = 1, !.rev = e + 1, !.spec = s])
         /\ [o EXCEPT !.uid = e + 1, !.gen = 1, !.rev = e + 1, !.spec = s].rev = e + 1
         /\ [o EXCEPT !.uid = e + 1, !.gen = 1, !.rev = e + 1, !.spec = s].uid # 0
         /\ [o EXCEPT !.uid = e + 1, !.gen = 1, !.rev = e + 1, !.spec = s].spec = s
BY DEF Copy

\* A Reconcile changes the stored CR by writes from its copy, takes its copy from the
\* cache, and gets to the deletion by the cleanup only.
LEMMA PolicyReconcile ==
  ASSUME PolicyInv, P!Reconcile
  PROVE  /\ UNCHANGED <<pcache, pedits>>
         /\ pcr' = P!Absent \/ Rewritten(pcr', pcr)
         /\ \/ ppc' = "idle" /\ pobj' = P!Absent
            \/ pobj' = pcache /\ pcache.uid # 0
            \/ (ppc # "idle" \/ ppc' = "idle") /\ Rewritten(pobj', pobj)
         /\ ppc' = "delete" => ppc = "cleanup" /\ ~Refs
         /\ ppc' \in Leaving => ppc \in Leaving \/ pobj'.deleting
<1> USE Touches DEF PolicyInv, Leaving
<1>1. CASE P!NotFound \/ P!Skip
  BY <1>1 DEF P!NotFound, P!Skip, P!LoadAndReturn, P!Dequeue
<1>2. CASE P!Start \/ P!IamServiceError
  BY <1>2 DEF P!Start, P!IamServiceError, P!Load, P!FirstStep, P!Retry, P!NoWrite, P!Exists
<1>3. CASE P!AddFinalizer
  <2>1. UNCHANGED <<pcache, pedits>> /\ (pcr' = pcr \/ pcr' = [pcr EXCEPT !.fin = TRUE])
    BY <1>3 DEF P!AddFinalizer, P!Accepted, P!Refused, P!Stored
  <2>2. /\ ppc # "idle" /\ ppc' \notin Leaving
        /\ \/ pobj' = pobj \/ pobj' = [pobj EXCEPT !.fin = TRUE]
           \/ pobj' = [[pobj EXCEPT !.status = pcr.status] EXCEPT !.fin = TRUE]
           \/ pobj' = [[pobj EXCEPT !.status = pobj.status] EXCEPT !.fin = TRUE]
    BY <1>3 DEF P!AddFinalizer, P!Goto, P!Answer
  <2>3. Rewritten(pcr', pcr)  BY <2>1
  <2>4. Rewritten(pobj', pobj)  BY <2>2 DEF Rewritten, Touched, Copy
  <2> QED BY <2>1, <2>2, <2>3, <2>4
<1>4. CASE P!CleanupPolicy
  BY <1>4 DEF P!CleanupPolicy, P!Cleanup, P!Goto, P!NoWrite
<1>5. CASE P!DeletePolicy
  BY <1>5 DEF P!DeletePolicy, P!Delete, P!AfterDelete, P!Goto, P!NoWrite
<1>6. CASE P!RemoveFinalizer
  BY <1>6 DEF P!RemoveFinalizer, P!Return, P!Retry, P!Accepted, P!Refused, P!Stored
<1>7. CASE P!CreatePolicy \/ P!UpdatePolicy
  BY <1>7 DEF P!CreatePolicy, P!UpdatePolicy, P!CreateAWSObject, P!UpdateAWSObject,
       P!Goto, P!NoWrite
<1>8. CASE P!OkStatusUpdate \/ P!NameTaken
  <2>1. PICK s : /\ pobj' = [pobj EXCEPT !.status = s]
                 /\ P!Logged(P!WithStatus([pobj EXCEPT !.status = s].status))
                 /\ ppc' \notin Leaving /\ ppc # "idle"
    BY <1>8 DEF P!OkStatusUpdate, P!NameTaken, P!Goto
  <2>2. UNCHANGED <<pcache, pedits>>
        /\ (pcr' = pcr \/ pcr' = [pcr EXCEPT !.status = [pobj EXCEPT !.status = s].status])
    BY <2>1 DEF P!Logged, P!Accepted, P!Refused, P!Stored, P!WithStatus
  <2> QED BY <2>1, <2>2
<1>9. CASE P!Updated \/ P!Observe \/ P!Report
  <2>1. PICK s : /\ ppc' = "idle" /\ pobj' = P!Absent
                 /\ P!Logged(P!WithStatus(s))
    <3>1. CASE P!Updated  BY <1>9, <3>1 DEF P!Updated, P!Retry
    <3>2. CASE P!Observe  BY <1>9, <3>2 DEF P!Observe, P!Retry, P!Return, P!Logged
    <3>3. CASE P!Report  BY <1>9, <3>3 DEF P!Report, P!ReportError, P!Retry
    <3> QED BY <1>9, <3>1, <3>2, <3>3
  <2>2. UNCHANGED <<pcache, pedits>> /\ (pcr' = pcr \/ pcr' = [pcr EXCEPT !.status = s])
    BY <2>1 DEF P!Logged, P!Accepted, P!Refused, P!Stored, P!WithStatus
  <2> QED BY <2>1, <2>2
<1> QED BY <1>1, <1>2, <1>3, <1>4, <1>5, <1>6, <1>7, <1>8, <1>9 DEF P!Reconcile

\* The same of the PolicyAttachment's; IAM attaches what the copy names.
LEMMA AttachmentReconcile ==
  ASSUME AttachmentInv, A!Reconcile
  PROVE  /\ UNCHANGED <<acache, aedits>>
         /\ acr' = A!Absent \/ Rewritten(acr', acr)
         /\ \/ apc' = "idle" /\ aobj' = A!Absent
            \/ aobj' = acache /\ acache.uid # 0
            \/ (apc # "idle" \/ apc' = "idle") /\ Rewritten(aobj', aobj)
         /\ attached' \subseteq attached \union (IF apc = "create" THEN {aobj.spec} ELSE {})
<1> USE Touches DEF AttachmentInv
<1>1. CASE A!NotFound \/ A!Skip
  BY <1>1 DEF A!NotFound, A!Skip, A!LoadAndReturn, A!Dequeue, A!awsVars
<1>2. CASE A!RefsError \/ A!Start
  BY <1>2 DEF A!RefsError, A!Start, A!Load, A!Exists, A!awsVars
<1>3. CASE A!AddFinalizer
  <2>1. UNCHANGED <<acache, aedits, attached>> /\ (acr' = acr \/ acr' = [acr EXCEPT !.fin = TRUE])
    BY <1>3 DEF A!AddFinalizer, A!Accepted, A!Refused, A!Stored, A!awsVars
  <2>2. \/ apc' = "idle" /\ aobj' = A!Absent
        \/ /\ apc # "idle"
           /\ \/ aobj' = [[aobj EXCEPT !.status = acr.status] EXCEPT !.fin = TRUE]
              \/ aobj' = [[aobj EXCEPT !.status = aobj.status] EXCEPT !.fin = TRUE]
    BY <1>3 DEF A!AddFinalizer, A!Goto, A!Answer, A!Retry
  <2>3. Rewritten(acr', acr)  BY <2>1
  <2>4. \/ apc' = "idle" /\ aobj' = A!Absent
        \/ apc # "idle" /\ Rewritten(aobj', aobj)
    BY <2>2 DEF Rewritten, Touched, Copy
  <2> QED BY <2>1, <2>2, <2>3, <2>4
<1>4. CASE A!Delete
  BY <1>4 DEF A!Delete, A!Goto, A!NoWrite
<1>5. CASE A!Create
  <2>1. /\ UNCHANGED <<acr, acache, aedits, aobj>> /\ apc = "create"
        /\ attached' \subseteq attached \union {aobj.spec}
    BY <1>5 DEF A!Create, A!Goto, A!NoWrite
  <2> QED BY <2>1
<1>6. CASE A!RemoveFinalizer
  BY <1>6 DEF A!RemoveFinalizer, A!Return, A!Retry, A!Accepted, A!Refused, A!Stored, A!awsVars
<1>7. CASE A!OkStatusUpdate \/ A!CreateFailed
  <2>1. PICK s : /\ aobj' = [aobj EXCEPT !.status = s]
                 /\ A!Logged(A!WithStatus([aobj EXCEPT !.status = s].status))
                 /\ apc # "idle" /\ attached' = attached
    BY <1>7 DEF A!OkStatusUpdate, A!CreateFailed, A!Goto, A!awsVars
  <2>2. UNCHANGED <<acache, aedits>>
        /\ (acr' = acr \/ acr' = [acr EXCEPT !.status = [aobj EXCEPT !.status = s].status])
    BY <2>1 DEF A!Logged, A!Accepted, A!Refused, A!Stored, A!WithStatus
  <2> QED BY <2>1, <2>2
<1>8. CASE A!Observe \/ A!Report
  <2>1. PICK s : /\ apc' = "idle" /\ aobj' = A!Absent /\ attached' = attached
                 /\ A!Logged(A!WithStatus(s))
    <3>1. CASE A!Observe  BY <1>8, <3>1 DEF A!Observe, A!Retry, A!Return, A!Logged, A!awsVars
    <3>2. CASE A!Report  BY <1>8, <3>2 DEF A!Report, A!ReportError, A!Retry, A!awsVars
    <3> QED BY <1>8, <3>1, <3>2
  <2>2. UNCHANGED <<acache, aedits>> /\ (acr' = acr \/ acr' = [acr EXCEPT !.status = s])
    BY <2>1 DEF A!Logged, A!Accepted, A!Refused, A!Stored, A!WithStatus
  <2> QED BY <2>1, <2>2
<1> QED BY <1>1, <1>2, <1>3, <1>4, <1>5, <1>6, <1>7, <1>8 DEF A!Reconcile

\* The invariant, side by side: a step of one controller leaves the other's CRs alone.
LEMMA PolicyInvInductive ==
  ASSUME SharedInv, [Next]_vars
  PROVE  PolicyInv'
<1> USE DEF SharedInv
<1>1. CASE UNCHANGED policyVars
  BY <1>1 DEF policyVars, PolicyInv, Copy
<1>2. CASE UserOfPolicy
  <2>1. P!UserCreate \/ P!UserEdit \/ P!UserDelete
    BY <1>2 DEF UserOfPolicy, P!User, P!UserStep
  <2>2. CASE P!UserCreate
    <3>1. PICK s \in Documents :
            pcr' = [P!Absent EXCEPT !.uid = pedits + 1, !.gen = 1, !.rev = pedits + 1, !.spec = s]
      BY <2>2 DEF P!UserCreate, P!WrittenByOthers
    <3>2. Copy(pcr')  BY <3>1, Nothing, NewCopy DEF PolicyInv
    <3> QED BY <3>2, <2>2 DEF PolicyInv, P!UserCreate, P!Edit
  <2>3. CASE P!UserEdit
    <3>1. PICK s \in Documents :
            pcr' = [pcr EXCEPT !.gen = pcr.gen + 1, !.rev = pedits + 1, !.spec = s]
      BY <2>3 DEF P!UserEdit, P!WrittenByOthers
    <3>2. Copy(pcr')  BY <3>1, UserWrites DEF PolicyInv
    <3> QED BY <3>2, <2>3 DEF PolicyInv, P!UserEdit, P!Edit
  <2>4. CASE P!UserDelete
    <3>1. pcr' = P!Absent \/ pcr' = [pcr EXCEPT !.deleting = TRUE, !.gen = pcr.gen + 1]
      BY <2>4 DEF P!UserDelete, P!WrittenByOthers
    <3>2. Copy([pcr EXCEPT !.deleting = TRUE, !.gen = pcr.gen + 1])
      <4>1. 0 \in Nat  OBVIOUS
      <4> QED BY <4>1, UserWrites DEF PolicyInv, Rewritten, Touched
    <3> QED BY <3>1, <3>2, <2>4, Nothing DEF PolicyInv, P!UserDelete
  <2> QED BY <2>1, <2>2, <2>3, <2>4
<1>3. CASE SyncPolicy
  BY <1>3 DEF SyncPolicy, P!SyncPolicy, P!Sync, PolicyInv
<1>4. CASE ReconcilePolicy
  BY <1>4, PolicyReconcile, Nothing DEF ReconcilePolicy, PolicyInv, Rewritten, Touched
<1> QED
  BY <1>1, <1>2, <1>3, <1>4 DEF Next, vars, UserOfAttachment, SyncAttachment, ReconcileAttachment

\* Users give the PolicyAttachment a new number with a new spec only.
LEMMA UserOfAttachmentWrites ==
  ASSUME AttachmentInv, A!UserCreate \/ A!UserEdit \/ A!UserDelete
  PROVE  \/ /\ aedits' = aedits + 1
            /\ Copy(acr') /\ acr'.rev = aedits + 1 /\ acr'.spec \in Bindings
         \/ aedits' = aedits /\ (acr' = A!Absent \/ Touched(acr', acr))
<1>1. Copy(acr) /\ aedits \in Nat
  BY DEF AttachmentInv
<1>2. CASE A!UserCreate
  <2>1. PICK s \in Bindings :
          acr' = [A!Absent EXCEPT !.uid = aedits + 1, !.gen = 1, !.rev = aedits + 1, !.spec = s]
    BY <1>2 DEF A!UserCreate, A!WrittenByOthers
  <2>2. Copy(acr') /\ acr'.rev = aedits + 1 /\ acr'.spec = s
    <3>1. Copy(acr')  BY <1>1, <2>1, Nothing, NewCopy
    <3>2. acr'.rev = aedits + 1  BY <1>1, <2>1, Nothing DEF Copy
    <3>3. acr'.spec = s  BY <1>1, <2>1, Nothing DEF Copy
    <3> QED BY <3>1, <3>2, <3>3
  <2> QED BY <1>2, <2>2 DEF A!UserCreate, A!Edit
<1>3. CASE A!UserEdit
  <2>1. PICK s \in Bindings :
          acr' = [acr EXCEPT !.gen = acr.gen + 1, !.rev = aedits + 1, !.spec = s]
    BY <1>3 DEF A!UserEdit, A!WrittenByOthers
  <2>2. Copy(acr') /\ acr'.rev = aedits + 1 /\ acr'.spec = s
    <3>1. Copy(acr')  BY <1>1, <2>1, UserWrites
    <3>2. acr'.rev = aedits + 1  BY <1>1, <2>1 DEF Copy
    <3>3. acr'.spec = s  BY <1>1, <2>1 DEF Copy
    <3> QED BY <3>1, <3>2, <3>3
  <2> QED BY <1>3, <2>2 DEF A!UserEdit, A!Edit
<1>4. CASE A!UserDelete
  <2>1. acr' = A!Absent \/ acr' = [acr EXCEPT !.deleting = TRUE, !.gen = acr.gen + 1]
    BY <1>4 DEF A!UserDelete, A!WrittenByOthers
  <2>2. Touched([acr EXCEPT !.deleting = TRUE, !.gen = acr.gen + 1], acr)
    BY <1>1, UserWrites
  <2> QED BY <1>4, <2>1, <2>2 DEF A!UserDelete
<1> QED BY <1>2, <1>3, <1>4

LEMMA AttachmentInvInductive ==
  ASSUME SharedInv, [Next]_vars
  PROVE  AttachmentInv'
<1> USE DEF SharedInv
<1>1. CASE UNCHANGED attachmentVars
  BY <1>1 DEF attachmentVars, AttachmentInv, Copy
<1>2. CASE UserOfAttachment
  <2>1. A!UserCreate \/ A!UserEdit \/ A!UserDelete
    BY <1>2 DEF UserOfAttachment, A!User, A!UserStep
  <2>2. UNCHANGED <<acache, aobj, apc, attached>>
    BY <1>2, <2>1 DEF UserOfAttachment, A!User, A!UserCreate, A!UserEdit, A!UserDelete
  <2>3. \A o \in {acache, aobj} :
          Copy(o) /\ o.rev <= aedits /\ (o.uid # 0 => o.spec \in Bindings)
    BY DEF AttachmentInv
  <2>4. aedits \in Nat /\ aedits' \in Nat /\ aedits' >= aedits
    BY <2>1, UserOfAttachmentWrites DEF AttachmentInv
  <2>5. Copy(acr') /\ acr'.rev <= aedits' /\ (acr'.uid # 0 => acr'.spec \in Bindings)
    BY <2>1, <2>4, UserOfAttachmentWrites, Nothing DEF AttachmentInv, Rewritten, Touched
  <2>6. \A o \in {acache, aobj} : o.rev <= aedits'
    BY <2>3, <2>4 DEF Copy
  <2>7. /\ acr'.uid # 0 => acr'.rev >= acache.rev
        /\ acr'.uid # 0 /\ acr'.rev = acache.rev => acache.uid # 0 /\ acache.spec = acr'.spec
    BY <2>1, <2>3, <2>4, UserOfAttachmentWrites, Nothing DEF AttachmentInv, Rewritten, Touched, Copy
  <2> QED BY <2>2, <2>3, <2>4, <2>5, <2>6, <2>7 DEF AttachmentInv
<1>3. CASE SyncAttachment
  <2>1. acache' = acr /\ UNCHANGED <<acr, aobj, apc, aedits, attached>>
    BY <1>3 DEF SyncAttachment, A!SyncAttachment, A!Sync, A!awsVars
  <2> QED BY <2>1 DEF AttachmentInv, Copy
<1>4. CASE ReconcileAttachment
  <2>1. A!Reconcile  BY <1>4 DEF ReconcileAttachment
  <2>2. \A p \in attached' : p.target \in Targets
    <3>1. apc = "create" => aobj.spec.target \in Targets
      BY OperatorAssumption DEF AttachmentInv
    <3> QED BY <2>1, <3>1, AttachmentReconcile DEF AttachmentInv
  <2>3. \A o \in {acr', acache', aobj'} :
          Copy(o) /\ o.rev <= aedits /\ (o.uid # 0 => o.spec \in Bindings)
    BY <2>1, AttachmentReconcile, Nothing DEF AttachmentInv, Rewritten, Touched
  <2>4. apc' # "idle" => aobj'.uid # 0
    BY <2>1, AttachmentReconcile DEF AttachmentInv, Rewritten, Touched
  <2>5. /\ acr'.uid # 0 => acr'.rev >= acache'.rev
        /\ acr'.uid # 0 /\ acr'.rev = acache'.rev => acache'.uid # 0 /\ acache'.spec = acr'.spec
    BY <2>1, AttachmentReconcile, Nothing DEF AttachmentInv, Rewritten, Touched
  <2> QED BY <2>1, <2>2, <2>3, <2>4, <2>5, AttachmentReconcile DEF AttachmentInv
<1> QED
  BY <1>1, <1>2, <1>3, <1>4 DEF Next, vars, UserOfPolicy, SyncPolicy, ReconcilePolicy

LEMMA RaceInvInductive ==
  ASSUME SharedInv, [Next]_vars
  PROVE  RaceInv'
<1> USE DEF SharedInv
<1>1. CASE UNCHANGED <<acr, aedits, looked, ppc>>
  BY <1>1 DEF RaceInv, RefersTo
<1>2. CASE ReconcilePolicy
  <2>1. /\ UNCHANGED attachmentVars /\ P!Reconcile
        /\ looked' = IF ppc = "cleanup" /\ ppc' = "delete" THEN acache.rev ELSE 0
    BY <1>2 DEF ReconcilePolicy
  <2>2. acache.rev \in Nat /\ acache.rev <= aedits /\ acr.rev \in Nat
    BY DEF AttachmentInv, Copy
  <2>3. ppc' = "delete" => ppc = "cleanup" /\ ~RefersTo(acache)
    BY <2>1, PolicyReconcile DEF Refs
  <2>4. RefersTo(acr) /\ ~RefersTo(acache) => acr.rev > acache.rev
    BY <2>2 DEF RefersTo, AttachmentInv
  <2>5. acr' = acr /\ aedits' = aedits /\ aedits \in Nat
    BY <2>1 DEF attachmentVars, AttachmentInv
  <2> QED BY <2>1, <2>2, <2>3, <2>4, <2>5 DEF RaceInv, RefersTo
<1>3. CASE UserOfAttachment
  <2>1. looked' = looked /\ ppc' = ppc  BY <1>3 DEF UserOfAttachment, policyVars
  <2>2. A!UserCreate \/ A!UserEdit \/ A!UserDelete
    BY <1>3 DEF UserOfAttachment, A!User, A!UserStep
  <2>3. aedits \in Nat  BY DEF AttachmentInv
  <2> QED
    BY <2>1, <2>2, <2>3, UserOfAttachmentWrites, Nothing DEF RaceInv, RefersTo, Touched
<1>4. CASE ReconcileAttachment
  <2>1. aedits' = aedits /\ (acr' = A!Absent \/ Touched(acr', acr))
    BY <1>4, AttachmentReconcile DEF ReconcileAttachment, Rewritten
  <2>2. looked' = looked /\ ppc' = ppc  BY <1>4 DEF ReconcileAttachment, policyVars
  <2> QED BY <2>1, <2>2, Nothing DEF RaceInv, RefersTo, Touched
<1>5. CASE UserOfPolicy \/ SyncPolicy \/ SyncAttachment
  BY <1>1, <1>5 DEF UserOfPolicy, SyncPolicy, SyncAttachment, attachmentVars, policyVars,
       P!User, P!UserStep, P!UserCreate, P!UserEdit, P!UserDelete, P!SyncPolicy, P!Sync,
       A!SyncAttachment, A!Sync
<1>6. CASE UNCHANGED vars
  BY <1>1, <1>6 DEF vars, policyVars, attachmentVars
<1> QED BY <1>2, <1>3, <1>4, <1>5, <1>6 DEF Next

LEMMA SharedInvariant == Spec => []SharedInv
<1>1. Init => SharedInv
  BY Nothing DEF Init, P!BaseInit, A!BaseInit, SharedInv, PolicyInv, AttachmentInv, RaceInv, RefersTo
<1>2. SharedInv /\ [Next]_vars => SharedInv'
  BY PolicyInvInductive, AttachmentInvInductive, RaceInvInductive DEF SharedInv
<1> QED BY <1>1, <1>2, PTL DEF Spec

-----------------------------------------------------------------------------
(* Seen from the PolicyAttachment. *)

\* IAM deletes a policy that has no attachment, when told to.
LEMMA PolicyGone ==
  ASSUME SharedInv, P!Reconcile, iam # 0, iam' = 0
  PROVE  ppc = "delete" /\ ~Bound
<1>1. ppc = "update" => pobj.rev # 0
  BY DEF SharedInv, PolicyInv, Copy
<1>2. CASE P!DeletePolicy
  BY <1>2 DEF P!DeletePolicy, P!Delete, P!DeleteAccepted, P!Fault
<1>3. CASE P!CreatePolicy
  BY <1>3 DEF P!CreatePolicy, P!CreateAWSObject, P!Fault
<1>4. CASE P!UpdatePolicy
  BY <1>1, <1>4 DEF P!UpdatePolicy, P!UpdateAWSObject, P!Fault
<1> QED
  BY <1>2, <1>3, <1>4 DEF P!Reconcile, P!NotFound, P!Skip, P!Start,
     P!IamServiceError, P!AddFinalizer, P!CleanupPolicy, P!Cleanup, P!RemoveFinalizer,
     P!OkStatusUpdate, P!NameTaken, P!Updated, P!Observe, P!Report, P!Kept

\* The policy appears in AWS, goes while nothing refers to it, or goes under the
\* PolicyAttachment that the cleanup missed.
LEMMA ReconcilePolicySeen ==
  ASSUME SharedInv, ReconcilePolicy
  PROVE  A!Next \/ DeletedUnderReference \/ UNCHANGED A!vars
<1>1. UNCHANGED attachmentVars /\ P!Reconcile  BY DEF ReconcilePolicy
<1>2. UNCHANGED Listed /\ UNCHANGED <<A!base, attached, former>>
  BY <1>1, PolicyReconcile DEF Listed, attachmentVars, A!base, SharedInv
<1>3. CASE (iam' = 0) = (iam = 0)
  BY <1>2, <1>3 DEF A!vars, A!awsVars, Alive
<1>4. CASE iam = 0 /\ iam' # 0
  <2>1. policy \notin Alive /\ Alive' = Alive \union {policy}
    BY <1>4, OperatorAssumption DEF Alive
  <2>2. A!ObjectAppears  BY <2>1, <1>2 DEF A!ObjectAppears
  <2> QED BY <2>2 DEF A!Next, A!References
<1>5. CASE iam # 0 /\ iam' = 0
  <2>1. ppc = "delete" /\ ~Bound  BY <1>1, <1>5, PolicyGone
  <2>2. CASE RefersTo(acr)
    <3>1. acr.rev > looked  BY <2>1, <2>2 DEF SharedInv, RaceInv
    <3> QED BY <3>1, <2>1, <2>2, <1>1, <1>2, <1>5 DEF DeletedUnderReference
  <2>3. CASE ~RefersTo(acr)
    <3>1. policy \in Alive /\ Alive' = Alive \ {policy}
      BY <1>5, OperatorAssumption DEF Alive
    <3>2. \A p \in attached : ~A!Names(p, policy)
      BY <2>1, OperatorAssumption DEF A!Names, Bound, SharedInv, AttachmentInv
    <3>3. ~(A!Exists(acr) /\ A!Names(acr.spec, policy))
      <4>1. acr.uid # 0 => acr.spec \in Bindings  BY DEF SharedInv, AttachmentInv
      <4> QED BY <4>1, <2>3, OperatorAssumption DEF A!Exists, A!Names, RefersTo
    <3>4. A!ObjectDisappears
      BY <3>1, <3>2, <3>3, <1>2 DEF A!ObjectDisappears, A!base
    <3> QED BY <3>4 DEF A!Next, A!References
  <2> QED BY <2>2, <2>3
<1> QED BY <1>3, <1>4, <1>5

LEMMA SyncPolicySeen ==
  ASSUME SyncPolicy
  PROVE  A!Next \/ UNCHANGED A!vars
<1>1. UNCHANGED <<A!base, Alive, attached, former>>
  BY DEF SyncPolicy, attachmentVars, A!base, Alive, P!SyncPolicy, P!Kept
<1>2. CASE Listed' = Listed
  BY <1>1, <1>2 DEF A!vars, A!awsVars
<1>3. CASE Listed' # Listed
  <2>1. Listed' \in {Listed \union {policy}, Listed \ {policy}}
    BY <1>3, OperatorAssumption DEF Listed
  <2>2. A!ListingChanges  BY <1>1, <1>3, <2>1 DEF A!ListingChanges
  <2> QED BY <2>2 DEF A!Next, A!References
<1> QED BY <1>2, <1>3

\* The Policy controller, its users and its informer do nothing that
\* AttachmentController does not know, but for the deletion that slips past
\* policyCleanup (policy_controller.go:168).
THEOREM OneRaceOnly == Spec => AttachmentSteps
<1>1. SharedInv /\ [Next]_vars => [A!Next \/ DeletedUnderReference]_(A!vars)
  <2> SUFFICES ASSUME SharedInv, [Next]_vars
               PROVE  A!Next \/ DeletedUnderReference \/ UNCHANGED A!vars
    OBVIOUS
  <2>1. CASE UserOfPolicy
    BY <2>1 DEF UserOfPolicy, attachmentVars, A!vars, A!base, A!awsVars, Listed, Alive,
         P!User, P!UserStep, P!UserCreate, P!UserEdit, P!UserDelete, P!Kept
  <2>2. CASE UserOfAttachment \/ SyncAttachment \/ ReconcileAttachment
    BY <2>2 DEF UserOfAttachment, SyncAttachment, ReconcileAttachment, A!Next
  <2>3. CASE UNCHANGED vars
    BY <2>3 DEF vars, policyVars, attachmentVars, A!vars, A!base, A!awsVars, Listed, Alive
  <2> QED BY <2>1, <2>2, <2>3, ReconcilePolicySeen, SyncPolicySeen DEF Next
<1> QED BY <1>1, SharedInvariant, PTL DEF Spec, AttachmentSteps

-----------------------------------------------------------------------------
(* What PolicyController_proofs shows of a Policy, in the composed system. *)

\* The theorems about PolicyController, for the Policy of this module.
PP == INSTANCE PolicyController_proofs WITH
        cr <- pcr, cache <- pcache, cacheFresh <- pcacheFresh, obj <- pobj,
        fresh <- pfresh, pc <- ppc, queued <- pqueued, edits <- pedits,
        refs <- Refs, bound <- Bound, faults <- 0,
        Specs <- Documents, NoObject <- 0, Attachable <- TRUE,
        MaxEdits <- PolicyEdits, MaxFaults <- 0

\* Both instances are of the same definitions with the same parameters.
LEMMA SamePolicy ==
  P!Init = PP!Init /\ (P!Next <=> PP!Next) /\ P!vars = PP!vars /\ P!vars' = PP!vars'
BY DEF P!Init, PP!Init, P!BaseInit, PP!BaseInit, P!Absent, PP!Absent, P!IamInit, PP!IamInit,
       P!Next, PP!Next, P!User, PP!User, P!UserStep, PP!UserStep, P!UserCreate, PP!UserCreate,
       P!Exists, PP!Exists, P!Edit, PP!Edit, P!WrittenByOthers, PP!WrittenByOthers, P!UserEdit,
       PP!UserEdit, P!UserDelete, PP!UserDelete, P!Kept, PP!Kept, P!attVars, PP!attVars,
       P!SyncPolicy, PP!SyncPolicy, P!Sync, PP!Sync, P!RestartOperator, PP!RestartOperator,
       P!Restart, PP!Restart, P!Fault, PP!Fault, P!Attachments, PP!Attachments, P!base, PP!base,
       P!Reconcile, PP!Reconcile, P!NotFound, PP!NotFound, P!Dequeue, PP!Dequeue, P!LoadAndReturn,
       PP!LoadAndReturn, P!Skip, PP!Skip, P!NothingToDo, PP!NothingToDo, P!OnlyStatusUpdated,
       PP!OnlyStatusUpdated, P!Start, PP!Start, P!Load, PP!Load, P!FirstStep, PP!FirstStep,
       P!IamServiceError, PP!IamServiceError, P!Retry, PP!Retry, P!NoWrite, PP!NoWrite,
       P!AddFinalizer, PP!AddFinalizer, P!Answer, PP!Answer, P!Goto, PP!Goto, P!Accepted,
       PP!Accepted, P!Stored, PP!Stored, P!Refused, PP!Refused, P!CleanupPolicy, PP!CleanupPolicy,
       P!Cleanup, PP!Cleanup, P!DeletePolicy, PP!DeletePolicy, P!Delete, PP!Delete, P!AfterDelete,
       PP!AfterDelete, P!DeleteAccepted, PP!DeleteAccepted, P!DeleteRefused, PP!DeleteRefused,
       P!RemoveFinalizer, PP!RemoveFinalizer, P!Return, PP!Return, P!CreatePolicy,
       PP!CreatePolicy, P!CreateAWSObject, PP!CreateAWSObject, P!OkStatusUpdate,
       PP!OkStatusUpdate, P!OkStatus, PP!OkStatus, P!Logged, PP!Logged, P!WithStatus,
       PP!WithStatus, P!NameTaken, PP!NameTaken, P!ErrorStatus, PP!ErrorStatus, P!UpdatePolicy,
       PP!UpdatePolicy, P!UpdateAWSObject, PP!UpdateAWSObject, P!Updated, PP!Updated, P!Observe,
       PP!Observe, P!Report, PP!Report, P!ReportError, PP!ReportError, P!vars, PP!vars

LEMMA SameSpec == P!Spec => PP!Spec
<1>1. P!Init => PP!Init
  BY SamePolicy
<1>2. [P!Next]_(P!vars) => [PP!Next]_(PP!vars)
  BY SamePolicy
<1> QED
  BY <1>1, <1>2, PTL DEF P!Spec, PP!Spec

LEMMA PolicyConstants ==
  /\ PolicyEdits \in Nat /\ 0 \in Nat
  /\ MissingDelete \subseteq {"ok", "error"} /\ MissingDelete # {} /\ TRUE \in BOOLEAN
  /\ NoStatus = [state |-> "", arn |-> FALSE, og |-> 0] /\ 0 = 0
  /\ NoSpec \notin Documents
BY OperatorAssumption

\* A settled Policy has its current document in IAM (policy_controller.go:84-86, 143),
\* also beside the controller that attaches and detaches it.
THEOREM PolicyStaysApplied == Spec => []P!SettledMeansApplied
<1>1. PP!Spec => []PP!SettledMeansApplied
  BY PP!SettledIsApplied, PolicyConstants
<1>2. PP!SettledMeansApplied => P!SettledMeansApplied
  BY DEF PP!SettledMeansApplied, P!SettledMeansApplied, PP!OnlyStatusUpdated, P!OnlyStatusUpdated,
         PP!Exists, P!Exists
<1> QED
  BY <1>1, <1>2, SameSpec, PolicyCarriesOver, PTL DEF PolicySpec

\* So does that no step puts an older document back (policy_controller.go:124).
THEOREM PolicyNoRollback == Spec => P!NeverRolledBack
<1>1. PP!Spec => PP!NeverRolledBack
  BY PP!NoRollback, PolicyConstants
<1>2. PP!NeverRolledBack => P!NeverRolledBack
  BY DEF PP!NeverRolledBack, P!NeverRolledBack
<1> QED
  BY <1>1, <1>2, SameSpec, PolicyCarriesOver, PTL DEF PolicySpec

\* The Policy and its IAM policy go through the phases of CloudResource, beside the
\* PolicyAttachments that keep policyCleanup and IAM from deleting it.
THEOREM PolicyLifecycle == Spec => P!LifecycleSpec
<1>1. PP!Spec => PP!LifecycleSpec
  BY PP!RefinesCloudResource, PolicyConstants
<1>2. P!Phase = PP!Phase /\ P!Phase' = PP!Phase'
  BY DEF P!Phase, PP!Phase, P!Exists, PP!Exists
<1>3. PP!Lifecycle!Init => P!Lifecycle!Init
  BY <1>2 DEF PP!Lifecycle!Init, P!Lifecycle!Init
<1>4. [PP!Lifecycle!Next]_(PP!Lifecycle!vars) => [P!Lifecycle!Next]_(P!Lifecycle!vars)
  BY <1>2 DEF PP!Lifecycle!Next, PP!Lifecycle!Apply, PP!Lifecycle!Abandon, PP!Lifecycle!Hold,
       PP!Lifecycle!Withdraw, PP!Lifecycle!InHand, PP!Lifecycle!Provision, PP!Lifecycle!Record,
       PP!Lifecycle!Deprovision, PP!Lifecycle!Release, PP!Lifecycle!vars,
       P!Lifecycle!Next, P!Lifecycle!Apply, P!Lifecycle!Abandon, P!Lifecycle!Hold,
       P!Lifecycle!Withdraw, P!Lifecycle!InHand, P!Lifecycle!Provision, P!Lifecycle!Record,
       P!Lifecycle!Deprovision, P!Lifecycle!Release, P!Lifecycle!vars
<1>5. PP!LifecycleSpec => P!LifecycleSpec
  BY <1>3, <1>4, PTL DEF PP!LifecycleSpec, P!LifecycleSpec, PP!Lifecycle!Spec, P!Lifecycle!Spec
<1> QED
  BY <1>1, <1>5, SameSpec, PolicyCarriesOver, PTL DEF PolicySpec

-----------------------------------------------------------------------------
(* What AttachmentController_proofs shows of a PolicyAttachment, although IAM   *)
(* may delete the policy in the one race.                                   *)

\* Only the first Policy of the name was ever there, and it has not been deleted.
FirstPolicy == pedits = 0 \/ (pcr.uid = 1 /\ ~pcr.deleting)

\* Once the Policy was deleted the race may have happened: AttachmentController
\* counts it as a fault.
Raced == IF FirstPolicy THEN 0 ELSE 1

\* The theorems about AttachmentController, for the PolicyAttachment of this module.
AR == INSTANCE AttachmentController_proofs WITH
        cr <- acr, cache <- acache, cacheFresh <- acacheFresh, obj <- aobj,
        fresh <- afresh, pc <- apc, queued <- aqueued, edits <- aedits,
        listed <- Listed, alive <- Alive, faults <- Raced,
        Specs <- Bindings, Policies <- {policy}, Volatile <- {policy},
        MaxEdits <- AttachmentEdits, MaxFaults <- 1

PairInv == AR!TypeOK /\ AR!SpecInv /\ AR!AttachmentInv

LEMMA AttachmentConstants ==
  /\ AttachmentEdits \in Nat /\ 1 \in Nat
  /\ Bindings \subseteq [target : Targets, policy : {policy} \union Externals \union {NoPolicy}]
  /\ NoPolicy \notin Targets \union {policy} \union Externals
  /\ NoSpec \notin Bindings /\ {policy} \subseteq Targets \union {policy}
  /\ MissingDelete \subseteq {"ok", "error"} /\ MissingDelete # {}
  /\ NoStatus = [state |-> "", arn |-> FALSE, og |-> 0]
BY OperatorAssumption

\* A write without a fault is one that a fault could have met.
LEMMA SameWrite ==
  ASSUME Raced' = Raced, NEW new
  PROVE  /\ A!Accepted(new) => AR!Accepted(new)
         /\ A!Refused(new) => AR!Refused(new)
         /\ A!Logged(new) => AR!Logged(new)
<1>1. A!Fault = FALSE
  BY DEF A!Fault
<1>2. A!Stored(new) => AR!Stored(new)
  BY DEF A!Stored, AR!Stored
<1>3. A!Accepted(new) => AR!Accepted(new)
  BY <1>2 DEF A!Accepted, AR!Accepted
<1>4. A!Refused(new) => AR!Refused(new)
  BY <1>1 DEF A!Refused, AR!Refused
<1> QED
  BY <1>3, <1>4 DEF A!Logged, AR!Logged

\* The steps of its users, its informer and its worker, without a fault.
LEMMA SameAttachment ==
  ASSUME Raced' = Raced, A!User \/ A!SyncAttachment \/ A!Reconcile
  PROVE  AR!User \/ AR!SyncAttachment \/ AR!Reconcile
<1>1. A!User => AR!User
  BY DEF A!User, AR!User, A!UserStep, AR!UserStep, A!UserCreate, AR!UserCreate, A!Exists,
         AR!Exists, A!Edit, AR!Edit, A!WrittenByOthers, AR!WrittenByOthers, A!Absent, AR!Absent,
         A!UserEdit, AR!UserEdit, A!UserDelete, AR!UserDelete
<1>2. A!SyncAttachment => AR!SyncAttachment
  BY DEF A!SyncAttachment, AR!SyncAttachment, A!Sync, AR!Sync, A!awsVars, AR!awsVars
<1>3. A!NotFound => AR!NotFound
  BY DEF A!NotFound, AR!NotFound, A!Dequeue, AR!Dequeue, A!Exists, AR!Exists, A!LoadAndReturn,
         AR!LoadAndReturn, A!awsVars, AR!awsVars
<1>4. A!Skip => AR!Skip
  BY DEF A!Skip, AR!Skip, A!Dequeue, AR!Dequeue, A!Exists, AR!Exists, A!OnlyStatusUpdated,
         AR!OnlyStatusUpdated, A!RefsFound, AR!RefsFound, A!LoadAndReturn, AR!LoadAndReturn,
         A!awsVars, AR!awsVars
<1>5. A!RefsError => AR!RefsError
  BY DEF A!RefsError, AR!RefsError, A!Dequeue, AR!Dequeue, A!Exists, AR!Exists,
         A!OnlyStatusUpdated, AR!OnlyStatusUpdated, A!RefsFound, AR!RefsFound, A!Load, AR!Load,
         A!awsVars, AR!awsVars
<1>6. A!Start => AR!Start
  BY DEF A!Start, AR!Start, A!Dequeue, AR!Dequeue, A!Exists, AR!Exists, A!OnlyStatusUpdated,
         AR!OnlyStatusUpdated, A!RefsFound, AR!RefsFound, A!Load, AR!Load, A!FirstStep,
         AR!FirstStep, A!AfterFinalizer, AR!AfterFinalizer, A!Fault, AR!Fault, A!awsVars,
         AR!awsVars
<1>7. A!AddFinalizer => AR!AddFinalizer
  BY SameWrite DEF A!AddFinalizer, AR!AddFinalizer, A!Answer, AR!Answer, A!Goto, AR!Goto,
         A!AfterFinalizer, AR!AfterFinalizer, A!Retry, AR!Retry, A!Absent, AR!Absent, A!awsVars, AR!awsVars
<1>8. A!Delete => AR!Delete
  BY DEF A!Delete, AR!Delete, A!Goto, AR!Goto, A!AfterDelete, AR!AfterDelete, A!Fault, AR!Fault,
         A!NoWrite, AR!NoWrite
<1>9. A!RemoveFinalizer => AR!RemoveFinalizer
  BY SameWrite DEF A!RemoveFinalizer, AR!RemoveFinalizer, A!Return, AR!Return, A!Absent, AR!Absent,
         A!Retry, AR!Retry, A!awsVars, AR!awsVars
<1>10. A!Create => AR!Create
  BY DEF A!Create, AR!Create, A!Attachable, AR!Attachable, A!Goto, AR!Goto, A!Fault, AR!Fault,
         A!NoWrite, AR!NoWrite
<1>11. A!CreateFailed => AR!CreateFailed
  BY SameWrite DEF A!CreateFailed, AR!CreateFailed, A!ErrorStatus, AR!ErrorStatus, A!Goto, AR!Goto,
         A!WithStatus, AR!WithStatus, A!awsVars, AR!awsVars
<1>12. A!OkStatusUpdate => AR!OkStatusUpdate
  BY SameWrite DEF A!OkStatusUpdate, AR!OkStatusUpdate, A!OkStatus, AR!OkStatus, A!Goto, AR!Goto,
         A!WithStatus, AR!WithStatus, A!awsVars, AR!awsVars
<1>13. A!Observe => AR!Observe
  BY SameWrite DEF A!Observe, AR!Observe, A!Return, AR!Return, A!Absent, AR!Absent, A!WithStatus,
         AR!WithStatus, A!Retry, AR!Retry, A!awsVars, AR!awsVars
<1>14. A!Report => AR!Report
  BY SameWrite DEF A!Report, AR!Report, A!ReportError, AR!ReportError, A!Retry, AR!Retry, A!Absent,
         AR!Absent, A!WithStatus, AR!WithStatus, A!ErrorStatus, AR!ErrorStatus, A!awsVars,
         AR!awsVars
<1> QED
  BY <1>1, <1>2, <1>3, <1>4, <1>5, <1>6, <1>7, <1>8, <1>9, <1>10, <1>11, <1>12, <1>13, <1>14
     DEF A!Reconcile, AR!Reconcile

\* What the Policy controller, its informer and its users do leaves the invariant
\* alone: a policy goes when nothing is attached to it, and not the first one.
LEMMA Unseen ==
  ASSUME PairInv, UNCHANGED attachmentVars, Raced' = 0 => Raced = 0,
         Alive \subseteq Alive' \/ (Raced' = 1 /\ ~Bound)
  PROVE  PairInv'
<1>1. /\ UNCHANGED <<acr, acache, acacheFresh, aobj, afresh, apc, aqueued, aedits, attached, former>>
      /\ Raced' \in 0 .. 1
  BY DEF attachmentVars, Raced
<1>2. AR!TypeOK'
  <2>1. AR!BaseTypeOK(AR!AttachmentStatuses, AR!AttachmentSteps)'
    BY <1>1 DEF PairInv, AR!TypeOK, AR!BaseTypeOK
  <2>2. Listed' \subseteq Targets \union {policy} /\ Alive' \subseteq Targets \union {policy}
    BY DEF Listed, Alive
  <2> QED
    BY <1>1, <2>1, <2>2 DEF PairInv, AR!TypeOK
<1>3. AR!SpecInv'
  BY <1>1 DEF PairInv, AR!SpecInv, AR!SpecOf, AR!Exists
<1>4. AR!AttachmentInv'
  <2>1. (AR!StoredInv /\ AR!CacheInv /\ AR!FreshInv /\ AR!StepInv)'
    BY <1>1 DEF PairInv, AR!AttachmentInv, AR!StoredInv, AR!CacheInv, AR!FreshInv, AR!StepInv,
         AR!Exists, AR!Absent, AR!Holding
  <2>2. (\A o \in {acr, acache, aobj} : AR!CopyInv(o) /\ AR!ObservedInv(o))'
    BY <1>1 DEF PairInv, AR!AttachmentInv, AR!CopyInv, AR!ObservedInv, AR!Exists
  <2>3. AR!SettledInv'
    BY <1>1 DEF PairInv, AR!AttachmentInv, AR!SettledInv, AR!Settled, AR!OnlyStatusUpdated,
         AR!Exists
  <2>4. \A p \in attached : {p.target, p.policy} \subseteq Alive' \union Externals
    <3> SUFFICES ASSUME NEW p \in attached
                 PROVE  {p.target, p.policy} \subseteq Alive' \union Externals
      OBVIOUS
    <3>1. {p.target, p.policy} \subseteq Alive \union Externals
      BY DEF PairInv, AR!AttachmentInv
    <3>2. p.target \in Targets /\ p.policy \in {policy} \union Externals
      BY DEF PairInv, AR!TypeOK, AR!Pairs
    <3>3. CASE Alive \subseteq Alive'
      BY <3>1, <3>3
    <3>4. CASE ~Bound
      BY <3>2, <3>4 DEF Bound, Alive
    <3> QED
      BY <3>3, <3>4
  <2> QED
    BY <1>1, <2>1, <2>2, <2>3, <2>4 DEF AR!AttachmentInv
<1> QED
  BY <1>2, <1>3, <1>4 DEF PairInv

LEMMA AttachmentSide ==
  ASSUME PairInv, UserOfAttachment \/ SyncAttachment \/ ReconcileAttachment
  PROVE  PairInv'
<1>1. Raced' = Raced
  BY DEF UserOfAttachment, SyncAttachment, ReconcileAttachment, policyVars, Raced, FirstPolicy
<1>2. AR!Next
  BY <1>1, SameAttachment DEF UserOfAttachment, SyncAttachment, ReconcileAttachment, AR!Next
<1>3. AR!TypeOK /\ AR!SpecInv /\ AR!AttachmentInv /\ AR!StepInv
  BY DEF PairInv, AR!AttachmentInv
<1>4. AR!TypeOK'
  BY <1>2, <1>3, AR!StepType, AttachmentConstants
<1>5. AR!SpecInv'
  BY <1>2, <1>3, AR!StepSpec, AttachmentConstants
<1>6. AR!AttachmentInv'
  BY <1>2, <1>3, AR!StepInvariant, AttachmentConstants
<1> QED
  BY <1>4, <1>5, <1>6 DEF PairInv

\* No copy of the first Policy says it is being deleted before it is.
FirstInv ==
  FirstPolicy =>
    /\ \A o \in {pcr, pcache, pobj} :
         (o.uid = 0 \/ (o.uid = 1 /\ pedits # 0)) /\ ~o.deleting
    /\ ppc \notin Leaving

\* Once deleted, the Policy of that name is never again the first one.
LEMMA StepFirst ==
  ASSUME SharedInv, FirstInv, [Next]_vars
  PROVE  FirstInv' /\ (FirstPolicy' => FirstPolicy)
<1> USE DEF SharedInv, PolicyInv
<1>1. CASE UNCHANGED policyVars
  BY <1>1 DEF policyVars, FirstInv, FirstPolicy
<1>2. CASE UserOfPolicy
  <2>1. /\ UNCHANGED <<pcache, pobj, ppc>>
        /\ P!UserCreate \/ P!UserEdit \/ P!UserDelete
    BY <1>2 DEF UserOfPolicy, P!User, P!UserStep, P!UserCreate, P!UserEdit, P!UserDelete
  <2>2. CASE P!UserCreate
    <3>1. PICK s \in Documents :
            pcr' = [P!Absent EXCEPT !.uid = pedits + 1, !.gen = 1, !.rev = pedits + 1, !.spec = s]
      BY <2>2 DEF P!UserCreate, P!WrittenByOthers
    <3>2. pcr'.uid = pedits + 1 /\ ~pcr'.deleting /\ pedits' = pedits + 1
      BY <2>2, <3>1 DEF P!Absent, P!UserCreate, P!Edit
    <3> QED BY <2>1, <3>2 DEF FirstInv, FirstPolicy
  <2>3. CASE P!UserEdit
    <3>1. PICK s \in Documents :
            pcr' = [pcr EXCEPT !.gen = pcr.gen + 1, !.rev = pedits + 1, !.spec = s]
      BY <2>3 DEF P!UserEdit, P!WrittenByOthers
    <3>2. /\ pcr'.uid = pcr.uid /\ pcr'.deleting = pcr.deleting /\ pedits' = pedits + 1
          /\ pcr.uid # 0
      BY <2>3, <3>1 DEF P!UserEdit, P!Edit, P!Exists, Copy
    <3> QED BY <2>1, <3>2 DEF FirstInv, FirstPolicy
  <2>4. CASE P!UserDelete
    <3>1. pcr'.uid = 0 \/ pcr'.deleting
      BY <2>4, Nothing DEF P!UserDelete, P!WrittenByOthers, Copy
    <3>2. pedits' = pedits /\ pcr.uid # 0
      BY <2>4 DEF P!UserDelete, P!Exists
    <3> QED BY <3>1, <3>2 DEF FirstInv, FirstPolicy
  <2> QED BY <2>1, <2>2, <2>3, <2>4
<1>3. CASE SyncPolicy
  <2>1. pcache' = pcr /\ UNCHANGED <<pcr, pobj, ppc, pedits>>
    BY <1>3 DEF SyncPolicy, P!SyncPolicy, P!Sync
  <2> QED BY <2>1 DEF FirstInv, FirstPolicy
<1>4. CASE ReconcilePolicy
  <2>1. P!Reconcile
    BY <1>4 DEF ReconcilePolicy
  <2>2. P!Absent.uid = 0 /\ ~P!Absent.deleting
    BY DEF P!Absent
  <2>3. FirstPolicy' => FirstPolicy
    BY <2>1, <2>2, PolicyReconcile DEF FirstPolicy, Rewritten, Touched
  <2>4. ASSUME FirstPolicy, NEW o \in {pcr', pcache', pobj'}
        PROVE  (o.uid = 0 \/ (o.uid = 1 /\ pedits # 0)) /\ ~o.deleting
    BY <2>1, <2>2, <2>4, PolicyReconcile DEF FirstInv, Rewritten, Touched
  <2>5. FirstPolicy => ppc' \notin Leaving
    BY <2>1, <2>4, PolicyReconcile DEF FirstInv
  <2>6. pedits' = pedits
    BY <2>1, PolicyReconcile
  <2> QED BY <2>3, <2>4, <2>5, <2>6 DEF FirstInv
<1> QED
  BY <1>1, <1>2, <1>3, <1>4 DEF Next, vars, UserOfAttachment, SyncAttachment, ReconcileAttachment

LEMMA PolicySide ==
  ASSUME SharedInv, FirstInv, PairInv,
         UserOfPolicy \/ SyncPolicy \/ ReconcilePolicy
  PROVE  PairInv'
<1>1. [Next]_vars
  BY DEF Next
<1>2. Raced' = 0 => Raced = 0
  BY <1>1, StepFirst DEF Raced
<1>3. UNCHANGED attachmentVars
  BY DEF UserOfPolicy, SyncPolicy, ReconcilePolicy
<1>4. CASE iam' # 0 \/ iam = 0
  BY <1>2, <1>3, <1>4, Unseen DEF Alive
<1>5. CASE iam # 0 /\ iam' = 0
  <2>1. P!Reconcile
    BY <1>5 DEF UserOfPolicy, SyncPolicy, ReconcilePolicy, P!User, P!SyncPolicy, P!Kept
  <2>2. ppc = "delete" /\ ~Bound
    BY <1>5, <2>1, PolicyGone
  <2>3. ~FirstPolicy
    BY <2>2 DEF FirstInv, Leaving
  <2>4. Raced' = 1
    BY <1>2, <2>3 DEF Raced
  <2> QED
    BY <1>2, <1>3, <2>2, <2>4, Unseen
<1> QED
  BY <1>4, <1>5

\* The invariant at the start, where there is no policy yet.
LEMMA InitPair == Init => FirstInv /\ PairInv
<1> SUFFICES ASSUME Init PROVE FirstInv /\ PairInv
  OBVIOUS
<1>1. /\ acr = AR!Absent /\ acache = AR!Absent /\ aobj = AR!Absent /\ afresh = FALSE
      /\ acacheFresh = TRUE /\ aqueued = FALSE
      /\ apc = "idle" /\ aedits = 0 /\ attached = {} /\ former = {}
      /\ pcr = P!Absent /\ pcache = P!Absent /\ pobj = P!Absent /\ ppc = "idle"
      /\ pedits = 0 /\ iam = 0
  BY DEF Init, A!BaseInit, P!BaseInit, A!Absent, AR!Absent
<1>2. FirstInv
  BY <1>1 DEF FirstInv, Leaving, P!Absent
<1>3. /\ AR!Absent.uid = 0 /\ AR!Absent.gen = 0 /\ AR!Absent.fin = FALSE
      /\ AR!Absent.deleting = FALSE /\ AR!Absent.status = NoStatus
      /\ NoStatus.state = "" /\ NoStatus.og = 0 /\ NoStatus \in AR!AttachmentStatuses
  <2>1. NoStatus = [state |-> "", arn |-> FALSE, og |-> 0]
    BY OperatorAssumption
  <2> QED
    BY <2>1 DEF AR!Absent, AR!AttachmentStatuses
<1>4. AR!TypeOK
  <2>1. AR!Absent \in AR!Resources(AR!AttachmentStatuses)
    BY <1>3 DEF AR!Absent, AR!Resources
  <2>2. Raced \in 0 .. 1 /\ aedits \in 0 .. AttachmentEdits
    <3>1. aedits = 0 /\ AttachmentEdits \in Nat
      BY <1>1, OperatorAssumption
    <3> QED
      BY <3>1 DEF Raced
  <2>3. /\ acacheFresh \in BOOLEAN /\ afresh \in BOOLEAN /\ aqueued \in BOOLEAN
        /\ apc \in {"idle"} \union AR!AttachmentSteps
    BY <1>1
  <2>4. {acr, acache, aobj} \subseteq AR!Resources(AR!AttachmentStatuses)
    BY <1>1, <2>1
  <2>5. AR!BaseTypeOK(AR!AttachmentStatuses, AR!AttachmentSteps)
    BY <2>2, <2>3, <2>4 DEF AR!BaseTypeOK
  <2> QED
    BY <1>1, <2>5 DEF AR!TypeOK, Listed, Alive, P!Absent
<1>5. AR!SpecInv
  BY <1>1, <1>3 DEF AR!SpecInv, AR!SpecOf, AR!Exists
<1>6. AR!AttachmentInv
  <2>1. ~AR!Exists(acr) /\ ~AR!Exists(acache) /\ ~AR!Exists(aobj)
    BY <1>1, <1>3 DEF AR!Exists
  <2>2. acr.uid = 0 /\ acr.deleting = FALSE /\ acr.fin = FALSE /\ acr.status.state = ""
    BY <1>1, <1>3
  <2>3. attached = {} /\ former = {} /\ apc = "idle" /\ aedits = 0
    BY <1>1
  <2>4. AR!StoredInv
    <3>1. acr = AR!Absent
      BY <1>1
    <3>2. acr.uid <= aedits
      <4>1. acr.uid = 0 /\ aedits = 0
        BY <2>2, <2>3
      <4> QED
        BY <4>1
    <3>3. attached \ former = {}
      BY <2>3
    <3> QED
      BY <2>2, <3>1, <3>2, <3>3 DEF AR!StoredInv
  <2>5. AR!SettledInv
    BY <2>1 DEF AR!SettledInv, AR!Settled
  <2>6. AR!CacheInv /\ AR!FreshInv /\ AR!StepInv
    BY <1>1, <2>1, <2>2 DEF AR!CacheInv, AR!FreshInv, AR!StepInv, AR!Holding
  <2>7. /\ AR!Absent.uid <= aedits /\ ~AR!Exists(AR!Absent) /\ ~AR!Absent.deleting
        /\ AR!Absent.status.og <= AR!Absent.gen
    <3>1. AR!Absent.status.og = 0 /\ AR!Absent.gen = 0 /\ AR!Absent.uid = 0 /\ aedits = 0
      BY <1>3, <2>3
    <3>2. AR!Absent.uid <= aedits /\ AR!Absent.status.og <= AR!Absent.gen
      BY <3>1
    <3>3. ~AR!Exists(AR!Absent) /\ ~AR!Absent.deleting
      BY <1>1, <1>3, <2>1
    <3> QED
      BY <3>2, <3>3
  <2>8. AR!CopyInv(AR!Absent)
    BY <2>7 DEF AR!CopyInv
  <2>9. AR!ObservedInv(AR!Absent)
    BY <2>7 DEF AR!ObservedInv
  <2> QED
    BY <1>1, <2>3, <2>4, <2>5, <2>6, <2>8, <2>9 DEF AR!AttachmentInv
<1> QED
  BY <1>2, <1>4, <1>5, <1>6 DEF PairInv

LEMMA PairInvariant == Spec => [](SharedInv /\ FirstInv /\ PairInv)
<1>1. SharedInv /\ FirstInv /\ PairInv /\ [Next]_vars => (FirstInv /\ PairInv)'
  <2> SUFFICES ASSUME SharedInv, FirstInv, PairInv, [Next]_vars PROVE FirstInv' /\ PairInv'
    OBVIOUS
  <2>1. FirstInv' /\ (Raced' = 0 => Raced = 0)
    BY StepFirst DEF Raced
  <2>2. CASE UNCHANGED vars
    BY <2>1, <2>2, Unseen DEF vars, policyVars, Alive
  <2> QED
    BY <2>1, <2>2, PolicySide, AttachmentSide DEF Next
<1> QED
  BY <1>1, InitPair, SharedInvariant, PTL DEF Spec

\* What is attached in AWS beyond what the PolicyAttachment says is a pair that users
\* changed it away from, also beside a Policy that comes and goes
\* (policyattachment_controller.go:67-172).
THEOREM OnlyFormerLeft == Spec => []A!OnlyFormerPairsLeft
<1>1. PairInv => A!OnlyFormerPairsLeft
  BY DEF PairInv, AR!AttachmentInv, AR!StoredInv, AR!Exists, A!OnlyFormerPairsLeft, A!Exists
<1> QED
  BY <1>1, PairInvariant, PTL

\* A settled PolicyAttachment has its effect in AWS, with the current document of a
\* settled Policy, as long as that is the first Policy of its name
\* (policyattachment_controller.go:86, 144; policy_controller.go:168).
THEOREM SettledIsInEffect == Spec => []SettledMeansInEffect
<1>1. FirstInv /\ PairInv /\ P!SettledMeansApplied => SettledMeansInEffect
  <2> SUFFICES ASSUME PairInv, P!SettledMeansApplied, apc = "idle",
                      A!Settled(acr), RefersTo(acr), pcr.uid = 1, ~pcr.deleting
               PROVE  InEffect /\ (P!OnlyStatusUpdated(pcr) => iam = pcr.rev)
    BY DEF SettledMeansInEffect
  <2>1. AR!SettledInv /\ Raced = 0
    BY DEF PairInv, AR!AttachmentInv, Raced, FirstPolicy
  <2>2. AR!Settled(acr)
    BY DEF A!Settled, AR!Settled, A!Exists, AR!Exists, A!OnlyStatusUpdated, AR!OnlyStatusUpdated
  <2>3. acr.spec \in attached
    BY <2>1, <2>2 DEF AR!SettledInv
  <2>4. policy \in Alive \union Externals
    BY <2>1, <2>2 DEF AR!SettledInv, RefersTo
  <2>5. iam # 0
    BY <2>4, OperatorAssumption DEF Alive
  <2>6. P!OnlyStatusUpdated(pcr) => iam = pcr.rev
    BY DEF P!SettledMeansApplied, P!Exists
  <2> QED
    BY <2>3, <2>5, <2>6 DEF InEffect
<1> QED
  BY <1>1, PairInvariant, PolicyStaysApplied, PTL

-----------------------------------------------------------------------------
(* When neither controller has anything left to do. *)

\* Beside the other controller, too, a Policy is only left alone when it is applied.
THEOREM PolicyQuiet == Spec => []P!QuietMeansApplied
<1>1. PP!Spec => []PP!QuietMeansApplied
  BY PP!QuietIsApplied, PolicyConstants
<1>2. PP!QuietMeansApplied => P!QuietMeansApplied
  BY DEF PP!QuietMeansApplied, P!QuietMeansApplied, PP!Quiet, P!Quiet, PP!OnlyStatusUpdated,
         P!OnlyStatusUpdated, PP!Exists, P!Exists
<1> QED
  BY <1>1, <1>2, SameSpec, PolicyCarriesOver, PTL DEF PolicySpec

\* The Policy controller writes to nothing that makes a request for a PolicyAttachment.
LEMMA AttachmentRequest == Spec => []AR!RequestInv
<1>1. Init => AR!RequestInv
  BY DEF Init, A!BaseInit, AR!RequestInv, AR!Exists, A!Absent
<1>2. PairInv /\ AR!RequestInv /\ [Next]_vars => AR!RequestInv'
  <2> SUFFICES ASSUME PairInv, AR!RequestInv, [Next]_vars PROVE AR!RequestInv'
    OBVIOUS
  <2>1. CASE UNCHANGED attachmentVars
    BY <2>1 DEF attachmentVars, AR!RequestInv, AR!Quiet, AR!Exists, AR!OnlyStatusUpdated
  <2>2. CASE UserOfAttachment \/ SyncAttachment \/ ReconcileAttachment
    <3>1. Raced' = Raced
      BY <2>2 DEF UserOfAttachment, SyncAttachment, ReconcileAttachment, policyVars, Raced,
                  FirstPolicy
    <3>2. AR!Next
      BY <2>2, <3>1, SameAttachment
         DEF UserOfAttachment, SyncAttachment, ReconcileAttachment, AR!Next
    <3> QED
      BY <3>2, AR!StepRequest, AttachmentConstants DEF PairInv
  <2> QED
    BY <2>1, <2>2 DEF Next, UserOfPolicy, SyncPolicy, ReconcilePolicy, vars
<1> QED
  BY <1>1, <1>2, PairInvariant, PTL DEF Spec

\* When both controllers are done, a PolicyAttachment of the first Policy of its name is
\* in effect, with that Policy's current document (policy_controller.go:84,
\* policyattachment_controller.go:86): no order of their runs ends anywhere else.
THEOREM QuietIsInEffect ==
  Spec => [](P!Quiet /\ A!Quiet /\ RefersTo(acr) /\ pcr.uid = 1
               => InEffect /\ iam = pcr.rev)
<1>1. P!QuietMeansApplied /\ SettledMeansInEffect /\ AR!RequestInv
        => (P!Quiet /\ A!Quiet /\ RefersTo(acr) /\ pcr.uid = 1 => InEffect /\ iam = pcr.rev)
  <2> SUFFICES ASSUME P!QuietMeansApplied, SettledMeansInEffect, AR!RequestInv,
                      P!Quiet, A!Quiet, RefersTo(acr), pcr.uid = 1
               PROVE  InEffect /\ iam = pcr.rev
    OBVIOUS
  <2>1. ~pcr.deleting /\ iam = pcr.rev
    BY DEF P!QuietMeansApplied, P!Exists
  <2>2. A!Settled(acr)
    BY DEF AR!RequestInv, AR!Quiet, A!Quiet, AR!Exists, RefersTo, A!Settled, A!Exists,
           AR!OnlyStatusUpdated, A!OnlyStatusUpdated
  <2> QED
    BY <2>1, <2>2 DEF SettledMeansInEffect, P!Quiet, A!Quiet
<1> QED
  BY <1>1, PolicyQuiet, SettledIsInEffect, AttachmentRequest, PTL
==============================================================================
