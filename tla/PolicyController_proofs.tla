------------------------ MODULE PolicyController_proofs ------------------------
(***************************************************************************)
(* Theorems about PolicyController, for all bounds, kinds of failure and   *)
(* answers of AWS: its types, the lifecycle of its IAM policy, and that    *)
(* seen from outside it behaves as CloudResource says.                     *)
(***************************************************************************)
EXTENDS PolicyController, IamObject_proofs

Documents == 1 .. MaxEdits

\* The specs number what they say by the edit that wrote it.
RevInv == /\ cr.rev <= edits /\ cache.rev <= edits /\ obj.rev <= edits

-----------------------------------------------------------------------------
(* Types. *)

LEMMA PolicyConstants ==
  /\ NoStatus \in PolicyStatuses /\ NoStatus.arn = FALSE
  /\ \A t \in PolicyStatuses : t.arn \in BOOLEAN
  /\ 0 \in 0 .. MaxEdits /\ 0 \in 0 .. MaxFaults
<1>1. NoStatus = [state |-> "", arn |-> FALSE, og |-> 0]
  BY PolicyAssumption
<1>2. NoStatus \in PolicyStatuses /\ NoStatus.arn = FALSE
  BY <1>1 DEF PolicyStatuses
<1>3. \A t \in PolicyStatuses : t.arn \in BOOLEAN
  BY DEF PolicyStatuses
<1>4. 0 \in 0 .. MaxEdits /\ 0 \in 0 .. MaxFaults
  BY BoundsAssumption
<1> QED
  BY <1>2, <1>3, <1>4

\* The statuses Reconcile makes of one.
LEMMA PolicyStatusTypes ==
  ASSUME NEW o \in Resources(PolicyStatuses)
  PROVE  /\ OkStatus(o) \in PolicyStatuses /\ OkStatus(o).arn = TRUE
         /\ ErrorStatus(o) \in PolicyStatuses /\ ErrorStatus(o).arn = o.status.arn
         /\ [o.status EXCEPT !.og = o.gen] \in PolicyStatuses
         /\ [o.status EXCEPT !.og = o.gen].arn = o.status.arn
BY DEF Resources, PolicyStatuses, OkStatus, ErrorStatus

\* What the lemmas of IamObject_proofs ask of a state of PolicyController.
LEMMA PolicyTypes ==
  ASSUME TypeOK
  PROVE  /\ BaseTypeOK(PolicyStatuses, PolicySteps) /\ IamTypeOK(Documents)
         /\ obj \in Resources(PolicyStatuses) /\ cr \in Resources(PolicyStatuses)
         /\ cache \in Resources(PolicyStatuses) /\ Absent \in Resources(PolicyStatuses)
         /\ cr.uid \in Nat /\ cache.uid \in Nat /\ obj.uid \in Nat /\ edits \in Nat
         /\ cr.rev \in Nat /\ cache.rev \in Nat /\ obj.rev \in Nat
         /\ obj.status.arn \in BOOLEAN /\ queued \in BOOLEAN
<1>1. BaseTypeOK(PolicyStatuses, PolicySteps) /\ IamTypeOK(Documents)
  BY DEF TypeOK, Documents
<1> QED
  BY <1>1, CopyTypes, PolicyConstants, AbsentType DEF BaseTypeOK, Resources

\* The copy that goes on from AddFinalizer.
LEMMA FinalizerAdded ==
  ASSUME TypeOK, AddFinalizer
  PROVE  \/ \E o \in Resources(PolicyStatuses) :
              /\ Goto("create", o) /\ Accepted([cr EXCEPT !.fin = TRUE])
              /\ o.uid = obj.uid /\ o.rev = obj.rev /\ o.deleting = obj.deleting
              /\ o.fin = TRUE /\ o.status \in {obj.status, cr.status}
         \/ Goto("errWithStatus", obj) /\ Refused([cr EXCEPT !.fin = TRUE])
<1> DEFINE o == [Answer(obj) EXCEPT !.fin = TRUE]
<1>1. /\ o \in Resources(PolicyStatuses)
      /\ o.uid = obj.uid /\ o.rev = obj.rev /\ o.deleting = obj.deleting
      /\ o.fin = TRUE /\ o.status \in {obj.status, cr.status}
  BY PolicyTypes DEF Answer, Resources
<1> HIDE DEF o
<1> QED
  BY <1>1 DEF AddFinalizer, o

\* A step that writes the status s keeps the types.
LEMMA StatusWriteType ==
  ASSUME TypeOK, NEW s \in PolicyStatuses, Logged(WithStatus(s)), Kept,
         \/ Return \/ Retry \/ \E p \in PolicySteps : Goto(p, [obj EXCEPT !.status = s])
  PROVE  TypeOK'
<1>1. WithStatus(s) \in Resources(PolicyStatuses)
  BY PolicyTypes, UpdatedType DEF WithStatus
<1>2. [obj EXCEPT !.status = s] \in Resources(PolicyStatuses)
  BY PolicyTypes, UpdatedType
<1>3. /\ pc' \in PolicySteps \union {"idle"} /\ obj' \in Resources(PolicyStatuses)
      /\ queued' \in BOOLEAN
  BY <1>2, PolicyTypes DEF Return, Retry, Goto
<1>4. BaseTypeOK(PolicyStatuses, PolicySteps)'
  BY <1>1, <1>3, PolicyTypes, WriteType
<1> QED
  BY <1>4 DEF TypeOK, Kept, attVars, IamTypeOK

\* The numbers of edits: users number upwards, copies are copied.
LEMMA StepRev ==
  ASSUME TypeOK, RevInv, [Next]_vars
  PROVE  RevInv'
<1>1. Absent.rev = 0
  BY DEF Absent
<1>2. CASE User
  <2>1. /\ UNCHANGED <<cache, obj>>
        /\ edits' \in {edits, edits + 1} /\ cr'.rev \in {0, cr.rev, edits'}
    BY <1>2, <1>1, PolicyTypes
       DEF User, UserStep, UserCreate, UserEdit, UserDelete, WrittenByOthers, Edit, Resources,
           Absent
  <2> QED
    BY <2>1, PolicyTypes DEF RevInv
<1>3. CASE SyncPolicy \/ RestartOperator \/ Attachments \/ UNCHANGED vars
  BY <1>1, <1>3, PolicyTypes
     DEF SyncPolicy, Sync, RestartOperator, Restart, Attachments, vars, base, RevInv
<1>4. CASE NotFound \/ Skip \/ Start \/ IamServiceError
  BY <1>1, <1>4, PolicyTypes
     DEF NotFound, Skip, LoadAndReturn, Start, Load, IamServiceError, Retry, NoWrite, RevInv
<1>5. CASE CleanupPolicy \/ DeletePolicy \/ CreatePolicy \/ UpdatePolicy
  BY <1>5 DEF CleanupPolicy, Cleanup, DeletePolicy, Delete, CreatePolicy, CreateAWSObject,
              UpdatePolicy, UpdateAWSObject, Goto, NoWrite, RevInv
<1>6. CASE AddFinalizer
  <2>1. [cr EXCEPT !.fin = TRUE].rev = cr.rev /\ obj'.rev = obj.rev
    BY <1>6, FinalizerAdded, PolicyTypes DEF Goto, Resources
  <2>2. Logged([cr EXCEPT !.fin = TRUE])
    BY <1>6, FinalizerAdded DEF Logged
  <2> QED
    BY <2>1, <2>2, Written, PolicyTypes DEF RevInv
<1>7. CASE RemoveFinalizer
  <2>1. Logged(Absent) /\ obj' = Absent
    BY <1>7 DEF RemoveFinalizer, Logged, Return, Retry
  <2> QED
    BY <1>1, <2>1, Written, PolicyTypes DEF RevInv
<1>8. CASE OkStatusUpdate \/ NameTaken \/ Updated \/ Observe \/ Report
  <2>1. PICK s : Logged(WithStatus(s)) /\ obj' \in {Absent, [obj EXCEPT !.status = s]}
    <3>1. CASE OkStatusUpdate
      BY <3>1, PolicyTypes DEF OkStatusUpdate, Goto, Resources
    <3>2. CASE NameTaken
      BY <3>2, PolicyTypes DEF NameTaken, Goto, Resources
    <3>3. CASE Updated \/ Observe \/ Report
      BY <3>3 DEF Updated, Observe, Report, ReportError, Return, Retry, Logged
    <3> QED
      BY <1>8, <3>1, <3>2, <3>3
  <2>2. [obj EXCEPT !.status = s].rev = obj.rev
    BY PolicyTypes DEF Resources
  <2>3. cr'.rev = cr.rev /\ cache' = cache /\ edits' = edits
    BY <2>1, StatusWritten, PolicyTypes
  <2>4. obj'.rev \in {0, obj.rev}
    BY <1>1, <2>1, <2>2
  <2> QED
    BY <2>3, <2>4, PolicyTypes DEF RevInv
<1> QED
  BY <1>2, <1>3, <1>4, <1>5, <1>6, <1>7, <1>8 DEF Next, Reconcile

LEMMA InitInv == Init => TypeOK /\ RevInv /\ LifecycleInv
<1>1. SUFFICES ASSUME Init PROVE TypeOK /\ RevInv /\ LifecycleInv
  OBVIOUS
<1>2. /\ cr = Absent /\ cache = Absent /\ obj = Absent /\ fresh = FALSE /\ pc = "idle"
      /\ edits = 0 /\ iam = NoObject
  BY <1>1 DEF Init, BaseInit, IamInit
<1>3. /\ Absent.uid = 0 /\ Absent.rev = 0 /\ Absent.fin = FALSE /\ Absent.deleting = FALSE
      /\ Absent.status.arn = FALSE
  BY PolicyConstants DEF Absent
<1>4. BaseTypeOK(PolicyStatuses, PolicySteps)
  BY <1>1, PolicyConstants, AbsentType DEF Init, BaseInit, BaseTypeOK
<1>5. TypeOK
  BY <1>1, <1>4 DEF Init, TypeOK, IamInit, IamTypeOK
<1>6. LifecycleInv
  BY <1>2, <1>3 DEF LifecycleInv, StoredInv, CacheInv, RunInv, CopyInv, ArnInv, AheadInv,
     FreshInv, StepInv, Exists, Holding, Provisioned, Recorded
<1> QED
  BY <1>2, <1>3, <1>5, <1>6 DEF RevInv

\* The document of the copy in hand is that of an edit.
LEMMA InHandType ==
  ASSUME TypeOK, RevInv, LifecycleInv, pc # "idle"
  PROVE  obj.rev \in Documents /\ obj.rev # NoObject
<1>1. obj.rev # 0 /\ obj.rev \in Nat /\ obj.rev <= edits
  BY PolicyTypes DEF LifecycleInv, RunInv, StepInv, CopyInv, RevInv
<1>2. edits <= MaxEdits /\ MaxEdits \in Nat /\ edits \in Nat
  BY BoundsAssumption, PolicyTypes DEF BaseTypeOK
<1>3. NoObject = 0
  BY PolicyAssumption
<1> QED
  BY <1>1, <1>2, <1>3 DEF Documents

LEMMA StepType ==
  ASSUME TypeOK, RevInv, LifecycleInv, [Next]_vars
  PROVE  TypeOK'
<1> USE DEF PolicySteps
<1>1. ASSUME BaseTypeOK(PolicyStatuses, PolicySteps)', Kept
      PROVE  TypeOK'
  BY <1>1 DEF TypeOK, Kept, attVars, IamTypeOK
<1>2. CASE User
  BY <1>1, <1>2, UserType, PolicyTypes, PolicyConstants DEF User
<1>3. CASE SyncPolicy \/ RestartOperator
  BY <1>1, <1>3, SyncType, PolicyTypes, PolicyConstants DEF SyncPolicy, RestartOperator
<1>4. CASE Attachments
  <2>1. UNCHANGED <<base, iam>> /\ refs' \in BOOLEAN /\ bound' \in BOOLEAN
    BY <1>4 DEF Attachments, TypeOK, IamTypeOK
  <2> QED
    BY <2>1 DEF TypeOK, base, BaseTypeOK, IamTypeOK
<1>5. CASE NotFound \/ Skip
  BY <1>5 DEF NotFound, Skip, LoadAndReturn, TypeOK, BaseTypeOK, Kept, attVars, IamTypeOK
<1>6. CASE Start
  <2>1. FirstStep(cache) \in PolicySteps
    BY DEF FirstStep
  <2> QED
    BY <1>1, <1>6, <2>1, LoadType, PolicyTypes DEF Start
<1>7. CASE IamServiceError
  BY <1>1, <1>7, NoWriteType, PolicyTypes DEF IamServiceError, Retry
<1>8. CASE AddFinalizer
  <2>1. [cr EXCEPT !.fin = TRUE] \in Resources(PolicyStatuses)
    BY PolicyTypes DEF Resources
  <2>2. /\ Logged([cr EXCEPT !.fin = TRUE]) /\ obj' \in Resources(PolicyStatuses)
        /\ pc' \in PolicySteps \union {"idle"} /\ queued' \in BOOLEAN
    BY <1>8, FinalizerAdded, PolicyTypes DEF Logged, Goto
  <2>3. BaseTypeOK(PolicyStatuses, PolicySteps)'
    BY <2>1, <2>2, WriteType, PolicyTypes
  <2> QED
    BY <1>1, <1>8, <2>3 DEF AddFinalizer
<1>9. CASE CleanupPolicy \/ DeletePolicy
  <2>1. BaseTypeOK(PolicyStatuses, PolicySteps)' /\ IamTypeOK(Documents)'
    BY <1>9, DeprovisionType, PolicyTypes DEF CleanupPolicy, DeletePolicy
  <2> QED
    BY <2>1 DEF TypeOK, Documents
<1>10. CASE RemoveFinalizer
  <2>1. Logged(Absent) /\ obj' = Absent /\ pc' = "idle" /\ queued' \in BOOLEAN
    BY <1>10, PolicyTypes DEF RemoveFinalizer, Logged, Return, Retry
  <2>2. BaseTypeOK(PolicyStatuses, PolicySteps)'
    BY <2>1, WriteType, PolicyTypes
  <2> QED
    BY <1>1, <1>10, <2>2 DEF RemoveFinalizer
<1>11. CASE CreatePolicy \/ UpdatePolicy
  <2>1. obj.rev \in Documents
    BY <1>11, InHandType DEF CreatePolicy, UpdatePolicy
  <2>2. BaseTypeOK(PolicyStatuses, PolicySteps)' /\ IamTypeOK(Documents)'
    BY <1>11, <2>1, ProvisionType, PolicyTypes DEF CreatePolicy, UpdatePolicy
  <2> QED
    BY <2>2 DEF TypeOK, Documents
<1>12. CASE OkStatusUpdate \/ NameTaken
  <2>1. PICK s \in PolicyStatuses :
          /\ s = OkStatus(obj) \/ s = ErrorStatus(obj)
          /\ Goto("observe", [obj EXCEPT !.status = s]) \/ Goto("update", [obj EXCEPT !.status = s])
          /\ Logged(WithStatus(s))
    <3>1. /\ [obj EXCEPT !.status = OkStatus(obj)].status = OkStatus(obj)
          /\ [obj EXCEPT !.status = ErrorStatus(obj)].status = ErrorStatus(obj)
      BY PolicyTypes DEF Resources
    <3> QED
      BY <1>12, <3>1, PolicyStatusTypes, PolicyTypes DEF OkStatusUpdate, NameTaken
  <2>2. "observe" \in PolicySteps /\ "update" \in PolicySteps
    OBVIOUS
  <2> HIDE DEF PolicySteps
  <2> QED
    BY <1>12, <2>1, <2>2, StatusWriteType DEF OkStatusUpdate, NameTaken
<1>13. CASE Updated \/ Observe
  <2>1. PICK s \in PolicyStatuses : Logged(WithStatus(s)) /\ (Return \/ Retry)
    BY <1>13, PolicyStatusTypes, PolicyTypes DEF Updated, Observe, Logged
  <2> QED
    BY <1>13, <2>1, StatusWriteType DEF Updated, Observe
<1>14. CASE Report
  BY <1>1, <1>14, ReportType, PolicyStatusTypes, PolicyTypes, PolicyConstants DEF Report
<1>15. CASE UNCHANGED vars
  BY <1>15 DEF TypeOK, vars, base, attVars, BaseTypeOK, IamTypeOK
<1> QED
  BY <1>2, <1>3, <1>4, <1>5, <1>6, <1>7, <1>8, <1>9, <1>10, <1>11, <1>12, <1>13, <1>14, <1>15
     DEF Next, Reconcile

-----------------------------------------------------------------------------
(* The lifecycle. *)

LEMMA StepLifecycle ==
  ASSUME TypeOK, RevInv, LifecycleInv, [Next]_vars
  PROVE  LifecycleInv' /\ LifecycleStep
<1>1. CASE User
  <2>1. UserStep /\ UNCHANGED iam
    BY <1>1 DEF User, Kept
  <2>2. LifecycleInv'
    BY <2>1, PolicyTypes, PolicyConstants, CreateLifecycle, EditLifecycle, DeleteLifecycle
       DEF UserStep
  <2> QED
    BY <2>1, <2>2, PolicyTypes, PolicyConstants, UserRefines
<1>2. CASE SyncPolicy
  BY <1>2, PolicyTypes, PolicyConstants, SyncLifecycle, QuietStep DEF SyncPolicy, Sync, Kept
<1>3. CASE RestartOperator
  BY <1>3, PolicyTypes, PolicyConstants, RestartLifecycle, QuietStep
     DEF RestartOperator, Restart, Kept
<1>4. CASE Attachments \/ NotFound \/ Skip \/ UNCHANGED vars
  <2>1. UNCHANGED <<cr, cache, cacheFresh, obj, fresh, pc, edits, iam>>
    BY <1>4 DEF Attachments, NotFound, Skip, LoadAndReturn, Kept, vars, base
  <2> QED
    BY <2>1, PolicyTypes, QuietLifecycle, QuietStep
<1>5. CASE Start
  <2>1. Load(cache, FirstStep(cache)) /\ Exists(cache) /\ UNCHANGED iam
    BY <1>5 DEF Start, Kept
  <2>2. /\ FirstStep(cache) \in {"errWithStatus", "addFinalizer", "cleanup", "create"}
        /\ FirstStep(cache) = "addFinalizer" => ~cache.fin /\ ~cache.deleting
        /\ FirstStep(cache) = "cleanup" => cache.fin
        /\ FirstStep(cache) = "create" => cache.fin /\ ~cache.deleting
    BY <1>5 DEF Start, NothingToDo, FirstStep
  <2>3. LifecycleInv'
    BY <2>1, <2>2, PolicyTypes, LoadLifecycle
  <2> QED
    BY <2>1, <2>3, QuietStep DEF Load
<1>6. CASE IamServiceError
  <2>1. /\ UNCHANGED <<cr, cache, cacheFresh, edits, iam>>
        /\ pc' = "idle" /\ obj' = Absent /\ fresh' = FALSE
    BY <1>6 DEF IamServiceError, Retry, NoWrite, Kept
  <2> QED
    BY <2>1, PolicyTypes, PolicyConstants, AbandonedRun, QuietStep
<1>7. CASE AddFinalizer
  <2>1. pc = "addFinalizer" /\ UNCHANGED iam
    BY <1>7 DEF AddFinalizer, Kept
  <2>2. Logged([cr EXCEPT !.fin = TRUE])
    BY <1>7, FinalizerAdded DEF Logged
  <2>3. LifecycleStep
    BY <2>1, <2>2, PolicyTypes, FinalizerRefines
  <2>4. ASSUME NEW o \in Resources(PolicyStatuses), Goto("create", o),
               Accepted([cr EXCEPT !.fin = TRUE]),
               o.uid = obj.uid, o.rev = obj.rev, o.deleting = obj.deleting,
               o.fin = TRUE, o.status \in {obj.status, cr.status}
        PROVE  LifecycleInv'
    BY <2>1, <2>4, PolicyTypes, FinalizerLifecycle
  <2>5. CASE Goto("errWithStatus", obj) /\ Refused([cr EXCEPT !.fin = TRUE])
    BY <2>1, <2>3, <2>5, PolicyTypes, FinalizerRefused
  <2> QED
    BY <1>7, <2>3, <2>4, <2>5, FinalizerAdded
<1>8. CASE CleanupPolicy
  <2>1. Cleanup
    BY <1>8 DEF CleanupPolicy
  <2> QED
    BY <2>1, PolicyTypes, CleanupLifecycle, QuietStep DEF Cleanup, NoWrite
<1>9. CASE DeletePolicy
  <2>1. Delete
    BY <1>9 DEF DeletePolicy
  <2>2. UNCHANGED cr /\ (iam' = iam \/ (pc = "delete" /\ iam' = NoObject /\ obj.status.arn))
    BY <2>1 DEF Delete, NoWrite
  <2> QED
    BY <2>1, <2>2, PolicyTypes, PolicyConstants, DeprovisionLifecycle, AwsRefines
<1>10. CASE RemoveFinalizer
  <2>1. /\ pc = "removeFinalizer" /\ Logged(Absent) /\ UNCHANGED iam
        /\ pc' = "idle" /\ obj' = Absent
    BY <1>10 DEF RemoveFinalizer, Logged, Return, Retry, Kept
  <2> QED
    BY <2>1, PolicyTypes, PolicyConstants, ReleaseLifecycle, ReleaseRefines
<1>11. CASE CreatePolicy
  <2>1. pc = "create" /\ CreateAWSObject(obj.rev, "nameTaken") /\ obj.rev # NoObject
    BY <1>11, InHandType DEF CreatePolicy
  <2>2. UNCHANGED cr /\ (iam' = iam \/ (iam = NoObject /\ iam' # NoObject))
    BY <2>1 DEF CreateAWSObject, NoWrite
  <2> QED
    BY <2>1, <2>2, PolicyTypes, PolicyConstants, ProvisionLifecycle, AwsRefines
<1>12. CASE UpdatePolicy
  <2>1. pc = "update" /\ UpdateAWSObject(obj.rev, "updated") /\ obj.rev # NoObject
    BY <1>12, InHandType DEF UpdatePolicy
  <2>2. UNCHANGED cr /\ (iam' = iam \/ (iam # NoObject /\ iam' # NoObject))
    BY <2>1 DEF UpdateAWSObject, NoWrite
  <2> QED
    BY <2>1, <2>2, PolicyTypes, PolicyConstants, UpdateLifecycle, AwsRefines
<1>13. CASE OkStatusUpdate
  <2> DEFINE s == OkStatus(obj)
  <2>1. [obj EXCEPT !.status = s].status = s /\ s.arn = TRUE
    BY PolicyTypes, PolicyStatusTypes DEF Resources
  <2> HIDE DEF s
  <2>2. /\ Goto("observe", [obj EXCEPT !.status = s]) /\ Logged(WithStatus(s))
        /\ UNCHANGED iam /\ pc = "okStatus"
    BY <1>13, <2>1 DEF OkStatusUpdate, Kept, s
  <2>3. /\ pc \in Provisioned /\ pc \in Holding \ Recorded /\ iam # NoObject
        /\ "observe" \in Holding /\ "observe" \in Recorded
    BY <2>2 DEF Holding, Provisioned, Recorded, LifecycleInv, RunInv, StepInv
  <2>4. LifecycleInv'
    BY <2>1, <2>2, <2>3, PolicyTypes, StatusLifecycle
  <2> QED
    BY <2>1, <2>2, <2>3, <2>4, PolicyTypes, PolicyConstants, StatusRefines
<1>14. CASE NameTaken
  <2> DEFINE s == ErrorStatus(obj)
  <2>1. [obj EXCEPT !.status = s].status = s /\ s.arn = obj.status.arn /\ s.arn \in BOOLEAN
    BY PolicyTypes, PolicyStatusTypes DEF Resources
  <2> HIDE DEF s
  <2>2. /\ Goto("update", [obj EXCEPT !.status = s]) /\ Logged(WithStatus(s))
        /\ UNCHANGED iam /\ pc = "nameTaken"
    BY <1>14, <2>1 DEF NameTaken, Kept, s
  <2>3. /\ pc \in Holding \ Recorded /\ pc \notin Recorded
        /\ "update" \in Holding /\ "update" \notin Recorded /\ "update" \notin Provisioned
    BY <2>2 DEF Holding, Provisioned, Recorded
  <2>4. LifecycleInv'
    BY <2>1, <2>2, <2>3, PolicyTypes, StatusLifecycle
  <2> QED
    BY <2>1, <2>2, <2>3, <2>4, PolicyTypes, PolicyConstants, StatusRefines
<1>15. CASE Updated \/ Observe
  <2>1. PICK s \in PolicyStatuses :
          /\ s.arn = TRUE \/ s.arn = obj.status.arn
          /\ pc = "updated" => s.arn = TRUE
          /\ Logged(WithStatus(s))
    BY <1>15, PolicyTypes, PolicyStatusTypes DEF Updated, Observe, Logged
  <2>2. /\ pc \in {"updated", "observe"} /\ UNCHANGED iam
        /\ pc' = "idle" /\ obj' = Absent
    BY <1>15 DEF Updated, Observe, Return, Retry, Kept
  <2>3. /\ pc \in Provisioned /\ pc \in Holding
        /\ pc = "observe" => pc \in Recorded
    BY <2>2 DEF Recorded, Provisioned, Holding
  <2>4. s.arn = TRUE /\ (fresh => cr.fin)
    BY <2>1, <2>2, <2>3, PolicyTypes DEF LifecycleInv, RunInv, StepInv, FreshInv
  <2>5. StoredInv' /\ CacheInv'
    BY <2>1, <2>2, <2>4, PolicyTypes, StatusStored
  <2>6. fresh' = FALSE /\ edits' \in Nat
    BY <2>1, <2>2, PolicyTypes, StatusWritten
  <2>7. RunInv'
    BY <2>2, <2>6, PolicyConstants, ReturnedRun
  <2>8. LifecycleStep
    BY <2>1, <2>2, <2>3, <2>4, PolicyTypes, PolicyConstants, StatusRefines
  <2> QED
    BY <2>5, <2>7, <2>8 DEF LifecycleInv
<1>16. CASE Report
  <2> DEFINE s == ErrorStatus(obj)
  <2>1. ReportError /\ UNCHANGED iam /\ Logged(WithStatus(s))
    BY <1>16 DEF Report, ReportError, Kept
  <2>2. s.arn = obj.status.arn /\ s.arn \in BOOLEAN
    BY PolicyTypes, PolicyStatusTypes
  <2>3. pc \notin Recorded
    BY <2>1 DEF ReportError, Recorded
  <2>4. LifecycleInv'
    BY <2>1, <2>2, PolicyTypes, PolicyConstants, ReportLifecycle
  <2> HIDE DEF s
  <2> QED
    BY <2>1, <2>2, <2>3, <2>4, PolicyTypes, PolicyConstants, StatusRefines
<1> QED
  BY <1>1, <1>2, <1>3, <1>4, <1>5, <1>6, <1>7, <1>8, <1>9, <1>10, <1>11, <1>12, <1>13,
     <1>14, <1>15, <1>16 DEF Next, Reconcile

\* Types, numbers and lifecycle hold together: that IAM carries the document of
\* an edit needs to know that the copy in hand is one of a CR.
LEMMA Inductive == Spec => [](TypeOK /\ RevInv /\ LifecycleInv)
<1>1. TypeOK /\ RevInv /\ LifecycleInv /\ [Next]_vars
        => (TypeOK /\ RevInv /\ LifecycleInv)'
  BY StepType, StepRev, StepLifecycle
<1> QED
  BY InitInv, <1>1, PTL DEF Spec

\* Every variable keeps its type; the IAM policy carries the document of some
\* edit, never one made up from an empty copy.
THEOREM TypeCorrect == Spec => []TypeOK
  BY Inductive, PTL

\* Whatever copy a Reconcile works on, and whatever fails: it holds the CR by its
\* finalizer while it creates the IAM policy, and removes the finalizer only of
\* a CR whose known IAM policy is gone.
THEOREM LifecycleCorrect == Spec => []LifecycleInv
  BY Inductive, PTL

\* Seen from outside, a Policy and its IAM policy behave as CloudResource says.
THEOREM RefinesCloudResource == Spec => LifecycleSpec
<1>1. Init => Lifecycle!Init
  <2>1. SUFFICES ASSUME Init PROVE Lifecycle!Init
    OBVIOUS
  <2>2. cr.uid = 0 /\ cr.status.arn = FALSE /\ iam = NoObject
    BY <2>1, PolicyConstants DEF Init, BaseInit, IamInit, Absent
  <2> QED
    BY <2>2 DEF Lifecycle!Init, Phase, Exists
<1>2. TypeOK /\ RevInv /\ LifecycleInv /\ [Next]_vars
        => [Lifecycle!Next]_(Lifecycle!vars)
  BY StepLifecycle DEF LifecycleStep
<1> QED
  BY <1>1, <1>2, Inductive, PTL DEF Spec, LifecycleSpec, Lifecycle!Spec

\* An ARN that reached the status is never lost while the CR exists.
THEOREM ArnIsKept == Spec => ArnNeverForgotten
<1>1. TypeOK /\ RevInv /\ LifecycleInv /\ [Next]_vars
        => [Exists(cr) /\ cr'.uid = cr.uid /\ cr.status.arn => cr'.status.arn]_cr
  BY StepLifecycle, StepKeepsArn
<1> QED
  BY <1>1, Inductive, PTL DEF Spec, ArnNeverForgotten

-----------------------------------------------------------------------------
(* The document in AWS. *)

\* Edits are numbered upwards, the cache follows the stored CR, a run takes its
\* copy from the cache, and AWS has the document of some run's copy.
OrderInv ==
  /\ Exists(cr) => cr.rev >= cache.rev /\ cr.rev >= obj.rev /\ cr.rev >= iam
  /\ Exists(cache) => cache.rev >= obj.rev /\ cache.rev >= iam
  /\ Exists(obj) => obj.rev >= iam
  /\ iam <= edits

\* What a run has to show for the status it writes.
InHandInv ==
  /\ fresh => obj.rev = cr.rev /\ obj.gen = cr.gen
  /\ pc \in Provisioned => iam = obj.rev
  /\ pc \in {"cleanup", "delete"} => obj.deleting

DocumentInv ==
  /\ OrderInv /\ InHandInv /\ SettledMeansApplied
  /\ ObservedInv(cr) /\ ObservedInv(cache) /\ ObservedInv(obj)

LEMMA DocumentTypes ==
  ASSUME TypeOK
  PROVE  /\ cr.gen \in Nat /\ cache.gen \in Nat /\ obj.gen \in Nat
         /\ cr.status.og \in Nat /\ cache.status.og \in Nat /\ obj.status.og \in Nat
         /\ cr.rev \in Nat /\ cache.rev \in Nat /\ obj.rev \in Nat
         /\ cr.uid \in Nat /\ cache.uid \in Nat /\ obj.uid \in Nat
         /\ iam \in Nat /\ edits \in Nat /\ NoObject = 0
<1>1. NoObject = 0
  BY PolicyAssumption
<1>2. iam \in Nat
  BY <1>1, PolicyTypes, BoundsAssumption DEF IamTypeOK, Documents
<1> QED
  BY <1>1, <1>2, PolicyTypes DEF Resources, PolicyStatuses

LEMMA AbsentFields ==
  /\ Absent.uid = 0 /\ Absent.gen = 0 /\ Absent.rev = 0 /\ Absent.fin = FALSE
  /\ Absent.deleting = FALSE /\ Absent.status.og = 0
<1>1. NoStatus.og = 0
  BY PolicyAssumption
<1> QED
  BY <1>1 DEF Absent

\* The copy a returning run drops.
LEMMA DroppedCopy == ObservedInv(Absent) /\ ~Exists(Absent)
BY AbsentFields DEF ObservedInv, Exists

LEMMA UserDocument ==
  ASSUME TypeOK, RevInv, LifecycleInv, DocumentInv, User
  PROVE  DocumentInv'
<1> USE DocumentTypes
<1>1. /\ UNCHANGED <<cache, obj, pc, iam>> /\ fresh' = FALSE
      /\ edits' \in {edits, edits + 1}
  BY DEF User, UserStep, UserCreate, UserEdit, UserDelete, WrittenByOthers, Edit, Kept
<1>2. /\ cache.uid <= edits /\ cache.rev <= edits /\ obj.rev <= edits /\ cr.rev <= edits
  BY DEF RevInv, LifecycleInv, CacheInv, CopyInv
<1>3. ObservedInv(cache)' /\ ObservedInv(obj)' /\ InHandInv'
  BY <1>1 DEF DocumentInv, ObservedInv, InHandInv
<1>4. CASE UserCreate
  <2>1. PICK s \in Specs :
          cr' = [Absent EXCEPT !.uid = edits + 1, !.gen = 1, !.rev = edits + 1, !.spec = s]
    BY <1>4 DEF UserCreate, WrittenByOthers
  <2>2. /\ cr'.uid = edits + 1 /\ cr'.gen = 1 /\ cr'.rev = edits + 1 /\ cr'.deleting = FALSE
        /\ cr'.status.og = 0
    BY <2>1, AbsentFields DEF Absent
  <2>3. edits' = edits + 1
    BY <1>4 DEF UserCreate, Edit
  <2>4. OrderInv' /\ ObservedInv(cr)'
    BY <1>1, <1>2, <2>2, <2>3 DEF DocumentInv, OrderInv, ObservedInv, Exists
  <2>5. SettledMeansApplied'
    BY <1>1, <1>2, <2>2 DEF SettledMeansApplied, OnlyStatusUpdated, Exists
  <2> QED
    BY <1>3, <2>4, <2>5 DEF DocumentInv
<1>5. CASE UserEdit
  <2>1. PICK s \in Specs :
          cr' = [cr EXCEPT !.gen = cr.gen + 1, !.rev = edits + 1, !.spec = s]
    BY <1>5 DEF UserEdit, WrittenByOthers
  <2>2. /\ cr'.uid = cr.uid /\ cr'.gen = cr.gen + 1 /\ cr'.rev = edits + 1
        /\ cr'.deleting = cr.deleting /\ cr'.status = cr.status
    BY <2>1, PolicyTypes DEF Resources
  <2>3. edits' = edits + 1
    BY <1>5 DEF UserEdit, Edit
  <2>4. OrderInv' /\ ObservedInv(cr)'
    BY <1>1, <1>2, <2>2, <2>3 DEF DocumentInv, OrderInv, ObservedInv, Exists
  <2>5. SettledMeansApplied'
    BY <1>1, <2>2, <2>4 DEF DocumentInv, SettledMeansApplied, OnlyStatusUpdated, Exists, ObservedInv
  <2> QED
    BY <1>3, <2>4, <2>5 DEF DocumentInv
<1>6. CASE UserDelete
  <2>1. edits' = edits
    BY <1>6 DEF UserDelete
  <2>2. CASE cr.fin
    <3>1. /\ cr'.uid = cr.uid /\ cr'.gen = cr.gen + 1 /\ cr'.rev = cr.rev
          /\ cr'.deleting = TRUE /\ cr'.status = cr.status
      BY <1>6, <2>2, PolicyTypes DEF UserDelete, WrittenByOthers, Resources
    <3>2. OrderInv' /\ ObservedInv(cr)'
      BY <1>1, <2>1, <3>1 DEF DocumentInv, OrderInv, ObservedInv, Exists
    <3>3. SettledMeansApplied'
      BY <1>1, <3>1, <3>2 DEF SettledMeansApplied, OnlyStatusUpdated, ObservedInv
    <3> QED
      BY <1>3, <3>2, <3>3 DEF DocumentInv
  <2>3. CASE ~cr.fin
    <3>1. cr' = Absent /\ cr'.uid = 0
      BY <1>6, <2>3, AbsentFields DEF UserDelete, WrittenByOthers
    <3>2. OrderInv' /\ ObservedInv(cr)' /\ SettledMeansApplied'
      BY <1>1, <2>1, <3>1, DroppedCopy DEF DocumentInv, OrderInv, SettledMeansApplied, Exists
    <3> QED
      BY <1>3, <3>2 DEF DocumentInv
  <2> QED
    BY <2>2, <2>3
<1> QED
  BY <1>4, <1>5, <1>6 DEF User, UserStep

\* The informer, a restart, a run that starts or gives up before it did anything.
LEMMA CopiedDocument ==
  ASSUME TypeOK, LifecycleInv, DocumentInv, UNCHANGED <<cr, edits, iam>>,
         \/ SyncPolicy \/ RestartOperator \/ Attachments \/ NotFound \/ Skip \/ Start
         \/ IamServiceError \/ UNCHANGED vars
  PROVE  DocumentInv'
<1> USE DocumentTypes
<1>1. /\ \/ UNCHANGED <<cache, obj, fresh, pc>>
         \/ UNCHANGED <<obj, fresh, pc>> /\ cache' = cr
         \/ cache' \in {cache, cr} /\ obj' = Absent /\ fresh' = FALSE /\ pc' = "idle"
         \/ /\ cache' = cache /\ obj' = cache /\ fresh' = cacheFresh
            /\ pc' = FirstStep(cache) /\ Exists(cache)
  BY DEF SyncPolicy, Sync, RestartOperator, Restart, Attachments, NotFound, Skip, LoadAndReturn,
         Start, Load, IamServiceError, Retry, NoWrite, vars, base
<1>2. "idle" \notin Provisioned
  BY DEF Provisioned, Recorded
<1>3. CASE UNCHANGED <<obj, fresh, pc>> /\ cache' \in {cache, cr}
  BY <1>3 DEF DocumentInv, OrderInv, InHandInv, ObservedInv, SettledMeansApplied,
              OnlyStatusUpdated, Exists
<1>4. CASE cache' \in {cache, cr} /\ obj' = Absent /\ fresh' = FALSE /\ pc' = "idle"
  <2>1. OrderInv'
    BY <1>4, AbsentFields DEF DocumentInv, OrderInv, Exists
  <2>2. InHandInv'
    BY <1>2, <1>4 DEF InHandInv
  <2>3. SettledMeansApplied'
    BY <1>4 DEF DocumentInv, SettledMeansApplied, OrderInv, OnlyStatusUpdated, Exists
  <2>4. ObservedInv(cr)' /\ ObservedInv(cache)' /\ ObservedInv(obj)'
    BY <1>4, DroppedCopy DEF DocumentInv, ObservedInv
  <2> QED
    BY <2>1, <2>2, <2>3, <2>4 DEF DocumentInv
<1>5. CASE /\ cache' = cache /\ obj' = cache /\ fresh' = cacheFresh
           /\ pc' = FirstStep(cache) /\ Exists(cache)
  <2>1. OrderInv'
    BY <1>5 DEF DocumentInv, OrderInv, Exists
  <2>2. InHandInv'
    BY <1>5 DEF InHandInv, FirstStep, Provisioned, Recorded, LifecycleInv, CacheInv
  <2>3. SettledMeansApplied'
    BY <1>5 DEF DocumentInv, SettledMeansApplied, OnlyStatusUpdated, Exists
  <2>4. ObservedInv(cr)' /\ ObservedInv(cache)' /\ ObservedInv(obj)'
    BY <1>5 DEF DocumentInv, ObservedInv
  <2> QED
    BY <2>1, <2>2, <2>3, <2>4 DEF DocumentInv
<1> QED
  BY <1>1, <1>3, <1>4, <1>5

\* A write of Reconcile to the CR that is no status write.
LEMMA FinalizerDocument ==
  ASSUME TypeOK, LifecycleInv, DocumentInv, AddFinalizer \/ RemoveFinalizer
  PROVE  DocumentInv'
<1> USE DocumentTypes
<1>1. UNCHANGED iam /\ "idle" \notin Provisioned /\ "create" \notin Provisioned
      /\ "errWithStatus" \notin Provisioned
  BY DEF AddFinalizer, RemoveFinalizer, Kept, Provisioned, Recorded
<1>2. CASE AddFinalizer
  <2> DEFINE new == [cr EXCEPT !.fin = TRUE]
  <2>1. /\ new.uid = cr.uid /\ new.gen = cr.gen /\ new.rev = cr.rev
        /\ new.deleting = cr.deleting /\ new.status = cr.status
    BY PolicyTypes DEF Resources
  <2>2. Logged(new) /\ ~obj.deleting
    BY <1>2, FinalizerAdded DEF Logged, AddFinalizer, LifecycleInv, RunInv, StepInv
  <2> HIDE DEF new
  <2>3. /\ cr'.uid = cr.uid /\ cr'.gen = cr.gen /\ cr'.rev = cr.rev
        /\ cr'.deleting = cr.deleting /\ cr'.status = cr.status
        /\ cache' = cache /\ edits' = edits /\ (fresh' => fresh)
    BY <2>1, <2>2, Written, PolicyTypes
  <2>4. \/ obj' = obj /\ pc' = "errWithStatus"
        \/ /\ pc' = "create" /\ fresh /\ obj'.uid = obj.uid /\ obj'.rev = obj.rev
           /\ obj'.gen = obj.gen /\ obj'.deleting = obj.deleting
           /\ obj'.status \in {obj.status, cr.status}
    BY <1>2, PolicyTypes DEF AddFinalizer, Goto, Accepted, Answer, Resources
  <2>5. OrderInv' /\ InHandInv'
    BY <1>1, <2>3, <2>4 DEF DocumentInv, OrderInv, InHandInv, Exists
  <2>6. SettledMeansApplied'
    BY <1>1, <2>3 DEF DocumentInv, SettledMeansApplied, OnlyStatusUpdated, Exists
  <2>7. ObservedInv(cr)' /\ ObservedInv(cache)' /\ ObservedInv(obj)'
    BY <2>2, <2>3, <2>4 DEF DocumentInv, InHandInv, ObservedInv
  <2> QED
    BY <2>5, <2>6, <2>7 DEF DocumentInv
<1>3. CASE RemoveFinalizer
  <2>1. Logged(Absent) /\ obj' = Absent /\ pc' = "idle"
    BY <1>3 DEF RemoveFinalizer, Logged, Return, Retry
  <2>2. cr' \in {cr, Absent} /\ cache' = cache /\ edits' = edits /\ fresh' = FALSE
    BY <2>1, Written, PolicyTypes
  <2>3. OrderInv' /\ InHandInv'
    BY <1>1, <2>1, <2>2, AbsentFields DEF DocumentInv, OrderInv, InHandInv, Exists
  <2>4. SettledMeansApplied'
    BY <1>1, <2>2, AbsentFields DEF DocumentInv, SettledMeansApplied, OnlyStatusUpdated, Exists
  <2>5. ObservedInv(cr)' /\ ObservedInv(cache)' /\ ObservedInv(obj)'
    BY <2>1, <2>2, DroppedCopy DEF DocumentInv, ObservedInv
  <2> QED
    BY <2>3, <2>4, <2>5 DEF DocumentInv
<1> QED
  BY <1>2, <1>3

\* What is deleted in AWS is no settled Policy's: the copy in hand is of a CR that
\* is being deleted, or that is gone and whose ARN stands for nothing.
LEMMA DeleteDocument ==
  ASSUME TypeOK, LifecycleInv, DocumentInv, CleanupPolicy \/ DeletePolicy
  PROVE  DocumentInv'
<1> USE DocumentTypes
<1>1. /\ UNCHANGED <<cr, cache, obj, edits>> /\ (fresh' => fresh)
      /\ pc' \in {"errorStatus", "delete", "removeFinalizer", "create"}
      /\ iam' = iam \/ (iam' = NoObject /\ obj.status.arn)
      /\ pc \in {"cleanup", "delete"}
  BY DEF CleanupPolicy, Cleanup, DeletePolicy, Delete, Goto, NoWrite, AfterDelete
<1>2. obj.deleting /\ Exists(obj)
  BY <1>1 DEF DocumentInv, InHandInv, LifecycleInv, RunInv, StepInv
<1>3. InHandInv'
  BY <1>1, <1>2 DEF DocumentInv, InHandInv, Provisioned, Recorded
<1>4. OrderInv'
  BY <1>1 DEF DocumentInv, OrderInv, Exists
<1>5. ObservedInv(cr)' /\ ObservedInv(cache)' /\ ObservedInv(obj)'
  BY <1>1 DEF DocumentInv, ObservedInv
<1>6. SettledMeansApplied'
  <2>1. CASE iam' = iam
    BY <1>1, <2>1 DEF DocumentInv, SettledMeansApplied, OnlyStatusUpdated, Exists
  <2>2. CASE iam # NoObject /\ iam' = NoObject /\ obj.status.arn
    <3>1. pc \notin Recorded
      BY <1>1 DEF Recorded
    <3>2. cr.uid = obj.uid
      BY <2>2, <3>1 DEF LifecycleInv, RunInv, ArnInv
    <3>3. cr.deleting
      BY <1>2, <3>2 DEF LifecycleInv, RunInv, CopyInv
    <3>4. ~OnlyStatusUpdated(cr)
      BY <3>3 DEF DocumentInv, ObservedInv, OnlyStatusUpdated
    <3> QED
      BY <1>1, <3>3, <3>4 DEF SettledMeansApplied, OnlyStatusUpdated, Exists
  <2> QED
    BY <1>1, <2>1, <2>2
<1> QED
  BY <1>3, <1>4, <1>5, <1>6 DEF DocumentInv

\* A document is written: that of the copy in hand, which is no older than the
\* one in AWS and no newer than the cache and the stored CR.
LEMMA WriteDocument ==
  ASSUME TypeOK, RevInv, LifecycleInv, DocumentInv, CreatePolicy \/ UpdatePolicy
  PROVE  DocumentInv'
<1> USE DocumentTypes
<1>1. /\ UNCHANGED <<cr, cache, obj, edits>> /\ (fresh' => fresh)
      /\ pc' \in {"errorStatus", "okStatus", "nameTaken", "updated"}
      /\ pc' \in {"okStatus", "updated"} => iam' = obj.rev
      /\ iam' \in {iam, obj.rev}
      /\ pc # "idle"
  BY DEF CreatePolicy, CreateAWSObject, UpdatePolicy, UpdateAWSObject, Goto, NoWrite
<1>2. Exists(obj) /\ obj.rev >= iam /\ obj.rev <= edits
  BY <1>1 DEF RevInv, LifecycleInv, RunInv, StepInv, DocumentInv, OrderInv
<1>3. OrderInv'
  BY <1>1, <1>2 DEF DocumentInv, OrderInv, Exists
<1>4. InHandInv'
  BY <1>1 DEF DocumentInv, InHandInv, Provisioned, Recorded
<1>5. SettledMeansApplied'
  BY <1>1, <1>2 DEF DocumentInv, OrderInv, SettledMeansApplied, OnlyStatusUpdated, Exists
<1>6. ObservedInv(cr)' /\ ObservedInv(cache)' /\ ObservedInv(obj)'
  BY <1>1 DEF DocumentInv, ObservedInv
<1> QED
  BY <1>3, <1>4, <1>5, <1>6 DEF DocumentInv

\* The status a step writes, and what it leaves in hand.
LEMMA StatusWrite ==
  ASSUME TypeOK, OkStatusUpdate \/ NameTaken \/ Updated \/ Observe \/ Report
  PROVE  \E s \in PolicyStatuses :
           /\ Logged(WithStatus(s)) /\ Kept
           /\ s.og = obj.status.og \/ (s.og = obj.gen /\ pc = "observe")
           /\ s.state = "OK" => pc \in {"okStatus", "updated", "observe"}
           /\ \/ pc' = "idle" /\ obj' = Absent
              \/ /\ obj' = [obj EXCEPT !.status = s] /\ s.og = obj.status.og
                 /\ pc' \in {"observe", "update"} /\ (pc' = "observe" => pc = "okStatus")
<1> USE PolicyTypes
<1>1. /\ OkStatus(obj) \in PolicyStatuses /\ OkStatus(obj).og = obj.status.og
      /\ ErrorStatus(obj) \in PolicyStatuses /\ ErrorStatus(obj).og = obj.status.og
      /\ ErrorStatus(obj).state = "ERROR"
      /\ [obj.status EXCEPT !.og = obj.gen] \in PolicyStatuses
      /\ [obj.status EXCEPT !.og = obj.gen].og = obj.gen
  BY DEF Resources, PolicyStatuses, OkStatus, ErrorStatus
<1>2. CASE OkStatusUpdate
  <2> DEFINE s == OkStatus(obj)
  <2>1. [obj EXCEPT !.status = s].status = s
    BY DEF Resources
  <2>2. /\ Goto("observe", [obj EXCEPT !.status = s]) /\ Logged(WithStatus(s))
        /\ Kept /\ pc = "okStatus"
    BY <1>2, <2>1 DEF OkStatusUpdate
  <2> HIDE DEF s
  <2> QED
    BY <1>1, <2>2 DEF Goto, s
<1>3. CASE NameTaken
  <2> DEFINE s == ErrorStatus(obj)
  <2>1. [obj EXCEPT !.status = s].status = s
    BY DEF Resources
  <2>2. /\ Goto("update", [obj EXCEPT !.status = s]) /\ Logged(WithStatus(s))
        /\ Kept /\ pc = "nameTaken"
    BY <1>3, <2>1 DEF NameTaken
  <2> HIDE DEF s
  <2> QED
    BY <1>1, <2>2 DEF Goto, s
<1>4. CASE Updated
  <2>1. Logged(WithStatus(OkStatus(obj))) /\ pc = "updated" /\ pc' = "idle" /\ obj' = Absent /\ Kept
    BY <1>4 DEF Updated, Retry
  <2> QED
    BY <1>1, <2>1
<1>5. CASE Observe
  <2>1. /\ Logged(WithStatus([obj.status EXCEPT !.og = obj.gen])) /\ pc = "observe"
        /\ pc' = "idle" /\ obj' = Absent /\ Kept
    BY <1>5 DEF Observe, Return, Retry, Logged
  <2> QED
    BY <1>1, <2>1
<1>6. CASE Report
  <2>1. Logged(WithStatus(ErrorStatus(obj))) /\ pc' = "idle" /\ obj' = Absent /\ Kept
    BY <1>6 DEF Report, ReportError, Retry
  <2> QED
    BY <1>1, <2>1
<1> QED
  BY <1>2, <1>3, <1>4, <1>5, <1>6

\* A status is written: OK only with the document of the copy in hand in AWS, a
\* generation as observed only if it is the one in hand.
LEMMA StatusDocument ==
  ASSUME TypeOK, LifecycleInv, DocumentInv,
         OkStatusUpdate \/ NameTaken \/ Updated \/ Observe \/ Report
  PROVE  DocumentInv'
<1> USE DocumentTypes
<1>1. PICK s \in PolicyStatuses :
        /\ Logged(WithStatus(s)) /\ Kept
        /\ s.og = obj.status.og \/ (s.og = obj.gen /\ pc = "observe")
        /\ s.state = "OK" => pc \in {"okStatus", "updated", "observe"}
        /\ \/ pc' = "idle" /\ obj' = Absent
           \/ /\ obj' = [obj EXCEPT !.status = s] /\ s.og = obj.status.og
              /\ pc' \in {"observe", "update"} /\ (pc' = "observe" => pc = "okStatus")
  BY StatusWrite
<1>2. /\ WithStatus(s).uid = cr.uid /\ WithStatus(s).gen = cr.gen /\ WithStatus(s).rev = cr.rev
      /\ WithStatus(s).deleting = cr.deleting /\ WithStatus(s).status = s
  BY PolicyTypes DEF WithStatus, Resources
<1>3. /\ cr'.uid = cr.uid /\ cr'.gen = cr.gen /\ cr'.rev = cr.rev /\ cr'.deleting = cr.deleting
      /\ cr'.status = cr.status \/ (cr'.status = s /\ fresh)
      /\ cache' = cache /\ edits' = edits /\ iam' = iam
      /\ fresh' => fresh /\ pc' # "idle"
  BY <1>1, <1>2, Written, PolicyTypes DEF Kept
<1>4. fresh => /\ obj.uid = cr.uid /\ obj.gen = cr.gen /\ obj.rev = cr.rev
               /\ obj.deleting = cr.deleting
  BY DEF DocumentInv, InHandInv, LifecycleInv, RunInv, FreshInv
<1>5. s.og <= obj.gen /\ (obj.deleting => s.og < obj.gen)
  BY <1>1 DEF DocumentInv, ObservedInv, LifecycleInv, RunInv, StepInv, Holding, Provisioned,
              Recorded
<1>6. \/ pc' = "idle" /\ obj' = Absent
      \/ /\ obj'.uid = obj.uid /\ obj'.gen = obj.gen /\ obj'.rev = obj.rev
         /\ obj'.deleting = obj.deleting /\ obj'.status = s
         /\ pc' \in {"observe", "update"} /\ (pc' = "observe" => pc = "okStatus")
  BY <1>1, PolicyTypes DEF Resources
<1>7. s.state = "OK" => iam = obj.rev
  BY <1>1 DEF DocumentInv, InHandInv, Provisioned, Recorded
<1>8. OrderInv'
  BY <1>3, <1>6, AbsentFields DEF DocumentInv, OrderInv, Exists
<1>9. InHandInv'
  BY <1>3, <1>6 DEF DocumentInv, InHandInv, Provisioned, Recorded
<1>10. SettledMeansApplied'
  BY <1>3, <1>4, <1>7 DEF DocumentInv, SettledMeansApplied, OnlyStatusUpdated, Exists
<1>11. ObservedInv(cr)' /\ ObservedInv(cache)'
  BY <1>3, <1>4, <1>5 DEF DocumentInv, ObservedInv
<1>12. ObservedInv(obj)'
  BY <1>5, <1>6, DroppedCopy DEF ObservedInv
<1> QED
  BY <1>8, <1>9, <1>10, <1>11, <1>12 DEF DocumentInv

LEMMA DocumentInductive == Spec => [](TypeOK /\ RevInv /\ LifecycleInv /\ DocumentInv)
<1>1. Init => DocumentInv
  <2>1. SUFFICES ASSUME Init PROVE DocumentInv
    OBVIOUS
  <2>2. /\ cr = Absent /\ cache = Absent /\ obj = Absent /\ fresh = FALSE /\ pc = "idle"
        /\ edits = 0 /\ iam = NoObject
    BY <2>1 DEF Init, BaseInit, IamInit
  <2>3. NoObject = 0
    BY PolicyAssumption
  <2>4. OrderInv /\ InHandInv /\ SettledMeansApplied
    BY <2>2, <2>3, DroppedCopy
       DEF OrderInv, InHandInv, SettledMeansApplied, Provisioned, Recorded
  <2> QED
    BY <2>2, <2>4, DroppedCopy DEF DocumentInv
<1>2. TypeOK /\ RevInv /\ LifecycleInv /\ DocumentInv /\ [Next]_vars => DocumentInv'
  <2>1. SUFFICES ASSUME TypeOK, RevInv, LifecycleInv, DocumentInv, [Next]_vars
                 PROVE  DocumentInv'
    OBVIOUS
  <2>2. CASE SyncPolicy \/ RestartOperator \/ Attachments \/ NotFound \/ Skip \/ Start
             \/ IamServiceError \/ UNCHANGED vars
    <3>1. UNCHANGED <<cr, edits, iam>>
      BY <2>2 DEF SyncPolicy, Sync, RestartOperator, Restart, Attachments, NotFound, Skip,
                  LoadAndReturn, Start, Load, IamServiceError, NoWrite, Kept, vars, base
    <3> QED
      BY <2>1, <2>2, <3>1, CopiedDocument
  <2> QED
    BY <2>1, <2>2, UserDocument, FinalizerDocument, DeleteDocument, WriteDocument, StatusDocument
       DEF Next, Reconcile
<1> QED
  BY <1>1, <1>2, Inductive, PTL DEF Spec

\* A Policy that Reconcile would skip has its document in AWS, after any number of
\* edits, faults and restarts, and although runs work on copies of any age.
THEOREM SettledIsApplied == Spec => []SettledMeansApplied
<1>1. DocumentInv => SettledMeansApplied
  BY DEF DocumentInv
<1> QED
  BY <1>1, DocumentInductive, PTL

\* No run puts the document of an earlier edit in the place of a later one.
THEOREM NoRollback == Spec => NeverRolledBack
<1>1. TypeOK /\ RevInv /\ LifecycleInv /\ DocumentInv /\ [Next]_vars
        => [iam # NoObject /\ iam' # NoObject => iam' >= iam]_iam
  <2>1. SUFFICES ASSUME TypeOK, LifecycleInv, DocumentInv, [Next]_vars, iam # NoObject,
                        iam' # NoObject, iam' # iam
                 PROVE  iam' >= iam
    BY DocumentTypes
  <2>2. CreatePolicy \/ UpdatePolicy
    BY <2>1 DEF Next, User, SyncPolicy, RestartOperator, Attachments, Reconcile, NotFound, Skip,
           Start, IamServiceError, AddFinalizer, CleanupPolicy, Cleanup, DeletePolicy, Delete,
           RemoveFinalizer, OkStatusUpdate, NameTaken, Updated, Observe, Report, Kept, vars
  <2>3. iam' = obj.rev /\ pc # "idle"
    BY <2>1, <2>2 DEF CreatePolicy, CreateAWSObject, UpdatePolicy, UpdateAWSObject
  <2>4. Exists(obj)
    BY <2>1, <2>3 DEF LifecycleInv, RunInv, StepInv
  <2> QED
    BY <2>1, <2>3, <2>4 DEF DocumentInv, OrderInv
<1> QED
  BY <1>1, DocumentInductive, PTL DEF Spec, NeverRolledBack
-----------------------------------------------------------------------------
(* What is left to do. *)

\* A generation is noted with OK, so the run that notes it has settled the Policy.
RequestInv ==
  /\ Quiet /\ Exists(cr) => OnlyStatusUpdated(cr)
  /\ pc = "observe" => obj.status.state = "OK"

LEMMA StepRequest ==
  ASSUME TypeOK, LifecycleInv, DocumentInv, RequestInv, [Next]_vars
  PROVE  RequestInv'
<1>1. CASE User \/ SyncPolicy \/ RestartOperator
  <2>1. (pc' = pc /\ obj' = obj) \/ pc' = "idle"
    BY <1>1 DEF User, UserStep, UserCreate, UserEdit, UserDelete, SyncPolicy, Sync,
                RestartOperator, Restart
  <2>2. Quiet' => ~Exists(cr')
    BY <1>1, Busy, RestartBusy DEF User, SyncPolicy, RestartOperator
  <2> QED
    BY <2>1, <2>2 DEF RequestInv
<1>2. CASE Attachments \/ UNCHANGED vars
  <2>1. UNCHANGED <<cr, cacheFresh, pc, queued, obj>>
    BY <1>2 DEF Attachments, vars, base
  <2> QED
    BY <2>1, StillQuiet DEF RequestInv, OnlyStatusUpdated
<1>3. CASE NotFound \/ Skip
  <2>1. LoadAndReturn /\ pc' = "idle" /\ (~Exists(cache) \/ NothingToDo(cache))
    BY <1>3 DEF NotFound, Skip, Dequeue, LoadAndReturn
  <2>2. Quiet' /\ Exists(cr') => NothingToDo(cr') /\ (cr'.deleting => cr'.fin)
    BY <2>1, SkipQuiet DEF LifecycleInv, CacheInv, StoredInv
  <2> QED
    BY <2>1, <2>2 DEF RequestInv, NothingToDo
<1>4. CASE \/ Start \/ IamServiceError \/ AddFinalizer \/ CleanupPolicy \/ DeletePolicy
           \/ CreatePolicy \/ NameTaken \/ UpdatePolicy \/ Updated \/ Report
  <2>1. Retry \/ pc' \notin {"idle", "observe"}
    BY <1>4 DEF Start, Load, FirstStep, IamServiceError, AddFinalizer, CleanupPolicy, Cleanup,
       DeletePolicy, Delete, AfterDelete, CreatePolicy, CreateAWSObject, NameTaken, UpdatePolicy,
       UpdateAWSObject, Updated, Report, ReportError, Goto
  <2>2. pc' # "observe"
    BY <2>1 DEF Retry
  <2> QED
    BY <2>1, <2>2, Busy DEF RequestInv
<1>5. CASE RemoveFinalizer
  <2>1. pc' = "idle" /\ (Retry \/ cr' = Absent)
    BY <1>5 DEF RemoveFinalizer, Return, Retry, Accepted, Stored
  <2> QED
    BY <2>1, Busy, DroppedCopy DEF RequestInv
<1>6. CASE OkStatusUpdate
  <2>1. pc' = "observe" /\ obj' = [obj EXCEPT !.status = OkStatus(obj)]
    BY <1>6 DEF OkStatusUpdate, Goto
  <2>2. obj'.status.state = "OK"
    BY <2>1, PolicyTypes DEF OkStatus, Resources, PolicyStatuses
  <2> QED
    BY <2>1, <2>2, Busy DEF RequestInv
<1>7. CASE Observe
  <2> DEFINE s == [obj.status EXCEPT !.og = obj.gen]
  <2>1. pc = "observe" /\ pc' = "idle" /\ (Retry \/ (fresh /\ cr' = WithStatus(s)))
    BY <1>7 DEF Observe, Return, Retry, Accepted, Stored
  <2>2. s.og = obj.gen /\ s.state = "OK"
    BY <2>1, PolicyTypes DEF RequestInv, Resources, PolicyStatuses
  <2>3. WithStatus(s).status = s /\ WithStatus(s).gen = cr.gen
    BY PolicyTypes DEF WithStatus, Resources
  <2>4. fresh => obj.gen = cr.gen
    BY DEF DocumentInv, InHandInv
  <2> HIDE DEF s
  <2> QED
    BY <2>1, <2>2, <2>3, <2>4, Busy DEF RequestInv, OnlyStatusUpdated
<1> QED
  BY <1>1, <1>2, <1>3, <1>4, <1>5, <1>6, <1>7 DEF Next, Reconcile

\* No request that would have finished the work on a Policy gets lost, whatever
\* fails and however the writes of users and of runs interleave.
THEOREM QuietIsApplied == Spec => []QuietMeansApplied
<1>1. Init => RequestInv
  BY DroppedCopy DEF Init, BaseInit, RequestInv
<1>2. RequestInv /\ DocumentInv /\ TypeOK => QuietMeansApplied
  <2>1. SUFFICES ASSUME RequestInv, DocumentInv, TypeOK, Quiet, Exists(cr)
                 PROVE  ~cr.deleting /\ OnlyStatusUpdated(cr) /\ iam = cr.rev
    BY DEF QuietMeansApplied
  <2>2. OnlyStatusUpdated(cr)
    BY <2>1 DEF RequestInv
  <2> QED
    BY <2>1, <2>2, DocumentTypes
       DEF DocumentInv, SettledMeansApplied, ObservedInv, OnlyStatusUpdated
<1>3. TypeOK /\ LifecycleInv /\ DocumentInv /\ RequestInv /\ [Next]_vars => RequestInv'
  BY StepRequest
<1> QED
  BY <1>1, <1>2, <1>3, DocumentInductive, PTL DEF Spec
==============================================================================
