------------------------- MODULE RoleController_proofs -------------------------
(***************************************************************************)
(* Theorems about RoleController, for all specs, bounds, kinds of failure  *)
(* and answers of AWS: its types, the lifecycle of its IAM role, and that  *)
(* seen from outside it behaves as CloudResource says.                     *)
(***************************************************************************)
EXTENDS RoleController, IamObject_proofs

Objects == [rev : Nat, doc : 0 .. MaxEdits]

-----------------------------------------------------------------------------
(* Types. *)

\* What the constants are.
LEMMA RoleConstants ==
  /\ NoStatus \in RoleStatuses /\ NoStatus.arn = FALSE
  /\ \A t \in RoleStatuses : t.arn \in BOOLEAN
  /\ 0 \in 0 .. MaxEdits /\ 0 \in 0 .. MaxFaults
<1>1. NoStatus = [state |-> "", arn |-> FALSE, og |-> 0, readVer |-> 0]
  BY RoleAssumption
<1>2. NoStatus \in RoleStatuses /\ NoStatus.arn = FALSE
  BY <1>1 DEF RoleStatuses
<1>3. \A t \in RoleStatuses : t.arn \in BOOLEAN
  BY DEF RoleStatuses
<1>4. 0 \in 0 .. MaxEdits /\ 0 \in 0 .. MaxFaults
  BY BoundsAssumption
<1> QED
  BY <1>2, <1>3, <1>4

\* The statuses Reconcile makes of one.
LEMMA RoleStatusTypes ==
  ASSUME NEW o \in Resources(RoleStatuses), NEW v \in Nat
  PROVE  /\ OkStatus(o) \in RoleStatuses /\ OkStatus(o).arn = TRUE
         /\ ErrorStatus(o) \in RoleStatuses /\ ErrorStatus(o).arn = o.status.arn
         /\ Observed(o) \in RoleStatuses /\ Observed(o).arn = o.status.arn
         /\ [o.status EXCEPT !.readVer = v] \in RoleStatuses
         /\ [o.status EXCEPT !.readVer = v].arn = o.status.arn
BY DEF Resources, RoleStatuses, OkStatus, ErrorStatus, Observed

LEMMA InitType == Init => TypeOK
<1>1. SUFFICES ASSUME Init PROVE TypeOK
  OBVIOUS
<1>2. BaseTypeOK(RoleStatuses, RoleSteps)
  BY <1>1, RoleConstants, AbsentType DEF Init, BaseInit, BaseTypeOK
<1> QED
  BY <1>1, <1>2, RoleConstants DEF Init, TypeOK, IamInit, IamTypeOK

\* The surroundings keep the types.
LEMMA SurroundingsType ==
  ASSUME TypeOK,
         \/ User \/ SyncRole \/ RestartOperator \/ TimerFires \/ WriteArp \/ DeleteArp
         \/ SyncArp \/ RoleAttachments \/ CollectServiceAccount
  PROVE  TypeOK'
<1>1. CASE User
  BY <1>1, UserType, RoleConstants DEF User, TypeOK, local, arpVars, IamTypeOK, attVars
<1>2. CASE SyncRole
  BY <1>2, SyncType, RoleConstants DEF SyncRole, TypeOK, local, arpVars, IamTypeOK, attVars
<1>3. CASE RestartOperator
  BY <1>3, SyncType, RoleConstants DEF RestartOperator, TypeOK, IamTypeOK, attVars
<1>4. CASE TimerFires
  BY <1>4 DEF TimerFires, TypeOK, BaseTypeOK, arpVars, IamTypeOK, attVars
<1>5. CASE WriteArp
  <2>1. edits + 1 \in 0 .. MaxEdits
    BY <1>5, BoundsAssumption DEF WriteArp, Edit, TypeOK, BaseTypeOK
  <2> QED
    BY <1>5, <2>1 DEF WriteArp, Edit, TypeOK, BaseTypeOK, local, IamTypeOK, attVars
<1>6. CASE DeleteArp \/ SyncArp
  BY <1>6, RoleConstants
     DEF DeleteArp, SyncArp, TypeOK, base, BaseTypeOK, local, IamTypeOK, attVars
<1>7. CASE RoleAttachments
  <2>1. UNCHANGED <<base, iam, local, arpVars, sa>> /\ refs' \in BOOLEAN /\ bound' \in BOOLEAN
    BY <1>7 DEF RoleAttachments, Attachments, TypeOK, IamTypeOK
  <2> QED
    BY <2>1 DEF TypeOK, base, BaseTypeOK, local, arpVars, IamTypeOK
<1>8. CASE CollectServiceAccount
  BY <1>8 DEF CollectServiceAccount, TypeOK, base, BaseTypeOK, local, arpVars, IamTypeOK, attVars
<1> QED
  BY <1>1, <1>2, <1>3, <1>4, <1>5, <1>6, <1>7, <1>8

\* The copy of Start, and its step.
LEMMA Started ==
  ASSUME TypeOK, Start
  PROVE  \E o \in Resources(RoleStatuses), p \in RoleSteps :
           /\ Load(o, p) /\ (UNCHANGED faults \/ Fault) /\ Exists(cache)
           /\ o.uid = cache.uid /\ o.rev = cache.rev /\ o.fin = cache.fin
           /\ o.deleting = cache.deleting /\ o.status.arn = cache.status.arn
           /\ p \in {"errWithStatus", "addFinalizer", "cleanup", "create"}
           /\ p = "addFinalizer" => ~o.fin /\ ~o.deleting
           /\ p = "cleanup" => o.fin
           /\ p = "create" => o.fin /\ ~o.deleting
           /\ resVer' \in 0 .. MaxEdits
<1> DEFINE s == [cache.status EXCEPT !.readVer = resVer']
           o == [cache EXCEPT !.status.readVer = resVer']
<1>1. resVer' \in 0 .. MaxEdits /\ resVer' \in Nat
  BY RoleConstants, BoundsAssumption DEF Start, ResourceVersion, TypeOK
<1>2. cache \in Resources(RoleStatuses)
  BY DEF TypeOK, BaseTypeOK
<1>3. s \in RoleStatuses /\ s.arn = cache.status.arn
  BY <1>1, <1>2, RoleStatusTypes
<1>4. o = [cache EXCEPT !.status = s]
  BY <1>2 DEF Resources
<1>5. /\ o \in Resources(RoleStatuses)
      /\ o.uid = cache.uid /\ o.rev = cache.rev /\ o.fin = cache.fin
      /\ o.deleting = cache.deleting /\ o.status.arn = cache.status.arn
  BY <1>2, <1>3, <1>4, UpdatedType DEF Resources
<1> HIDE DEF o, s
<1>6. PICK p \in {FirstStep(o), "errWithStatus"} : Load(o, p) /\ (UNCHANGED faults \/ Fault)
  BY DEF Start, o
<1>7. Exists(cache) /\ (o.deleting => o.fin)
  BY <1>5 DEF Start, NothingToDo
<1>8. /\ p \in {"errWithStatus", "addFinalizer", "cleanup", "create"}
      /\ p = "addFinalizer" => ~o.fin /\ ~o.deleting
      /\ p = "cleanup" => o.fin
      /\ p = "create" => o.fin /\ ~o.deleting
  BY <1>6, <1>7 DEF FirstStep, AfterFinalizer
<1> QED
  BY <1>1, <1>5, <1>6, <1>7, <1>8 DEF RoleSteps

\* The copy that goes on from AddFinalizer, and its step.
LEMMA FinalizerAdded ==
  ASSUME TypeOK, AddFinalizer
  PROVE  \/ \E o \in Resources(RoleStatuses), p \in {"cleanup", "create"} :
              /\ Continue(p, o) /\ Accepted([cr EXCEPT !.fin = TRUE])
              /\ o.uid = obj.uid /\ o.rev = obj.rev /\ o.deleting = obj.deleting
              /\ o.fin = TRUE /\ o.status \in {obj.status, cr.status}
         \/ Fails /\ Refused([cr EXCEPT !.fin = TRUE])
<1> DEFINE o == [Answer(obj) EXCEPT !.fin = TRUE]
<1>1. obj \in Resources(RoleStatuses) /\ cr \in Resources(RoleStatuses)
  BY DEF TypeOK, BaseTypeOK
<1>2. /\ o \in Resources(RoleStatuses)
      /\ o.uid = obj.uid /\ o.rev = obj.rev /\ o.deleting = obj.deleting
      /\ o.fin = TRUE /\ o.status \in {obj.status, cr.status}
  BY <1>1 DEF Answer, Resources
<1> HIDE DEF o
<1>3. AfterFinalizer(o) \in {"cleanup", "create"}
  BY DEF AfterFinalizer
<1> QED
  BY <1>2, <1>3 DEF AddFinalizer, o

\* Reconcile keeps the types.
LEMMA ReconcileType ==
  ASSUME TypeOK, Reconcile
  PROVE  TypeOK'
<1> USE DEF RoleSteps
<1>1. /\ obj \in Resources(RoleStatuses) /\ cr \in Resources(RoleStatuses)
      /\ cache \in Resources(RoleStatuses) /\ Absent \in Resources(RoleStatuses)
      /\ queued \in BOOLEAN /\ BaseTypeOK(RoleStatuses, RoleSteps) /\ resVer \in 0 .. MaxEdits
      /\ IamTypeOK(Objects)
  BY AbsentType, RoleConstants DEF TypeOK, BaseTypeOK, Objects
<1>2. ASSUME BaseTypeOK(RoleStatuses, RoleSteps)', Outside, UNCHANGED iam, sa' \in Nat,
             timer' \in BOOLEAN, resVer' \in 0 .. MaxEdits
      PROVE  TypeOK'
  BY <1>2 DEF TypeOK, Outside, arpVars, attVars, IamTypeOK
<1>3. CASE NotFound
  BY <1>3 DEF NotFound, LoadAndReturn, TypeOK, BaseTypeOK, Outside, arpVars, attVars, local, IamTypeOK
<1>4. CASE PolicyDocError
  <2>1. BaseTypeOK(RoleStatuses, RoleSteps)'
    BY <1>1, <1>4, LoadType DEF PolicyDocError
  <2> QED
    BY <1>2, <1>4, <2>1 DEF PolicyDocError, local, TypeOK
<1>5. CASE Skip
  BY <1>5 DEF Skip, LoadAndReturn, TypeOK, BaseTypeOK, Outside, arpVars, attVars, IamTypeOK
<1>6. CASE Start
  <2>1. BaseTypeOK(RoleStatuses, RoleSteps)' /\ resVer' \in 0 .. MaxEdits
    BY <1>1, <1>6, LoadType, Started
  <2> QED
    BY <1>2, <1>6, <2>1 DEF Start, TypeOK
<1>7. CASE AddFinalizer
  <2>1. [cr EXCEPT !.fin = TRUE] \in Resources(RoleStatuses)
    BY <1>1 DEF Resources
  <2>2. /\ Logged([cr EXCEPT !.fin = TRUE]) /\ obj' \in Resources(RoleStatuses)
        /\ pc' \in RoleSteps \union {"idle"} /\ queued' \in BOOLEAN
        /\ timer' \in BOOLEAN /\ resVer' \in 0 .. MaxEdits
    BY <1>1, <1>7, FinalizerAdded, RoleConstants
       DEF Logged, Continue, Goto, Fails, Retry, local, TypeOK
  <2>3. BaseTypeOK(RoleStatuses, RoleSteps)'
    BY <1>1, <2>1, <2>2, WriteType
  <2> QED
    BY <1>2, <1>7, <2>2, <2>3 DEF AddFinalizer, TypeOK
<1>8. CASE CleanupRole \/ DeleteRole
  <2>1. BaseTypeOK(RoleStatuses, RoleSteps)' /\ IamTypeOK(Objects)'
    BY <1>1, <1>8, DeprovisionType DEF CleanupRole, DeleteRole
  <2> QED
    BY <1>8, <2>1 DEF CleanupRole, DeleteRole, local, arpVars, TypeOK, Objects
<1>9. CASE RemoveFinalizer
  <2>1. /\ Logged(Absent) /\ obj' = Absent /\ pc' = "idle" /\ queued' \in BOOLEAN
        /\ timer' \in BOOLEAN /\ resVer' = 0
    BY <1>1, <1>9 DEF RemoveFinalizer, Logged, Finishes, Fails, Return, Retry, TypeOK
  <2>2. BaseTypeOK(RoleStatuses, RoleSteps)'
    BY <1>1, <2>1, WriteType
  <2> QED
    BY <1>2, <1>9, <2>1, <2>2, RoleConstants DEF RemoveFinalizer, TypeOK
<1>10. CASE CreateRole
  <2>1. Wanted(obj, resVer) \in Objects
    BY <1>1 DEF Wanted, Objects, Resources
  <2>2. BaseTypeOK(RoleStatuses, RoleSteps)' /\ IamTypeOK(Objects)'
    BY <1>1, <1>10, <2>1, ProvisionType DEF CreateRole
  <2> QED
    BY <1>10, <2>2 DEF CreateRole, local, arpVars, TypeOK, Objects
<1>11. CASE OkStatusUpdate
  <2> DEFINE s == OkStatus(obj)
             o == [obj EXCEPT !.status = s]
  <2>1. s \in RoleStatuses /\ o \in Resources(RoleStatuses) /\ o.status = s
    BY <1>1, RoleStatusTypes, UpdatedType DEF Resources
  <2> HIDE DEF s
  <2>2. AfterOkStatus(o) \in RoleSteps
    BY DEF AfterOkStatus
  <2>3. Continue(AfterOkStatus(o), o) /\ Logged(WithStatus(s))
    BY <1>11, <2>1 DEF OkStatusUpdate, s
  <2> HIDE DEF o
  <2>4. WithStatus(s) \in Resources(RoleStatuses)
    BY <1>1, <2>1, UpdatedType DEF WithStatus
  <2>5. BaseTypeOK(RoleStatuses, RoleSteps)'
    BY <1>1, <2>1, <2>2, <2>3, <2>4, WriteType DEF Continue, Goto
  <2> QED
    BY <1>2, <1>11, <2>3, <2>5 DEF OkStatusUpdate, Continue, local, TypeOK
<1>12. CASE CreateServiceAccount
  <2>1. /\ NoWrite /\ pc' \in RoleSteps \union {"idle"} /\ obj' \in {obj, Absent}
        /\ queued' \in BOOLEAN /\ (UNCHANGED faults \/ Fault)
        /\ timer' \in BOOLEAN /\ resVer' \in 0 .. MaxEdits /\ sa' \in {sa, obj.uid}
    BY <1>1, <1>12, RoleConstants
       DEF CreateServiceAccount, Continue, Goto, local, Fails, Retry, TypeOK
  <2>2. BaseTypeOK(RoleStatuses, RoleSteps)'
    BY <1>1, <2>1, NoWriteType
  <2>3. sa' \in Nat
    BY <1>1, <2>1, CopyTypes DEF TypeOK
  <2> QED
    BY <1>2, <1>12, <2>1, <2>2, <2>3 DEF CreateServiceAccount
<1>13. CASE Observe
  <2>1. WithStatus(Observed(obj)) \in Resources(RoleStatuses)
    BY <1>1, RoleStatusTypes, UpdatedType DEF WithStatus
  <2>2. /\ Logged(WithStatus(Observed(obj))) /\ obj' = Absent /\ pc' = "idle"
        /\ queued' \in BOOLEAN /\ timer' \in BOOLEAN /\ resVer' = 0
    BY <1>1, <1>13 DEF Observe, Logged, Finishes, Fails, Return, Retry, TypeOK
  <2>3. BaseTypeOK(RoleStatuses, RoleSteps)'
    BY <1>1, <2>1, <2>2, WriteType
  <2> QED
    BY <1>2, <1>13, <2>2, <2>3, RoleConstants DEF Observe, TypeOK
<1>14. CASE Report
  <2>1. BaseTypeOK(RoleStatuses, RoleSteps)'
    BY <1>1, <1>14, ReportType, RoleStatusTypes, RoleConstants DEF Report
  <2> QED
    BY <1>2, <1>14, <2>1, RoleConstants DEF Report, TypeOK
<1> QED
  BY <1>3, <1>4, <1>5, <1>6, <1>7, <1>8, <1>9, <1>10, <1>11, <1>12, <1>13, <1>14
     DEF Reconcile

LEMMA StepType == TypeOK /\ [Next]_vars => TypeOK'
<1>1. ASSUME TypeOK, Next
      PROVE  TypeOK'
  BY <1>1, SurroundingsType, ReconcileType DEF Next
<1>2. ASSUME TypeOK, UNCHANGED vars
      PROVE  TypeOK'
  BY <1>2 DEF TypeOK, vars, base, local, arpVars, attVars, BaseTypeOK, IamTypeOK
<1> QED
  BY <1>1, <1>2

\* Every variable keeps its type, the CR, its copies and its statuses included.
THEOREM TypeCorrect == Spec => []TypeOK
  BY InitType, StepType, PTL DEF Spec

-----------------------------------------------------------------------------
(* The lifecycle.  LifecycleInv is what every step needs to know of the     *)
(* copies of the CR; it is inductive together with the types.               *)

LEMMA InitLifecycle == Init => LifecycleInv
<1>1. SUFFICES ASSUME Init PROVE LifecycleInv
  OBVIOUS
<1>2. /\ cr = Absent /\ cache = Absent /\ obj = Absent /\ fresh = FALSE /\ pc = "idle"
      /\ edits = 0 /\ iam = NoObject
  BY <1>1 DEF Init, BaseInit, IamInit
<1>3. Absent.uid = 0 /\ Absent.fin = FALSE /\ Absent.deleting = FALSE
      /\ Absent.status.arn = FALSE
  BY RoleConstants DEF Absent
<1> QED
  BY <1>2, <1>3 DEF LifecycleInv, StoredInv, CacheInv, RunInv, CopyInv, ArnInv, AheadInv,
     FreshInv, StepInv, Exists, Holding, Provisioned, Recorded

\* What the lemmas of IamObject_proofs ask of a state of RoleController.
LEMMA RoleTypes ==
  ASSUME TypeOK
  PROVE  /\ BaseTypeOK(RoleStatuses, RoleSteps)
         /\ obj \in Resources(RoleStatuses) /\ cr \in Resources(RoleStatuses)
         /\ cr.uid \in Nat /\ cache.uid \in Nat /\ obj.uid \in Nat /\ edits \in Nat
         /\ obj.status.arn \in BOOLEAN
<1>1. BaseTypeOK(RoleStatuses, RoleSteps)
  BY DEF TypeOK
<1> QED
  BY <1>1, CopyTypes, RoleConstants DEF BaseTypeOK, Resources

LEMMA SurroundingsLifecycle ==
  ASSUME TypeOK, LifecycleInv,
         \/ User \/ SyncRole \/ RestartOperator \/ TimerFires \/ WriteArp \/ DeleteArp
         \/ SyncArp \/ RoleAttachments \/ CollectServiceAccount
  PROVE  LifecycleInv' /\ LifecycleStep
<1>1. CASE User
  <2>1. UserStep /\ UNCHANGED iam
    BY <1>1 DEF User
  <2>2. LifecycleInv'
    BY <2>1, RoleTypes, RoleConstants, CreateLifecycle, EditLifecycle, DeleteLifecycle
       DEF UserStep
  <2> QED
    BY <2>1, <2>2, RoleTypes, RoleConstants, UserRefines
<1>2. CASE SyncRole
  BY <1>2, RoleTypes, RoleConstants, SyncLifecycle, QuietStep DEF SyncRole, Sync
<1>3. CASE RestartOperator
  BY <1>3, RoleTypes, RoleConstants, RestartLifecycle, QuietStep DEF RestartOperator, Restart
<1>4. CASE TimerFires \/ WriteArp \/ DeleteArp \/ SyncArp \/ RoleAttachments
           \/ CollectServiceAccount
  <2>1. /\ UNCHANGED <<cr, cache, cacheFresh, obj, fresh, pc, iam>>
        /\ edits' \in {edits, edits + 1}
    BY <1>4 DEF TimerFires, WriteArp, Edit, DeleteArp, SyncArp, RoleAttachments, Attachments,
                CollectServiceAccount, base
  <2> QED
    BY <2>1, RoleTypes, QuietLifecycle, QuietStep
<1> QED
  BY <1>1, <1>2, <1>3, <1>4

LEMMA ReconcileLifecycle ==
  ASSUME TypeOK, LifecycleInv, Reconcile
  PROVE  LifecycleInv' /\ LifecycleStep
<1>1. CASE NotFound \/ Skip
  BY <1>1, RoleTypes, QuietLifecycle, QuietStep DEF NotFound, Skip, LoadAndReturn
<1>2. CASE PolicyDocError
  <2>1. Load(cache, "errWithStatus") /\ Exists(cache) /\ UNCHANGED iam
    BY <1>2 DEF PolicyDocError
  <2>2. LifecycleInv'
    BY <2>1, RoleTypes, LoadLifecycle
  <2> QED
    BY <2>1, <2>2, QuietStep DEF Load
<1>3. CASE Start
  <2>1. UNCHANGED iam
    BY <1>3 DEF Start
  <2>2. PICK o \in Resources(RoleStatuses), p \in RoleSteps :
           /\ Load(o, p) /\ Exists(cache)
           /\ o.uid = cache.uid /\ o.rev = cache.rev /\ o.fin = cache.fin
           /\ o.deleting = cache.deleting /\ o.status.arn = cache.status.arn
           /\ p \in {"errWithStatus", "addFinalizer", "cleanup", "create"}
           /\ p = "addFinalizer" => ~o.fin /\ ~o.deleting
           /\ p = "cleanup" => o.fin
           /\ p = "create" => o.fin /\ ~o.deleting
    BY <1>3, Started
  <2>3. LifecycleInv'
    BY <2>1, <2>2, RoleTypes, LoadLifecycle
  <2> QED
    BY <2>1, <2>2, <2>3, QuietStep DEF Load
<1>4. CASE AddFinalizer
  <2>1. pc = "addFinalizer" /\ UNCHANGED iam
    BY <1>4 DEF AddFinalizer
  <2>2. Logged([cr EXCEPT !.fin = TRUE])
    BY <1>4, FinalizerAdded DEF Logged
  <2>3. LifecycleStep
    BY <2>1, <2>2, RoleTypes, FinalizerRefines
  <2>4. ASSUME NEW o \in Resources(RoleStatuses), NEW p \in {"cleanup", "create"},
               Continue(p, o), Accepted([cr EXCEPT !.fin = TRUE]),
               o.uid = obj.uid, o.rev = obj.rev, o.deleting = obj.deleting,
               o.fin = TRUE, o.status \in {obj.status, cr.status}
        PROVE  LifecycleInv'
    BY <2>1, <2>4, RoleTypes, FinalizerLifecycle DEF Continue
  <2>5. CASE Fails
    <3>1. StoredInv' /\ CacheInv'
      BY <2>1, <2>2, RoleTypes, FinalizerStored
    <3>2. pc' = "idle" /\ obj' = Absent /\ fresh' = FALSE /\ edits' \in Nat
      BY <2>2, <2>5, RoleTypes, Written DEF Fails, Retry
    <3>3. RunInv'
      BY <3>2, RoleConstants, ReturnedRun
    <3> QED
      BY <2>3, <3>1, <3>3 DEF LifecycleInv
  <2> QED
    BY <1>4, <2>3, <2>4, <2>5, FinalizerAdded
<1>5. CASE CleanupRole
  <2>1. Cleanup
    BY <1>5 DEF CleanupRole
  <2> QED
    BY <2>1, RoleTypes, CleanupLifecycle, QuietStep DEF Cleanup, NoWrite
<1>6. CASE DeleteRole
  <2>1. Delete
    BY <1>6 DEF DeleteRole
  <2>2. UNCHANGED cr /\ (iam' = iam \/ (pc = "delete" /\ iam' = NoObject /\ obj.status.arn))
    BY <2>1 DEF Delete, NoWrite
  <2> QED
    BY <2>1, <2>2, RoleTypes, RoleConstants, DeprovisionLifecycle, AwsRefines
<1>7. CASE RemoveFinalizer
  <2>1. /\ pc = "removeFinalizer" /\ Logged(Absent) /\ UNCHANGED iam
        /\ pc' = "idle" /\ obj' = Absent
    BY <1>7 DEF RemoveFinalizer, Logged, Finishes, Fails, Return, Retry
  <2> QED
    BY <2>1, RoleTypes, RoleConstants, ReleaseLifecycle, ReleaseRefines
<1>8. CASE CreateRole
  <2>1. pc = "create" /\ CreateAWSObject(Wanted(obj, resVer), "errorStatus")
    BY <1>8 DEF CreateRole
  <2>2. obj.rev # 0
    BY <2>1 DEF LifecycleInv, RunInv, StepInv, CopyInv
  <2>3. Wanted(obj, resVer) # NoObject
    BY <2>2, RoleAssumption DEF Wanted
  <2>4. UNCHANGED cr /\ (iam' = iam \/ (iam = NoObject /\ iam' # NoObject))
    BY <2>1, <2>3 DEF CreateAWSObject, NoWrite
  <2> QED
    BY <2>1, <2>3, <2>4, RoleTypes, RoleConstants, ProvisionLifecycle, AwsRefines
<1>9. CASE OkStatusUpdate
  <2> DEFINE s == OkStatus(obj)
  <2>1. s.arn = TRUE /\ [obj EXCEPT !.status = s].spec = obj.spec
    BY RoleTypes, RoleStatusTypes DEF Resources
  <2> HIDE DEF s
  <2>2. PICK p \in Recorded : Goto(p, [obj EXCEPT !.status = s])
    BY <1>9 DEF OkStatusUpdate, Continue, AfterOkStatus, Recorded, s
  <2>3. Logged(WithStatus(s)) /\ UNCHANGED iam /\ pc = "okStatus"
    <3>1. [obj EXCEPT !.status = s].status = s
      BY RoleTypes DEF Resources
    <3> QED
      BY <1>9, <3>1 DEF OkStatusUpdate, s
  <2>4. pc \in Provisioned /\ pc \in Holding \ Recorded /\ p \in Holding /\ iam # NoObject
    BY <2>3 DEF Holding, Provisioned, Recorded, LifecycleInv, RunInv, StepInv
  <2>5. LifecycleInv'
    BY <2>1, <2>2, <2>3, <2>4, RoleTypes, StatusLifecycle
  <2> QED
    BY <2>1, <2>3, <2>4, <2>5, RoleTypes, RoleConstants, StatusRefines
<1>10. CASE CreateServiceAccount
  <2>1. pc = "serviceAccount" /\ NoWrite /\ UNCHANGED iam
    BY <1>10 DEF CreateServiceAccount
  <2>2. CASE Continue("observe", obj)
    BY <2>1, <2>2, RoleTypes, OtherCallLifecycle, QuietStep DEF Continue, NoWrite, Recorded
  <2>3. CASE Fails
    BY <2>1, <2>3, RoleTypes, RoleConstants, AbandonedRun, QuietStep DEF Fails, Retry, NoWrite
  <2> QED
    BY <1>10, <2>2, <2>3 DEF CreateServiceAccount
<1>11. CASE Observe
  <2> DEFINE s == Observed(obj)
  <2>1. /\ pc = "observe" /\ Logged(WithStatus(s)) /\ UNCHANGED iam
        /\ pc' = "idle" /\ obj' = Absent
    BY <1>11 DEF Observe, Logged, Finishes, Fails, Return, Retry
  <2>2. pc \in Recorded /\ pc \in Provisioned /\ pc \in Holding
    BY <2>1 DEF Recorded, Provisioned, Holding
  <2>3. s.arn = TRUE /\ (fresh => cr.fin)
    BY <2>2, RoleTypes, RoleStatusTypes DEF LifecycleInv, RunInv, StepInv, FreshInv
  <2> HIDE DEF s
  <2>4. StoredInv' /\ CacheInv'
    BY <2>1, <2>3, RoleTypes, StatusStored
  <2>5. fresh' = FALSE /\ edits' \in Nat
    BY <2>1, RoleTypes, StatusWritten
  <2>6. LifecycleInv'
    BY <2>1, <2>4, <2>5, RoleConstants, ReturnedRun DEF LifecycleInv
  <2> QED
    BY <2>1, <2>2, <2>3, <2>6, RoleTypes, RoleConstants, StatusRefines
<1>12. CASE Report
  <2> DEFINE s == ErrorStatus(obj)
  <2>1. ReportError /\ UNCHANGED iam /\ Logged(WithStatus(s))
    BY <1>12 DEF Report, ReportError
  <2>2. s.arn = obj.status.arn /\ s.arn \in BOOLEAN
    BY RoleTypes, RoleStatusTypes
  <2>3. pc \notin Recorded
    BY <2>1 DEF ReportError, Recorded
  <2>4. LifecycleInv'
    BY <2>1, <2>2, RoleTypes, RoleConstants, ReportLifecycle
  <2> HIDE DEF s
  <2> QED
    BY <2>1, <2>2, <2>3, <2>4, RoleTypes, RoleConstants, StatusRefines
<1> QED
  BY <1>1, <1>2, <1>3, <1>4, <1>5, <1>6, <1>7, <1>8, <1>9, <1>10, <1>11, <1>12
     DEF Reconcile

LEMMA StepLifecycle ==
  ASSUME TypeOK, LifecycleInv, [Next]_vars
  PROVE  LifecycleInv' /\ LifecycleStep
<1>1. CASE Next
  BY <1>1, SurroundingsLifecycle, ReconcileLifecycle DEF Next
<1>2. CASE UNCHANGED vars
  BY <1>2, RoleTypes, QuietLifecycle, QuietStep DEF vars, base
<1> QED
  BY <1>1, <1>2

\* Whatever copy a Reconcile works on, and whatever fails: it holds the CR by its
\* finalizer while it creates the IAM role, and removes the finalizer only of a
\* CR whose known IAM role is gone.
THEOREM LifecycleCorrect == Spec => []LifecycleInv
<1>1. Init => LifecycleInv
  BY InitLifecycle
<1>2. TypeOK /\ LifecycleInv /\ [Next]_vars => LifecycleInv'
  BY StepLifecycle
<1> QED
  BY <1>1, <1>2, TypeCorrect, PTL DEF Spec

\* Seen from outside, a Role and its IAM role behave as CloudResource says.
THEOREM RefinesCloudResource == Spec => LifecycleSpec
<1>1. Init => Lifecycle!Init
  <2>1. SUFFICES ASSUME Init PROVE Lifecycle!Init
    OBVIOUS
  <2>2. cr.uid = 0 /\ cr.status.arn = FALSE /\ iam = NoObject
    BY <2>1, RoleConstants DEF Init, BaseInit, IamInit, Absent
  <2> QED
    BY <2>2 DEF Lifecycle!Init, Phase, Exists
<1>2. TypeOK /\ LifecycleInv /\ [Next]_vars => [Lifecycle!Next]_(Lifecycle!vars)
  BY StepLifecycle DEF LifecycleStep
<1> QED
  BY <1>1, <1>2, TypeCorrect, LifecycleCorrect, PTL DEF Spec, LifecycleSpec, Lifecycle!Spec

\* An ARN that reached the status is never lost while the CR exists.
THEOREM ArnIsKept == Spec => ArnNeverForgotten
<1>1. TypeOK /\ LifecycleInv /\ [Next]_vars
        => [Exists(cr) /\ cr'.uid = cr.uid /\ cr.status.arn => cr'.status.arn]_cr
  BY StepLifecycle, StepKeepsArn
<1> QED
  BY <1>1, TypeCorrect, LifecycleCorrect, PTL DEF Spec, ArnNeverForgotten

-----------------------------------------------------------------------------
(* What a settled Role promises.  All of it follows from how old a copy and *)
(* a version of the AssumeRolePolicy can be, beside what a newer one wrote. *)

SettledStatus(o) == Exists(o) /\ o.status.og = o.gen /\ o.status.state = "OK"

\* Reconcile has computed the trust document and goes on.
Working == pc \notin {"idle", "errWithStatus"}

\* Versions of the AssumeRolePolicy only go up: a cached one is not older than any
\* that was ever used or noted.
VersionInv ==
  /\ arp <= edits /\ arpCache <= edits /\ (arp # 0 => arpCache <= arp)
  /\ \A v \in {iam.doc, resVer, cr.status.readVer, cache.status.readVer, obj.status.readVer} :
       v <= edits /\ (arp # 0 => v <= arp) /\ (arpCache # 0 => v <= arpCache)

\* The number of an edit stands for one spec, and for one that IAM role was made of.
EditInv ==
  /\ iam.rev <= edits
  /\ \A o \in {cr, cache, obj} :
       /\ o.rev <= edits /\ o.status.og <= o.gen
       /\ Exists(o) /\ iam.rev = o.rev /\ ~ReadsReference(o.spec) => iam.doc = 0
       /\ \A p \in {cr, cache, obj} :
            Exists(o) /\ Exists(p) /\ o.rev = p.rev => o.spec = p.spec

\* The run under way: its copy, its version, and the IAM role it made.
InHandInv ==
  /\ fresh => /\ obj.rev = cr.rev /\ obj.gen = cr.gen /\ obj.spec = cr.spec
              /\ cache.rev = cr.rev /\ cache.deleting = cr.deleting
  /\ Working /\ ReadsReference(obj.spec)
       => \A o \in {cr, cache, obj} : o.status.readVer <= resVer
  /\ Working /\ ~ReadsReference(obj.spec) => resVer = 0
  /\ pc \in Provisioned => iam = Wanted(obj, resVer)
  /\ pc = "errorStatus" => obj.fin

\* A run beside a settled status works on the very spec that is settled: the run that
\* wrote the status took its copy from the cache, which does not go back.
NotedInv ==
  /\ SettledStatus(cr) => cache.rev = cr.rev /\ ~cache.deleting
  /\ \A o \in {cr, cache} : SettledStatus(o) =>
       ~o.deleting /\ (Exists(obj) => obj.rev = o.rev /\ ~obj.deleting)

SettledInv ==
  \A o \in {cr, cache} : SettledStatus(o) =>
    /\ iam = NoObject \/ (iam.rev = o.rev /\ (ReadsReference(o.spec) => iam.doc >= o.status.readVer))
    /\ faults = 0 => iam # NoObject \/ pc = "create"
    /\ faults = 0 /\ ~ReadsReference(o.spec) => o.status.readVer = 0

\* Without faults nothing is noted before the finalizer.
UnheldInv ==
  faults = 0 =>
    /\ \A o \in {cr, cache} : ~o.fin => o.status.readVer = 0
    /\ pc = "errWithStatus" /\ ~obj.fin => obj.status.readVer = 0
    /\ Working /\ ~ReadsReference(obj.spec) => obj.status.readVer = 0

\* The ServiceAccount of the first Role of the name.
OwnerInv ==
  /\ sa <= edits
  /\ cr.uid = 1 =>
       /\ cache.uid \in {0, 1} /\ obj.uid \in {0, 1} /\ sa \in {0, 1}
       /\ \A o \in {cr, cache, obj} : Exists(o) /\ o.spec.sa /\ o.status.og = o.gen => sa = 1
       /\ pc = "observe" /\ obj.spec.sa => sa = 1

RoleInv == /\ VersionInv /\ EditInv /\ InHandInv /\ NotedInv
           /\ SettledInv /\ UnheldInv /\ OwnerInv

LEMMA SettledTypes ==
  ASSUME TypeOK
  PROVE  /\ \A o \in {cr, cache, obj} :
              /\ o.uid \in Nat /\ o.gen \in Nat /\ o.rev \in Nat
              /\ o.status.og \in Nat /\ o.status.readVer \in Nat
              /\ o.fin \in BOOLEAN /\ o.deleting \in BOOLEAN
         /\ edits \in Nat /\ faults \in Nat /\ sa \in Nat
         /\ arp \in Nat /\ arpCache \in Nat /\ resVer \in Nat
         /\ iam.rev \in Nat /\ iam.doc \in Nat
         /\ NoObject.rev = 0 /\ NoObject.doc = 0
<1>1. NoObject = [rev |-> 0, doc |-> 0]
  BY RoleAssumption
<1>2. /\ edits \in Nat /\ faults \in Nat /\ sa \in Nat
      /\ arp \in Nat /\ arpCache \in Nat /\ resVer \in Nat
  BY BoundsAssumption DEF TypeOK, BaseTypeOK
<1>3. iam \in [rev : Nat, doc : Nat]
  BY <1>1, BoundsAssumption DEF TypeOK, IamTypeOK
<1>4. \A o \in {cr, cache, obj} : o \in Resources(RoleStatuses)
  BY DEF TypeOK, BaseTypeOK
<1>5. \A o \in Resources(RoleStatuses) :
        /\ o.uid \in Nat /\ o.gen \in Nat /\ o.rev \in Nat
        /\ o.status.og \in Nat /\ o.status.readVer \in Nat
        /\ o.fin \in BOOLEAN /\ o.deleting \in BOOLEAN
  BY DEF Resources, RoleStatuses
<1> QED
  BY <1>1, <1>2, <1>3, <1>4, <1>5

LEMMA AbsentFields ==
  /\ Absent.uid = 0 /\ Absent.gen = 0 /\ Absent.rev = 0
  /\ Absent.fin = FALSE /\ Absent.deleting = FALSE
  /\ Absent.status.og = 0 /\ Absent.status.readVer = 0 /\ Absent.status.state # "OK"
<1>1. NoStatus = [state |-> "", arn |-> FALSE, og |-> 0, readVer |-> 0]
  BY RoleAssumption
<1>2. NoStatus.og = 0 /\ NoStatus.readVer = 0 /\ NoStatus.state # "OK"
  BY <1>1
<1> QED
  BY <1>2 DEF Absent

\* The copy a returning run drops, and a CR that goes.
LEMMA DroppedCopy ==
  /\ ~Exists(Absent) /\ ~SettledStatus(Absent) /\ ~Absent.deleting
  /\ Absent.uid = 0 /\ Absent.rev = 0
  /\ Absent.status.readVer = 0 /\ Absent.status.og <= Absent.gen
BY AbsentFields DEF Exists, SettledStatus

LEMMA UserSettled ==
  ASSUME TypeOK, LifecycleInv, RoleInv, User
  PROVE  RoleInv'
<1> USE SettledTypes
<1>1. /\ UNCHANGED <<cache, obj, pc, iam, resVer, arp, arpCache, sa, faults>> /\ fresh' = FALSE
      /\ cache.uid <= edits /\ obj.uid <= edits
  BY DEF User, UserStep, UserCreate, UserEdit, UserDelete, WrittenByOthers, local, arpVars,
         LifecycleInv, CacheInv, RunInv, CopyInv
<1>2. CASE UserCreate
  <2>1. PICK s \in Specs :
          cr' = [Absent EXCEPT !.uid = edits + 1, !.gen = 1, !.rev = edits + 1, !.spec = s]
    BY <1>2 DEF UserCreate, WrittenByOthers
  <2>2. /\ cr'.uid = edits + 1 /\ cr'.gen = 1 /\ cr'.rev = edits + 1
        /\ cr'.deleting = FALSE /\ cr'.fin = FALSE
        /\ cr'.status.og = 0 /\ cr'.status.readVer = 0 /\ cr'.status.state # "OK"
    BY <2>1, AbsentFields DEF Absent
  <2>3. edits' = edits + 1
    BY <1>2 DEF UserCreate, Edit
  <2>4. VersionInv'
    BY <1>1, <2>2, <2>3 DEF RoleInv, VersionInv
  <2>5. EditInv'
    BY <1>1, <2>2, <2>3 DEF RoleInv, EditInv, Exists
  <2>6. InHandInv'
    BY <1>1, <2>2 DEF RoleInv, InHandInv, Working, Wanted
  <2>7. NotedInv' /\ SettledInv'
    BY <1>1, <2>2 DEF RoleInv, NotedInv, SettledInv, SettledStatus, Exists
  <2>8. UnheldInv'
    BY <1>1, <2>2 DEF RoleInv, UnheldInv, Working
  <2>9. OwnerInv'
    <3>1. pc = "observe" => Exists(obj)
      BY DEF LifecycleInv, RunInv, StepInv
    <3> QED
      BY <1>1, <2>2, <2>3, <3>1 DEF RoleInv, OwnerInv, Exists
  <2> QED
    BY <2>4, <2>5, <2>6, <2>7, <2>8, <2>9 DEF RoleInv
<1>3. CASE UserEdit
  <2>1. PICK s \in Specs : cr' = [cr EXCEPT !.gen = cr.gen + 1, !.rev = edits + 1, !.spec = s]
    BY <1>3 DEF UserEdit, WrittenByOthers
  <2>2. /\ cr'.uid = cr.uid /\ cr'.gen = cr.gen + 1 /\ cr'.rev = edits + 1
        /\ cr'.deleting = cr.deleting /\ cr'.fin = cr.fin /\ cr'.status = cr.status
    BY <2>1, RoleTypes DEF Resources
  <2>3. edits' = edits + 1
    BY <1>3 DEF UserEdit, Edit
  <2>4. VersionInv'
    BY <1>1, <2>2, <2>3 DEF RoleInv, VersionInv
  <2>5. EditInv'
    BY <1>1, <2>2, <2>3 DEF RoleInv, EditInv, Exists
  <2>6. InHandInv'
    BY <1>1, <2>2 DEF RoleInv, InHandInv, Working, Wanted
  <2>7. NotedInv' /\ SettledInv'
    BY <1>1, <2>2 DEF RoleInv, NotedInv, SettledInv, SettledStatus, Exists, EditInv
  <2>8. UnheldInv'
    BY <1>1, <2>2 DEF RoleInv, UnheldInv, Working
  <2>9. OwnerInv'
    BY <1>1, <2>2, <2>3 DEF RoleInv, OwnerInv, Exists, EditInv
  <2> QED
    BY <2>4, <2>5, <2>6, <2>7, <2>8, <2>9 DEF RoleInv
<1>4. CASE UserDelete
  <2>1. edits' = edits
    BY <1>4 DEF UserDelete
  <2>2. \/ cr' = Absent
        \/ /\ cr'.uid = cr.uid /\ cr'.gen = cr.gen + 1 /\ cr'.rev = cr.rev
           /\ cr'.spec = cr.spec /\ cr'.fin = cr.fin /\ cr'.status = cr.status
    BY <1>4, RoleTypes DEF UserDelete, WrittenByOthers, Resources
  <2>3. VersionInv'
    BY <1>1, <2>1, <2>2, DroppedCopy DEF RoleInv, VersionInv
  <2>4. EditInv'
    BY <1>1, <2>1, <2>2, DroppedCopy DEF RoleInv, EditInv, Exists
  <2>5. InHandInv'
    BY <1>1, <2>2, DroppedCopy DEF RoleInv, InHandInv, Working, Wanted
  <2>6. ~SettledStatus(cr)'
    BY <2>2, DroppedCopy DEF RoleInv, EditInv, SettledStatus
  <2>7. NotedInv' /\ SettledInv'
    BY <1>1, <2>6 DEF RoleInv, NotedInv, SettledInv, SettledStatus, Exists
  <2>8. UnheldInv'
    BY <1>1, <2>2, DroppedCopy DEF RoleInv, UnheldInv, Working
  <2>9. OwnerInv'
    BY <1>1, <2>1, <2>2, DroppedCopy DEF RoleInv, OwnerInv, Exists, EditInv
  <2> QED
    BY <2>3, <2>4, <2>5, <2>7, <2>8, <2>9 DEF RoleInv
<1> QED
  BY <1>2, <1>3, <1>4 DEF User, UserStep

\* The surroundings and the runs that do nothing.
LEMMA QuietSettled ==
  ASSUME TypeOK, LifecycleInv, RoleInv,
         \/ TimerFires \/ WriteArp \/ DeleteArp \/ SyncArp \/ RoleAttachments
         \/ CollectServiceAccount \/ NotFound \/ Skip \/ UNCHANGED vars
  PROVE  RoleInv'
<1> USE SettledTypes
<1>1. /\ UNCHANGED <<cr, cache, obj, fresh, pc, iam, resVer, faults>>
      /\ \/ UNCHANGED <<arp, arpCache, edits>> \/ WriteArp \/ DeleteArp \/ SyncArp
      /\ sa' = sa \/ (sa # cr.uid /\ sa' = 0)
  BY DEF TimerFires, WriteArp, DeleteArp, SyncArp, RoleAttachments, Attachments,
         CollectServiceAccount, NotFound, Skip, LoadAndReturn, Outside, vars, base, local, arpVars
<1>2. \/ UNCHANGED <<arp, arpCache, edits>>
      \/ edits' = edits + 1 /\ arp' = edits + 1 /\ arpCache' = arpCache
      \/ edits' = edits /\ arp' = 0 /\ arpCache' = arpCache
      \/ edits' = edits /\ arp' = arp /\ arpCache' = arp
  BY <1>1 DEF WriteArp, Edit, DeleteArp, SyncArp, base
<1>3. VersionInv'
  BY <1>1, <1>2 DEF RoleInv, VersionInv
<1>4. EditInv' /\ OwnerInv'
  BY <1>1, <1>2 DEF RoleInv, EditInv, OwnerInv, Exists
<1>5. InHandInv' /\ NotedInv' /\ SettledInv' /\ UnheldInv'
  BY <1>1 DEF RoleInv, InHandInv, NotedInv, SettledInv, UnheldInv, SettledStatus, Working,
              Wanted, Exists
<1> QED
  BY <1>3, <1>4, <1>5 DEF RoleInv

\* The informer, a restart, and a run that gives up on the trust document.
LEMMA CopiedSettled ==
  ASSUME TypeOK, LifecycleInv, RoleInv, SyncRole \/ RestartOperator \/ PolicyDocError
  PROVE  RoleInv'
<1> USE SettledTypes
<1>1. /\ UNCHANGED <<cr, iam, arp, sa, edits>>
      /\ arpCache' \in {arpCache, arp} /\ resVer' \in {resVer, 0}
  BY DEF SyncRole, Sync, RestartOperator, Restart, PolicyDocError, Load, local, arpVars, Outside
<1>2. CASE SyncRole
  <2>1. UNCHANGED <<obj, fresh, pc, faults, resVer, arpCache>> /\ cache' = cr
    BY <1>2 DEF SyncRole, Sync, local, arpVars
  <2>2. VersionInv' /\ EditInv'
    BY <1>1, <2>1 DEF RoleInv, VersionInv, EditInv, Exists
  <2>3. InHandInv'
    BY <1>1, <2>1 DEF RoleInv, InHandInv, Working, Wanted
  <2>4. NotedInv' /\ SettledInv'
    BY <1>1, <2>1 DEF RoleInv, NotedInv, SettledInv, SettledStatus, Exists
  <2>5. UnheldInv' /\ OwnerInv'
    BY <1>1, <2>1 DEF RoleInv, UnheldInv, OwnerInv, Working, Exists
  <2> QED
    BY <2>2, <2>3, <2>4, <2>5 DEF RoleInv
<1>3. CASE RestartOperator
  <2>1. /\ cache' = cr /\ obj' = Absent /\ fresh' = FALSE /\ pc' = "idle"
        /\ arpCache' = arp /\ resVer' = 0 /\ faults' # 0
    BY <1>3 DEF RestartOperator, Restart, Fault
  <2>2. VersionInv' /\ EditInv'
    BY <1>1, <2>1, DroppedCopy DEF RoleInv, VersionInv, EditInv, Exists
  <2>3. InHandInv' /\ UnheldInv'
    BY <1>1, <2>1 DEF RoleInv, InHandInv, UnheldInv, Working, Provisioned, Recorded
  <2>4. NotedInv' /\ SettledInv'
    BY <1>1, <2>1, DroppedCopy DEF RoleInv, NotedInv, SettledInv, SettledStatus, Exists
  <2>5. OwnerInv'
    BY <1>1, <2>1, DroppedCopy DEF RoleInv, OwnerInv, Exists
  <2> QED
    BY <2>2, <2>3, <2>4, <2>5 DEF RoleInv
<1>4. CASE PolicyDocError
  <2>1. /\ UNCHANGED <<cache, arpCache, resVer, faults>>
        /\ obj' = cache /\ fresh' = cacheFresh /\ pc' = "errWithStatus"
    BY <1>4 DEF PolicyDocError, Load, Outside, arpVars, local
  <2>2. VersionInv' /\ EditInv'
    BY <1>1, <2>1 DEF RoleInv, VersionInv, EditInv, Exists
  <2>3. InHandInv'
    BY <1>1, <2>1 DEF LifecycleInv, CacheInv, InHandInv, Working, Provisioned, Recorded
  <2>4. NotedInv' /\ SettledInv'
    <3>1. pc = "idle"
      BY <1>4 DEF PolicyDocError, Dequeue
    <3> QED
      BY <1>1, <2>1, <3>1 DEF RoleInv, NotedInv, SettledInv, SettledStatus, Exists
  <2>5. UnheldInv' /\ OwnerInv'
    BY <1>1, <2>1 DEF RoleInv, UnheldInv, OwnerInv, Working, Exists
  <2> QED
    BY <2>2, <2>3, <2>4, <2>5 DEF RoleInv
<1> QED
  BY <1>2, <1>3, <1>4

\* A run starts with a version that is not older than any used before.
LEMMA StartSettled ==
  ASSUME TypeOK, LifecycleInv, RoleInv, Start
  PROVE  RoleInv'
<1> USE SettledTypes
<1>1. /\ UNCHANGED <<cr, cache, iam, arp, arpCache, sa, edits>>
      /\ pc = "idle" /\ Exists(cache) /\ ~PolicyDocFails(cache.spec, arpCache)
      /\ resVer' = ResourceVersion(cache.spec, arpCache)
      /\ faults' = faults \/ faults' = faults + 1
      /\ fresh' = cacheFresh
  BY DEF Start, Dequeue, Load, Outside, arpVars, Fault
<1>2. /\ obj' = [cache EXCEPT !.status.readVer = resVer']
      /\ \/ pc' = FirstStep(obj') /\ faults' = faults
         \/ pc' = "errWithStatus" /\ faults' # 0
  BY DEF Start, Load, Fault
<1>3. /\ obj'.uid = cache.uid /\ obj'.gen = cache.gen /\ obj'.rev = cache.rev
      /\ obj'.spec = cache.spec /\ obj'.fin = cache.fin /\ obj'.deleting = cache.deleting
      /\ obj'.status.og = cache.status.og /\ obj'.status.readVer = resVer'
  <2>1. cache \in Resources(RoleStatuses)
    BY DEF TypeOK, BaseTypeOK
  <2> QED
    BY <1>2, <2>1 DEF Resources, RoleStatuses
<1>4. /\ pc' \in {"errWithStatus", "addFinalizer", "cleanup", "create"}
      /\ pc' = "errWithStatus" => faults' # 0
  BY <1>2 DEF FirstStep, AfterFinalizer
<1>5. /\ ReadsReference(cache.spec) => resVer' = arpCache /\ arpCache # 0
      /\ ~ReadsReference(cache.spec) => resVer' = 0
  BY <1>1 DEF ResourceVersion, PolicyDocFails
<1>6. VersionInv'
  BY <1>1, <1>3, <1>5 DEF RoleInv, VersionInv
<1>7. EditInv'
  BY <1>1, <1>3 DEF RoleInv, EditInv, Exists
<1>8. InHandInv'
  <2>1. fresh' => cache = cr
    BY <1>1 DEF LifecycleInv, CacheInv
  <2>2. ReadsReference(obj.spec)' => \A o \in {cr, cache} : o.status.readVer <= resVer'
    BY <1>1, <1>3, <1>5 DEF RoleInv, VersionInv
  <2>3. pc' # "errorStatus" /\ pc' \notin Provisioned
    BY <1>4 DEF Provisioned, Recorded
  <2> QED
    BY <1>1, <1>3, <1>5, <2>1, <2>2, <2>3 DEF InHandInv
<1>9. NotedInv'
  BY <1>1, <1>3 DEF RoleInv, NotedInv, SettledStatus, Exists
<1>10. SettledInv'
  BY <1>1, <1>4 DEF RoleInv, SettledInv, SettledStatus, Exists
<1>11. UnheldInv'
  BY <1>1, <1>2, <1>3, <1>4, <1>5 DEF RoleInv, UnheldInv, Working
<1>12. OwnerInv'
  BY <1>1, <1>3, <1>4 DEF RoleInv, OwnerInv, Exists
<1> QED
  BY <1>6, <1>7, <1>8, <1>9, <1>10, <1>11, <1>12 DEF RoleInv

LEMMA FaultsCounted ==
  ASSUME NEW new, Logged(new)
  PROVE  faults' = faults \/ faults' = faults + 1
BY DEF Logged, Accepted, Refused, Fault

\* The finalizer is written or removed.
LEMMA FinalizerSettled ==
  ASSUME TypeOK, LifecycleInv, RoleInv, AddFinalizer \/ RemoveFinalizer
  PROVE  RoleInv'
<1> USE SettledTypes
<1>1. UNCHANGED <<iam, sa, arp, arpCache>>
  BY DEF AddFinalizer, RemoveFinalizer, Outside, arpVars
<1>2. CASE AddFinalizer
  <2> DEFINE new == [cr EXCEPT !.fin = TRUE]
  <2>1. /\ new.uid = cr.uid /\ new.gen = cr.gen /\ new.rev = cr.rev /\ new.spec = cr.spec
        /\ new.status = cr.status /\ new.deleting = cr.deleting /\ new.fin = TRUE
    BY RoleTypes DEF Resources
  <2>2. Logged(new)
    BY <1>2, FinalizerAdded DEF Logged
  <2> HIDE DEF new
  <2>3. /\ cr'.uid = cr.uid /\ cr'.gen = cr.gen /\ cr'.rev = cr.rev /\ cr'.spec = cr.spec
        /\ cr'.status = cr.status /\ cr'.deleting = cr.deleting /\ (cr.fin => cr'.fin)
        /\ cache' = cache /\ edits' = edits /\ (fresh' => fresh /\ pc' # "idle")
        /\ ~cr'.fin => cr' = cr
        /\ faults' = faults \/ faults' = faults + 1
    BY <2>1, <2>2, Written, RoleTypes, FaultsCounted
  <2>4. \/ obj' = Absent /\ pc' = "idle" /\ resVer' = 0
        \/ /\ pc' \in {"cleanup", "create"} /\ fresh /\ resVer' = resVer /\ obj'.uid = obj.uid
           /\ obj'.gen = obj.gen /\ obj'.rev = obj.rev /\ obj'.spec = obj.spec
           /\ obj'.deleting = obj.deleting /\ obj'.status \in {obj.status, cr.status}
    BY <1>2, RoleTypes DEF AddFinalizer, AfterFinalizer, Continue, local, Goto, Fails, Retry,
                           Accepted, Answer, Resources
  <2>5. /\ pc = "addFinalizer" /\ Working /\ Exists(obj)
        /\ fresh => ~cr.fin /\ obj.uid = cr.uid
    BY <1>2 DEF AddFinalizer, Working, LifecycleInv, RunInv, StepInv, FreshInv
  <2>6. VersionInv'
    BY <1>1, <2>3, <2>4, DroppedCopy DEF RoleInv, VersionInv
  <2>7. EditInv'
    BY <1>1, <2>3, <2>4, <2>5, DroppedCopy DEF RoleInv, EditInv, InHandInv, Exists
  <2>8. InHandInv'
    BY <1>1, <2>3, <2>4, <2>5, DroppedCopy DEF RoleInv, InHandInv, Working, Provisioned, Recorded
  <2>9. NotedInv' /\ SettledInv'
    BY <1>1, <2>3, <2>4, <2>5, DroppedCopy DEF RoleInv, NotedInv, SettledInv, SettledStatus, Exists
  <2>10. UnheldInv'
    BY <1>1, <2>3, <2>4, <2>5, DroppedCopy DEF RoleInv, UnheldInv, Working
  <2>11. OwnerInv'
    BY <1>1, <2>3, <2>4, <2>5, DroppedCopy DEF RoleInv, OwnerInv, InHandInv, Exists
  <2> QED
    BY <2>6, <2>7, <2>8, <2>9, <2>10, <2>11 DEF RoleInv
<1>3. CASE RemoveFinalizer
  <2>1. Logged(Absent) /\ obj' = Absent /\ pc' = "idle" /\ resVer' = 0 /\ pc = "removeFinalizer"
    BY <1>3 DEF RemoveFinalizer, Logged, Finishes, Fails, Return, Retry
  <2>2. /\ cr' \in {cr, Absent} /\ cache' = cache /\ fresh' = FALSE /\ edits' = edits
        /\ faults' = faults \/ faults' = faults + 1
    BY <2>1, Written, RoleTypes, FaultsCounted
  <2>3. VersionInv' /\ EditInv'
    BY <1>1, <2>1, <2>2, DroppedCopy DEF RoleInv, VersionInv, EditInv, Exists
  <2>4. InHandInv' /\ UnheldInv'
    BY <1>1, <2>1, <2>2, DroppedCopy DEF RoleInv, InHandInv, UnheldInv, Working, Provisioned, Recorded
  <2>5. NotedInv' /\ SettledInv'
    BY <1>1, <2>1, <2>2, DroppedCopy DEF RoleInv, NotedInv, SettledInv, SettledStatus, Exists
  <2>6. OwnerInv'
    BY <1>1, <2>1, <2>2, DroppedCopy DEF RoleInv, OwnerInv, Exists
  <2> QED
    BY <2>3, <2>4, <2>5, <2>6 DEF RoleInv
<1> QED
  BY <1>2, <1>3

\* The IAM role is deleted, and created of what the run has in hand.
LEMMA IamRoleSettled ==
  ASSUME TypeOK, LifecycleInv, RoleInv, CleanupRole \/ DeleteRole \/ CreateRole
  PROVE  RoleInv'
<1> USE SettledTypes
<1> DEFINE wanted == Wanted(obj, resVer)
<1>1. /\ UNCHANGED <<cr, cache, obj, resVer, arp, arpCache, sa, edits>> /\ (fresh' => fresh)
      /\ faults' = faults \/ faults' = faults + 1
      /\ pc \in {"cleanup", "delete", "create"}
      /\ pc' \in {"errorStatus", "delete", "removeFinalizer", "create", "okStatus"}
      /\ iam' \in {iam, NoObject, wanted}
      /\ iam' # iam /\ iam' # NoObject => pc = "create"
      /\ pc' = "okStatus" => iam' = wanted /\ pc = "create"
  BY DEF CleanupRole, Cleanup, DeleteRole, Delete, CreateRole, CreateAWSObject, Goto, NoWrite,
         AfterDelete, local, arpVars, Fault
<1>2. /\ wanted.rev = obj.rev /\ wanted.doc = resVer /\ obj.rev # 0 /\ Exists(obj) /\ obj.fin
      /\ wanted # NoObject /\ Working
  <2>1. Exists(obj) /\ obj.rev # 0 /\ obj.fin
    BY <1>1 DEF LifecycleInv, RunInv, StepInv, CopyInv, Holding
  <2>2. wanted.rev = obj.rev /\ wanted.doc = resVer
    BY DEF Wanted
  <2> QED
    BY <1>1, <2>1, <2>2 DEF Working
<1> HIDE DEF wanted
<1>3. VersionInv'
  BY <1>1, <1>2 DEF RoleInv, VersionInv
<1>4. EditInv'
  BY <1>1, <1>2 DEF RoleInv, EditInv, InHandInv, Exists
<1>5. InHandInv'
  <2>1. pc' \in Provisioned => iam' = wanted
    BY <1>1 DEF Provisioned, Recorded
  <2> QED
    BY <1>1, <1>2, <2>1 DEF RoleInv, InHandInv, wanted, Wanted, Working
<1>6. NotedInv' /\ OwnerInv'
  BY <1>1 DEF RoleInv, NotedInv, OwnerInv, SettledStatus, Exists
<1>7. SettledInv'
  <2> SUFFICES ASSUME NEW o \in {cr, cache}, SettledStatus(o)
               PROVE  /\ iam' = NoObject \/ (iam'.rev = o.rev
                           /\ (ReadsReference(o.spec) => iam'.doc >= o.status.readVer))
                      /\ faults' = 0 => iam' # NoObject \/ pc' = "create"
                      /\ faults' = 0 /\ ~ReadsReference(o.spec) => o.status.readVer = 0
    BY <1>1 DEF SettledInv, SettledStatus, Exists
  <2>1. /\ iam = NoObject \/ (iam.rev = o.rev
             /\ (ReadsReference(o.spec) => iam.doc >= o.status.readVer))
        /\ faults = 0 => iam # NoObject \/ pc = "create"
        /\ faults = 0 /\ ~ReadsReference(o.spec) => o.status.readVer = 0
    BY DEF RoleInv, SettledInv
  <2>2. obj.rev = o.rev /\ ~obj.deleting /\ Exists(o)
    BY <1>2 DEF RoleInv, NotedInv, SettledStatus
  <2>3. obj.spec = o.spec
    BY <1>2, <2>2 DEF RoleInv, EditInv
  <2>4. ReadsReference(o.spec) => o.status.readVer <= resVer
    BY <1>2, <2>3 DEF RoleInv, InHandInv
  <2>5. iam' = NoObject \/ (iam'.rev = o.rev
             /\ (ReadsReference(o.spec) => iam'.doc >= o.status.readVer))
    BY <1>1, <1>2, <2>1, <2>2, <2>4
  <2>6. faults' = 0 => iam' # NoObject \/ pc' = "create"
    <3>1. CASE CleanupRole
      BY <1>1, <2>1, <3>1 DEF CleanupRole, Cleanup
    <3>2. CASE DeleteRole
      BY <1>1, <2>1, <2>2, <3>2 DEF DeleteRole, Delete, AfterDelete, DeleteRefused, Goto, Fault
    <3>3. CASE CreateRole
      BY <1>1, <1>2, <2>1, <3>3 DEF CreateRole, CreateAWSObject, Fault, wanted
    <3> QED
      BY <3>1, <3>2, <3>3
  <2> QED
    BY <1>1, <2>1, <2>5, <2>6
<1>8. UnheldInv'
  BY <1>1, <1>2 DEF RoleInv, UnheldInv, Working
<1> QED
  BY <1>3, <1>4, <1>5, <1>6, <1>7, <1>8 DEF RoleInv

\* The status a step writes, and what it leaves in hand.
LEMMA StatusWrite ==
  ASSUME TypeOK, OkStatusUpdate \/ Observe \/ Report
  PROVE  \E s \in RoleStatuses :
           /\ Logged(WithStatus(s)) /\ UNCHANGED <<iam, sa, arp, arpCache>>
           /\ pc \in {"okStatus", "observe", "errWithStatus", "errorStatus"}
           /\ s.readVer = obj.status.readVer
           /\ s.og = obj.status.og \/ (pc = "observe" /\ s.og = obj.gen)
           /\ s.state = "OK" => pc \in {"okStatus", "observe"}
           /\ \/ pc' = "idle" /\ obj' = Absent /\ resVer' = 0
              \/ /\ obj' = [obj EXCEPT !.status = s] /\ s.og = obj.status.og
                 /\ pc = "okStatus" /\ resVer' = resVer
                 /\ pc' \in {"serviceAccount", "observe"} /\ (pc' = "observe" => ~obj.spec.sa)
<1> USE RoleTypes
<1>1. /\ OkStatus(obj) \in RoleStatuses /\ OkStatus(obj).og = obj.status.og
      /\ OkStatus(obj).readVer = obj.status.readVer
      /\ ErrorStatus(obj) \in RoleStatuses /\ ErrorStatus(obj).og = obj.status.og
      /\ ErrorStatus(obj).readVer = obj.status.readVer /\ ErrorStatus(obj).state = "ERROR"
      /\ Observed(obj) \in RoleStatuses /\ Observed(obj).og = obj.gen
      /\ Observed(obj).readVer = obj.status.readVer
  BY DEF Resources, RoleStatuses, OkStatus, ErrorStatus, Observed
<1>2. CASE OkStatusUpdate
  <2> DEFINE s == OkStatus(obj)
             o == [obj EXCEPT !.status = s]
  <2>1. o.status = s /\ o.spec = obj.spec
    BY DEF Resources
  <2>2. /\ Goto(AfterOkStatus(o), o) /\ Logged(WithStatus(s))
        /\ UNCHANGED <<iam, sa, arp, arpCache, resVer>> /\ pc = "okStatus"
    BY <1>2, <2>1 DEF OkStatusUpdate, Continue, local, Outside, arpVars
  <2>3. /\ AfterOkStatus(o) \in {"serviceAccount", "observe"}
        /\ AfterOkStatus(o) = "observe" => ~obj.spec.sa
    BY <2>1 DEF AfterOkStatus
  <2> HIDE DEF s
  <2> QED
    BY <1>1, <2>2, <2>3 DEF Goto, s
<1>3. CASE Observe
  <2>1. /\ Logged(WithStatus(Observed(obj))) /\ UNCHANGED <<iam, sa, arp, arpCache>>
        /\ pc = "observe" /\ pc' = "idle" /\ obj' = Absent /\ resVer' = 0
    BY <1>3 DEF Observe, Logged, Finishes, Fails, Return, Retry, Outside, arpVars
  <2> QED
    BY <1>1, <2>1
<1>4. CASE Report
  <2>1. /\ Logged(WithStatus(ErrorStatus(obj))) /\ UNCHANGED <<iam, sa, arp, arpCache>>
        /\ pc \in {"errWithStatus", "errorStatus"}
        /\ pc' = "idle" /\ obj' = Absent /\ resVer' = 0
    BY <1>4 DEF Report, ReportError, Retry, Outside, arpVars
  <2> QED
    BY <1>1, <2>1
<1> QED
  BY <1>2, <1>3, <1>4

LEMMA StatusSettled ==
  ASSUME TypeOK, LifecycleInv, RoleInv, OkStatusUpdate \/ Observe \/ Report
  PROVE  RoleInv'
<1> USE SettledTypes
<1>1. PICK s \in RoleStatuses :
        /\ Logged(WithStatus(s)) /\ UNCHANGED <<iam, sa, arp, arpCache>>
        /\ pc \in {"okStatus", "observe", "errWithStatus", "errorStatus"}
        /\ s.readVer = obj.status.readVer
        /\ s.og = obj.status.og \/ (pc = "observe" /\ s.og = obj.gen)
        /\ s.state = "OK" => pc \in {"okStatus", "observe"}
        /\ \/ pc' = "idle" /\ obj' = Absent /\ resVer' = 0
           \/ /\ obj' = [obj EXCEPT !.status = s] /\ s.og = obj.status.og
              /\ pc = "okStatus" /\ resVer' = resVer
              /\ pc' \in {"serviceAccount", "observe"} /\ (pc' = "observe" => ~obj.spec.sa)
  BY StatusWrite
<1>2. /\ \/ cr' = cr
         \/ /\ fresh /\ cr'.status = s /\ cr'.uid = cr.uid /\ cr'.rev = cr.rev
            /\ cr'.gen = cr.gen /\ cr'.spec = cr.spec
            /\ cr'.fin = cr.fin /\ cr'.deleting = cr.deleting
      /\ (fresh' => fresh /\ pc' # "idle") /\ cache' = cache /\ edits' = edits
      /\ faults' = faults \/ faults' = faults + 1
  <2>1. WithStatus(s).gen = cr.gen /\ WithStatus(s).spec = cr.spec
    BY RoleTypes DEF WithStatus, Resources
  <2>2. cr' = cr \/ cr' = WithStatus(s)
    BY <1>1, Written, RoleTypes
  <2>3. faults' = faults \/ faults' = faults + 1
    BY <1>1, FaultsCounted
  <2> QED
    BY <1>1, <2>1, <2>2, <2>3, StatusWritten, RoleTypes
<1>3. \/ pc' = "idle" /\ obj' = Absent /\ resVer' = 0
      \/ /\ obj'.status = s /\ obj'.uid = obj.uid /\ obj'.gen = obj.gen /\ obj'.rev = obj.rev
         /\ obj'.spec = obj.spec /\ obj'.fin = obj.fin /\ obj'.deleting = obj.deleting
         /\ pc = "okStatus" /\ resVer' = resVer /\ s.og = obj.status.og
         /\ pc' \in {"serviceAccount", "observe"} /\ (pc' = "observe" => ~obj.spec.sa)
  BY <1>1, RoleTypes DEF Resources
<1>4. /\ Exists(obj) /\ obj.rev # 0
      /\ pc \in {"okStatus", "observe"} =>
           Working /\ obj.fin /\ ~obj.deleting /\ iam.rev = obj.rev /\ iam.doc = resVer
      /\ fresh => obj.uid = cr.uid /\ obj.fin = cr.fin /\ obj.deleting = cr.deleting
                  /\ obj.rev = cr.rev /\ obj.gen = cr.gen /\ obj.spec = cr.spec
                  /\ cache.rev = cr.rev /\ cache.deleting = cr.deleting
  <2>1. /\ Exists(obj) /\ obj.rev # 0
        /\ fresh => obj.uid = cr.uid /\ obj.fin = cr.fin /\ obj.deleting = cr.deleting
                  /\ obj.rev = cr.rev /\ obj.gen = cr.gen /\ obj.spec = cr.spec
                  /\ cache.rev = cr.rev /\ cache.deleting = cr.deleting
    BY <1>1 DEF LifecycleInv, RunInv, StepInv, CopyInv, FreshInv, RoleInv, InHandInv
  <2>2. pc \in {"okStatus", "observe"} => Working /\ obj.fin /\ ~obj.deleting
    BY DEF Working, LifecycleInv, RunInv, StepInv, Holding, Provisioned, Recorded
  <2>3. pc \in {"okStatus", "observe"} => iam = Wanted(obj, resVer)
    BY DEF RoleInv, InHandInv, Provisioned, Recorded
  <2>4. Wanted(obj, resVer).rev = obj.rev /\ Wanted(obj, resVer).doc = resVer
    BY DEF Wanted
  <2> QED
    BY <2>1, <2>2, <2>3, <2>4
<1>5. VersionInv'
  BY <1>1, <1>2, <1>3, DroppedCopy DEF RoleInv, VersionInv
<1>6. EditInv'
  BY <1>1, <1>2, <1>3, <1>4, DroppedCopy DEF RoleInv, EditInv, Exists
<1>7. InHandInv'
  <2>1. pc' \in Provisioned => iam' = Wanted(obj, resVer)'
    BY <1>1, <1>3 DEF RoleInv, InHandInv, Wanted, Provisioned, Recorded
  <2> QED
    BY <1>1, <1>2, <1>3, <1>4, <2>1 DEF RoleInv, InHandInv, Working
<1>8. NotedInv'
  BY <1>1, <1>2, <1>3, <1>4, DroppedCopy DEF RoleInv, NotedInv, SettledStatus, Exists
<1>9. SettledInv'
  <2>1. SettledStatus(cr)' =>
          \/ cr' = cr /\ SettledStatus(cr)
          \/ /\ fresh /\ cr'.status = s /\ pc \in {"okStatus", "observe"}
             /\ cr'.rev = cr.rev /\ cr'.spec = cr.spec
    BY <1>1, <1>2 DEF SettledStatus
  <2>2. ASSUME fresh, cr'.status = s, pc \in {"okStatus", "observe"},
               cr'.rev = cr.rev, cr'.spec = cr.spec
        PROVE  /\ iam'.rev = cr'.rev
               /\ ReadsReference(cr'.spec) => iam'.doc >= cr'.status.readVer
               /\ iam' # NoObject
               /\ faults' = 0 /\ ~ReadsReference(cr'.spec) => cr'.status.readVer = 0
    BY <1>1, <1>2, <1>4, <2>2 DEF RoleInv, InHandInv, UnheldInv
  <2>3. /\ SettledStatus(cache)' = SettledStatus(cache) /\ pc # "create"
    BY <1>1, <1>2 DEF SettledStatus, Exists
  <2> QED
    BY <1>1, <1>2, <2>1, <2>2, <2>3 DEF RoleInv, SettledInv
<1>10. UnheldInv'
  BY <1>1, <1>2, <1>3, <1>4, DroppedCopy DEF RoleInv, UnheldInv, InHandInv, Working
<1>11. OwnerInv'
  BY <1>1, <1>2, <1>3, <1>4, DroppedCopy DEF RoleInv, OwnerInv, Exists
<1> QED
  BY <1>5, <1>6, <1>7, <1>8, <1>9, <1>10, <1>11 DEF RoleInv

LEMMA ServiceAccountSettled ==
  ASSUME TypeOK, LifecycleInv, RoleInv, CreateServiceAccount
  PROVE  RoleInv'
<1> USE SettledTypes
<1>1. /\ UNCHANGED <<cr, cache, iam, arp, arpCache, edits>> /\ (fresh' => fresh /\ pc' # "idle")
      /\ faults' = faults \/ faults' = faults + 1
      /\ pc = "serviceAccount"
      /\ \/ /\ pc' = "observe" /\ obj' = obj /\ resVer' = resVer
            /\ sa' = IF sa = 0 THEN obj.uid ELSE sa
         \/ /\ pc' = "idle" /\ obj' = Absent /\ resVer' = 0
            /\ sa' \in {sa, IF sa = 0 THEN obj.uid ELSE sa}
  BY DEF CreateServiceAccount, NoWrite, Continue, Goto, local, Outside, arpVars, Fails, Retry, Fault
<1>2. Exists(obj) /\ obj.uid <= edits
  BY <1>1 DEF LifecycleInv, RunInv, StepInv, CopyInv
<1>3. VersionInv' /\ EditInv'
  BY <1>1, DroppedCopy DEF RoleInv, VersionInv, EditInv, Exists
<1>4. InHandInv'
  BY <1>1 DEF RoleInv, InHandInv, Working, Wanted, Provisioned, Recorded
<1>5. NotedInv' /\ SettledInv'
  BY <1>1, DroppedCopy DEF RoleInv, NotedInv, SettledInv, SettledStatus, Exists
<1>6. UnheldInv'
  BY <1>1 DEF RoleInv, UnheldInv, Working
<1>7. OwnerInv'
  BY <1>1, <1>2, DroppedCopy DEF RoleInv, OwnerInv, Exists
<1> QED
  BY <1>3, <1>4, <1>5, <1>6, <1>7 DEF RoleInv

LEMMA InitSettled == Init => RoleInv
<1> SUFFICES ASSUME Init PROVE RoleInv
  OBVIOUS
<1>1. /\ cr = Absent /\ cache = Absent /\ obj = Absent /\ fresh = FALSE /\ pc = "idle"
      /\ edits = 0 /\ iam = NoObject /\ resVer = 0 /\ arp = 0 /\ arpCache = 0 /\ sa = 0
  BY DEF Init, BaseInit, IamInit
<1>2. TypeOK
  BY InitType
<1>3. iam.rev = 0 /\ iam.doc = 0
  BY <1>1, <1>2, SettledTypes
<1>4. VersionInv /\ EditInv
  BY <1>1, <1>3, AbsentFields, DroppedCopy DEF VersionInv, EditInv
<1>5. InHandInv /\ UnheldInv
  BY <1>1, AbsentFields DEF InHandInv, UnheldInv, Working, Provisioned, Recorded
<1>6. NotedInv /\ SettledInv /\ OwnerInv
  BY <1>1, AbsentFields, DroppedCopy DEF NotedInv, SettledInv, OwnerInv
<1> QED
  BY <1>4, <1>5, <1>6 DEF RoleInv

LEMMA RoleInvariant == Spec => []RoleInv
<1>1. TypeOK /\ LifecycleInv /\ RoleInv /\ [Next]_vars => RoleInv'
  BY UserSettled, QuietSettled, CopiedSettled, StartSettled, FinalizerSettled, IamRoleSettled,
     StatusSettled, ServiceAccountSettled DEF Next, Reconcile
<1> QED
  BY <1>1, InitSettled, TypeCorrect, LifecycleCorrect, PTL DEF Spec

\* Between the version a settled status notes and the cached one there is no room for
\* a trust document that differs.
LEMMA DocumentNoted ==
  ASSUME TypeOK, RoleInv, Settled(cache, arpCache), iam # NoObject
  PROVE  Applied(cache, arpCache)
<1> USE SettledTypes
<1>1. SettledStatus(cache) /\ Exists(cache)
  BY DEF Settled, ReconcileUnnecessary, SettledStatus
<1>2. /\ iam.rev = cache.rev
      /\ ReadsReference(cache.spec) => iam.doc >= cache.status.readVer
  BY <1>1 DEF RoleInv, SettledInv
<1>3. iam.doc = ResourceVersion(cache.spec, arpCache)
  <2>1. CASE ReadsReference(cache.spec)
    <3>1. cache.status.readVer = arpCache /\ arpCache # 0
      BY <2>1 DEF Settled, ReconcileUnnecessary, ResourceVersion, PolicyDocFails
    <3>2. iam.doc <= arpCache
      BY <3>1 DEF RoleInv, VersionInv
    <3> QED
      BY <1>2, <2>1, <3>1, <3>2 DEF ResourceVersion
  <2>2. CASE ~ReadsReference(cache.spec)
    BY <1>1, <1>2, <2>2 DEF RoleInv, EditInv, ResourceVersion
  <2> QED
    BY <2>1, <2>2
<1>4. iam \in [rev : Nat, doc : Nat]
  BY BoundsAssumption, RoleAssumption DEF TypeOK, IamTypeOK
<1> QED
  BY <1>2, <1>3, <1>4 DEF Applied, Wanted

\* A Reconcile that returns at once (role_controller.go:83) never leaves an IAM
\* role that is not the one the spec and the trust document ask for.
THEOREM SettledIsNoOther == Spec => []SettledNeverDiffers
<1>1. TypeOK /\ RoleInv => SettledNeverDiffers
  BY DocumentNoted DEF SettledNeverDiffers
<1> QED
  BY <1>1, TypeCorrect, RoleInvariant, PTL

\* Without faults the IAM role is there as well.
THEOREM SettledIsApplied == Spec => []SettledMeansApplied
<1>1. TypeOK /\ RoleInv => SettledMeansApplied
  <2> SUFFICES ASSUME TypeOK, RoleInv, pc = "idle", faults = 0, Settled(cache, arpCache)
               PROVE  Applied(cache, arpCache)
    BY DEF SettledMeansApplied
  <2>1. SettledStatus(cache)
    BY DEF Settled, ReconcileUnnecessary, SettledStatus
  <2>2. iam # NoObject
    BY <2>1 DEF RoleInv, SettledInv
  <2> QED
    BY <2>2, DocumentNoted
<1> QED
  BY <1>1, TypeCorrect, RoleInvariant, PTL

\* Without faults the stored status is true while nothing is at work on it.
THEOREM StatusTold == Spec => []StatusIsTrue
<1>1. TypeOK /\ LifecycleInv /\ RoleInv => StatusIsTrue
  <2> SUFFICES ASSUME TypeOK, LifecycleInv, RoleInv, pc = "idle", faults = 0,
                      cr.status.state = "OK", cr.status.og = cr.gen
               PROVE  iam.rev = cr.rev /\ iam.doc >= cr.status.readVer
    BY DEF StatusIsTrue
  <2> USE SettledTypes
  <2>1. Exists(cr)
    BY AbsentFields DEF LifecycleInv, StoredInv
  <2>2. SettledStatus(cr)
    BY <2>1 DEF SettledStatus
  <2> QED
    BY <2>2 DEF RoleInv, SettledInv
<1> QED
  BY <1>1, TypeCorrect, LifecycleCorrect, RoleInvariant, PTL

\* The first Role of its name owns the ServiceAccount it asks for, whatever fails
\* (role_controller.go:296-312).
THEOREM OwnerKept == Spec => []ServiceAccountOwned
<1>1. RoleInv => ServiceAccountOwned
  BY DEF RoleInv, OwnerInv, ServiceAccountOwned, Settled, ReconcileUnnecessary
<1> QED
  BY <1>1, RoleInvariant, PTL
-----------------------------------------------------------------------------
(* What is left to do. *)

\* A run that ends without an error has set the timer, and has settled the Role, found
\* it settled, or removed it.
RequestInv ==
  /\ Quiet /\ Exists(cr) => timer /\ SettledStatus(cr)
  /\ pc \in {"serviceAccount", "observe"} => obj.status.state = "OK"

LEMMA StepRequest ==
  ASSUME TypeOK, LifecycleInv, RoleInv, RequestInv, [Next]_vars
  PROVE  RequestInv'
<1>1. CASE User \/ SyncRole \/ RestartOperator
  <2>1. (pc' = pc /\ obj' = obj) \/ pc' = "idle"
    BY <1>1 DEF User, UserStep, UserCreate, UserEdit, UserDelete, SyncRole, Sync,
                RestartOperator, Restart
  <2>2. Quiet' => ~Exists(cr')
    BY <1>1, Busy, RestartBusy DEF User, SyncRole, RestartOperator
  <2> QED
    BY <2>1, <2>2 DEF RequestInv
<1>2. CASE TimerFires
  BY <1>2 DEF TimerFires, RequestInv, Quiet
<1>3. CASE WriteArp \/ DeleteArp \/ SyncArp \/ RoleAttachments \/ CollectServiceAccount
           \/ UNCHANGED vars
  <2>1. UNCHANGED <<cr, cacheFresh, pc, queued, obj, timer>>
    BY <1>3 DEF WriteArp, DeleteArp, SyncArp, RoleAttachments, Attachments,
       CollectServiceAccount, vars, base, local
  <2> QED
    BY <2>1, StillQuiet DEF RequestInv, SettledStatus
<1>4. CASE NotFound \/ Skip
  <2>1. /\ LoadAndReturn /\ pc' = "idle"
        /\ ~Exists(cache) \/ (NothingToDo(cache) /\ timer' = TRUE)
    BY <1>4 DEF NotFound, Skip, Dequeue, LoadAndReturn
  <2>2. Quiet' /\ Exists(cr') => /\ NothingToDo(cr) /\ timer' = TRUE /\ cr' = cr
                                 /\ cr.deleting => cr.fin
    BY <2>1, SkipQuiet DEF LifecycleInv, CacheInv, StoredInv
  <2> QED
    BY <2>1, <2>2 DEF RequestInv, NothingToDo, ReconcileUnnecessary, SettledStatus
<1>5. CASE \/ PolicyDocError \/ Start \/ AddFinalizer \/ CleanupRole \/ DeleteRole
           \/ CreateRole \/ Report
  <2>1. Retry \/ pc' \notin {"idle", "serviceAccount", "observe"}
    BY <1>5 DEF PolicyDocError, Start, Load, FirstStep, AfterFinalizer, AddFinalizer, Continue,
       Fails, CleanupRole, Cleanup, DeleteRole, Delete, AfterDelete, CreateRole,
       CreateAWSObject, Report, ReportError, Goto
  <2>2. pc' \notin {"serviceAccount", "observe"}
    BY <2>1 DEF Retry
  <2> QED
    BY <2>1, <2>2, Busy DEF RequestInv
<1>6. CASE RemoveFinalizer
  <2>1. pc' = "idle" /\ (Retry \/ cr' = Absent)
    BY <1>6 DEF RemoveFinalizer, Finishes, Fails, Return, Retry, Accepted, Stored
  <2> QED
    BY <2>1, Busy, DroppedCopy DEF RequestInv
<1>7. CASE OkStatusUpdate
  <2> DEFINE o == [obj EXCEPT !.status = OkStatus(obj)]
  <2>1. pc' = AfterOkStatus(o) /\ obj' = o
    BY <1>7 DEF OkStatusUpdate, Continue, Goto
  <2>2. o.status.state = "OK"
    BY RoleTypes DEF OkStatus, Resources, RoleStatuses
  <2>3. AfterOkStatus(o) # "idle"
    BY DEF AfterOkStatus
  <2> HIDE DEF o
  <2> QED
    BY <2>1, <2>2, <2>3, Busy DEF RequestInv
<1>8. CASE CreateServiceAccount
  <2>1. Retry \/ (pc = "serviceAccount" /\ pc' = "observe" /\ obj' = obj)
    BY <1>8 DEF CreateServiceAccount, Continue, Goto, Fails
  <2> QED
    BY <2>1, Busy DEF RequestInv, Retry
<1>9. CASE Observe
  <2> DEFINE s == Observed(obj)
  <2>1. pc = "observe" /\ pc' = "idle"
        /\ (Retry \/ (fresh /\ cr' = WithStatus(s) /\ timer' = TRUE))
    BY <1>9 DEF Observe, Finishes, Fails, Return, Retry, Accepted, Stored
  <2>2. s.og = obj.gen /\ s.state = "OK"
    BY <2>1, RoleTypes DEF RequestInv, Resources, RoleStatuses, Observed
  <2>3. WithStatus(s).status = s /\ WithStatus(s).gen = cr.gen
    BY RoleTypes DEF WithStatus, Resources
  <2>4. fresh => obj.gen = cr.gen
    BY DEF RoleInv, InHandInv
  <2> HIDE DEF s
  <2> QED
    BY <2>1, <2>2, <2>3, <2>4, Busy DEF RequestInv, SettledStatus
<1> QED
  BY <1>1, <1>2, <1>3, <1>4, <1>5, <1>6, <1>7, <1>8, <1>9 DEF Next, Reconcile

\* No request that would have finished the work on a Role gets lost, and a Role that
\* nobody works on is looked at again when its interval has passed.
THEOREM QuietIsWatched == Spec => []QuietMeansWatched
<1>1. Init => RequestInv
  BY DroppedCopy DEF Init, BaseInit, RequestInv
<1>2. RequestInv /\ RoleInv => QuietMeansWatched
  BY DEF RequestInv, RoleInv, NotedInv, SettledStatus, QuietMeansWatched
<1>3. TypeOK /\ LifecycleInv /\ RoleInv /\ RequestInv /\ [Next]_vars => RequestInv'
  BY StepRequest
<1> QED
  BY <1>1, <1>2, <1>3, TypeCorrect, LifecycleCorrect, RoleInvariant, PTL DEF Spec
==============================================================================
