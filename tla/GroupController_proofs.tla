------------------------ MODULE GroupController_proofs ------------------------
(***************************************************************************)
(* Theorems about GroupController, for all users, bounds, kinds of         *)
(* failure and answers of AWS: its types, the lifecycle of its IAM group,  *)
(* and that seen from outside it behaves as CloudResource says.            *)
(***************************************************************************)
EXTENDS GroupController, IamObject_proofs

-----------------------------------------------------------------------------
(* Types. *)

LEMMA GroupConstants ==
  /\ NoStatus \in GroupStatuses /\ NoStatus.arn = FALSE
  /\ \A t \in GroupStatuses : t.arn \in BOOLEAN
  /\ 0 \in 0 .. MaxEdits /\ 0 \in 0 .. MaxFaults
<1>1. NoStatus = [state |-> "", arn |-> FALSE, og |-> 0]
  BY GroupAssumption
<1>2. NoStatus \in GroupStatuses /\ NoStatus.arn = FALSE
  BY <1>1 DEF GroupStatuses
<1>3. \A t \in GroupStatuses : t.arn \in BOOLEAN
  BY DEF GroupStatuses
<1>4. 0 \in 0 .. MaxEdits /\ 0 \in 0 .. MaxFaults
  BY BoundsAssumption
<1> QED
  BY <1>2, <1>3, <1>4

\* The statuses Reconcile makes of one.
LEMMA GroupStatusTypes ==
  ASSUME NEW o \in Resources(GroupStatuses)
  PROVE  /\ OkStatus(o) \in GroupStatuses /\ OkStatus(o).arn = TRUE
         /\ ErrorStatus(o) \in GroupStatuses /\ ErrorStatus(o).arn = o.status.arn
         /\ [o.status EXCEPT !.og = o.gen] \in GroupStatuses
         /\ [o.status EXCEPT !.og = o.gen].arn = o.status.arn
BY DEF Resources, GroupStatuses, OkStatus, ErrorStatus

\* What the lemmas of IamObject_proofs ask of a state of GroupController.
LEMMA GroupTypes ==
  ASSUME TypeOK
  PROVE  /\ BaseTypeOK(GroupStatuses, GroupSteps) /\ IamTypeOK(IamGroups)
         /\ obj \in Resources(GroupStatuses) /\ cr \in Resources(GroupStatuses)
         /\ cache \in Resources(GroupStatuses) /\ Absent \in Resources(GroupStatuses)
         /\ cr.uid \in Nat /\ cache.uid \in Nat /\ obj.uid \in Nat /\ edits \in Nat
         /\ cr.rev \in Nat /\ cache.rev \in Nat /\ obj.rev \in Nat
         /\ obj.status.arn \in BOOLEAN /\ queued \in BOOLEAN
<1>1. BaseTypeOK(GroupStatuses, GroupSteps) /\ IamTypeOK(IamGroups)
  BY DEF TypeOK
<1> QED
  BY <1>1, CopyTypes, GroupConstants, AbsentType DEF BaseTypeOK, Resources

\* The copy that goes on from AddFinalizer.
LEMMA FinalizerAdded ==
  ASSUME TypeOK, AddFinalizer
  PROVE  \/ \E o \in Resources(GroupStatuses), p \in {"cleanup", "create"} :
              /\ Goto(p, o) /\ Accepted([cr EXCEPT !.fin = TRUE])
              /\ o.uid = obj.uid /\ o.rev = obj.rev /\ o.deleting = obj.deleting
              /\ o.fin = TRUE /\ o.status \in {obj.status, cr.status}
              /\ o.spec = obj.spec
         \/ Retry /\ Refused([cr EXCEPT !.fin = TRUE])
<1> DEFINE o == [Answer(obj) EXCEPT !.fin = TRUE]
<1>1. /\ o \in Resources(GroupStatuses)
      /\ o.uid = obj.uid /\ o.rev = obj.rev /\ o.deleting = obj.deleting
      /\ o.fin = TRUE /\ o.status \in {obj.status, cr.status} /\ o.spec = obj.spec
  BY GroupTypes DEF Answer, Resources
<1> HIDE DEF o
<1>2. AfterFinalizer(o) \in {"cleanup", "create"}
  BY DEF AfterFinalizer
<1> QED
  BY <1>1, <1>2 DEF AddFinalizer, o

\* A step that writes the status s keeps the types.
LEMMA StatusWriteType ==
  ASSUME TypeOK, NEW s \in GroupStatuses, Logged(WithStatus(s)),
         todo' \in SUBSET Users, UNCHANGED <<userVars, iam, attVars>>,
         \/ Return \/ Retry \/ \E p \in GroupSteps : Goto(p, [obj EXCEPT !.status = s])
  PROVE  TypeOK'
<1>1. WithStatus(s) \in Resources(GroupStatuses)
  BY GroupTypes, UpdatedType DEF WithStatus
<1>2. [obj EXCEPT !.status = s] \in Resources(GroupStatuses)
  BY GroupTypes, UpdatedType
<1>3. /\ pc' \in GroupSteps \union {"idle"} /\ obj' \in Resources(GroupStatuses)
      /\ queued' \in BOOLEAN
  BY <1>2, GroupTypes DEF Return, Retry, Goto
<1>4. BaseTypeOK(GroupStatuses, GroupSteps)'
  BY <1>1, <1>3, GroupTypes, WriteType
<1> QED
  BY <1>4 DEF TypeOK, userVars, attVars, IamTypeOK

\* Users write specs, copies are copied.
LEMMA StepSpec ==
  ASSUME TypeOK, SpecInv, [Next]_vars
  PROVE  SpecInv'
<1>1. CASE User
  BY <1>1, UserSpec, GroupTypes DEF User
<1>2. CASE SyncGroup \/ RestartOperator \/ GroupAttachments \/ ListingChanges
           \/ IamUserChanges \/ UNCHANGED vars
  BY <1>2, CopiedSpec DEF SyncGroup, Sync, RestartOperator, Restart, GroupAttachments,
                    Attachments, ListingChanges, IamUserChanges, vars, base
<1>3. CASE NotFound \/ Skip \/ Start \/ IamServiceError
  BY <1>3, CopiedSpec DEF NotFound, Skip, LoadAndReturn, Start, Load, IamServiceError
<1>4. CASE CleanupGroup \/ DeleteGroup \/ CreateGroup \/ AddUser
  BY <1>4, CopiedSpec DEF CleanupGroup, Cleanup, DeleteGroup, Delete, CreateGroup,
                          CreateAWSObject, AddUser, Goto, NoWrite
<1>5. CASE AddFinalizer
  <2> DEFINE new == [cr EXCEPT !.fin = TRUE]
  <2>1. new.spec = cr.spec /\ new.uid = cr.uid
    BY GroupTypes DEF Resources
  <2>2. obj' = Absent \/ (obj'.spec = obj.spec /\ obj'.uid = obj.uid)
    BY <1>5, FinalizerAdded DEF Retry, Goto
  <2>3. Logged(new)
    BY <1>5, FinalizerAdded DEF Logged
  <2> HIDE DEF new
  <2> QED
    BY <2>1, <2>2, <2>3, GroupTypes, WrittenSpec
<1>6. CASE RemoveFinalizer
  <2>1. Logged(Absent) /\ obj' = Absent
    BY <1>6 DEF RemoveFinalizer, Logged, Return, Retry
  <2> QED
    BY <2>1, GroupTypes, WrittenSpec
<1>7. CASE OkStatusUpdate \/ UserError \/ Observe \/ Report
  <2>1. PICK s : Logged(WithStatus(s)) /\ obj' \in {Absent, [obj EXCEPT !.status = s]}
    <3>1. CASE OkStatusUpdate
      BY <3>1, GroupTypes DEF OkStatusUpdate, Goto, Resources
    <3>2. CASE UserError \/ Observe \/ Report
      BY <3>2 DEF UserError, Observe, Report, ReportError, Return, Retry, Logged
    <3> QED
      BY <1>7, <3>1, <3>2
  <2>2. /\ [obj EXCEPT !.status = s].spec = obj.spec /\ [obj EXCEPT !.status = s].uid = obj.uid
        /\ WithStatus(s).spec = cr.spec /\ WithStatus(s).uid = cr.uid
    BY GroupTypes DEF Resources, WithStatus
  <2> QED
    BY <2>1, <2>2, GroupTypes, WrittenSpec
<1> QED
  BY <1>1, <1>2, <1>3, <1>4, <1>5, <1>6, <1>7 DEF Next, Reconcile

LEMMA InitInv == Init => TypeOK /\ SpecInv /\ LifecycleInv
<1>1. SUFFICES ASSUME Init PROVE TypeOK /\ SpecInv /\ LifecycleInv
  OBVIOUS
<1>2. /\ cr = Absent /\ cache = Absent /\ obj = Absent /\ fresh = FALSE /\ pc = "idle"
      /\ edits = 0 /\ iam = NoObject
  BY <1>1 DEF Init, BaseInit, IamInit
<1>3. /\ Absent.uid = 0 /\ Absent.rev = 0 /\ Absent.fin = FALSE /\ Absent.deleting = FALSE
      /\ Absent.status.arn = FALSE
  BY GroupConstants DEF Absent
<1>4. BaseTypeOK(GroupStatuses, GroupSteps)
  BY <1>1, GroupConstants, AbsentType DEF Init, BaseInit, BaseTypeOK
<1>5. TypeOK
  BY <1>1, <1>4 DEF Init, TypeOK, IamInit, IamTypeOK
<1>6. LifecycleInv
  BY <1>2, <1>3 DEF LifecycleInv, StoredInv, CacheInv, RunInv, CopyInv, ArnInv, AheadInv,
     FreshInv, StepInv, Exists, Holding, Provisioned, Recorded
<1> QED
  BY <1>2, <1>3, <1>5, <1>6 DEF SpecInv, SpecOf, Exists

\* The users the copy in hand lists, and the members the IAM group gets.
LEMMA InHandType ==
  ASSUME TypeOK, SpecInv, LifecycleInv, pc # "idle"
  PROVE  obj.spec.users \in SUBSET Users
<1>1. Exists(obj)
  BY DEF LifecycleInv, RunInv, StepInv
<1> QED
  BY <1>1, GroupAssumption DEF SpecInv, SpecOf, GroupSpecs

LEMMA MembersAdded ==
  ASSUME TypeOK, LifecycleInv, AddUser
  PROVE  /\ iam \in IamGroups /\ iam' \in IamGroups
         /\ iam # NoObject /\ iam' # NoObject
<1>1. iam # NoObject
  BY DEF AddUser, LifecycleInv, RunInv, StepInv, Provisioned, Recorded
<1>2. iam \in IamGroups
  BY <1>1 DEF TypeOK, IamTypeOK
<1>3. PICK u \in todo : iam' \in {iam, WithMembers({u}), WithMembers({u} \intersect alive)}
  BY DEF AddUser
<1>4. {u} \in SUBSET Users /\ {u} \intersect alive \in SUBSET Users
  BY DEF TypeOK
<1>5. ASSUME NEW S \in SUBSET Users PROVE WithMembers(S) \in IamGroups
  BY <1>2 DEF WithMembers, IamGroups
<1>6. iam' \in IamGroups
  BY <1>2, <1>3, <1>4, <1>5
<1> QED
  BY <1>1, <1>2, <1>6, GroupAssumption

LEMMA StepType ==
  ASSUME TypeOK, SpecInv, LifecycleInv, [Next]_vars
  PROVE  TypeOK'
<1> USE DEF GroupSteps
<1>1. ASSUME BaseTypeOK(GroupStatuses, GroupSteps)', Kept
      PROVE  TypeOK'
  BY <1>1 DEF TypeOK, Kept, attVars, userVars, IamTypeOK
<1>2. CASE User
  BY <1>1, <1>2, UserType, GroupTypes, GroupConstants DEF User
<1>3. CASE SyncGroup
  BY <1>1, <1>3, SyncType, GroupTypes, GroupConstants DEF SyncGroup
<1>4. CASE RestartOperator
  <2>1. BaseTypeOK(GroupStatuses, GroupSteps)'
    BY <1>4, SyncType, GroupTypes, GroupConstants DEF RestartOperator
  <2> QED
    BY <1>4, <2>1 DEF RestartOperator, TypeOK, attVars, userVars, IamTypeOK
<1>5. CASE GroupAttachments
  <2>1. UNCHANGED <<base, iam, todo, userVars>> /\ refs' \in BOOLEAN /\ bound' \in BOOLEAN
    BY <1>5 DEF GroupAttachments, Attachments, TypeOK, IamTypeOK
  <2> QED
    BY <2>1 DEF TypeOK, base, userVars, BaseTypeOK, IamTypeOK
<1>6. CASE ListingChanges \/ IamUserChanges
  <2>1. /\ UNCHANGED <<base, todo, iam, attVars>>
        /\ listed' \subseteq Users /\ alive' \subseteq Users
    BY <1>6, GroupAssumption DEF ListingChanges, IamUserChanges, TypeOK
  <2> QED
    BY <2>1 DEF TypeOK, base, attVars, BaseTypeOK, IamTypeOK
<1>7. CASE NotFound \/ Skip
  BY <1>7 DEF NotFound, Skip, LoadAndReturn, TypeOK, BaseTypeOK, Kept, attVars, userVars,
              IamTypeOK
<1>8. CASE Start \/ IamServiceError
  <2>1. FirstStep(cache) \in GroupSteps /\ "errWithStatus" \in GroupSteps
    BY DEF FirstStep, AfterFinalizer
  <2> QED
    BY <1>1, <1>8, <2>1, LoadType, GroupTypes DEF Start, IamServiceError
<1>9. CASE AddFinalizer
  <2>1. [cr EXCEPT !.fin = TRUE] \in Resources(GroupStatuses)
    BY GroupTypes DEF Resources
  <2>2. /\ Logged([cr EXCEPT !.fin = TRUE]) /\ obj' \in Resources(GroupStatuses)
        /\ pc' \in GroupSteps \union {"idle"} /\ queued' \in BOOLEAN
    BY <1>9, FinalizerAdded, GroupTypes DEF Logged, Goto, Retry
  <2>3. BaseTypeOK(GroupStatuses, GroupSteps)'
    BY <2>1, <2>2, WriteType, GroupTypes
  <2> QED
    BY <1>1, <1>9, <2>3 DEF AddFinalizer
<1>10. CASE CleanupGroup \/ DeleteGroup
  <2>1. BaseTypeOK(GroupStatuses, GroupSteps)' /\ IamTypeOK(IamGroups)'
    BY <1>10, DeprovisionType, GroupTypes DEF CleanupGroup, DeleteGroup
  <2> QED
    BY <1>10, <2>1 DEF CleanupGroup, DeleteGroup, Members, userVars, TypeOK
<1>11. CASE RemoveFinalizer
  <2>1. Logged(Absent) /\ obj' = Absent /\ pc' = "idle" /\ queued' \in BOOLEAN
    BY <1>11, GroupTypes DEF RemoveFinalizer, Logged, Return, Retry
  <2>2. BaseTypeOK(GroupStatuses, GroupSteps)'
    BY <2>1, WriteType, GroupTypes
  <2> QED
    BY <1>1, <1>11, <2>2 DEF RemoveFinalizer
<1>12. CASE CreateGroup
  <2>1. [members |-> {}] \in IamGroups
    BY DEF IamGroups
  <2>2. BaseTypeOK(GroupStatuses, GroupSteps)' /\ IamTypeOK(IamGroups)'
    BY <1>12, <2>1, ProvisionType, GroupTypes DEF CreateGroup
  <2> QED
    BY <1>12, <2>2 DEF CreateGroup, Members, userVars, TypeOK
<1>13. CASE OkStatusUpdate
  <2>1. /\ OkStatus(obj) \in GroupStatuses
        /\ [obj EXCEPT !.status = OkStatus(obj)].status = OkStatus(obj)
        /\ [obj EXCEPT !.status = OkStatus(obj)].spec = obj.spec
    BY GroupTypes, GroupStatusTypes DEF Resources
  <2>2. NextUser(obj.spec.users) \in GroupSteps
    BY DEF NextUser
  <2>3. todo' \in SUBSET Users
    BY <1>13, InHandType DEF OkStatusUpdate
  <2> HIDE DEF GroupSteps
  <2> QED
    BY <1>13, <2>1, <2>2, <2>3, StatusWriteType DEF OkStatusUpdate
<1>14. CASE AddUser
  <2>1. /\ pc' \in GroupSteps \union {"idle"} /\ obj' \in Resources(GroupStatuses)
        /\ queued' \in BOOLEAN /\ (UNCHANGED faults \/ Fault) /\ todo' \in SUBSET Users
    BY <1>14, GroupTypes DEF AddUser, Goto, NextUser, TypeOK
  <2>2. BaseTypeOK(GroupStatuses, GroupSteps)'
    BY <1>14, <2>1, NoWriteType, GroupTypes DEF AddUser
  <2> QED
    BY <1>14, <2>1, <2>2, MembersAdded DEF AddUser, TypeOK, userVars, attVars, IamTypeOK
<1>15. CASE UserError \/ Observe
  <2>1. PICK s \in GroupStatuses : Logged(WithStatus(s)) /\ (Return \/ Retry)
    BY <1>15, GroupStatusTypes, GroupTypes DEF UserError, Observe, Logged
  <2> QED
    BY <1>15, <2>1, StatusWriteType DEF UserError, Observe, Kept, TypeOK
<1>16. CASE Report
  BY <1>1, <1>16, ReportType, GroupStatusTypes, GroupTypes, GroupConstants DEF Report
<1>17. CASE UNCHANGED vars
  BY <1>17 DEF TypeOK, vars, base, attVars, userVars, BaseTypeOK, IamTypeOK
<1> QED
  BY <1>2, <1>3, <1>4, <1>5, <1>6, <1>7, <1>8, <1>9, <1>10, <1>11, <1>12, <1>13, <1>14,
     <1>15, <1>16, <1>17 DEF Next, Reconcile

-----------------------------------------------------------------------------
(* The lifecycle. *)

LEMMA StepLifecycle ==
  ASSUME TypeOK, SpecInv, LifecycleInv, [Next]_vars
  PROVE  LifecycleInv' /\ LifecycleStep
<1>1. CASE User
  <2>1. UserStep /\ UNCHANGED iam
    BY <1>1 DEF User, Kept
  <2>2. LifecycleInv'
    BY <2>1, GroupTypes, GroupConstants, CreateLifecycle, EditLifecycle, DeleteLifecycle
       DEF UserStep
  <2> QED
    BY <2>1, <2>2, GroupTypes, GroupConstants, UserRefines
<1>2. CASE SyncGroup
  BY <1>2, GroupTypes, GroupConstants, SyncLifecycle, QuietStep DEF SyncGroup, Sync, Kept
<1>3. CASE RestartOperator
  BY <1>3, GroupTypes, GroupConstants, RestartLifecycle, QuietStep
     DEF RestartOperator, Restart
<1>4. CASE GroupAttachments \/ ListingChanges \/ IamUserChanges \/ NotFound \/ Skip
           \/ UNCHANGED vars
  <2>1. UNCHANGED <<cr, cache, cacheFresh, obj, fresh, pc, edits, iam>>
    BY <1>4 DEF GroupAttachments, Attachments, ListingChanges, IamUserChanges, NotFound, Skip,
                LoadAndReturn, Kept, vars, base
  <2> QED
    BY <2>1, GroupTypes, QuietLifecycle, QuietStep
<1>5. CASE Start
  <2>1. Load(cache, FirstStep(cache)) /\ Exists(cache) /\ UNCHANGED iam
    BY <1>5 DEF Start, Kept
  <2>2. /\ FirstStep(cache) \in {"errWithStatus", "addFinalizer", "cleanup", "create"}
        /\ FirstStep(cache) = "addFinalizer" => ~cache.fin /\ ~cache.deleting
        /\ FirstStep(cache) = "cleanup" => cache.fin
        /\ FirstStep(cache) = "create" => cache.fin /\ ~cache.deleting
    BY <1>5 DEF Start, NothingToDo, FirstStep, AfterFinalizer
  <2>3. LifecycleInv'
    BY <2>1, <2>2, GroupTypes, LoadLifecycle
  <2> QED
    BY <2>1, <2>3, QuietStep DEF Load
<1>6. CASE IamServiceError
  <2>1. Load(cache, "errWithStatus") /\ Exists(cache) /\ UNCHANGED iam
    BY <1>6 DEF IamServiceError, Kept
  <2>2. LifecycleInv'
    BY <2>1, GroupTypes, LoadLifecycle
  <2> QED
    BY <2>1, <2>2, QuietStep DEF Load
<1>7. CASE AddFinalizer
  <2>1. pc = "addFinalizer" /\ UNCHANGED iam
    BY <1>7 DEF AddFinalizer, Kept
  <2>2. Logged([cr EXCEPT !.fin = TRUE])
    BY <1>7, FinalizerAdded DEF Logged
  <2>3. LifecycleStep
    BY <2>1, <2>2, GroupTypes, FinalizerRefines
  <2>4. ASSUME NEW o \in Resources(GroupStatuses), NEW p \in {"cleanup", "create"},
               Goto(p, o), Accepted([cr EXCEPT !.fin = TRUE]),
               o.uid = obj.uid, o.rev = obj.rev, o.deleting = obj.deleting,
               o.fin = TRUE, o.status \in {obj.status, cr.status}
        PROVE  LifecycleInv'
    BY <2>1, <2>4, GroupTypes, FinalizerLifecycle
  <2>5. CASE Retry /\ Refused([cr EXCEPT !.fin = TRUE])
    <3>1. StoredInv' /\ CacheInv'
      BY <2>1, <2>2, GroupTypes, FinalizerStored
    <3>2. pc' = "idle" /\ obj' = Absent /\ fresh' = FALSE /\ edits' \in Nat
      BY <2>2, <2>5, GroupTypes, Written DEF Retry
    <3> QED
      BY <2>3, <3>1, <3>2, GroupConstants, ReturnedRun DEF LifecycleInv
  <2> QED
    BY <1>7, <2>3, <2>4, <2>5, FinalizerAdded
<1>8. CASE CleanupGroup
  <2>1. Cleanup
    BY <1>8 DEF CleanupGroup
  <2> QED
    BY <2>1, GroupTypes, CleanupLifecycle, QuietStep DEF Cleanup, NoWrite
<1>9. CASE DeleteGroup
  <2>1. Delete
    BY <1>9 DEF DeleteGroup
  <2>2. UNCHANGED cr /\ (iam' = iam \/ (pc = "delete" /\ iam' = NoObject /\ obj.status.arn))
    BY <2>1 DEF Delete, NoWrite
  <2> QED
    BY <2>1, <2>2, GroupTypes, GroupConstants, DeprovisionLifecycle, AwsRefines
<1>10. CASE RemoveFinalizer
  <2>1. /\ pc = "removeFinalizer" /\ Logged(Absent) /\ UNCHANGED iam
        /\ pc' = "idle" /\ obj' = Absent
    BY <1>10 DEF RemoveFinalizer, Logged, Return, Retry, Kept
  <2> QED
    BY <2>1, GroupTypes, GroupConstants, ReleaseLifecycle, ReleaseRefines
<1>11. CASE CreateGroup
  <2>1. [members |-> {}] # NoObject
    <3>1. [members |-> {}] \in IamGroups
      BY DEF IamGroups
    <3> QED
      BY <3>1, GroupAssumption
  <2>2. pc = "create" /\ CreateAWSObject([members |-> {}], "errorStatus")
    BY <1>11 DEF CreateGroup
  <2>3. UNCHANGED cr /\ (iam' = iam \/ (iam = NoObject /\ iam' # NoObject))
    BY <2>1, <2>2 DEF CreateAWSObject, NoWrite
  <2> QED
    BY <2>1, <2>2, <2>3, GroupTypes, GroupConstants, ProvisionLifecycle, AwsRefines
<1>12. CASE OkStatusUpdate
  <2> DEFINE s == OkStatus(obj)
             p == NextUser(obj.spec.users)
  <2>1. /\ [obj EXCEPT !.status = s].status = s /\ s.arn = TRUE
        /\ [obj EXCEPT !.status = s].spec = obj.spec
    BY GroupTypes, GroupStatusTypes DEF Resources
  <2>2. p \in {"observe", "addUsers"}
    BY DEF NextUser
  <2>3. /\ Goto(p, [obj EXCEPT !.status = s]) /\ Logged(WithStatus(s))
        /\ UNCHANGED iam /\ pc = "okStatus"
    BY <1>12, <2>1 DEF OkStatusUpdate
  <2> HIDE DEF s, p
  <2>4. /\ pc \in Provisioned /\ pc \in Holding \ Recorded /\ iam # NoObject
        /\ p \in Holding /\ p \in Recorded
    BY <2>2, <2>3 DEF Holding, Provisioned, Recorded, LifecycleInv, RunInv, StepInv
  <2>5. LifecycleInv'
    BY <2>1, <2>3, <2>4, GroupTypes, StatusLifecycle
  <2> QED
    BY <2>1, <2>3, <2>4, <2>5, GroupTypes, GroupConstants, StatusRefines
<1>13. CASE AddUser
  <2>1. PICK p \in {"observe", "addUsers", "userError"} : Goto(p, obj)
    BY <1>13 DEF AddUser, NextUser
  <2>2. NoWrite /\ pc \in Recorded /\ p \in Recorded
    BY <1>13 DEF AddUser, Recorded
  <2>3. iam # NoObject /\ iam' # NoObject
    BY <1>13, MembersAdded
  <2>4. LifecycleInv'
    BY <2>1, <2>2, <2>3, GroupTypes, OtherCallLifecycle
  <2>5. UNCHANGED cr
    BY <2>2 DEF NoWrite
  <2> QED
    BY <2>3, <2>4, <2>5, GroupTypes, GroupConstants, AwsRefines
<1>14. CASE UserError \/ Observe
  <2>1. PICK s \in GroupStatuses : s.arn = obj.status.arn /\ Logged(WithStatus(s))
    BY <1>14, GroupTypes, GroupStatusTypes DEF UserError, Observe, Logged
  <2>2. /\ pc \in {"userError", "observe"} /\ UNCHANGED iam
        /\ pc' = "idle" /\ obj' = Absent
    BY <1>14 DEF UserError, Observe, Return, Retry, Kept
  <2>3. pc \in Provisioned /\ pc \in Holding /\ pc \in Recorded
    BY <2>2 DEF Recorded, Provisioned, Holding
  <2>4. s.arn = TRUE /\ (fresh => cr.fin)
    BY <2>1, <2>2, <2>3, GroupTypes DEF LifecycleInv, RunInv, StepInv, FreshInv
  <2>5. StoredInv' /\ CacheInv'
    BY <2>1, <2>2, <2>4, GroupTypes, StatusStored
  <2>6. fresh' = FALSE /\ edits' \in Nat
    BY <2>1, <2>2, GroupTypes, StatusWritten
  <2>7. RunInv'
    BY <2>2, <2>6, GroupConstants, ReturnedRun
  <2>8. LifecycleStep
    BY <2>1, <2>2, <2>3, <2>4, GroupTypes, GroupConstants, StatusRefines
  <2> QED
    BY <2>5, <2>7, <2>8 DEF LifecycleInv
<1>15. CASE Report
  <2> DEFINE s == ErrorStatus(obj)
  <2>1. ReportError /\ UNCHANGED iam /\ Logged(WithStatus(s))
    BY <1>15 DEF Report, ReportError, Kept
  <2>2. s.arn = obj.status.arn /\ s.arn \in BOOLEAN
    BY GroupTypes, GroupStatusTypes
  <2>3. pc \notin Recorded
    BY <2>1 DEF ReportError, Recorded
  <2>4. LifecycleInv'
    BY <2>1, <2>2, GroupTypes, GroupConstants, ReportLifecycle
  <2> HIDE DEF s
  <2> QED
    BY <2>1, <2>2, <2>3, <2>4, GroupTypes, GroupConstants, StatusRefines
<1> QED
  BY <1>1, <1>2, <1>3, <1>4, <1>5, <1>6, <1>7, <1>8, <1>9, <1>10, <1>11, <1>12, <1>13,
     <1>14, <1>15 DEF Next, Reconcile

\* Types, specs and lifecycle hold together: that the members are users needs
\* to know that the copy in hand is one of a CR.
LEMMA Inductive == Spec => [](TypeOK /\ SpecInv /\ LifecycleInv)
<1>1. TypeOK /\ SpecInv /\ LifecycleInv /\ [Next]_vars
        => (TypeOK /\ SpecInv /\ LifecycleInv)'
  BY StepType, StepSpec, StepLifecycle
<1> QED
  BY InitInv, <1>1, PTL DEF Spec

\* Every variable keeps its type: whatever copy a Reconcile works on, even one of a
\* CR that is gone, the users it adds are those of a spec somebody wrote.
THEOREM TypeCorrect == Spec => []TypeOK
  BY Inductive, PTL

\* Whatever copy a Reconcile works on, and whatever fails: it holds the CR by its
\* finalizer while it creates the IAM group, and removes the finalizer only of
\* a CR whose known IAM group is gone.
THEOREM LifecycleCorrect == Spec => []LifecycleInv
  BY Inductive, PTL

\* Seen from outside, a Group and its IAM group behave as CloudResource says.
THEOREM RefinesCloudResource == Spec => LifecycleSpec
<1>1. Init => Lifecycle!Init
  <2>1. SUFFICES ASSUME Init PROVE Lifecycle!Init
    OBVIOUS
  <2>2. cr.uid = 0 /\ cr.status.arn = FALSE /\ iam = NoObject
    BY <2>1, GroupConstants DEF Init, BaseInit, IamInit, Absent
  <2> QED
    BY <2>2 DEF Lifecycle!Init, Phase, Exists
<1>2. TypeOK /\ SpecInv /\ LifecycleInv /\ [Next]_vars
        => [Lifecycle!Next]_(Lifecycle!vars)
  BY StepLifecycle DEF LifecycleStep
<1> QED
  BY <1>1, <1>2, Inductive, PTL DEF Spec, LifecycleSpec, Lifecycle!Spec

\* An ARN that reached the status is never lost while the CR exists.
THEOREM ArnIsKept == Spec => ArnNeverForgotten
<1>1. TypeOK /\ SpecInv /\ LifecycleInv /\ [Next]_vars
        => [Exists(cr) /\ cr'.uid = cr.uid /\ cr.status.arn => cr'.status.arn]_cr
  BY StepLifecycle, StepKeepsArn
<1> QED
  BY <1>1, Inductive, PTL DEF Spec, ArnNeverForgotten

-----------------------------------------------------------------------------
(* The members of the IAM group. *)

\* A copy is of a generation the CR had: of the same generation, it has its spec.
SeenInv(o) ==
  /\ o.status.og <= o.gen /\ (Exists(o) => o.gen # 0)
  /\ Exists(o) /\ o.uid = cr.uid => o.gen <= cr.gen /\ (o.gen = cr.gen => o.spec = cr.spec)

\* A generation is noted as observed by a run on a copy of it.  No later run
\* works on an older copy, for the cache it takes it from does not go back.
NotedInv ==
  cr.status.og # 0 => /\ cache.uid = cr.uid /\ cache.gen >= cr.status.og
                      /\ Exists(obj) => obj.uid = cr.uid /\ obj.gen >= cr.status.og

\* The run under way, its copy, and what it has done to the IAM group.
LoopInv ==
  /\ fresh => obj.gen = cr.gen
  /\ Exists(obj) /\ obj.uid = cr.uid => cache.gen >= obj.gen
  /\ pc = "okStatus" => iam.members = {}
  /\ pc = "addUsers" => todo \subseteq obj.spec.users
  /\ pc \in {"addUsers", "observe"} => iam.members \subseteq obj.spec.users

MembersInv ==
  /\ SeenInv(cr) /\ SeenInv(cache) /\ SeenInv(obj)
  /\ NotedInv /\ LoopInv /\ NobodyElse

LEMMA MembersTypes ==
  ASSUME TypeOK
  PROVE  /\ cr.gen \in Nat /\ cache.gen \in Nat /\ obj.gen \in Nat
         /\ cr.status.og \in Nat /\ cache.status.og \in Nat /\ obj.status.og \in Nat
         /\ cr.uid \in Nat /\ cache.uid \in Nat /\ obj.uid \in Nat /\ edits \in Nat
BY GroupTypes DEF Resources, GroupStatuses

LEMMA AbsentFields ==
  /\ Absent.uid = 0 /\ Absent.gen = 0 /\ Absent.status.og = 0
<1>1. NoStatus.og = 0
  BY GroupAssumption
<1> QED
  BY <1>1 DEF Absent

\* The copy a returning run drops, and a CR that goes.
LEMMA DroppedCopy == ~Exists(Absent) /\ Absent.status.og = 0 /\ Absent.status.og <= Absent.gen
BY AbsentFields DEF Exists

LEMMA UserMembers ==
  ASSUME TypeOK, LifecycleInv, MembersInv, User
  PROVE  MembersInv'
<1> USE MembersTypes
<1>1. /\ UNCHANGED <<cache, obj, pc, iam, todo>> /\ fresh' = FALSE
      /\ cache.uid <= edits /\ obj.uid <= edits
  BY DEF User, UserStep, UserCreate, UserEdit, UserDelete, WrittenByOthers, Kept,
         LifecycleInv, CacheInv, RunInv, CopyInv
<1>2. CASE UserCreate
  <2>1. PICK s \in Specs :
          cr' = [Absent EXCEPT !.uid = edits + 1, !.gen = 1, !.rev = edits + 1, !.spec = s]
    BY <1>2 DEF UserCreate, WrittenByOthers
  <2>2. cr'.uid = edits + 1 /\ cr'.gen = 1 /\ cr'.status.og = 0
    BY <2>1, AbsentFields DEF Absent
  <2>3. SeenInv(cr)' /\ SeenInv(cache)' /\ SeenInv(obj)'
    BY <1>1, <2>2 DEF MembersInv, SeenInv, Exists
  <2>4. NotedInv' /\ LoopInv'
    BY <1>1, <2>2 DEF MembersInv, NotedInv, LoopInv, Exists
  <2>5. NobodyElse'
    BY <2>2 DEF NobodyElse, Settled, OnlyStatusUpdated
  <2> QED
    BY <2>3, <2>4, <2>5 DEF MembersInv
<1>3. CASE UserEdit \/ (UserDelete /\ cr.fin)
  <2>1. \/ \E s \in Specs : cr' = [cr EXCEPT !.gen = cr.gen + 1, !.rev = edits + 1, !.spec = s]
        \/ cr' = [cr EXCEPT !.deleting = TRUE, !.gen = cr.gen + 1]
    BY <1>3 DEF UserEdit, UserDelete, WrittenByOthers
  <2>2. cr'.uid = cr.uid /\ cr'.gen = cr.gen + 1 /\ cr'.status = cr.status
    BY <2>1, GroupTypes DEF Resources
  <2>3. SeenInv(cr)' /\ SeenInv(cache)' /\ SeenInv(obj)'
    BY <1>1, <2>2 DEF MembersInv, SeenInv, Exists
  <2>4. NotedInv' /\ LoopInv'
    BY <1>1, <2>2 DEF MembersInv, NotedInv, LoopInv, Exists
  <2>5. NobodyElse'
    BY <2>2, <2>3 DEF MembersInv, SeenInv, NobodyElse, Settled, OnlyStatusUpdated
  <2> QED
    BY <2>3, <2>4, <2>5 DEF MembersInv
<1>4. CASE UserDelete /\ ~cr.fin
  <2>1. cr' = Absent
    BY <1>4 DEF UserDelete, WrittenByOthers
  <2>2. SeenInv(cr)' /\ SeenInv(cache)' /\ SeenInv(obj)'
    BY <1>1, <2>1, DroppedCopy DEF MembersInv, SeenInv, Exists
  <2>3. NotedInv' /\ LoopInv' /\ NobodyElse'
    BY <1>1, <2>1, DroppedCopy DEF MembersInv, NotedInv, LoopInv, NobodyElse, Settled, Exists
  <2> QED
    BY <2>2, <2>3 DEF MembersInv
<1> QED
  BY <1>2, <1>3, <1>4 DEF User, UserStep

\* The surroundings, the informer, a restart, a run that starts or gives up before
\* it did anything.
LEMMA CopiedMembers ==
  ASSUME TypeOK, LifecycleInv, MembersInv,
         \/ SyncGroup \/ RestartOperator \/ GroupAttachments \/ ListingChanges
         \/ IamUserChanges \/ NotFound \/ Skip \/ Start \/ IamServiceError \/ UNCHANGED vars
  PROVE  MembersInv'
<1> USE MembersTypes
<1>1. /\ UNCHANGED <<cr, iam>>
      /\ \/ UNCHANGED <<obj, fresh, pc, todo>> /\ cache' \in {cache, cr}
         \/ cache' = cr /\ obj' = Absent /\ fresh' = FALSE /\ pc' = "idle"
         \/ /\ cache' = cache /\ obj' = cache /\ fresh' = cacheFresh
            /\ pc' \in {"errWithStatus", FirstStep(cache)}
  BY DEF SyncGroup, Sync, RestartOperator, Restart, GroupAttachments, Attachments,
         ListingChanges, IamUserChanges, NotFound, Skip, LoadAndReturn, Start, Load,
         IamServiceError, Kept, vars, base
<1>2. NobodyElse' /\ SeenInv(cr)'
  BY <1>1 DEF MembersInv, NobodyElse, Settled, OnlyStatusUpdated, SeenInv, Exists
<1>3. CASE UNCHANGED <<obj, fresh, pc, todo>> /\ cache' \in {cache, cr}
  <2>1. SeenInv(cache)' /\ SeenInv(obj)' /\ NotedInv' /\ LoopInv'
    BY <1>1, <1>3 DEF MembersInv, SeenInv, NotedInv, LoopInv, Exists
  <2> QED
    BY <1>2, <2>1 DEF MembersInv
<1>4. CASE cache' = cr /\ obj' = Absent /\ fresh' = FALSE /\ pc' = "idle"
  <2>1. SeenInv(cache)' /\ SeenInv(obj)' /\ NotedInv' /\ LoopInv'
    BY <1>1, <1>4, DroppedCopy DEF MembersInv, SeenInv, NotedInv, LoopInv, Exists
  <2> QED
    BY <1>2, <2>1 DEF MembersInv
<1>5. CASE /\ cache' = cache /\ obj' = cache /\ fresh' = cacheFresh
           /\ pc' \in {"errWithStatus", FirstStep(cache)}
  <2>1. pc' \in {"errWithStatus", "addFinalizer", "cleanup", "create"}
    BY <1>5 DEF FirstStep, AfterFinalizer
  <2>2. SeenInv(cache)' /\ SeenInv(obj)' /\ NotedInv'
    BY <1>1, <1>5 DEF MembersInv, SeenInv, NotedInv, Exists
  <2>3. LoopInv'
    BY <1>1, <1>5, <2>1 DEF LifecycleInv, CacheInv, LoopInv
  <2> QED
    BY <1>2, <2>2, <2>3 DEF MembersInv
<1> QED
  BY <1>1, <1>3, <1>4, <1>5

\* The finalizer is written or removed.
LEMMA FinalizerMembers ==
  ASSUME TypeOK, LifecycleInv, MembersInv, AddFinalizer \/ RemoveFinalizer
  PROVE  MembersInv'
<1> USE MembersTypes
<1>1. UNCHANGED <<iam, todo>>
  BY DEF AddFinalizer, RemoveFinalizer, Kept
<1>2. CASE AddFinalizer
  <2> DEFINE new == [cr EXCEPT !.fin = TRUE]
  <2>1. /\ new.uid = cr.uid /\ new.gen = cr.gen /\ new.spec = cr.spec
        /\ new.status = cr.status
    BY GroupTypes DEF Resources
  <2>2. Logged(new)
    BY <1>2, FinalizerAdded DEF Logged
  <2> HIDE DEF new
  <2>3. /\ cr'.uid = cr.uid /\ cr'.gen = cr.gen /\ cr'.spec = cr.spec
        /\ cr'.status = cr.status /\ cache' = cache /\ (fresh' => fresh /\ pc' # "idle")
    BY <2>1, <2>2, Written, GroupTypes
  <2>4. \/ obj' = Absent /\ pc' = "idle"
        \/ /\ pc' \in {"cleanup", "create"} /\ fresh /\ obj'.uid = obj.uid
           /\ obj'.gen = obj.gen /\ obj'.spec = obj.spec
           /\ obj'.status \in {obj.status, cr.status}
    BY <1>2, GroupTypes DEF AddFinalizer, AfterFinalizer, Goto, Retry, Accepted, Answer, Resources
  <2>5. SeenInv(cr)' /\ SeenInv(cache)' /\ NobodyElse'
    BY <1>1, <2>3 DEF MembersInv, SeenInv, NobodyElse, Settled, OnlyStatusUpdated, Exists
  <2>6. SeenInv(obj)'
    BY <2>3, <2>4, DroppedCopy DEF MembersInv, SeenInv, LoopInv, Exists
  <2>7. NotedInv' /\ LoopInv'
    BY <1>1, <2>3, <2>4, DroppedCopy DEF MembersInv, NotedInv, LoopInv, Exists
  <2> QED
    BY <2>5, <2>6, <2>7 DEF MembersInv
<1>3. CASE RemoveFinalizer
  <2>1. Logged(Absent) /\ obj' = Absent /\ pc' = "idle"
    BY <1>3 DEF RemoveFinalizer, Logged, Return, Retry
  <2>2. cr' \in {cr, Absent} /\ cache' = cache /\ fresh' = FALSE
    BY <2>1, Written, GroupTypes
  <2>3. SeenInv(cr)' /\ SeenInv(cache)' /\ SeenInv(obj)'
    BY <2>1, <2>2, DroppedCopy DEF MembersInv, SeenInv, Exists
  <2>4. NotedInv' /\ LoopInv' /\ NobodyElse'
    BY <1>1, <2>1, <2>2, DroppedCopy
       DEF MembersInv, NotedInv, LoopInv, NobodyElse, Settled, OnlyStatusUpdated, Exists
  <2> QED
    BY <2>3, <2>4 DEF MembersInv
<1> QED
  BY <1>2, <1>3

\* What a run does to the IAM group of a settled Group it does for the same spec.
LEMMA InHandSpec ==
  ASSUME TypeOK, MembersInv, Exists(obj), Settled(cr)
  PROVE  obj.spec = cr.spec
<1> USE MembersTypes
<1>1. cr.status.og # 0
  BY DEF MembersInv, SeenInv, Settled, OnlyStatusUpdated
<1> QED
  BY <1>1 DEF MembersInv, NotedInv, SeenInv, Settled, OnlyStatusUpdated, Exists

\* The IAM group is created empty, and deleted.
LEMMA GroupMembers ==
  ASSUME TypeOK, LifecycleInv, MembersInv, CleanupGroup \/ DeleteGroup \/ CreateGroup
  PROVE  MembersInv'
<1> USE MembersTypes
<1>1. /\ UNCHANGED <<cr, cache, obj, todo>> /\ (fresh' => fresh)
      /\ pc' \in {"errorStatus", "delete", "removeFinalizer", "create", "okStatus"}
      /\ iam' \in {iam, NoObject, [members |-> {}]}
      /\ pc' = "okStatus" => iam' = [members |-> {}]
  BY DEF CleanupGroup, Cleanup, DeleteGroup, Delete, CreateGroup, CreateAWSObject, Goto, NoWrite,
         AfterDelete, Members
<1>2. SeenInv(cr)' /\ SeenInv(cache)' /\ SeenInv(obj)' /\ NotedInv' /\ LoopInv'
  BY <1>1 DEF MembersInv, SeenInv, NotedInv, LoopInv, Exists
<1>3. NobodyElse'
  BY <1>1 DEF MembersInv, NobodyElse, Settled, OnlyStatusUpdated, Exists
<1> QED
  BY <1>2, <1>3 DEF MembersInv

\* A user of the spec in hand is added.
LEMMA UserAdded ==
  ASSUME TypeOK, LifecycleInv, MembersInv, AddUser
  PROVE  MembersInv'
<1> USE MembersTypes
<1>1. /\ UNCHANGED <<cr, cache, obj>> /\ (fresh' => fresh)
      /\ pc = "addUsers" /\ pc' \in {"observe", "addUsers", "userError"}
  BY DEF AddUser, Goto, NoWrite, NextUser
<1>2. /\ todo' \subseteq todo
      /\ \E S \in SUBSET todo : iam' = iam \/ iam' = WithMembers(S)
  BY DEF AddUser
<1>3. Exists(obj) /\ todo \subseteq obj.spec.users /\ iam.members \subseteq obj.spec.users
  BY <1>1 DEF MembersInv, LoopInv, LifecycleInv, RunInv, StepInv
<1>4. iam'.members \subseteq obj.spec.users
  <2>1. iam \in IamGroups
    BY MembersAdded
  <2>2. PICK S \in SUBSET todo : iam' = iam \/ iam' = WithMembers(S)
    BY <1>2
  <2>3. WithMembers(S).members = iam.members \union S
    BY <2>1 DEF WithMembers, IamGroups
  <2> QED
    BY <1>3, <2>2, <2>3
<1>5. SeenInv(cr)' /\ SeenInv(cache)' /\ SeenInv(obj)' /\ NotedInv'
  BY <1>1 DEF MembersInv, SeenInv, NotedInv, Exists
<1>6. LoopInv'
  BY <1>1, <1>2, <1>3, <1>4 DEF MembersInv, LoopInv, Exists
<1>7. NobodyElse'
  BY <1>1, <1>3, <1>4, InHandSpec DEF NobodyElse, Settled, OnlyStatusUpdated, Exists
<1> QED
  BY <1>5, <1>6, <1>7 DEF MembersInv

\* The status a step writes, and what it leaves in hand.
LEMMA StatusWrite ==
  ASSUME TypeOK, OkStatusUpdate \/ UserError \/ Observe \/ Report
  PROVE  \E s \in GroupStatuses :
           /\ Logged(WithStatus(s)) /\ UNCHANGED iam
           /\ s.og = obj.status.og \/ s.og = obj.gen
           /\ s.state = "OK" => pc \in {"okStatus", "observe"}
           /\ \/ pc' = "idle" /\ obj' = Absent
              \/ /\ obj' = [obj EXCEPT !.status = s] /\ s.og = obj.status.og
                 /\ pc' \in {"addUsers", "observe"} /\ pc = "okStatus"
                 /\ todo' = obj.spec.users
<1> USE GroupTypes
<1>1. /\ OkStatus(obj) \in GroupStatuses /\ OkStatus(obj).og = obj.status.og
      /\ ErrorStatus(obj) \in GroupStatuses /\ ErrorStatus(obj).og = obj.status.og
      /\ ErrorStatus(obj).state = "ERROR"
      /\ [obj.status EXCEPT !.og = obj.gen] \in GroupStatuses
      /\ [obj.status EXCEPT !.og = obj.gen].og = obj.gen
  BY DEF Resources, GroupStatuses, OkStatus, ErrorStatus
<1>2. CASE OkStatusUpdate
  <2> DEFINE s == OkStatus(obj)
             p == NextUser([obj EXCEPT !.status = s].spec.users)
  <2>1. [obj EXCEPT !.status = s].status = s
    BY DEF Resources
  <2>2. /\ Goto(p, [obj EXCEPT !.status = s]) /\ Logged(WithStatus(s))
        /\ UNCHANGED iam /\ pc = "okStatus" /\ todo' = obj.spec.users
    BY <1>2, <2>1 DEF OkStatusUpdate
  <2>3. p \in {"addUsers", "observe"}
    BY DEF NextUser
  <2> HIDE DEF s, p
  <2> QED
    BY <1>1, <2>2, <2>3 DEF Goto, s
<1>3. CASE UserError \/ Report
  <2>1. Logged(WithStatus(ErrorStatus(obj))) /\ pc' = "idle" /\ obj' = Absent /\ UNCHANGED iam
    BY <1>3 DEF UserError, Report, ReportError, Retry, Kept
  <2> QED
    BY <1>1, <2>1
<1>4. CASE Observe
  <2>1. /\ Logged(WithStatus([obj.status EXCEPT !.og = obj.gen])) /\ pc = "observe"
        /\ pc' = "idle" /\ obj' = Absent /\ UNCHANGED iam
    BY <1>4 DEF Observe, Return, Retry, Logged, Kept
  <2> QED
    BY <1>1, <2>1
<1> QED
  BY <1>2, <1>3, <1>4

\* A status is written: OK only while the IAM group has no member the copy in hand
\* does not list, a generation as observed only if it is no later than that copy's.
LEMMA StatusMembers ==
  ASSUME TypeOK, LifecycleInv, MembersInv, OkStatusUpdate \/ UserError \/ Observe \/ Report
  PROVE  MembersInv'
<1> USE MembersTypes
<1>1. PICK s \in GroupStatuses :
        /\ Logged(WithStatus(s)) /\ UNCHANGED iam
        /\ s.og = obj.status.og \/ s.og = obj.gen
        /\ s.state = "OK" => pc \in {"okStatus", "observe"}
        /\ \/ pc' = "idle" /\ obj' = Absent
           \/ /\ obj' = [obj EXCEPT !.status = s] /\ s.og = obj.status.og
              /\ pc' \in {"addUsers", "observe"} /\ pc = "okStatus"
              /\ todo' = obj.spec.users
  BY StatusWrite
<1>2. /\ WithStatus(s).uid = cr.uid /\ WithStatus(s).gen = cr.gen
      /\ WithStatus(s).spec = cr.spec /\ WithStatus(s).status = s
  BY GroupTypes DEF WithStatus, Resources
<1>3. /\ cr'.uid = cr.uid /\ cr'.gen = cr.gen /\ cr'.spec = cr.spec
      /\ cr'.status = cr.status \/ (cr'.status = s /\ fresh)
      /\ cache' = cache /\ (fresh' => fresh /\ pc' # "idle")
  BY <1>1, <1>2, Written, GroupTypes
<1>4. fresh => /\ Exists(obj) /\ obj.uid = cr.uid /\ obj.gen = cr.gen /\ obj.spec = cr.spec
               /\ cache.uid = cr.uid /\ cache.gen >= obj.gen
  BY DEF MembersInv, LoopInv, SeenInv, LifecycleInv, RunInv, FreshInv, AheadInv, Exists
<1>5. s.og <= obj.gen /\ s.og \in Nat
  <2>1. s.og \in Nat
    BY DEF GroupStatuses
  <2>2. s.og <= obj.gen
    BY <1>1 DEF MembersInv, SeenInv
  <2> QED
    BY <2>1, <2>2
<1>6. s.state = "OK" => iam.members \subseteq obj.spec.users
  BY <1>1 DEF MembersInv, LoopInv
<1>7. \/ pc' = "idle" /\ obj' = Absent
      \/ /\ obj'.uid = obj.uid /\ obj'.gen = obj.gen /\ obj'.spec = obj.spec
         /\ obj'.status = s /\ pc' \in {"addUsers", "observe"} /\ pc = "okStatus"
         /\ todo' = obj.spec.users
  BY <1>1, GroupTypes DEF Resources
<1>8. SeenInv(cr)' /\ SeenInv(cache)'
  BY <1>3, <1>4, <1>5 DEF MembersInv, SeenInv, Exists
<1>9. SeenInv(obj)'
  BY <1>3, <1>5, <1>7, DroppedCopy DEF MembersInv, SeenInv, Exists
<1>10. NotedInv'
  BY <1>3, <1>4, <1>5, <1>7, DroppedCopy DEF MembersInv, NotedInv, Exists
<1>11. LoopInv'
  BY <1>1, <1>3, <1>7, DroppedCopy DEF MembersInv, LoopInv, Exists
<1>12. NobodyElse'
  BY <1>1, <1>3, <1>4, <1>6 DEF MembersInv, NobodyElse, Settled, OnlyStatusUpdated, Exists
<1> QED
  BY <1>8, <1>9, <1>10, <1>11, <1>12 DEF MembersInv

LEMMA MembersInductive == Spec => [](TypeOK /\ SpecInv /\ LifecycleInv /\ MembersInv)
<1>1. Init => MembersInv
  <2>1. SUFFICES ASSUME Init PROVE MembersInv
    OBVIOUS
  <2>2. cr = Absent /\ cache = Absent /\ obj = Absent /\ fresh = FALSE /\ pc = "idle"
    BY <2>1 DEF Init, BaseInit
  <2>3. SeenInv(Absent)
    BY <2>2, AbsentFields DEF SeenInv, Exists
  <2>4. NotedInv /\ LoopInv /\ NobodyElse
    BY <2>2, DroppedCopy DEF NotedInv, LoopInv, NobodyElse, Settled
  <2> QED
    BY <2>2, <2>3, <2>4 DEF MembersInv
<1>2. TypeOK /\ SpecInv /\ LifecycleInv /\ MembersInv /\ [Next]_vars => MembersInv'
  BY UserMembers, CopiedMembers, FinalizerMembers, GroupMembers, UserAdded, StatusMembers
     DEF Next, Reconcile
<1> QED
  BY <1>1, <1>2, Inductive, PTL DEF Spec

\* A settled Group's IAM group has no member its spec does not list, for any set of
\* users and after any number of edits, faults and restarts: a run on an older copy
\* may add one, but then the Group is not settled.
THEOREM NobodyElseEver == Spec => []NobodyElse
<1>1. MembersInv => NobodyElse
  BY DEF MembersInv
<1> QED
  BY <1>1, MembersInductive, PTL
-----------------------------------------------------------------------------
(* What is left to do. *)

\* A generation is noted with OK, so the run that notes it has settled the Group.
RequestInv ==
  /\ GenInv
  /\ Quiet /\ Exists(cr) => OnlyStatusUpdated(cr)
  /\ pc \in {"addUsers", "observe"} => obj.status.state = "OK"

LEMMA GenConstants == NoStatus.og = 0 /\ \A s \in GroupStatuses : s.og \in Nat
BY GroupAssumption DEF GroupStatuses

\* The steps that write nothing, beside those of users.
LEMMA CopiedRequest ==
  ASSUME TypeOK, LifecycleInv, RequestInv,
         \/ SyncGroup \/ RestartOperator \/ GroupAttachments \/ ListingChanges \/ IamUserChanges
         \/ NotFound \/ Skip \/ Start \/ IamServiceError \/ CleanupGroup \/ DeleteGroup
         \/ CreateGroup \/ AddUser \/ UNCHANGED vars
  PROVE  RequestInv'
<1> USE DEF RequestInv
<1>1. CASE SyncGroup \/ RestartOperator
  <2>1. /\ cr' = cr /\ cache' = cr /\ (Quiet' => ~Exists(cr'))
        /\ (pc' = pc /\ obj' = obj /\ fresh' = fresh) \/ (pc' = "idle" /\ obj' = Absent /\ ~fresh')
    BY <1>1, Busy, RestartBusy DEF SyncGroup, Sync, RestartOperator, Restart
  <2> QED
    BY <2>1, CopiedGen, GenConstants
<1>2. CASE GroupAttachments \/ ListingChanges \/ IamUserChanges \/ UNCHANGED vars
  <2>1. UNCHANGED <<cr, cache, cacheFresh, pc, queued, obj, fresh>>
    BY <1>2 DEF GroupAttachments, Attachments, ListingChanges, IamUserChanges, vars, base
  <2> QED
    BY <2>1, StillQuiet, CopiedGen, GenConstants DEF OnlyStatusUpdated
<1>3. CASE NotFound \/ Skip
  <2>1. /\ LoadAndReturn /\ pc' = "idle" /\ (~Exists(cache) \/ NothingToDo(cache))
        /\ UNCHANGED <<cr, cache, cacheFresh, obj, fresh>>
    BY <1>3 DEF NotFound, Skip, Dequeue, LoadAndReturn
  <2>2. Quiet' /\ Exists(cr') => NothingToDo(cr') /\ (cr'.deleting => cr'.fin)
    BY <2>1, SkipQuiet DEF LifecycleInv, CacheInv, StoredInv
  <2> QED
    BY <2>1, <2>2, CopiedGen, GenConstants DEF NothingToDo
<1>4. CASE Start \/ IamServiceError
  <2>1. /\ pc' \notin {"idle", "addUsers", "observe"} /\ obj' = cache /\ fresh' = cacheFresh
        /\ UNCHANGED <<cr, cache, cacheFresh>>
    BY <1>4 DEF Start, IamServiceError, Load, FirstStep, AfterFinalizer
  <2> QED
    BY <2>1, Busy, CopiedGen, GenConstants
<1>5. CASE CleanupGroup \/ DeleteGroup \/ CreateGroup \/ AddUser
  <2>1. /\ UNCHANGED <<cr, cache, cacheFresh, obj>> /\ (fresh' => fresh) /\ pc' # "idle"
        /\ pc' \in {"addUsers", "observe"} => pc = "addUsers"
    BY <1>5 DEF CleanupGroup, Cleanup, DeleteGroup, Delete, AfterDelete, CreateGroup,
       CreateAWSObject, AddUser, NextUser, Goto, NoWrite
  <2> QED
    BY <2>1, Busy, CopiedGen, GenConstants
<1> QED
  BY <1>1, <1>2, <1>3, <1>4, <1>5

\* The steps that write a status.
LEMMA StatusRequest ==
  ASSUME TypeOK, LifecycleInv, RequestInv, OkStatusUpdate \/ UserError \/ Observe \/ Report
  PROVE  RequestInv'
<1>1. PICK s \in GroupStatuses :
        /\ Logged(WithStatus(s))
        /\ s.og = obj.status.og \/ (s.og = obj.gen /\ pc = "observe")
        /\ \/ /\ pc' = "idle" /\ obj' = Absent
              /\ \/ Retry
                 \/ /\ pc = "observe" /\ s.og = obj.gen /\ s.state = obj.status.state
                    /\ fresh /\ cr' = WithStatus(s)
           \/ /\ obj' = [obj EXCEPT !.status = s] /\ pc' # "idle" /\ s.state = "OK"
              /\ s.og = obj.status.og
  <2>1. CASE OkStatusUpdate
    <3> DEFINE s == OkStatus(obj)
    <3>1. [obj EXCEPT !.status = s].status = s /\ s \in GroupStatuses
          /\ s.og = obj.status.og /\ s.state = "OK"
      BY GroupTypes DEF Resources, GroupStatuses, OkStatus
    <3>2. Logged(WithStatus(s)) /\ obj' = [obj EXCEPT !.status = s] /\ pc' # "idle"
      BY <2>1, <3>1 DEF OkStatusUpdate, Goto, NextUser
    <3> HIDE DEF s
    <3> QED
      BY <3>1, <3>2
  <2>2. CASE UserError \/ Report
    <3>1. ErrorStatus(obj) \in GroupStatuses /\ ErrorStatus(obj).og = obj.status.og
      BY GroupTypes DEF Resources, GroupStatuses, ErrorStatus
    <3>2. Logged(WithStatus(ErrorStatus(obj))) /\ Retry /\ pc' = "idle" /\ obj' = Absent
      BY <2>2 DEF UserError, Report, ReportError, Retry
    <3> QED
      BY <3>1, <3>2
  <2>3. CASE Observe
    <3> DEFINE s == [obj.status EXCEPT !.og = obj.gen]
    <3>1. s \in GroupStatuses /\ s.og = obj.gen /\ s.state = obj.status.state
      BY GroupTypes DEF Resources, GroupStatuses
    <3>2. /\ Logged(WithStatus(s)) /\ pc' = "idle" /\ obj' = Absent /\ pc = "observe"
          /\ Retry \/ (fresh /\ cr' = WithStatus(s))
      BY <2>3 DEF Observe, Return, Retry, Logged, Accepted, Stored
    <3> HIDE DEF s
    <3> QED
      BY <3>1, <3>2
  <2> QED
    BY <2>1, <2>2, <2>3
<1>2. /\ WithStatus(s).gen = cr.gen /\ WithStatus(s).deleting = cr.deleting
      /\ WithStatus(s).status = s
  BY GroupTypes DEF WithStatus, Resources
<1>3. [obj EXCEPT !.status = s].gen = obj.gen /\ [obj EXCEPT !.status = s].deleting = obj.deleting
      /\ [obj EXCEPT !.status = s].status = s
  BY GroupTypes DEF Resources
<1>4. pc = "observe" => ~obj.deleting /\ obj.status.state = "OK"
  BY DEF RequestInv, LifecycleInv, RunInv, StepInv, Holding, Provisioned, Recorded
<1>5. \/ obj' = Absent /\ pc' = "idle"
      \/ /\ obj'.gen = obj.gen /\ obj'.deleting = obj.deleting /\ obj'.status = s
         /\ s.og = obj.status.og /\ pc' # "idle" /\ s.state = "OK"
  BY <1>1, <1>3
<1>6. WithStatus(s).status.og = obj.status.og
        \/ (WithStatus(s).status.og = obj.gen /\ ~obj.deleting)
  BY <1>1, <1>2, <1>4
<1>7. GenInv'
  BY <1>1, <1>2, <1>5, <1>6, WrittenGen, GenConstants, GroupTypes DEF RequestInv
<1>8. Quiet' => /\ pc = "observe" /\ s.og = obj.gen /\ s.state = obj.status.state
                /\ fresh /\ cr' = WithStatus(s)
  BY <1>1, <1>5, Busy
<1>9. Quiet' /\ Exists(cr') => OnlyStatusUpdated(cr')
  BY <1>1, <1>2, <1>4, <1>8 DEF RequestInv, GenInv, OnlyStatusUpdated
<1>10. pc' \in {"addUsers", "observe"} => obj'.status.state = "OK"
  BY <1>5
<1> QED
  BY <1>7, <1>9, <1>10 DEF RequestInv

LEMMA StepRequest ==
  ASSUME TypeOK, LifecycleInv, RequestInv, [Next]_vars
  PROVE  RequestInv'
<1>1. CASE User
  <2>1. UNCHANGED <<pc, obj>> /\ GenInv' /\ ~Quiet'
    BY <1>1, UserGen, Busy, GenConstants, GroupTypes
       DEF RequestInv, User, UserStep, UserCreate, UserEdit, UserDelete
  <2> QED
    BY <2>1 DEF RequestInv
<1>2. CASE AddFinalizer
  <2>1. [cr EXCEPT !.fin = TRUE].gen = cr.gen /\ [cr EXCEPT !.fin = TRUE].deleting = cr.deleting
        /\ [cr EXCEPT !.fin = TRUE].status = cr.status
    BY GroupTypes DEF Resources
  <2> DEFINE o == [Answer(obj) EXCEPT !.fin = TRUE]
  <2>2. o.gen = obj.gen /\ o.deleting = obj.deleting /\ o.status \in {obj.status, cr.status}
    BY GroupTypes DEF Answer, Resources
  <2>3. \/ pc' \in {"cleanup", "create"} /\ obj' = o /\ fresh
        \/ pc' = "idle" /\ obj' = Absent /\ Retry
    BY <1>2 DEF AddFinalizer, Goto, AfterFinalizer, Accepted, Retry
  <2>4. Logged([cr EXCEPT !.fin = TRUE])
    BY <1>2 DEF AddFinalizer, Logged
  <2> HIDE DEF o
  <2>5. GenInv'
    BY <2>1, <2>2, <2>3, <2>4, WrittenGen, GenConstants, GroupTypes DEF RequestInv
  <2> QED
    BY <2>3, <2>5, Busy DEF RequestInv
<1>3. CASE RemoveFinalizer
  <2>1. pc' = "idle" /\ obj' = Absent /\ Logged(Absent) /\ (Retry \/ cr' = Absent)
    BY <1>3 DEF RemoveFinalizer, Return, Retry, Logged, Accepted, Stored
  <2>2. GenInv'
    BY <2>1, WrittenGen, GenConstants, GroupTypes DEF RequestInv
  <2> QED
    BY <2>1, <2>2, Busy, DroppedCopy DEF RequestInv
<1> QED
  BY <1>1, <1>2, <1>3, CopiedRequest, StatusRequest DEF Next, Reconcile

\* No request that would have finished the work on a Group gets lost, whatever fails,
\* and whichever users are missing.
THEOREM QuietIsSettled == Spec => []QuietMeansSettled
<1>1. Init => RequestInv
  <2>1. SUFFICES ASSUME Init PROVE RequestInv
    OBVIOUS
  <2>2. /\ cr = Absent /\ cache = Absent /\ obj = Absent /\ fresh = FALSE /\ pc = "idle"
    BY <2>1 DEF Init, BaseInit
  <2> QED
    BY <2>2, AbsentObserved, GenConstants, DroppedCopy DEF RequestInv, GenInv
<1>2. TypeOK /\ RequestInv => QuietMeansSettled
  <2>1. SUFFICES ASSUME TypeOK, RequestInv, Quiet, Exists(cr) PROVE ~cr.deleting /\ Settled(cr)
    BY DEF QuietMeansSettled
  <2> QED
    BY <2>1, MembersTypes DEF RequestInv, GenInv, ObservedInv, OnlyStatusUpdated, Settled
<1>3. TypeOK /\ LifecycleInv /\ RequestInv /\ [Next]_vars => RequestInv'
  BY StepRequest
<1> QED
  BY <1>1, <1>2, <1>3, Inductive, PTL DEF Spec
==============================================================================
