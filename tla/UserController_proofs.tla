------------------------ MODULE UserController_proofs ------------------------
(***************************************************************************)
(* Theorems about UserController, for all bounds, kinds of failure and     *)
(* answers of AWS: its types, the lifecycle of its IAM user, whose Secrets *)
(* its status speaks of, and who takes credentials away.                   *)
(***************************************************************************)
EXTENDS UserController, IamObject_proofs

-----------------------------------------------------------------------------
(* Types. *)

LEMMA UserConstants ==
  /\ NoStatus \in UserStatuses /\ NoStatus.arn = FALSE /\ NoStatus.made = {}
  /\ \A t \in UserStatuses : t.arn \in BOOLEAN
  /\ 0 \in 0 .. MaxEdits /\ 0 \in 0 .. MaxFaults
<1>1. NoStatus = [state |-> "", arn |-> FALSE, og |-> 0, made |-> {}]
  BY UserAssumption
<1>2. NoStatus \in UserStatuses /\ NoStatus.arn = FALSE /\ NoStatus.made = {}
  BY <1>1 DEF UserStatuses
<1>3. \A t \in UserStatuses : t.arn \in BOOLEAN
  BY DEF UserStatuses
<1>4. 0 \in 0 .. MaxEdits /\ 0 \in 0 .. MaxFaults
  BY BoundsAssumption
<1> QED
  BY <1>2, <1>3, <1>4

\* The statuses Reconcile makes of one.
LEMMA UserStatusTypes ==
  ASSUME NEW o \in Resources(UserStatuses)
  PROVE  /\ o.status \in UserStatuses /\ o.status.made \in SUBSET Kinds
         /\ OkStatus(o) \in UserStatuses /\ OkStatus(o).arn = TRUE
         /\ OkStatus(o).made = o.status.made
         /\ ErrorStatus(o) \in UserStatuses /\ ErrorStatus(o).arn = o.status.arn
         /\ ErrorStatus(o).made = o.status.made
         /\ Observed(o) \in UserStatuses /\ Observed(o).arn = o.status.arn
         /\ Observed(o).made = o.status.made
BY DEF Resources, UserStatuses, OkStatus, ErrorStatus, Observed

LEMMA MadeStatusTypes ==
  ASSUME NEW o \in Resources(UserStatuses), NEW S \in SUBSET Kinds
  PROVE  /\ [o.status EXCEPT !.made = S] \in UserStatuses
         /\ [o.status EXCEPT !.made = S].arn = o.status.arn
         /\ [o.status EXCEPT !.made = S].made = S
BY DEF Resources, UserStatuses

\* What the lemmas of IamObject_proofs ask of a state of UserController.
LEMMA UserTypes ==
  ASSUME TypeOK
  PROVE  /\ BaseTypeOK(UserStatuses, UserSteps) /\ IamTypeOK(IamUsers)
         /\ obj \in Resources(UserStatuses) /\ cr \in Resources(UserStatuses)
         /\ cache \in Resources(UserStatuses) /\ Absent \in Resources(UserStatuses)
         /\ cr.uid \in Nat /\ cache.uid \in Nat /\ obj.uid \in Nat /\ edits \in Nat
         /\ cr.rev \in Nat /\ cache.rev \in Nat /\ obj.rev \in Nat
         /\ obj.status.arn \in BOOLEAN /\ queued \in BOOLEAN
         /\ obj.status.made \in SUBSET Kinds
<1>1. BaseTypeOK(UserStatuses, UserSteps) /\ IamTypeOK(IamUsers)
  BY DEF TypeOK
<1> QED
  BY <1>1, CopyTypes, UserConstants, AbsentType DEF BaseTypeOK, Resources, UserStatuses

\* The copy that goes on from AddFinalizer.
LEMMA FinalizerAdded ==
  ASSUME TypeOK, AddFinalizer
  PROVE  \/ \E o \in Resources(UserStatuses), p \in {"update", "create"} :
              /\ Goto(p, o) /\ Accepted([cr EXCEPT !.fin = TRUE])
              /\ o.uid = obj.uid /\ o.rev = obj.rev /\ o.deleting = obj.deleting
              /\ o.fin = TRUE /\ o.status \in {obj.status, cr.status}
         \/ Retry /\ Refused([cr EXCEPT !.fin = TRUE])
<1> DEFINE o == [Answer(obj) EXCEPT !.fin = TRUE]
<1>1. /\ o \in Resources(UserStatuses)
      /\ o.uid = obj.uid /\ o.rev = obj.rev /\ o.deleting = obj.deleting
      /\ o.fin = TRUE /\ o.status \in {obj.status, cr.status}
  BY UserTypes DEF Answer, Resources
<1> HIDE DEF o
<1>2. AfterFinalizer(o) \in {"update", "create"}
  BY DEF AfterFinalizer
<1> QED
  BY <1>1, <1>2 DEF AddFinalizer, o

\* The credentials the copy in hand asks for.
LEMMA InHandType ==
  ASSUME TypeOK, SpecInv, LifecycleInv, pc # "idle"
  PROVE  obj.spec.creds \in SUBSET Kinds
<1>1. Exists(obj)
  BY DEF LifecycleInv, RunInv, StepInv
<1> QED
  BY <1>1, UserAssumption DEF SpecInv, SpecOf, UserSpecs

\* What the calls to AWS leave of the IAM user.
LEMMA IamUserType ==
  ASSUME NEW C \in SUBSET Kinds
  PROVE  [creds |-> C] \in IamUsers /\ [creds |-> C] # NoObject
<1>1. [creds |-> C] \in IamUsers
  BY DEF IamUsers
<1> QED
  BY <1>1, UserAssumption

LEMMA DeletedType ==
  ASSUME TypeOK, DeletedHalfway
  PROVE  iam \in IamUsers /\ iam' \in IamUsers /\ iam # NoObject /\ iam' # NoObject
<1>1. iam \in IamUsers /\ iam # NoObject
  BY DEF DeletedHalfway, TypeOK, IamTypeOK
<1>2. PICK C : iam' = [iam EXCEPT !.creds = @ \ C]
  BY DEF DeletedHalfway
<1>3. iam' \in IamUsers
  BY <1>1, <1>2 DEF IamUsers
<1> QED
  BY <1>1, <1>3, UserAssumption

\* An update takes from AWS only what the spec in hand does not ask for.
LEMMA UpdatedUser ==
  ASSUME TypeOK, SpecInv, LifecycleInv, UpdateUser, iam # NoObject
  PROVE  /\ iam \in IamUsers /\ iam' \in IamUsers /\ iam' # NoObject
         /\ \A k \in Kinds : k \in iam.creds /\ k \in obj.spec.creds => k \in iam'.creds
         /\ pc' = "okStatus" => ToMake \subseteq iam'.creds
<1>1. iam \in IamUsers /\ iam.creds \in SUBSET Kinds
  BY DEF TypeOK, IamTypeOK, IamUsers
<1>2. ToMake \in SUBSET Kinds /\ ToDrop \in SUBSET Kinds /\ ToMake \intersect ToDrop = {}
      /\ ToDrop \intersect obj.spec.creds = {}
  BY InHandType, UserTypes DEF ToMake, ToDrop, UpdateUser
<1>3. PICK M \in SUBSET ToMake, D \in SUBSET ToDrop :
        /\ iam' = [iam EXCEPT !.creds = (@ \union M) \ D]
        /\ pc' = "okStatus" => M = ToMake
  <2>1. CASE UpdatedHalfway
    BY <2>1 DEF UpdatedHalfway, Goto
  <2>2. CASE iam' = [iam EXCEPT !.creds = (@ \union ToMake) \ ToDrop]
    BY <2>2
  <2> QED
    BY <2>1, <2>2 DEF UpdateUser
<1>4. iam' \in IamUsers /\ iam'.creds = (iam.creds \union M) \ D
  BY <1>1, <1>2, <1>3 DEF IamUsers
<1> QED
  BY <1>1, <1>2, <1>3, <1>4, UserAssumption

\* What is left of the Secrets when AWS drops credentials, and by a write.
LEMMA RevokedType ==
  ASSUME TypeOK, Revoked
  PROVE  /\ secrets' \in [Kinds -> Secrets] /\ seen' = seen
         /\ \A k \in Kinds :
              /\ secrets'[k].owner = secrets[k].owner
              /\ secrets'[k].live => iam' # NoObject /\ k \in iam'.creds
              /\ secrets[k].live /\ iam' # NoObject /\ k \in iam'.creds => secrets'[k].live
BY DEF TypeOK, Revoked, Secrets

LEMMA WithSecretType ==
  ASSUME TypeOK, NEW k \in Kinds, NEW s \in Secrets
  PROVE  /\ WithSecret(k, s) \in [Kinds -> Secrets]
         /\ WithSecret(k, s)[k] = s
         /\ \A j \in Kinds \ {k} : WithSecret(k, s)[j] = secrets[j]
BY DEF TypeOK, WithSecret

LEMMA NoSecretType == NoSecret \in Secrets /\ NoSecret.owner = 0 /\ NoSecret.live = FALSE
BY DEF NoSecret, Secrets

\* The Secret a step is about becomes one of the copy in hand, or none.
LEMMA SecretChange ==
  ASSUME TypeOK, NEW k \in Kinds, SecretOf(k)
  PROVE  /\ secrets' \in [Kinds -> Secrets]
         /\ \A j \in Kinds \ {k} : secrets'[j] = secrets[j]
         /\ \/ secrets'[k] = secrets[k]
            \/ secrets'[k] = NoSecret /\ k \notin obj.spec.creds
            \/ /\ k \in obj.spec.creds \ obj.status.made
               /\ secrets[k].owner = 0 /\ secrets'[k] = [owner |-> obj.uid, live |-> k \in held]
<1> DEFINE new == [owner |-> obj.uid, live |-> k \in held]
<1>1. new \in Secrets
  BY UserTypes DEF Secrets
<1>2. CASE CreateSecret(k)
  <2>1. /\ secrets' = secrets \/ (secrets[k].owner = 0 /\ secrets' = WithSecret(k, new))
        /\ k \in obj.spec.creds \ obj.status.made
    BY <1>2 DEF CreateSecret
  <2> HIDE DEF new
  <2>2. CASE secrets' = secrets
    BY <2>2 DEF TypeOK
  <2>3. CASE secrets[k].owner = 0 /\ secrets' = WithSecret(k, new)
    BY <1>1, <2>1, <2>3, WithSecretType DEF new
  <2> QED
    BY <2>1, <2>2, <2>3
<1>3. CASE DeleteSecret(k)
  <2>1. secrets' \in {secrets, WithSecret(k, NoSecret)} /\ k \notin obj.spec.creds
    BY <1>3 DEF DeleteSecret
  <2> QED
    BY <2>1, WithSecretType, NoSecretType DEF TypeOK
<1>4. CASE LeaveSecret(k)
  BY <1>4 DEF LeaveSecret, TypeOK
<1> QED
  BY <1>2, <1>3, <1>4 DEF SecretOf

\* Where a Secret's step and its status's step lead to.
SecretSteps == {"loginSecret", "loginStatus", "keysSecret", "keysStatus", "observe"}

LEMMA SecretStepTypes ==
  \A k \in Kinds : /\ SecretStep[k] \in {"loginSecret", "keysSecret"}
                   /\ StatusStep[k] \in {"loginStatus", "keysStatus"}
                   /\ AfterKind[k] \in {"keysSecret", "observe"}
BY DEF Kinds, SecretStep, StatusStep, AfterKind

LEMMA InStoreType == InStore(secrets) \in SUBSET Kinds
BY DEF InStore

\* What a status step writes.
MadeBy(k) == IF k \in obj.spec.creds THEN obj.status.made \union {k}
             ELSE obj.status.made \ {k}

LEMMA StatusChange ==
  ASSUME TypeOK, NEW k \in Kinds, StatusOf(k)
  PROVE  \E s \in UserStatuses :
           /\ s.arn = obj.status.arn /\ s.made = MadeBy(k)
           /\ Goto(AfterKind[k], [obj EXCEPT !.status = s]) /\ Logged(WithStatus(s))
<1> DEFINE s == [obj.status EXCEPT !.made = MadeBy(k)]
<1>1. MadeBy(k) \in SUBSET Kinds
  BY UserTypes DEF MadeBy
<1>2. s \in UserStatuses /\ s.arn = obj.status.arn /\ s.made = MadeBy(k)
  BY <1>1, UserTypes, MadeStatusTypes
<1>3. Goto(AfterKind[k], [obj EXCEPT !.status = s]) /\ Logged(WithStatus(s))
  BY DEF StatusOf, MadeBy
<1> HIDE DEF s
<1> QED
  BY <1>2, <1>3

-----------------------------------------------------------------------------
(* Each step keeps the specs and the types. *)

\* Users write specs, copies are copied.
LEMMA StepSpec ==
  ASSUME TypeOK, SpecInv, [Next]_vars
  PROVE  SpecInv'
<1>1. CASE User
  BY <1>1, UserSpec, UserTypes DEF User
<1>2. CASE SyncUser \/ RestartOperator \/ UserAttachments \/ ResyncUsers
           \/ SyncSecrets \/ CollectSecret \/ UNCHANGED vars
  BY <1>2, CopiedSpec DEF SyncUser, Sync, RestartOperator, Restart, UserAttachments,
                          Attachments, ResyncUsers, SyncSecrets, CollectSecret, vars, base
<1>3. CASE NotFound \/ Skip \/ Start \/ IamServiceError
  BY <1>3, CopiedSpec DEF NotFound, Skip, LoadAndReturn, Start, Load, IamServiceError
<1>4. CASE CleanupUser \/ DeleteUser \/ CreateUser \/ UpdateUser
  BY <1>4, CopiedSpec DEF CleanupUser, Cleanup, DeleteUser, Delete, DeletedHalfway,
                          CreateUser, CreateAWSObject, CreatedHalfway, UpdateUser,
                          UpdatedHalfway, Goto, NoWrite
<1>5. ASSUME NEW k \in Kinds, SecretOf(k) PROVE SpecInv'
  BY <1>5, CopiedSpec DEF SecretOf, CreateSecret, DeleteSecret, LeaveSecret, Goto, Retry, NoWrite
<1>6. CASE AddFinalizer
  <2> DEFINE new == [cr EXCEPT !.fin = TRUE]
  <2>1. new.spec = cr.spec /\ new.uid = cr.uid
    BY UserTypes DEF Resources
  <2>2. obj' = Absent \/ (obj'.spec = obj.spec /\ obj'.uid = obj.uid)
    <3> DEFINE o == [Answer(obj) EXCEPT !.fin = TRUE]
    <3>1. o.spec = obj.spec /\ o.uid = obj.uid
      BY UserTypes DEF Answer, Resources
    <3> HIDE DEF o
    <3>2. obj' = o \/ obj' = Absent
      BY <1>6 DEF AddFinalizer, Goto, Retry, o
    <3> QED
      BY <3>1, <3>2
  <2>3. Logged(new)
    BY <1>6, FinalizerAdded DEF Logged
  <2> HIDE DEF new
  <2> QED
    BY <2>1, <2>2, <2>3, UserTypes, WrittenSpec
<1>7. CASE RemoveFinalizer
  <2>1. Logged(Absent) /\ obj' = Absent
    BY <1>7 DEF RemoveFinalizer, Logged, Return, Retry
  <2> QED
    BY <2>1, UserTypes, WrittenSpec
<1>8. ASSUME NEW s, Logged(WithStatus(s)), obj' \in {Absent, [obj EXCEPT !.status = s]}
      PROVE  SpecInv'
  <2>1. /\ [obj EXCEPT !.status = s].spec = obj.spec /\ [obj EXCEPT !.status = s].uid = obj.uid
        /\ WithStatus(s).spec = cr.spec /\ WithStatus(s).uid = cr.uid
    BY UserTypes DEF Resources, WithStatus
  <2> QED
    BY <1>8, <2>1, UserTypes, WrittenSpec
<1>9. CASE OkStatusUpdate
  BY <1>8, <1>9, UserTypes DEF OkStatusUpdate, Goto, Resources
<1>10. CASE Observe \/ Report
  BY <1>8, <1>10 DEF Observe, Report, ReportError, Return, Retry
<1>11. ASSUME NEW k \in Kinds, StatusOf(k) PROVE SpecInv'
  BY <1>8, <1>11, StatusChange DEF Goto
<1> QED
  BY <1>1, <1>2, <1>3, <1>4, <1>5, <1>6, <1>7, <1>9, <1>10, <1>11 DEF Next, Reconcile

\* A step of Reconcile that writes the status s keeps the types.
LEMMA StatusWriteType ==
  ASSUME TypeOK, NEW s \in UserStatuses, Logged(WithStatus(s)), Kept,
         \/ Return \/ Retry \/ \E p \in UserSteps : Goto(p, [obj EXCEPT !.status = s])
  PROVE  TypeOK'
<1>1. WithStatus(s) \in Resources(UserStatuses)
  BY UserTypes, UpdatedType DEF WithStatus
<1>2. [obj EXCEPT !.status = s] \in Resources(UserStatuses)
  BY UserTypes, UpdatedType
<1>3. /\ pc' \in UserSteps \union {"idle"} /\ obj' \in Resources(UserStatuses)
      /\ queued' \in BOOLEAN
  BY <1>2, UserTypes DEF Return, Retry, Goto
<1>4. BaseTypeOK(UserStatuses, UserSteps)'
  BY <1>1, <1>3, UserTypes, WriteType
<1> QED
  BY <1>4 DEF TypeOK, Kept, Memory, attVars, IamTypeOK

\* So does a call of Reconcile to AWS.
LEMMA AwsType ==
  ASSUME TypeOK, NoWrite, UNCHANGED faults \/ Fault, UNCHANGED attVars,
         NEW p \in UserSteps, Goto(p, obj), iam' \in IamUsers \union {NoObject},
         held' \in SUBSET Kinds, Revoked \/ UNCHANGED <<secrets, seen>>
  PROVE  TypeOK'
<1>1. pc' \in UserSteps /\ obj' = obj /\ queued' = queued
  BY DEF Goto
<1>2. BaseTypeOK(UserStatuses, UserSteps)'
  BY <1>1, UserTypes, NoWriteType
<1>3. secrets' \in [Kinds -> Secrets] /\ seen' \in SUBSET Kinds
  BY RevokedType DEF TypeOK
<1> QED
  BY <1>2, <1>3 DEF TypeOK, IamTypeOK, attVars

LEMMA StepType ==
  ASSUME TypeOK, SpecInv, LifecycleInv, [Next]_vars
  PROVE  TypeOK'
<1> USE DEF UserSteps
<1>1. ASSUME BaseTypeOK(UserStatuses, UserSteps)', Kept
      PROVE  TypeOK'
  BY <1>1 DEF TypeOK, Kept, Memory, attVars, IamTypeOK
<1>2. CASE User
  BY <1>1, <1>2, UserType, UserTypes, UserConstants DEF User
<1>3. CASE SyncUser
  BY <1>1, <1>3, SyncType, UserTypes, UserConstants DEF SyncUser
<1>4. CASE RestartOperator
  <2>1. BaseTypeOK(UserStatuses, UserSteps)'
    BY <1>4, SyncType, UserTypes, UserConstants DEF RestartOperator
  <2> QED
    BY <1>4, <2>1, InStoreType DEF RestartOperator, Memory, TypeOK, attVars, IamTypeOK
<1>5. CASE UserAttachments
  <2>1. UNCHANGED <<base, iam, secrets, seen, held>> /\ refs' \in BOOLEAN /\ bound' \in BOOLEAN
    BY <1>5 DEF UserAttachments, Attachments, TypeOK, IamTypeOK
  <2> QED
    BY <2>1 DEF TypeOK, base, BaseTypeOK, IamTypeOK
<1>6. CASE ResyncUsers \/ NotFound \/ Skip
  BY <1>1, <1>6 DEF ResyncUsers, NotFound, Skip, LoadAndReturn, TypeOK, BaseTypeOK
<1>7. CASE SyncSecrets
  BY <1>7, InStoreType DEF SyncSecrets, TypeOK, base, attVars, BaseTypeOK, IamTypeOK
<1>8. CASE CollectSecret
  <2>1. PICK k \in Kinds : secrets' = WithSecret(k, NoSecret)
    BY <1>8, InStoreType DEF CollectSecret, WithSecret
  <2>2. secrets' \in [Kinds -> Secrets]
    BY <2>1, WithSecretType, NoSecretType
  <2> QED
    BY <1>8, <2>2 DEF CollectSecret, TypeOK, base, attVars, BaseTypeOK, IamTypeOK
<1>9. CASE Start \/ IamServiceError
  <2>1. FirstStep(cache) \in UserSteps /\ "errWithStatus" \in UserSteps
    BY DEF FirstStep, AfterFinalizer
  <2> QED
    BY <1>1, <1>9, <2>1, LoadType, UserTypes DEF Start, IamServiceError
<1>10. CASE AddFinalizer
  <2>1. [cr EXCEPT !.fin = TRUE] \in Resources(UserStatuses)
    BY UserTypes DEF Resources
  <2>2. /\ Logged([cr EXCEPT !.fin = TRUE]) /\ obj' \in Resources(UserStatuses)
        /\ pc' \in UserSteps \union {"idle"} /\ queued' \in BOOLEAN
    BY <1>10, FinalizerAdded, UserTypes DEF Logged, Goto, Retry
  <2>3. BaseTypeOK(UserStatuses, UserSteps)'
    BY <2>1, <2>2, WriteType, UserTypes
  <2> QED
    BY <1>1, <1>10, <2>3 DEF AddFinalizer
<1>11. CASE CleanupUser
  <2>1. BaseTypeOK(UserStatuses, UserSteps)' /\ IamTypeOK(IamUsers)'
    BY <1>11, DeprovisionType, UserTypes DEF CleanupUser
  <2> QED
    BY <1>11, <2>1 DEF CleanupUser, Memory, TypeOK
<1>12. CASE DeleteUser
  <2>1. /\ NoWrite /\ (UNCHANGED faults \/ Fault) /\ UNCHANGED attVars
        /\ \E p \in UserSteps : Goto(p, obj)
    BY <1>12 DEF DeleteUser, Delete, DeletedHalfway, AfterDelete
  <2>2. iam' \in IamUsers \union {NoObject}
    <3>1. CASE Delete
      BY <3>1 DEF Delete, TypeOK, IamTypeOK
    <3>2. CASE DeletedHalfway
      BY <3>2, DeletedType
    <3> QED
      BY <1>12, <3>1, <3>2 DEF DeleteUser
  <2>3. held' \in SUBSET Kinds /\ Revoked
    BY <1>12 DEF DeleteUser, Memory, TypeOK
  <2> HIDE DEF UserSteps
  <2> QED
    BY <2>1, <2>2, <2>3, AwsType
<1>13. CASE RemoveFinalizer
  <2>1. Logged(Absent) /\ obj' = Absent /\ pc' = "idle" /\ queued' \in BOOLEAN
    BY <1>13, UserTypes DEF RemoveFinalizer, Logged, Return, Retry
  <2>2. BaseTypeOK(UserStatuses, UserSteps)'
    BY <2>1, WriteType, UserTypes
  <2> QED
    BY <1>1, <1>13, <2>2 DEF RemoveFinalizer
<1>14. CASE CreateUser
  <2>1. obj.spec.creds \in SUBSET Kinds
    BY <1>14, InHandType DEF CreateUser
  <2>2. /\ NoWrite /\ (UNCHANGED faults \/ Fault) /\ UNCHANGED attVars
        /\ \E p \in UserSteps : Goto(p, obj)
    BY <1>14 DEF CreateUser, CreateAWSObject, CreatedHalfway
  <2>3. \/ iam' = iam \/ \E C \in SUBSET obj.spec.creds : iam' = [creds |-> C]
    BY <1>14 DEF CreateUser, CreateAWSObject, CreatedHalfway
  <2>4. iam' \in IamUsers \union {NoObject}
    BY <2>1, <2>3, IamUserType DEF TypeOK, IamTypeOK
  <2>5. held' \in SUBSET Kinds /\ UNCHANGED <<secrets, seen>>
    BY <1>14, <2>1 DEF CreateUser, TypeOK
  <2> HIDE DEF UserSteps
  <2> QED
    BY <2>2, <2>4, <2>5, AwsType
<1>15. CASE UpdateUser
  <2>1. /\ NoWrite /\ (UNCHANGED faults \/ Fault) /\ UNCHANGED attVars
        /\ \E p \in UserSteps : Goto(p, obj)
    BY <1>15 DEF UpdateUser, UpdatedHalfway
  <2>2. iam' \in IamUsers \union {NoObject}
    BY <1>15, UpdatedUser DEF UpdateUser
  <2>3. held' \in SUBSET Kinds /\ Revoked
    BY <1>15, InHandType DEF UpdateUser, ToMake, TypeOK
  <2> HIDE DEF UserSteps
  <2> QED
    BY <2>1, <2>2, <2>3, AwsType
<1>16. CASE OkStatusUpdate
  <2>1. /\ OkStatus(obj) \in UserStatuses
        /\ [obj EXCEPT !.status = OkStatus(obj)].status = OkStatus(obj)
    BY UserTypes, UserStatusTypes DEF Resources
  <2>2. /\ Goto("loginSecret", [obj EXCEPT !.status = OkStatus(obj)])
        /\ Logged(WithStatus(OkStatus(obj))) /\ Kept
    BY <1>16, <2>1 DEF OkStatusUpdate
  <2>3. "loginSecret" \in UserSteps
    OBVIOUS
  <2> HIDE DEF UserSteps
  <2> QED
    BY <2>1, <2>2, <2>3, StatusWriteType
<1>17. ASSUME NEW k \in Kinds, SecretOf(k) PROVE TypeOK'
  <2>1. /\ pc' \in UserSteps \union {"idle"} /\ obj' \in Resources(UserStatuses)
        /\ queued' \in BOOLEAN /\ (UNCHANGED faults \/ Fault)
    BY <1>17, UserTypes, SecretStepTypes
       DEF SecretOf, CreateSecret, DeleteSecret, LeaveSecret, Goto, Retry
  <2>2. BaseTypeOK(UserStatuses, UserSteps)'
    BY <1>17, <2>1, NoWriteType, UserTypes DEF SecretOf
  <2> QED
    BY <1>17, <2>2, SecretChange DEF SecretOf, Memory, TypeOK, attVars, IamTypeOK
<1>18. ASSUME NEW k \in Kinds, StatusOf(k) PROVE TypeOK'
  <2>1. AfterKind[k] \in UserSteps /\ Kept
    BY <1>18, SecretStepTypes DEF StatusOf
  <2> HIDE DEF UserSteps
  <2> QED
    BY <1>18, <2>1, StatusChange, StatusWriteType
<1>19. CASE Observe
  BY <1>19, StatusWriteType, UserTypes, UserStatusTypes DEF Observe
<1>20. CASE Report
  BY <1>1, <1>20, ReportType, UserStatusTypes, UserTypes, UserConstants DEF Report
<1>21. CASE UNCHANGED vars
  BY <1>21 DEF TypeOK, vars, base, attVars, BaseTypeOK, IamTypeOK
<1> QED
  BY <1>2, <1>3, <1>4, <1>5, <1>6, <1>7, <1>8, <1>9, <1>10, <1>11, <1>12, <1>13, <1>14,
     <1>15, <1>16, <1>17, <1>18, <1>19, <1>20, <1>21 DEF Next, Reconcile

-----------------------------------------------------------------------------
(* The lifecycle. *)

\* A call to AWS that leaves the IAM user where it is.
LEMMA AwsCall ==
  ASSUME TypeOK, LifecycleInv, NoWrite, NEW p \in {"errorStatus", "okStatus"}, Goto(p, obj),
         pc \in {"delete", "update"}, (iam' = NoObject) = (iam = NoObject),
         p = "okStatus" => pc = "update" /\ iam # NoObject
  PROVE  LifecycleInv' /\ LifecycleStep
<1>1. pc \notin Recorded /\ pc # "idle" /\ p \notin Recorded \union {"idle"}
  BY DEF Recorded
<1>2. StepInv'
  BY DEF LifecycleInv, RunInv, StepInv, Goto, Exists, Holding, Provisioned, Recorded
<1>3. LifecycleInv'
  BY <1>1, <1>2, UserTypes, AwsLifecycle
<1> QED
  BY <1>3, UserTypes, UserConstants, AwsRefines DEF NoWrite

\* A status write after which Reconcile goes on, with the IAM user in place.
LEMMA OnwardStatus ==
  ASSUME TypeOK, LifecycleInv, NEW s \in UserStatuses, NEW p \in SecretSteps, s.arn = TRUE,
         pc \in {"okStatus"} \union SecretSteps,
         Goto(p, [obj EXCEPT !.status = s]), Logged(WithStatus(s)), UNCHANGED iam
  PROVE  LifecycleInv' /\ LifecycleStep
<1>1. p \in Recorded /\ p \in Holding /\ pc \in Provisioned /\ pc \in Holding
  BY DEF SecretSteps, Recorded, Provisioned, Holding
<1>2. iam # NoObject
  BY <1>1 DEF LifecycleInv, RunInv, StepInv
<1>3. LifecycleInv'
  BY <1>1, <1>2, UserTypes, StatusLifecycle
<1> QED
  BY <1>1, <1>3, UserTypes, UserConstants, StatusRefines

LEMMA InitInv == Init => TypeOK /\ SpecInv /\ LifecycleInv /\ SecretsInv
<1>1. SUFFICES ASSUME Init PROVE TypeOK /\ SpecInv /\ LifecycleInv /\ SecretsInv
  OBVIOUS
<1>2. /\ cr = Absent /\ cache = Absent /\ obj = Absent /\ fresh = FALSE /\ pc = "idle"
      /\ edits = 0 /\ iam = NoObject
  BY <1>1 DEF Init, BaseInit, IamInit
<1>3. /\ Absent.uid = 0 /\ Absent.rev = 0 /\ Absent.fin = FALSE /\ Absent.deleting = FALSE
      /\ Absent.status.arn = FALSE /\ Absent.status.made = {}
  BY UserConstants DEF Absent
<1>4. BaseTypeOK(UserStatuses, UserSteps)
  BY <1>1, UserConstants, AbsentType DEF Init, BaseInit, BaseTypeOK
<1>5. NoSecret \in Secrets /\ NoSecret.live = FALSE
  BY NoSecretType
<1>6. TypeOK
  BY <1>1, <1>4, <1>5 DEF Init, TypeOK, IamInit, IamTypeOK
<1>7. LifecycleInv
  BY <1>2, <1>3 DEF LifecycleInv, StoredInv, CacheInv, RunInv, CopyInv, ArnInv, AheadInv,
     FreshInv, StepInv, Exists, Holding, Provisioned, Recorded
<1>8. \A k \in Kinds : StatusStep[k] # "idle"
  BY SecretStepTypes
<1>9. held = {} /\ \A k \in Kinds : secrets[k].live = FALSE
  BY <1>1, <1>5 DEF Init
<1>10. SecretsInv
  BY <1>2, <1>3, <1>8, <1>9 DEF SecretsInv
<1> QED
  BY <1>2, <1>3, <1>6, <1>7, <1>10 DEF SpecInv, SpecOf, Exists

LEMMA StepLifecycle ==
  ASSUME TypeOK, SpecInv, LifecycleInv, [Next]_vars
  PROVE  LifecycleInv' /\ LifecycleStep
<1>1. CASE User
  <2>1. UserStep /\ UNCHANGED iam
    BY <1>1 DEF User, Kept
  <2>2. LifecycleInv'
    BY <2>1, UserTypes, UserConstants, CreateLifecycle, EditLifecycle, DeleteLifecycle
       DEF UserStep
  <2> QED
    BY <2>1, <2>2, UserTypes, UserConstants, UserRefines
<1>2. CASE SyncUser
  BY <1>2, UserTypes, UserConstants, SyncLifecycle, QuietStep DEF SyncUser, Sync, Kept
<1>3. CASE RestartOperator
  BY <1>3, UserTypes, UserConstants, RestartLifecycle, QuietStep
     DEF RestartOperator, Restart
<1>4. CASE UserAttachments \/ ResyncUsers \/ SyncSecrets \/ CollectSecret \/ NotFound
           \/ Skip \/ UNCHANGED vars
  <2>1. UNCHANGED <<cr, cache, cacheFresh, obj, fresh, pc, edits, iam>>
    BY <1>4 DEF UserAttachments, Attachments, ResyncUsers, SyncSecrets, CollectSecret,
                NotFound, Skip, LoadAndReturn, Kept, vars, base
  <2> QED
    BY <2>1, UserTypes, QuietLifecycle, QuietStep
<1>5. CASE Start
  <2>1. Load(cache, FirstStep(cache)) /\ Exists(cache) /\ UNCHANGED iam
    BY <1>5 DEF Start, Kept
  <2>2. /\ FirstStep(cache) \in {"addFinalizer", "cleanup", "create", "update"}
        /\ FirstStep(cache) = "addFinalizer" => ~cache.fin /\ ~cache.deleting
        /\ FirstStep(cache) = "cleanup" => cache.fin
        /\ FirstStep(cache) \in {"create", "update"} => cache.fin /\ ~cache.deleting
    BY <1>5 DEF Start, NothingToDo, FirstStep, AfterFinalizer
  <2>3. LifecycleInv'
    BY <2>1, <2>2, UserTypes, LoadLifecycle
  <2> QED
    BY <2>1, <2>3, QuietStep DEF Load
<1>6. CASE IamServiceError
  <2>1. Load(cache, "errWithStatus") /\ Exists(cache) /\ UNCHANGED iam
    BY <1>6 DEF IamServiceError, Kept
  <2>2. LifecycleInv'
    BY <2>1, UserTypes, LoadLifecycle
  <2> QED
    BY <2>1, <2>2, QuietStep DEF Load
<1>7. CASE AddFinalizer
  <2>1. pc = "addFinalizer" /\ UNCHANGED iam
    BY <1>7 DEF AddFinalizer, Kept
  <2>2. Logged([cr EXCEPT !.fin = TRUE])
    BY <1>7, FinalizerAdded DEF Logged
  <2>3. LifecycleStep
    BY <2>1, <2>2, UserTypes, FinalizerRefines
  <2>4. ASSUME NEW o \in Resources(UserStatuses), NEW p \in {"update", "create"},
               Goto(p, o), Accepted([cr EXCEPT !.fin = TRUE]),
               o.uid = obj.uid, o.rev = obj.rev, o.deleting = obj.deleting,
               o.fin = TRUE, o.status \in {obj.status, cr.status}
        PROVE  LifecycleInv'
    BY <2>1, <2>4, UserTypes, FinalizerLifecycle
  <2>5. CASE Retry /\ Refused([cr EXCEPT !.fin = TRUE])
    <3>1. StoredInv' /\ CacheInv'
      BY <2>1, <2>2, UserTypes, FinalizerStored
    <3>2. pc' = "idle" /\ obj' = Absent /\ fresh' = FALSE /\ edits' \in Nat
      BY <2>2, <2>5, UserTypes, Written DEF Retry
    <3> QED
      BY <2>3, <3>1, <3>2, UserConstants, ReturnedRun DEF LifecycleInv
  <2> QED
    BY <1>7, <2>3, <2>4, <2>5, FinalizerAdded
<1>8. CASE CleanupUser
  <2>1. Cleanup
    BY <1>8 DEF CleanupUser
  <2> QED
    BY <2>1, UserTypes, CleanupLifecycle, QuietStep DEF Cleanup, NoWrite
<1>9. CASE DeleteUser
  <2>1. CASE Delete
    <3>1. UNCHANGED cr /\ (iam' = iam \/ (pc = "delete" /\ iam' = NoObject /\ obj.status.arn))
      BY <2>1 DEF Delete, NoWrite
    <3> QED
      BY <2>1, <3>1, UserTypes, UserConstants, DeprovisionLifecycle, AwsRefines
  <2>2. CASE DeletedHalfway
    BY <2>2, DeletedType, AwsCall DEF DeletedHalfway
  <2> QED
    BY <1>9, <2>1, <2>2 DEF DeleteUser
<1>10. CASE RemoveFinalizer
  <2>1. /\ pc = "removeFinalizer" /\ Logged(Absent) /\ UNCHANGED iam
        /\ pc' = "idle" /\ obj' = Absent
    BY <1>10 DEF RemoveFinalizer, Logged, Return, Retry, Kept
  <2> QED
    BY <2>1, UserTypes, UserConstants, ReleaseLifecycle, ReleaseRefines
<1>11. CASE CreateUser
  <2>1. pc = "create" /\ obj.spec.creds \in SUBSET Kinds
    BY <1>11, InHandType DEF CreateUser
  <2>2. CASE CreateAWSObject([creds |-> obj.spec.creds], "errorStatus")
    <3>1. [creds |-> obj.spec.creds] # NoObject
      BY <2>1, IamUserType
    <3>2. UNCHANGED cr /\ (iam' = iam \/ (iam = NoObject /\ iam' # NoObject))
      BY <2>2, <3>1 DEF CreateAWSObject, NoWrite
    <3> QED
      BY <2>1, <2>2, <3>1, <3>2, UserTypes, UserConstants, ProvisionLifecycle, AwsRefines
  <2>3. CASE CreatedHalfway
    <3>1. /\ Goto("errorStatus", obj) /\ NoWrite /\ iam = NoObject /\ iam' # NoObject
      BY <2>1, <2>3, IamUserType DEF CreatedHalfway
    <3>2. /\ pc \notin Recorded /\ pc # "idle" /\ "errorStatus" \notin Recorded \union {"idle"}
          /\ obj.fin /\ ~obj.deleting
      BY <2>1 DEF Recorded, Holding, LifecycleInv, RunInv, StepInv
    <3>3. StepInv'
      BY <2>1, <3>1, <3>2
         DEF LifecycleInv, RunInv, StepInv, Goto, Exists, Holding, Provisioned, Recorded
    <3>4. LifecycleInv'
      BY <3>1, <3>2, <3>3, UserTypes, AwsLifecycle
    <3> QED
      BY <2>1, <3>1, <3>4, UserTypes, UserConstants, AwsRefines DEF NoWrite
  <2> QED
    BY <1>11, <2>2, <2>3 DEF CreateUser
<1>12. CASE UpdateUser
  <2>1. CASE iam # NoObject
    <3>1. iam' # NoObject
      BY <1>12, <2>1, UpdatedUser
    <3>2. /\ NoWrite /\ pc = "update"
          /\ Goto("errorStatus", obj) \/ Goto("okStatus", obj)
      BY <1>12 DEF UpdateUser, UpdatedHalfway
    <3> QED
      BY <2>1, <3>1, <3>2, AwsCall
  <2>2. CASE iam = NoObject
    BY <1>12, <2>2, AwsCall DEF UpdateUser
  <2> QED
    BY <2>1, <2>2
<1>13. CASE OkStatusUpdate
  <2> DEFINE s == OkStatus(obj)
  <2>1. /\ [obj EXCEPT !.status = s].status = s /\ s.arn = TRUE /\ s \in UserStatuses
    BY UserTypes, UserStatusTypes DEF Resources
  <2>2. /\ Goto("loginSecret", [obj EXCEPT !.status = s]) /\ Logged(WithStatus(s))
        /\ UNCHANGED iam /\ pc = "okStatus"
    BY <1>13, <2>1 DEF OkStatusUpdate, Kept
  <2> HIDE DEF s
  <2>3. "loginSecret" \in SecretSteps
    BY DEF SecretSteps
  <2> QED
    BY <2>1, <2>2, <2>3, OnwardStatus
<1>14. ASSUME NEW k \in Kinds, SecretOf(k) PROVE LifecycleInv' /\ LifecycleStep
  <2>1. NoWrite /\ UNCHANGED <<cr, iam>> /\ pc \in Recorded
    BY <1>14, SecretStepTypes DEF SecretOf, NoWrite, Recorded
  <2>2. CASE \E p \in Recorded : Goto(p, obj)
    BY <2>1, <2>2, UserTypes, OtherCallLifecycle, QuietStep
  <2>3. CASE Retry
    BY <2>1, <2>3, UserTypes, UserConstants, AbandonedRun, QuietStep DEF Retry, NoWrite
  <2>4. AfterKind[k] \in Recorded /\ StatusStep[k] \in Recorded
    BY SecretStepTypes DEF Recorded
  <2> QED
    BY <1>14, <2>2, <2>3, <2>4 DEF SecretOf, CreateSecret, DeleteSecret, LeaveSecret
<1>15. ASSUME NEW k \in Kinds, StatusOf(k) PROVE LifecycleInv' /\ LifecycleStep
  <2>1. pc \in SecretSteps /\ AfterKind[k] \in SecretSteps /\ UNCHANGED iam
    BY <1>15, SecretStepTypes DEF StatusOf, SecretSteps, Kept
  <2>2. obj.status.arn = TRUE
    BY <2>1, UserTypes DEF SecretSteps, LifecycleInv, RunInv, StepInv, Recorded
  <2> QED
    BY <1>15, <2>1, <2>2, StatusChange, OnwardStatus
<1>16. CASE Observe
  <2> DEFINE s == Observed(obj)
  <2>1. s.arn = obj.status.arn /\ s.arn \in BOOLEAN
    BY UserTypes, UserStatusTypes
  <2>2. /\ Logged(WithStatus(s)) /\ pc = "observe" /\ UNCHANGED iam
        /\ pc' = "idle" /\ obj' = Absent
    BY <1>16 DEF Observe, Return, Kept
  <2> HIDE DEF s
  <2>3. pc \in Provisioned /\ pc \in Holding /\ pc \in Recorded
    BY <2>2 DEF Recorded, Provisioned, Holding
  <2>4. s.arn = TRUE /\ (fresh => cr.fin)
    BY <2>1, <2>3 DEF LifecycleInv, RunInv, StepInv, FreshInv
  <2>5. StoredInv' /\ CacheInv'
    BY <2>2, <2>4, UserTypes, StatusStored
  <2>6. fresh' = FALSE /\ edits' \in Nat
    BY <2>2, UserTypes, StatusWritten
  <2>7. RunInv'
    BY <2>2, <2>6, UserConstants, ReturnedRun
  <2>8. LifecycleStep
    BY <2>1, <2>2, <2>3, <2>4, UserTypes, UserConstants, StatusRefines
  <2> QED
    BY <2>5, <2>7, <2>8 DEF LifecycleInv
<1>17. CASE Report
  <2> DEFINE s == ErrorStatus(obj)
  <2>1. ReportError /\ UNCHANGED iam /\ Logged(WithStatus(s))
    BY <1>17 DEF Report, ReportError, Kept
  <2>2. s.arn = obj.status.arn /\ s.arn \in BOOLEAN
    BY UserTypes, UserStatusTypes
  <2>3. pc \notin Recorded
    BY <2>1 DEF ReportError, Recorded
  <2>4. LifecycleInv'
    BY <2>1, <2>2, UserTypes, UserConstants, ReportLifecycle
  <2> HIDE DEF s
  <2> QED
    BY <2>1, <2>2, <2>3, <2>4, UserTypes, UserConstants, StatusRefines
<1> QED
  BY <1>1, <1>2, <1>3, <1>4, <1>5, <1>6, <1>7, <1>8, <1>9, <1>10, <1>11, <1>12, <1>13,
     <1>14, <1>15, <1>16, <1>17 DEF Next, Reconcile

-----------------------------------------------------------------------------
(* The Secrets. *)

\* A Secret kept and a copy kept, of the stored CR or of none: the part of
\* SecretsInv about what the copies say.
OwnInv(o) == \A k \in o.status.made : secrets[k].owner \in {0, o.uid}

LEMMA SecretsParts ==
  SecretsInv <=>
    /\ OwnInv(cr) /\ OwnInv(cache) /\ OwnInv(obj)
    /\ \A k \in Kinds : pc = StatusStep[k] /\ k \in obj.spec.creds
                         => secrets[k].owner \in {0, obj.uid}
    /\ \A k \in Kinds : k \in held \/ secrets[k].live => iam # NoObject /\ k \in iam.creds
    /\ pc \notin Provisioned => held = {}
    /\ pc \in {"cleanup", "delete"} => obj.deleting
BY DEF SecretsInv, OwnInv

\* A step that touches neither the Secrets' owners nor what the copies say keeps
\* their part.
LEMMA OwnKept ==
  ASSUME TypeOK, NEW o \in Resources(UserStatuses), OwnInv(o),
         \A k \in Kinds : secrets'[k].owner \in {0, secrets[k].owner}
  PROVE  \A k \in o.status.made : secrets'[k].owner \in {0, o.uid}
<1>1. o.status.made \in SUBSET Kinds
  BY UserStatusTypes
<1> QED
  BY <1>1 DEF OwnInv

\* Users: a new CR says nothing was made, and no write of theirs touches a status.
LEMMA UserSecrets ==
  ASSUME TypeOK, LifecycleInv, SecretsInv, User
  PROVE  SecretsInv'
<1>1. /\ UNCHANGED <<cache, obj, pc, secrets, iam>>
      /\ held' = IF pc = "idle" THEN {} ELSE held
  BY DEF User, UserStep, UserCreate, UserEdit, UserDelete, Kept, Memory
<1>2. cr'.status.made = {} \/ (cr'.status = cr.status /\ cr'.uid = cr.uid)
  <2>1. Absent.status.made = {}
    BY UserConstants DEF Absent
  <2>2. CASE UserCreate
    <3>1. PICK s \in Specs :
            cr' = [Absent EXCEPT !.uid = edits + 1, !.gen = 1, !.rev = edits + 1, !.spec = s]
      BY <2>2 DEF UserCreate, WrittenByOthers
    <3>2. cr'.status = Absent.status
      BY <3>1 DEF Absent
    <3> QED
      BY <2>1, <3>2
  <2>3. CASE UserEdit
    <3>1. PICK s \in Specs :
            cr' = [cr EXCEPT !.gen = cr.gen + 1, !.rev = edits + 1, !.spec = s]
      BY <2>3 DEF UserEdit, WrittenByOthers
    <3> QED
      BY <3>1, UserTypes DEF Resources
  <2>4. CASE UserDelete
    <3>1. cr' = Absent \/ cr' = [cr EXCEPT !.deleting = TRUE, !.gen = cr.gen + 1]
      BY <2>4 DEF UserDelete, WrittenByOthers
    <3>2. /\ [cr EXCEPT !.deleting = TRUE, !.gen = cr.gen + 1].status = cr.status
          /\ [cr EXCEPT !.deleting = TRUE, !.gen = cr.gen + 1].uid = cr.uid
      BY UserTypes DEF Resources
    <3> QED
      BY <2>1, <3>1, <3>2
  <2> QED
    BY <2>2, <2>3, <2>4 DEF User, UserStep
<1>3. OwnInv(cr)'
  BY <1>1, <1>2 DEF SecretsInv, OwnInv
<1> QED
  BY <1>1, <1>3 DEF SecretsInv, OwnInv

\* Writes of Reconcile: what they say of the Secrets, the copy in hand knows.
LEMMA WriteSecrets ==
  ASSUME TypeOK, SecretsInv, NEW new \in Resources(UserStatuses), Logged(new),
         UNCHANGED <<secrets, iam>>, Memory,
         fresh => \A k \in new.status.made : secrets[k].owner \in {0, new.uid},
         OwnInv(obj)', pc' \in {"idle", "create", "update"} \union SecretSteps,
         \A k \in Kinds : pc' # StatusStep[k],
         pc' \in {"create", "update"} => held = {}
  PROVE  SecretsInv'
<1>1. cache' = cache /\ (cr' = cr \/ (fresh /\ cr' = new))
  BY Written, UserTypes
<1>2. OwnInv(cr)' /\ OwnInv(cache)'
  BY <1>1 DEF SecretsInv, OwnInv
<1>3. /\ pc' \notin {"cleanup", "delete"}
      /\ pc' \notin Provisioned => pc' \in {"idle", "create", "update"}
  BY DEF SecretSteps, Provisioned, Recorded
<1>4. held' \in {{}, held} /\ (pc' \notin Provisioned => held' = {})
  BY <1>3 DEF Memory
<1> QED
  BY <1>2, <1>3, <1>4 DEF SecretsInv, OwnInv

\* The write of a status that says of the Secrets what is so.
LEMMA StatusSecrets ==
  ASSUME TypeOK, LifecycleInv, SecretsInv, NEW s \in UserStatuses, Logged(WithStatus(s)), Kept,
         \A k \in s.made : secrets[k].owner \in {0, obj.uid},
         \/ Return \/ Retry
         \/ \E p \in {"loginSecret", "keysSecret", "observe"} :
              Goto(p, [obj EXCEPT !.status = s])
  PROVE  SecretsInv'
<1>1. /\ WithStatus(s) \in Resources(UserStatuses)
      /\ WithStatus(s).status = s /\ WithStatus(s).uid = cr.uid
      /\ [obj EXCEPT !.status = s].status = s /\ [obj EXCEPT !.status = s].uid = obj.uid
      /\ Absent.status.made = {}
  BY UserTypes, UserConstants, UpdatedType DEF WithStatus, Resources, Absent
<1>2. fresh => obj.uid = cr.uid
  BY DEF LifecycleInv, RunInv, FreshInv
<1>3. OwnInv(obj)'
  BY <1>1 DEF Return, Retry, Goto, Kept, OwnInv
<1>4. /\ pc' \in {"idle"} \union SecretSteps /\ pc' \notin {"create", "update"}
      /\ \A k \in Kinds : pc' # StatusStep[k]
  BY SecretStepTypes DEF Return, Retry, Goto, SecretSteps
<1>5. UNCHANGED <<secrets, iam>> /\ Memory
  BY DEF Kept
<1> QED
  BY <1>1, <1>2, <1>3, <1>4, <1>5, WriteSecrets

\* At the Secrets, the copy in hand pins the CR.
LEMMA PinnedCopy ==
  ASSUME TypeOK, LifecycleInv, NEW k \in Kinds, SecretOf(k)
  PROVE  Exists(obj) /\ cr.uid = obj.uid /\ cache.uid = obj.uid
<1>1. pc \in Recorded /\ pc \in Holding /\ pc # "idle"
  BY SecretStepTypes DEF SecretOf, Recorded, Provisioned, Holding
<1>2. Exists(obj) /\ obj.fin /\ ~obj.deleting
  BY <1>1 DEF LifecycleInv, RunInv, StepInv
<1> QED
  BY <1>2 DEF LifecycleInv, RunInv, CopyInv, AheadInv

\* A Secret is made for a copy that pins the CR, which the cache has seen.
LEMMA SecretSecrets ==
  ASSUME TypeOK, LifecycleInv, SecretsInv, NEW k \in Kinds, SecretOf(k)
  PROVE  SecretsInv'
<1>1. /\ UNCHANGED <<cr, cache, iam>> /\ obj' \in {obj, Absent} /\ held' \in {held, {}}
      /\ pc' # "idle" => obj' = obj
  BY DEF SecretOf, CreateSecret, DeleteSecret, LeaveSecret, Goto, Retry, NoWrite, Memory
<1>2. cr.uid = obj.uid /\ cache.uid = obj.uid
  BY PinnedCopy
<1>4. /\ \A j \in Kinds \ {k} : secrets'[j] = secrets[j]
      /\ secrets'[k].owner \in {0, secrets[k].owner, obj.uid}
      /\ secrets'[k].live => secrets[k].live \/ k \in held
  <2> DEFINE new == [owner |-> obj.uid, live |-> k \in held]
  <2>1. new.owner = obj.uid /\ (new.live => k \in held)
    OBVIOUS
  <2>2. secrets'[k] \in {secrets[k], NoSecret, new}
    BY SecretChange
  <2> HIDE DEF new
  <2>3. CASE secrets'[k] = new
    BY <2>1, <2>3, SecretChange
  <2>4. CASE secrets'[k] = NoSecret
    BY <2>4, SecretChange, NoSecretType
  <2>5. CASE secrets'[k] = secrets[k]
    BY <2>5, SecretChange
  <2> QED
    BY <2>2, <2>3, <2>4, <2>5
<1>5. ASSUME NEW o \in {cr, cache, obj} PROVE \A j \in o.status.made : secrets'[j].owner \in {0, o.uid}
  <2>1. o \in Resources(UserStatuses)
    BY UserTypes
  <2>2. o.status.made \in SUBSET Kinds
    BY <2>1, UserStatusTypes
  <2>3. \A j \in o.status.made : secrets[j].owner \in {0, o.uid}
    BY DEF SecretsInv
  <2>4. o.uid = obj.uid
    BY <1>2
  <2> QED
    BY <1>4, <2>2, <2>3, <2>4
<1>6. Absent.status.made = {}
  BY UserConstants DEF Absent
<1>7. OwnInv(cr)' /\ OwnInv(cache)' /\ OwnInv(obj)'
  BY <1>1, <1>5, <1>6 DEF OwnInv
<1>8. ASSUME NEW j \in Kinds, pc' = StatusStep[j], j \in obj'.spec.creds
      PROVE  secrets'[j].owner \in {0, obj'.uid}
  <2>1. pc' # "idle" /\ obj' = obj
    BY <1>1, <1>8, SecretStepTypes
  <2>2. pc' \in {StatusStep[k], AfterKind[k], "idle"}
    BY DEF SecretOf, CreateSecret, DeleteSecret, LeaveSecret, Goto, Retry
  <2>3. j = k
    BY <1>8, <2>1, <2>2, SecretStepTypes DEF Kinds, StatusStep
  <2>4. CASE CreateSecret(k)
    <3> DEFINE new == [owner |-> obj.uid, live |-> k \in held]
    <3>1. new \in Secrets /\ new.owner = obj.uid
      BY UserTypes DEF Secrets
    <3> HIDE DEF new
    <3>2. secrets' = WithSecret(k, new)
      BY <2>1, <2>4 DEF CreateSecret, Creatable, Retry, new
    <3> QED
      BY <2>1, <2>3, <3>1, <3>2, WithSecretType
  <2>5. CASE DeleteSecret(k)
    BY <1>8, <2>1, <2>3, <2>5 DEF DeleteSecret
  <2>6. CASE LeaveSecret(k)
    BY <1>8, <2>6, SecretStepTypes DEF LeaveSecret, Goto
  <2> QED
    BY <2>4, <2>5, <2>6 DEF SecretOf
<1>9. \A j \in Kinds : j \in held' \/ secrets'[j].live => iam' # NoObject /\ j \in iam'.creds
  BY <1>1, <1>4 DEF SecretsInv
<1>10. pc' \notin {"cleanup", "delete"} /\ (pc' \notin Provisioned => held' = {})
  <2>1. pc' \in SecretSteps \union {"idle"}
    BY SecretStepTypes DEF SecretOf, CreateSecret, DeleteSecret, LeaveSecret, Goto, Retry,
                           SecretSteps
  <2>2. pc' = "idle" => held' = {}
    BY DEF SecretOf, Memory
  <2> QED
    BY <2>1, <2>2 DEF SecretSteps, Provisioned, Recorded
<1> QED
  BY <1>7, <1>8, <1>9, <1>10 DEF SecretsInv, OwnInv

LEMMA StepSecrets ==
  ASSUME TypeOK, SpecInv, LifecycleInv, SecretsInv, [Next]_vars
  PROVE  SecretsInv'
<1>1. Absent.status.made = {} /\ \A k \in Kinds : StatusStep[k] \in {"loginStatus", "keysStatus"}
  BY UserConstants, SecretStepTypes DEF Absent
<1>2. CASE User
  BY <1>2, UserSecrets
<1>3. CASE SyncUser
  <2>1. UNCHANGED <<cr, obj, pc, secrets, iam>> /\ cache' = cr /\ Memory
    BY <1>3 DEF SyncUser, Sync, Kept
  <2> QED
    BY <2>1 DEF SecretsInv, Memory
<1>4. CASE RestartOperator
  <2>1. /\ UNCHANGED <<cr, secrets, iam>> /\ cache' = cr /\ obj' = Absent /\ pc' = "idle"
        /\ held' = {}
    BY <1>4 DEF RestartOperator, Restart, Memory
  <2> QED
    BY <1>1, <2>1 DEF SecretsInv
<1>5. CASE UserAttachments \/ ResyncUsers \/ SyncSecrets \/ NotFound \/ Skip \/ UNCHANGED vars
  <2>1. /\ UNCHANGED <<cr, cache, obj, pc, secrets, iam>>
        /\ held' = held \/ Memory
    BY <1>5 DEF UserAttachments, Attachments, ResyncUsers, SyncSecrets, NotFound, Skip,
                LoadAndReturn, Kept, vars, base
  <2> QED
    BY <2>1 DEF SecretsInv, Memory
<1>6. CASE CollectSecret
  <2>1. UNCHANGED <<cr, cache, obj, pc, iam, held>>
    BY <1>6 DEF CollectSecret, base
  <2>2. PICK k \in Kinds : secrets' = WithSecret(k, NoSecret)
    BY <1>6, InStoreType DEF CollectSecret, WithSecret
  <2>3. \A j \in Kinds : /\ secrets'[j].owner \in {0, secrets[j].owner}
                         /\ secrets'[j].live => secrets[j].live
    <3> DEFINE new == WithSecret(k, NoSecret)
    <3>0. new[k] = NoSecret /\ \A j \in Kinds \ {k} : new[j] = secrets[j]
      BY WithSecretType, NoSecretType
    <3> HIDE DEF new
    <3>1. \A j \in Kinds : secrets'[j] = secrets[j] \/ secrets'[j] = NoSecret
      BY <2>2, <3>0 DEF new
    <3>2. ASSUME NEW j \in Kinds, secrets'[j] = NoSecret
          PROVE  secrets'[j].owner = 0 /\ ~secrets'[j].live
      BY <3>2, NoSecretType
    <3>3. ASSUME NEW j \in Kinds, secrets'[j] = secrets[j]
          PROVE  secrets'[j].owner = secrets[j].owner /\ secrets'[j].live = secrets[j].live
      BY <3>3
    <3>4. ASSUME NEW j \in Kinds
          PROVE  secrets'[j].owner \in {0, secrets[j].owner} /\ (secrets'[j].live => secrets[j].live)
      BY <3>1, <3>2, <3>3
    <3> QED
      BY <3>4
  <2>4. OwnInv(cr)' /\ OwnInv(cache)' /\ OwnInv(obj)'
    BY <2>1, <2>3, OwnKept, UserTypes DEF SecretsInv, OwnInv
  <2>5. \A j \in Kinds : pc' = StatusStep[j] /\ j \in obj'.spec.creds
                         => secrets'[j].owner \in {0, obj'.uid}
    BY <2>1, <2>3 DEF SecretsInv
  <2> QED
    BY <2>1, <2>3, <2>4, <2>5 DEF SecretsInv, OwnInv
<1>7. CASE Start \/ IamServiceError
  <2>1. /\ UNCHANGED <<cr, cache, secrets, iam>> /\ obj' = cache /\ pc = "idle"
        /\ held' \in {held, {}}
        /\ pc' \in {FirstStep(cache), "errWithStatus"}
    BY <1>7 DEF Start, IamServiceError, Load, Dequeue, Kept, Memory
  <2>2. held = {}
    BY <2>1 DEF SecretsInv, Provisioned, Recorded
  <2>3. /\ pc' \in {"cleanup", "delete"} => cache.deleting
        /\ \A k \in Kinds : pc' # StatusStep[k]
    BY <1>1, <2>1 DEF FirstStep, AfterFinalizer
  <2> QED
    BY <2>1, <2>2, <2>3 DEF SecretsInv
<1>8. CASE AddFinalizer
  <2> DEFINE new == [cr EXCEPT !.fin = TRUE]
  <2>1. new \in Resources(UserStatuses) /\ new.status = cr.status /\ new.uid = cr.uid
    BY UserTypes DEF Resources
  <2>2. Logged(new)
    BY <1>8, FinalizerAdded DEF Logged
  <2>3. OwnInv(obj)' /\ pc' \in {"idle", "create", "update"}
    <3>1. CASE Retry
      BY <1>1, <3>1 DEF Retry, OwnInv
    <3>2. ASSUME NEW o \in Resources(UserStatuses), NEW p \in {"update", "create"},
                 Goto(p, o), Accepted(new), o.uid = obj.uid,
                 o.status \in {obj.status, cr.status}
          PROVE  OwnInv(obj)' /\ pc' \in {"idle", "create", "update"}
      <4>1. obj.uid = cr.uid
        BY <3>2 DEF Accepted, LifecycleInv, RunInv, FreshInv
      <4>2. obj' = o /\ secrets' = secrets /\ pc' = p
        BY <1>8, <3>2 DEF Goto, AddFinalizer, Kept
      <4> QED
        BY <3>2, <4>1, <4>2 DEF SecretsInv, OwnInv
    <3> QED
      BY <1>8, <3>1, <3>2, FinalizerAdded
  <2> HIDE DEF new
  <2>4. /\ UNCHANGED <<secrets, iam>> /\ Memory /\ held = {}
        /\ \A k \in new.status.made : secrets[k].owner \in {0, new.uid}
    BY <1>8, <2>1 DEF AddFinalizer, Kept, SecretsInv, Provisioned, Recorded
  <2>5. \A k \in Kinds : pc' # StatusStep[k]
    BY <1>1, <2>3
  <2> QED
    BY <2>1, <2>2, <2>3, <2>4, <2>5, WriteSecrets
<1>9. CASE CleanupUser
  <2>1. /\ UNCHANGED <<cr, cache, obj, secrets, iam>> /\ pc = "cleanup"
        /\ pc' \in {"errorStatus", "delete"} /\ held' = held
    BY <1>9 DEF CleanupUser, Cleanup, Goto, NoWrite, Memory
  <2> QED
    BY <1>1, <2>1 DEF SecretsInv, Provisioned, Recorded
<1>10. CASE DeleteUser
  <2>1. /\ UNCHANGED <<cr, cache, obj>> /\ pc = "delete" /\ held' = held
        /\ pc' \in {"errorStatus", "create", "removeFinalizer"}
    BY <1>10 DEF DeleteUser, Delete, DeletedHalfway, AfterDelete, Goto, NoWrite, Memory
  <2>2. \A k \in Kinds : /\ secrets'[k].owner = secrets[k].owner
                         /\ secrets'[k].live => iam' # NoObject /\ k \in iam'.creds
    BY <1>10, RevokedType DEF DeleteUser
  <2>3. OwnInv(cr)' /\ OwnInv(cache)' /\ OwnInv(obj)'
    BY <2>1, <2>2, OwnKept, UserTypes DEF SecretsInv, OwnInv
  <2>4. pc' \notin Provisioned /\ held = {}
    BY <2>1 DEF SecretsInv, Provisioned, Recorded
  <2> QED
    BY <1>1, <2>1, <2>2, <2>3, <2>4 DEF SecretsInv, OwnInv
<1>11. CASE RemoveFinalizer
  <2>1. /\ Logged(Absent) /\ obj' = Absent /\ pc' = "idle"
        /\ UNCHANGED <<secrets, iam>> /\ Memory
    BY <1>11 DEF RemoveFinalizer, Logged, Return, Retry, Kept
  <2> QED
    BY <1>1, <2>1, UserTypes, WriteSecrets DEF OwnInv
<1>12. CASE CreateUser
  <2>1. /\ UNCHANGED <<cr, cache, obj, secrets>> /\ pc = "create"
        /\ pc' \in {"errorStatus", "okStatus"}
        /\ held' = IF pc' = "okStatus" THEN obj.spec.creds ELSE held
    BY <1>12 DEF CreateUser, CreateAWSObject, CreatedHalfway, Goto, NoWrite
  <2>2. held = {}
    BY <2>1 DEF SecretsInv, Provisioned, Recorded
  <2>3. /\ iam = NoObject \/ iam' = iam
        /\ pc' = "okStatus" => iam' = [creds |-> obj.spec.creds]
    BY <1>12 DEF CreateUser, CreateAWSObject, CreatedHalfway, Goto
  <2>4. [creds |-> obj.spec.creds] # NoObject
    BY <1>12, <2>1, InHandType, IamUserType
  <2>5. \A k \in Kinds : k \in held' \/ secrets'[k].live => iam' # NoObject /\ k \in iam'.creds
    BY <2>1, <2>2, <2>3, <2>4 DEF SecretsInv
  <2>6. pc' \notin Provisioned => held' = {}
    BY <2>1, <2>2 DEF Provisioned
  <2> QED
    BY <1>1, <2>1, <2>5, <2>6 DEF SecretsInv
<1>13. CASE UpdateUser
  <2>1. /\ UNCHANGED <<cr, cache, obj>> /\ pc = "update"
        /\ pc' \in {"errorStatus", "okStatus"}
        /\ held' = IF pc' = "okStatus" THEN ToMake ELSE held
    BY <1>13 DEF UpdateUser, UpdatedHalfway, Goto, NoWrite
  <2>2. held = {}
    BY <2>1 DEF SecretsInv, Provisioned, Recorded
  <2>3. \A k \in Kinds : /\ secrets'[k].owner = secrets[k].owner
                         /\ secrets'[k].live => iam' # NoObject /\ k \in iam'.creds
    BY <1>13, RevokedType DEF UpdateUser
  <2>4. OwnInv(cr)' /\ OwnInv(cache)' /\ OwnInv(obj)'
    BY <2>1, <2>3, OwnKept, UserTypes DEF SecretsInv, OwnInv
  <2>5. pc' = "okStatus" => iam # NoObject
    BY <1>13 DEF UpdateUser, UpdatedHalfway, Goto
  <2>6. \A k \in held' : iam' # NoObject /\ k \in iam'.creds
    BY <1>13, <2>1, <2>2, <2>5, UpdatedUser
  <2>7. pc' \notin Provisioned => held' = {}
    BY <2>1, <2>2 DEF Provisioned
  <2> QED
    BY <1>1, <2>1, <2>3, <2>4, <2>6, <2>7 DEF SecretsInv, OwnInv
<1>14. CASE OkStatusUpdate
  <2>1. /\ OkStatus(obj) \in UserStatuses /\ OkStatus(obj).made = obj.status.made
        /\ [obj EXCEPT !.status = OkStatus(obj)].status = OkStatus(obj)
    BY UserTypes, UserStatusTypes DEF Resources
  <2>2. /\ Goto("loginSecret", [obj EXCEPT !.status = OkStatus(obj)])
        /\ Logged(WithStatus(OkStatus(obj))) /\ Kept
    BY <1>14, <2>1 DEF OkStatusUpdate
  <2>3. \A k \in OkStatus(obj).made : secrets[k].owner \in {0, obj.uid}
    BY <2>1 DEF SecretsInv
  <2> QED
    BY <2>1, <2>2, <2>3, StatusSecrets
<1>15. ASSUME NEW k \in Kinds, SecretOf(k) PROVE SecretsInv'
  BY <1>15, SecretSecrets
<1>16. ASSUME NEW k \in Kinds, StatusOf(k) PROVE SecretsInv'
  <2>1. PICK s \in UserStatuses :
          /\ s.made = MadeBy(k)
          /\ Goto(AfterKind[k], [obj EXCEPT !.status = s]) /\ Logged(WithStatus(s))
    BY <1>16, StatusChange
  <2>2. AfterKind[k] \in {"keysSecret", "observe"} /\ Kept /\ pc = StatusStep[k]
    BY <1>16, SecretStepTypes DEF StatusOf
  <2>3. \A j \in s.made : secrets[j].owner \in {0, obj.uid}
    BY <2>1, <2>2 DEF MadeBy, SecretsInv
  <2> QED
    BY <2>1, <2>2, <2>3, StatusSecrets
<1>17. CASE Observe \/ Report
  <2>1. PICK s \in UserStatuses :
          s.made = obj.status.made /\ Logged(WithStatus(s)) /\ (Return \/ Retry) /\ Kept
    BY <1>17, UserTypes, UserStatusTypes DEF Observe, Report, ReportError
  <2>2. \A k \in s.made : secrets[k].owner \in {0, obj.uid}
    BY <2>1 DEF SecretsInv
  <2> QED
    BY <2>1, <2>2, StatusSecrets
<1> QED
  BY <1>2, <1>3, <1>4, <1>5, <1>6, <1>7, <1>8, <1>9, <1>10, <1>11, <1>12, <1>13, <1>14,
     <1>15, <1>16, <1>17 DEF Next, Reconcile

-----------------------------------------------------------------------------
(* The theorems. *)

LEMMA Inductive == Spec => [](TypeOK /\ SpecInv /\ LifecycleInv /\ SecretsInv)
<1>1. TypeOK /\ SpecInv /\ LifecycleInv /\ SecretsInv /\ [Next]_vars
        => (TypeOK /\ SpecInv /\ LifecycleInv /\ SecretsInv)'
  BY StepType, StepSpec, StepLifecycle, StepSecrets
<1> QED
  BY InitInv, <1>1, PTL DEF Spec

\* Every variable keeps its type: whatever copy a Reconcile works on, the
\* credentials it makes are those of a spec somebody wrote.
THEOREM TypeCorrect == Spec => []TypeOK
  BY Inductive, PTL

\* Whatever copy a Reconcile works on, and whatever fails: it holds the CR by its
\* finalizer while it creates the IAM user, and removes the finalizer only of a
\* CR whose known IAM user is gone.
THEOREM LifecycleCorrect == Spec => []LifecycleInv
  BY Inductive, PTL

\* Seen from outside, a User and its IAM user behave as CloudResource says.
THEOREM RefinesCloudResource == Spec => LifecycleSpec
<1>1. Init => Lifecycle!Init
  <2>1. SUFFICES ASSUME Init PROVE Lifecycle!Init
    OBVIOUS
  <2>2. cr.uid = 0 /\ cr.status.arn = FALSE /\ iam = NoObject
    BY <2>1, UserConstants DEF Init, BaseInit, IamInit, Absent
  <2> QED
    BY <2>2 DEF Lifecycle!Init, Phase, Exists
<1>2. TypeOK /\ SpecInv /\ LifecycleInv /\ [Next]_vars
        => [Lifecycle!Next]_(Lifecycle!vars)
  BY StepLifecycle DEF LifecycleStep
<1> QED
  BY <1>1, <1>2, Inductive, PTL DEF Spec, LifecycleSpec, Lifecycle!Spec

\* An ARN that reached the status is never lost while the CR exists.
THEOREM ArnIsKept == Spec => ArnNeverForgotten
<1>1. TypeOK /\ SpecInv /\ LifecycleInv /\ [Next]_vars
        => [Exists(cr) /\ cr'.uid = cr.uid /\ cr.status.arn => cr'.status.arn]_cr
  BY StepLifecycle, StepKeepsArn
<1> QED
  BY <1>1, Inductive, PTL DEF Spec, ArnNeverForgotten

\* A Secret the status speaks of is the User's own: its credentials are never
\* those a deleted User of the same name left behind.
THEOREM SecretsAreOwn == Spec => []MadeMeansOwn
<1>1. SecretsInv => MadeMeansOwn
  BY DEF SecretsInv, MadeMeansOwn
<1> QED
  BY <1>1, Inductive, PTL

\* Who takes working credentials out of a User's Secret, or out of AWS: a run for
\* a spec without them, or for the deletion.
LEMMA StepKeepsSecret ==
  ASSUME TypeOK, SpecInv, LifecycleInv, SecretsInv, [Next]_vars,
         NEW k \in Kinds, secrets[k].live, secrets[k].owner = cr.uid, ~secrets'[k].live
  PROVE  Exists(obj) /\ (obj.deleting \/ k \notin obj.spec.creds)
<1>1. iam # NoObject /\ k \in iam.creds
  BY DEF SecretsInv
<1>2. secrets' # secrets
  OBVIOUS
<1>3. pc # "idle" => Exists(obj)
  BY DEF LifecycleInv, RunInv, StepInv
<1>4. ~CollectSecret
  <2>1. SUFFICES ASSUME NEW j \in Kinds, secrets[j].owner # cr.uid,
                        secrets' = WithSecret(j, NoSecret)
                 PROVE  FALSE
    BY InStoreType DEF CollectSecret, WithSecret
  <2>2. j # k
    BY <2>1
  <2>3. secrets'[k] = secrets[k]
    BY <2>1, <2>2, WithSecretType, NoSecretType
  <2> QED
    BY <2>3
<1>5. CASE DeleteUser
  <2>1. pc = "delete" /\ obj.deleting
    BY <1>5 DEF DeleteUser, Delete, DeletedHalfway, SecretsInv
  <2> QED
    BY <1>3, <2>1
<1>6. CASE UpdateUser
  <2>1. secrets[k].live /\ iam' # NoObject /\ k \in iam'.creds => secrets'[k].live
    BY <1>6, RevokedType DEF UpdateUser
  <2>2. iam' # NoObject
    BY <1>1, <1>6, UpdatedUser
  <2>3. k \notin obj.spec.creds
    BY <1>1, <1>6, <2>1, <2>2, UpdatedUser
  <2> QED
    BY <1>3, <1>6, <2>3 DEF UpdateUser
<1>7. ASSUME NEW j \in Kinds, SecretOf(j)
      PROVE  Exists(obj) /\ k \notin obj.spec.creds
  <2>1. j = k
    BY <1>7, SecretChange
  <2>2. secrets[k].owner # 0
    BY <1>7, PinnedCopy DEF Exists
  <2>3. k \notin obj.spec.creds
    BY <1>7, <2>1, <2>2, SecretChange
  <2>4. pc # "idle"
    BY <1>7, SecretStepTypes DEF SecretOf
  <2> QED
    BY <1>3, <2>3, <2>4
<1>8. CASE \/ User \/ SyncUser \/ UserAttachments \/ RestartOperator \/ ResyncUsers
           \/ SyncSecrets \/ NotFound \/ Skip \/ IamServiceError \/ Start \/ AddFinalizer
           \/ CleanupUser \/ RemoveFinalizer \/ CreateUser \/ OkStatusUpdate
           \/ (\E j \in Kinds : StatusOf(j)) \/ Observe \/ Report \/ UNCHANGED vars
  <2>1. UNCHANGED secrets
    BY <1>8 DEF User, SyncUser, UserAttachments, RestartOperator, ResyncUsers, SyncSecrets,
       NotFound, Skip, IamServiceError, Start, AddFinalizer, CleanupUser, RemoveFinalizer,
       CreateUser, OkStatusUpdate, StatusOf, Observe, Report, Kept, vars
  <2> QED
    BY <1>2, <2>1
<1> QED
  BY <1>4, <1>5, <1>6, <1>7, <1>8 DEF Next, Reconcile

\* No retry after a lost answer or a lost status write takes working credentials
\* from a User that still asks for them.
THEOREM WorkingSecretStays == Spec => WorkingSecretKept
<1>1. TypeOK /\ SpecInv /\ LifecycleInv /\ SecretsInv /\ [Next]_vars
        => [\A k \in Kinds :
              secrets[k].live /\ secrets[k].owner = cr.uid /\ ~secrets'[k].live
                => Exists(obj) /\ (obj.deleting \/ k \notin obj.spec.creds)]_secrets
  BY StepKeepsSecret
<1> QED
  BY <1>1, Inductive, PTL DEF Spec, WorkingSecretKept
-----------------------------------------------------------------------------
(* What is left to do. *)

\* A generation is noted with OK.  The error of the write that notes it is dropped, but
\* a copy can only be old because of a write whose event is on its way or queued.
RequestInv ==
  /\ GenInv
  /\ faults = 0 /\ Quiet /\ Exists(cr) => OnlyStatusUpdated(cr)
  /\ faults = 0 /\ pc # "idle" /\ ~fresh => queued \/ ~cacheFresh
  /\ pc \in SecretSteps => obj.status.state = "OK"

LEMMA GenConstants == NoStatus.og = 0 /\ \A s \in UserStatuses : s.og \in Nat
BY UserAssumption DEF UserStatuses

\* Faults are never taken back.
LEMMA FaultCounted ==
  ASSUME TypeOK, Fault
  PROVE  faults' # 0
<1>1. faults \in Nat /\ faults' = faults + 1
  BY BoundsAssumption DEF Fault, TypeOK, BaseTypeOK
<1> QED
  BY <1>1

LEMMA WriteCounted ==
  ASSUME TypeOK, NEW new, Logged(new), faults' = 0
  PROVE  /\ faults = 0
         /\ \/ ~fresh /\ UNCHANGED <<cr, cacheFresh, fresh>>
            \/ fresh /\ cr' = new /\ fresh' = (pc' # "idle")
<1>1. ~Fault
  BY FaultCounted
<1> QED
  BY <1>1 DEF Logged, Accepted, Refused, Stored

\* The steps that write nothing, beside those of users.
LEMMA CopiedRequest ==
  ASSUME TypeOK, LifecycleInv, RequestInv,
         \/ SyncUser \/ RestartOperator \/ UserAttachments \/ ResyncUsers \/ SyncSecrets
         \/ CollectSecret \/ NotFound \/ Skip \/ Start \/ IamServiceError \/ CleanupUser
         \/ DeleteUser \/ CreateUser \/ UpdateUser \/ (\E k \in Kinds : SecretOf(k))
         \/ UNCHANGED vars
  PROVE  RequestInv'
<1> USE DEF RequestInv
<1>1. CASE SyncUser
  <2>1. cr' = cr /\ cache' = cr /\ pc' = pc /\ obj' = obj /\ fresh' = fresh /\ queued' = TRUE
    BY <1>1 DEF SyncUser, Sync
  <2> QED
    BY <1>1, <2>1, Busy, CopiedGen, GenConstants DEF SyncUser
<1>2. CASE RestartOperator
  <2>1. /\ cr' = cr /\ cache' = cr /\ (Quiet' => ~Exists(cr'))
        /\ pc' = "idle" /\ obj' = Absent /\ ~fresh'
    BY <1>2, RestartBusy DEF RestartOperator, Restart
  <2>2. "idle" \notin SecretSteps
    BY DEF SecretSteps
  <2> QED
    BY <2>1, <2>2, CopiedGen, GenConstants
<1>3. CASE UserAttachments \/ SyncSecrets \/ CollectSecret \/ UNCHANGED vars
  <2>1. UNCHANGED <<cr, cache, cacheFresh, pc, queued, obj, fresh, faults>>
    BY <1>3 DEF UserAttachments, Attachments, SyncSecrets, CollectSecret, vars, base
  <2> QED
    BY <2>1, StillQuiet, CopiedGen, GenConstants DEF OnlyStatusUpdated
<1>4. CASE ResyncUsers
  <2>1. UNCHANGED <<cr, cache, cacheFresh, pc, obj, fresh>> /\ queued' = TRUE
    BY <1>4 DEF ResyncUsers
  <2> QED
    BY <2>1, CopiedGen, GenConstants DEF Quiet
<1>5. CASE NotFound \/ Skip
  <2>1. /\ LoadAndReturn /\ pc' = "idle" /\ (~Exists(cache) \/ NothingToDo(cache))
        /\ UNCHANGED <<cr, cache, cacheFresh, obj, fresh>>
    BY <1>5 DEF NotFound, Skip, Dequeue, LoadAndReturn
  <2>2. Quiet' /\ Exists(cr') => NothingToDo(cr') /\ (cr'.deleting => cr'.fin)
    BY <2>1, SkipQuiet DEF LifecycleInv, CacheInv, StoredInv
  <2>3. "idle" \notin SecretSteps
    BY DEF SecretSteps
  <2> QED
    BY <2>1, <2>2, <2>3, CopiedGen, GenConstants DEF NothingToDo
<1>6. CASE Start \/ IamServiceError
  <2>1. /\ pc' \notin {"idle"} \union SecretSteps /\ obj' = cache /\ fresh' = cacheFresh
        /\ UNCHANGED <<cr, cache, cacheFresh>>
    BY <1>6 DEF Start, IamServiceError, Load, FirstStep, AfterFinalizer, SecretSteps
  <2> QED
    BY <2>1, Busy, CopiedGen, GenConstants
<1>7. CASE \/ CleanupUser \/ DeleteUser \/ CreateUser \/ UpdateUser
           \/ \E k \in Kinds : SecretOf(k)
  <2>1. \/ /\ obj' = obj /\ queued' = queued /\ pc' # "idle"
           /\ pc' \in SecretSteps => pc \in SecretSteps
        \/ Retry
    <3>1. CASE CleanupUser \/ DeleteUser \/ CreateUser \/ UpdateUser
      BY <1>7, <3>1 DEF CleanupUser, Cleanup, DeleteUser, Delete, DeletedHalfway, AfterDelete,
         CreateUser, CreateAWSObject, CreatedHalfway, UpdateUser, UpdatedHalfway, Goto, SecretSteps
    <3>2. ASSUME NEW k \in Kinds, SecretOf(k)
          PROVE  \/ /\ obj' = obj /\ queued' = queued /\ pc' # "idle" /\ pc \in SecretSteps
                 \/ Retry
      BY <3>2, SecretStepTypes
         DEF SecretOf, CreateSecret, DeleteSecret, LeaveSecret, Goto, SecretSteps
    <3> QED
      BY <1>7, <3>1, <3>2
  <2>2. /\ UNCHANGED <<cr, cache, cacheFresh>> /\ fresh' = (fresh /\ pc' # "idle")
        /\ pc # "idle" /\ (faults' = faults \/ Fault)
    <3>1. CASE CleanupUser \/ DeleteUser \/ CreateUser \/ UpdateUser
      BY <1>7, <3>1 DEF CleanupUser, Cleanup, DeleteUser, Delete, DeletedHalfway, CreateUser,
         CreateAWSObject, CreatedHalfway, UpdateUser, UpdatedHalfway, NoWrite
    <3>2. ASSUME NEW k \in Kinds, SecretOf(k)
          PROVE  /\ NoWrite /\ pc # "idle" /\ (faults' = faults \/ Fault)
      BY <3>2, SecretStepTypes DEF SecretOf, CreateSecret, DeleteSecret, LeaveSecret
    <3> QED
      BY <1>7, <3>1, <3>2 DEF NoWrite
  <2>3. faults' = 0 => faults = 0
    BY <2>2, FaultCounted
  <2>4. GenInv'
    BY <2>1, <2>2, CopiedGen, GenConstants, UserTypes DEF Retry, BaseTypeOK
  <2>5. CASE Retry
    <3>1. "idle" \notin SecretSteps
      BY DEF SecretSteps
    <3> QED
      BY <2>4, <2>5, <3>1, Busy DEF Retry
  <2>6. CASE obj' = obj /\ queued' = queued /\ pc' # "idle"
             /\ (pc' \in SecretSteps => pc \in SecretSteps)
    BY <2>2, <2>3, <2>4, <2>6, Busy
  <2> QED
    BY <2>1, <2>5, <2>6
<1> QED
  BY <1>1, <1>2, <1>3, <1>4, <1>5, <1>6, <1>7

\* What the steps that write a status write and leave in hand.
LEMMA StatusWrite ==
  ASSUME TypeOK, RequestInv,
         OkStatusUpdate \/ (\E k \in Kinds : StatusOf(k)) \/ Observe \/ Report
  PROVE  \E s \in UserStatuses :
           /\ Logged(WithStatus(s)) /\ pc # "idle"
           /\ \/ /\ obj' = [obj EXCEPT !.status = s] /\ pc' # "idle" /\ UNCHANGED queued
                 /\ s.og = obj.status.og /\ s.state = "OK"
              \/ /\ pc = "observe" /\ Return /\ s.og = obj.gen /\ s.state = "OK"
              \/ Retry /\ s.og = obj.status.og
<1>1. CASE OkStatusUpdate
  <2> DEFINE s == OkStatus(obj)
  <2>1. /\ s \in UserStatuses /\ s.og = obj.status.og /\ s.state = "OK"
        /\ [obj EXCEPT !.status = s].status = s
    BY UserTypes DEF Resources, UserStatuses, OkStatus
  <2>2. /\ Goto("loginSecret", [obj EXCEPT !.status = s]) /\ Logged(WithStatus(s))
        /\ pc = "okStatus"
    BY <1>1, <2>1 DEF OkStatusUpdate
  <2> HIDE DEF s
  <2> QED
    BY <2>1, <2>2 DEF Goto
<1>2. ASSUME NEW k \in Kinds, StatusOf(k)
      PROVE  \E s \in UserStatuses :
               /\ Logged(WithStatus(s)) /\ pc # "idle"
               /\ obj' = [obj EXCEPT !.status = s] /\ pc' # "idle" /\ UNCHANGED queued
               /\ s.og = obj.status.og /\ s.state = "OK"
  <2> DEFINE s == [obj.status EXCEPT !.made = MadeBy(k)]
  <2>1. pc \in SecretSteps /\ AfterKind[k] # "idle"
    BY <1>2, SecretStepTypes DEF StatusOf, SecretSteps
  <2>2. MadeBy(k) \in SUBSET Kinds
    BY UserTypes DEF MadeBy
  <2>3. s \in UserStatuses /\ s.og = obj.status.og /\ s.state = obj.status.state
    BY <2>2, UserTypes DEF Resources, UserStatuses
  <2>4. Goto(AfterKind[k], [obj EXCEPT !.status = s]) /\ Logged(WithStatus(s))
    BY <1>2 DEF StatusOf, MadeBy
  <2> HIDE DEF s
  <2>5. s.state = "OK" /\ pc # "idle"
    BY <2>1, <2>3 DEF RequestInv, SecretSteps
  <2> QED
    BY <2>1, <2>3, <2>4, <2>5 DEF Goto
<1>3. CASE Observe
  <2> DEFINE s == Observed(obj)
  <2>1. s \in UserStatuses /\ s.og = obj.gen /\ s.state = obj.status.state
    BY UserTypes DEF Resources, UserStatuses, Observed
  <2>2. Logged(WithStatus(s)) /\ pc = "observe" /\ Return
    BY <1>3 DEF Observe
  <2> HIDE DEF s
  <2>3. s.state = "OK"
    BY <2>1, <2>2 DEF RequestInv, SecretSteps
  <2> QED
    BY <2>1, <2>2, <2>3
<1>4. CASE Report
  <2>1. ErrorStatus(obj) \in UserStatuses /\ ErrorStatus(obj).og = obj.status.og
    BY UserTypes DEF Resources, UserStatuses, ErrorStatus
  <2>2. Logged(WithStatus(ErrorStatus(obj))) /\ Retry /\ pc # "idle"
    BY <1>4 DEF Report, ReportError
  <2> QED
    BY <2>1, <2>2
<1> QED
  BY <1>1, <1>2, <1>3, <1>4

LEMMA StatusRequest ==
  ASSUME TypeOK, LifecycleInv, RequestInv,
         OkStatusUpdate \/ (\E k \in Kinds : StatusOf(k)) \/ Observe \/ Report
  PROVE  RequestInv'
<1>1. PICK s \in UserStatuses :
        /\ Logged(WithStatus(s)) /\ pc # "idle"
        /\ \/ /\ obj' = [obj EXCEPT !.status = s] /\ pc' # "idle" /\ UNCHANGED queued
              /\ s.og = obj.status.og /\ s.state = "OK"
           \/ /\ pc = "observe" /\ Return /\ s.og = obj.gen /\ s.state = "OK"
           \/ Retry /\ s.og = obj.status.og
  BY StatusWrite
<1>2. /\ WithStatus(s).gen = cr.gen /\ WithStatus(s).deleting = cr.deleting
      /\ WithStatus(s).status = s
  BY UserTypes DEF WithStatus, Resources
<1>3. [obj EXCEPT !.status = s].gen = obj.gen /\ [obj EXCEPT !.status = s].deleting = obj.deleting
      /\ [obj EXCEPT !.status = s].status = s
  BY UserTypes DEF Resources
<1>4. pc = "observe" => ~obj.deleting
  BY DEF LifecycleInv, RunInv, StepInv, Holding, Provisioned, Recorded
<1>5. /\ faults' = 0 => faults = 0
      /\ \/ faults' # 0
         \/ ~fresh /\ UNCHANGED <<cr, cacheFresh, fresh>>
         \/ fresh /\ cr' = WithStatus(s) /\ fresh' = (pc' # "idle")
  BY <1>1, WriteCounted
<1>6. CASE obj' = [obj EXCEPT !.status = s] /\ pc' # "idle" /\ UNCHANGED queued
           /\ s.og = obj.status.og /\ s.state = "OK"
  <2>1. obj'.gen = obj.gen /\ obj'.deleting = obj.deleting /\ obj'.status = s
    BY <1>3, <1>6
  <2>2. GenInv'
    BY <1>1, <1>2, <1>6, <2>1, WrittenGen, GenConstants, UserTypes DEF RequestInv
  <2>3. faults' = 0 /\ ~fresh' => queued' \/ ~cacheFresh'
    BY <1>1, <1>5, <1>6 DEF RequestInv
  <2> QED
    BY <1>6, <2>1, <2>2, <2>3, Busy DEF RequestInv
<1>7. CASE pc = "observe" /\ Return /\ s.og = obj.gen /\ s.state = "OK"
  <2>1. pc' = "idle" /\ obj' = Absent /\ queued' = queued /\ "idle" \notin SecretSteps
    BY <1>7 DEF Return, SecretSteps
  <2>2. GenInv'
    BY <1>1, <1>2, <1>4, <1>7, <2>1, WrittenGen, GenConstants, UserTypes DEF RequestInv
  <2>3. ASSUME faults' = 0, Quiet' PROVE OnlyStatusUpdated(cr')
    <3>1. fresh /\ cr' = WithStatus(s)
      BY <1>1, <1>5, <2>1, <2>3 DEF RequestInv, Quiet
    <3> QED
      BY <1>2, <1>7, <3>1 DEF RequestInv, GenInv, OnlyStatusUpdated
  <2> QED
    BY <2>1, <2>2, <2>3 DEF RequestInv
<1>8. CASE Retry /\ s.og = obj.status.og
  <2>1. pc' = "idle" /\ obj' = Absent /\ "idle" \notin SecretSteps
    BY <1>8 DEF Retry, SecretSteps
  <2>2. GenInv'
    BY <1>1, <1>2, <1>8, <2>1, WrittenGen, GenConstants, UserTypes DEF RequestInv
  <2> QED
    BY <1>8, <2>1, <2>2, Busy DEF RequestInv
<1> QED
  BY <1>1, <1>6, <1>7, <1>8

LEMMA StepRequest ==
  ASSUME TypeOK, LifecycleInv, RequestInv, [Next]_vars
  PROVE  RequestInv'
<1>1. CASE User
  <2>1. UNCHANGED <<pc, obj>> /\ GenInv' /\ ~Quiet' /\ ~cacheFresh'
    BY <1>1, UserGen, Busy, GenConstants, UserTypes
       DEF RequestInv, User, UserStep, UserCreate, UserEdit, UserDelete, WrittenByOthers
  <2> QED
    BY <2>1 DEF RequestInv
<1>2. CASE AddFinalizer
  <2> DEFINE new == [cr EXCEPT !.fin = TRUE]
             o   == [Answer(obj) EXCEPT !.fin = TRUE]
  <2>1. new.gen = cr.gen /\ new.deleting = cr.deleting /\ new.status = cr.status
    BY UserTypes DEF Resources
  <2>2. o.gen = obj.gen /\ o.deleting = obj.deleting /\ o.status \in {obj.status, cr.status}
    BY UserTypes DEF Answer, Resources
  <2>3. \/ /\ pc' \in {"update", "create"} /\ obj' = o /\ fresh /\ fresh' = (pc' # "idle")
           /\ Logged(new)
        \/ pc' = "idle" /\ obj' = Absent /\ Retry /\ Logged(new)
    BY <1>2 DEF AddFinalizer, Goto, AfterFinalizer, Accepted, Retry, Logged
  <2> HIDE DEF o, new
  <2>4. GenInv'
    BY <2>1, <2>2, <2>3, WrittenGen, GenConstants, UserTypes DEF RequestInv
  <2>5. pc' \notin SecretSteps /\ ~Quiet' /\ (pc' # "idle" => fresh')
    BY <2>3, Busy DEF SecretSteps
  <2> QED
    BY <2>4, <2>5 DEF RequestInv
<1>3. CASE RemoveFinalizer
  <2>1. pc' = "idle" /\ obj' = Absent /\ Logged(Absent) /\ (Retry \/ cr' = Absent)
    BY <1>3 DEF RemoveFinalizer, Return, Retry, Logged, Accepted, Stored
  <2>2. GenInv' /\ "idle" \notin SecretSteps /\ ~Exists(Absent)
    BY <2>1, WrittenGen, GenConstants, UserTypes DEF RequestInv, SecretSteps, Exists, Absent
  <2> QED
    BY <2>1, <2>2, Busy DEF RequestInv
<1> QED
  BY <1>1, <1>2, <1>3, CopiedRequest, StatusRequest DEF Next, Reconcile

\* Without faults no request that would have settled a User, or deleted it, gets lost,
\* although its Reconcile drops the errors of its status writes.
THEOREM QuietIsSettled == Spec => []QuietMeansSettled
<1>1. Init => RequestInv
  <2>1. SUFFICES ASSUME Init PROVE RequestInv
    OBVIOUS
  <2>2. cr = Absent /\ cache = Absent /\ obj = Absent /\ fresh = FALSE /\ pc = "idle"
    BY <2>1 DEF Init, BaseInit
  <2>3. "idle" \notin SecretSteps /\ ~Exists(Absent)
    BY DEF SecretSteps, Exists, Absent
  <2> QED
    BY <2>2, <2>3, AbsentObserved, GenConstants DEF RequestInv, GenInv
<1>2. TypeOK /\ RequestInv => QuietMeansSettled
  <2>1. SUFFICES ASSUME TypeOK, RequestInv, faults = 0, Quiet, Exists(cr)
                 PROVE  ~cr.deleting /\ Settled(cr)
    BY DEF QuietMeansSettled
  <2>2. cr.gen \in Nat /\ cr.status.og \in Nat
    BY <2>1, UserTypes, GenTypes, GenConstants
  <2> QED
    BY <2>1, <2>2 DEF RequestInv, GenInv, ObservedInv, OnlyStatusUpdated, Settled
<1>3. TypeOK /\ LifecycleInv /\ RequestInv /\ [Next]_vars => RequestInv'
  BY StepRequest
<1> QED
  BY <1>1, <1>2, <1>3, Inductive, PTL DEF Spec
==============================================================================
