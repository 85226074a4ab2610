---------------------- MODULE AttachmentController_proofs ----------------------
(***************************************************************************)
(* Theorems about AttachmentController, for all targets and policies, all  *)
(* bounds and kinds of failure: its types, that a settled PolicyAttachment *)
(* is attached, and that nothing but former pairs outlives it.             *)
(***************************************************************************)
EXTENDS AttachmentController, Reconciler_proofs

-----------------------------------------------------------------------------
(* The inductive invariant behind SettledMeansAttached and OnlyFormerPairsLeft. *)

\* Steps of a copy that has the finalizer and is not being deleted.
Holding == {"create", "createFailed", "okStatus", "observe"}

\* Only what users changed the CR away from is attached without a CR to detach it.
StoredInv ==
  /\ ~Exists(cr) => cr = Absent
  /\ cr.uid <= edits
  /\ cr.deleting \/ cr.status.state = "OK" => cr.fin
  /\ \A p \in attached \ former : Exists(cr) /\ cr.fin /\ p = cr.spec

\* A copy pins the CR as in IamObject; it has its spec or one users changed it from.
CopyInv(o) ==
  /\ o.uid <= edits
  /\ Exists(o) /\ o.fin /\ ~o.deleting => cr.uid = o.uid /\ cr.fin
  /\ Exists(o) /\ cr.uid = o.uid
       => (o.deleting => cr.deleting) /\ (o.spec = cr.spec \/ o.spec \in former)

\* The finalizer was written by a run whose copy came from the cache.
CacheInv ==
  /\ cacheFresh => cache = cr
  /\ cr.fin => cache.uid = cr.uid /\ (Exists(obj) => obj.uid = cr.uid)
  /\ Exists(obj) /\ cr.uid = obj.uid
       => cache.uid = obj.uid /\ (obj.deleting => cache.deleting)

FreshInv ==
  fresh => /\ Exists(obj) /\ obj.uid = cr.uid /\ obj.gen = cr.gen /\ obj.spec = cr.spec
           /\ obj.deleting = cr.deleting /\ obj.fin = cr.fin

StepInv ==
  /\ (pc = "idle") = ~Exists(obj)
  /\ pc = "addFinalizer" => ~obj.fin /\ ~obj.deleting
  /\ pc = "delete" => obj.fin
  /\ pc \in Holding => obj.fin /\ ~obj.deleting
  /\ pc \in {"okStatus", "observe"} => obj.spec \in attached
  /\ pc = "removeFinalizer" => obj.deleting /\ obj.spec \notin attached

\* What is settled stays attachable without a fault, and a run that detaches it
\* attaches it again.
SettledInv ==
  faults = 0 /\ Settled(cr)
    => /\ {cr.spec.target, cr.spec.policy} \subseteq alive \union Externals
       /\ cr.spec \in attached \/ (pc = "create" /\ obj.spec = cr.spec)

AttachmentInv ==
  /\ StoredInv /\ CacheInv /\ FreshInv /\ StepInv /\ SettledInv
  /\ \A o \in {cr, cache, obj} : CopyInv(o) /\ ObservedInv(o)
  /\ \A p \in attached : {p.target, p.policy} \subseteq alive \union Externals

-----------------------------------------------------------------------------
(* Types. *)

LEMMA AttachmentConstants ==
  /\ NoStatus \in AttachmentStatuses /\ NoStatus.state # "OK" /\ NoStatus.og = 0
  /\ 0 \in 0 .. MaxEdits /\ 0 \in 0 .. MaxFaults
<1>1. NoStatus = [state |-> "", arn |-> FALSE, og |-> 0]
  BY AttachmentAssumption
<1>2. NoStatus \in AttachmentStatuses /\ NoStatus.state # "OK" /\ NoStatus.og = 0
  BY <1>1 DEF AttachmentStatuses
<1>3. 0 \in 0 .. MaxEdits /\ 0 \in 0 .. MaxFaults
  BY BoundsAssumption
<1> QED
  BY <1>2, <1>3

\* The statuses Reconcile makes of one.
LEMMA AttachmentStatusTypes ==
  ASSUME NEW o \in Resources(AttachmentStatuses)
  PROVE  /\ OkStatus(o) \in AttachmentStatuses /\ OkStatus(o).og = o.status.og
         /\ ErrorStatus(o) \in AttachmentStatuses
         /\ ErrorStatus(o).state = "ERROR" /\ ErrorStatus(o).og = o.status.og
         /\ [o.status EXCEPT !.og = o.gen] \in AttachmentStatuses
         /\ [o.status EXCEPT !.og = o.gen].og = o.gen
BY DEF Resources, AttachmentStatuses, OkStatus, ErrorStatus

LEMMA AttachmentTypes ==
  ASSUME TypeOK
  PROVE  /\ BaseTypeOK(AttachmentStatuses, AttachmentSteps)
         /\ obj \in Resources(AttachmentStatuses) /\ cr \in Resources(AttachmentStatuses)
         /\ cache \in Resources(AttachmentStatuses) /\ Absent \in Resources(AttachmentStatuses)
         /\ cr.uid \in Nat /\ cache.uid \in Nat /\ obj.uid \in Nat /\ edits \in Nat
         /\ cr.gen \in Nat /\ cache.gen \in Nat /\ obj.gen \in Nat
         /\ cr.status.og \in Nat /\ cache.status.og \in Nat /\ obj.status.og \in Nat
         /\ queued \in BOOLEAN
<1>1. BaseTypeOK(AttachmentStatuses, AttachmentSteps)
  BY DEF TypeOK
<1>2. Absent \in Resources(AttachmentStatuses)
  BY AbsentType, AttachmentConstants
<1> QED
  BY <1>1, <1>2, CopyTypes DEF BaseTypeOK, Resources, AttachmentStatuses

\* The copy that goes on from AddFinalizer.
LEMMA FinalizerAdded ==
  ASSUME TypeOK, AddFinalizer
  PROVE  \/ \E o \in Resources(AttachmentStatuses), p \in {"delete", "create"} :
              /\ Goto(p, o) /\ Accepted([cr EXCEPT !.fin = TRUE])
              /\ o.uid = obj.uid /\ o.gen = obj.gen /\ o.deleting = obj.deleting
              /\ o.fin = TRUE /\ o.status \in {obj.status, cr.status} /\ o.spec = obj.spec
         \/ Retry /\ Refused([cr EXCEPT !.fin = TRUE])
<1> DEFINE o == [Answer(obj) EXCEPT !.fin = TRUE]
<1>1. /\ o \in Resources(AttachmentStatuses)
      /\ o.uid = obj.uid /\ o.gen = obj.gen /\ o.deleting = obj.deleting
      /\ o.fin = TRUE /\ o.status \in {obj.status, cr.status} /\ o.spec = obj.spec
  BY AttachmentTypes DEF Answer, Resources
<1> HIDE DEF o
<1>2. AfterFinalizer(o) \in {"delete", "create"}
  BY DEF AfterFinalizer
<1> QED
  BY <1>1, <1>2 DEF AddFinalizer, o

\* The status a step writes, and what it leaves in hand.
LEMMA StatusWrite ==
  ASSUME TypeOK, CreateFailed \/ OkStatusUpdate \/ Observe \/ Report
  PROVE  \E s \in AttachmentStatuses :
           /\ Logged(WithStatus(s)) /\ UNCHANGED awsVars
           /\ s.og \in {obj.status.og, obj.gen}
           /\ s.state = "OK" => pc \in {"okStatus", "observe"}
           /\ pc \notin {"idle", "create"}
           /\ s.og = obj.status.og \/ pc = "observe"
           /\ \/ pc' = "idle" /\ obj' = Absent /\ queued' \in BOOLEAN
              \/ /\ Goto(pc', [obj EXCEPT !.status = s])
                 /\ \/ pc = "createFailed" /\ pc' = "errWithStatus"
                    \/ pc = "okStatus" /\ pc' = "observe"
<1> USE AttachmentTypes, AttachmentStatusTypes
<1>1. CASE CreateFailed
  <2>1. /\ Goto("errWithStatus", [obj EXCEPT !.status = ErrorStatus(obj)])
        /\ Logged(WithStatus([obj EXCEPT !.status = ErrorStatus(obj)].status))
        /\ pc = "createFailed" /\ UNCHANGED awsVars
    BY <1>1 DEF CreateFailed
  <2>2. [obj EXCEPT !.status = ErrorStatus(obj)].status = ErrorStatus(obj)
    BY DEF Resources
  <2> QED
    BY <2>1, <2>2 DEF Goto
<1>2. CASE OkStatusUpdate
  <2>1. /\ Goto("observe", [obj EXCEPT !.status = OkStatus(obj)])
        /\ Logged(WithStatus([obj EXCEPT !.status = OkStatus(obj)].status))
        /\ pc = "okStatus" /\ UNCHANGED awsVars
    BY <1>2 DEF OkStatusUpdate
  <2>2. [obj EXCEPT !.status = OkStatus(obj)].status = OkStatus(obj)
    BY DEF Resources
  <2> QED
    BY <2>1, <2>2 DEF Goto
<1>3. CASE Observe
  <2>1. /\ Logged(WithStatus([obj.status EXCEPT !.og = obj.gen])) /\ pc = "observe"
        /\ pc' = "idle" /\ obj' = Absent /\ queued' \in BOOLEAN /\ UNCHANGED awsVars
    BY <1>3 DEF Observe, Return, Retry, Logged
  <2> QED
    BY <2>1
<1>4. CASE Report
  <2>1. /\ Logged(WithStatus(ErrorStatus(obj))) /\ pc \in {"errWithStatus", "errorStatus"}
        /\ pc' = "idle" /\ obj' = Absent /\ queued' \in BOOLEAN /\ UNCHANGED awsVars
    BY <1>4 DEF Report, ReportError, Retry
  <2> QED
    BY <2>1
<1> QED
  BY <1>1, <1>2, <1>3, <1>4

\* Users write specs, copies are copied.
LEMMA StepSpec ==
  ASSUME TypeOK, SpecInv, [Next]_vars
  PROVE  SpecInv'
<1>1. CASE User
  BY <1>1, UserSpec, AttachmentTypes DEF User
<1>2. CASE SyncAttachment \/ RestartOperator \/ References \/ UNCHANGED vars
  BY <1>2, CopiedSpec DEF SyncAttachment, Sync, RestartOperator, Restart, References,
           ListingChanges, ObjectAppears, ObjectDisappears, vars, base
<1>3. CASE NotFound \/ Skip \/ RefsError \/ Start
  BY <1>3, CopiedSpec DEF NotFound, Skip, LoadAndReturn, RefsError, Start, Load
<1>4. CASE Delete \/ Create
  BY <1>4, CopiedSpec DEF Delete, Create, Goto, NoWrite
<1>5. CASE AddFinalizer
  <2> DEFINE new == [cr EXCEPT !.fin = TRUE]
  <2>1. new.spec = cr.spec /\ new.uid = cr.uid
    BY AttachmentTypes DEF Resources
  <2>2. obj' = Absent \/ (obj'.spec = obj.spec /\ obj'.uid = obj.uid)
    BY <1>5, FinalizerAdded DEF Retry, Goto
  <2>3. Logged(new)
    BY <1>5, FinalizerAdded DEF Logged
  <2> HIDE DEF new
  <2> QED
    BY <2>1, <2>2, <2>3, AttachmentTypes, WrittenSpec
<1>6. CASE RemoveFinalizer
  <2>1. Logged(Absent) /\ obj' = Absent
    BY <1>6 DEF RemoveFinalizer, Logged, Return, Retry
  <2> QED
    BY <2>1, AttachmentTypes, WrittenSpec
<1>7. CASE CreateFailed \/ OkStatusUpdate \/ Observe \/ Report
  <2>1. PICK s : Logged(WithStatus(s)) /\ obj' \in {Absent, [obj EXCEPT !.status = s]}
    BY <1>7, StatusWrite DEF Goto
  <2>2. /\ [obj EXCEPT !.status = s].spec = obj.spec /\ [obj EXCEPT !.status = s].uid = obj.uid
        /\ WithStatus(s).spec = cr.spec /\ WithStatus(s).uid = cr.uid
    BY AttachmentTypes DEF Resources, WithStatus
  <2> QED
    BY <2>1, <2>2, AttachmentTypes, WrittenSpec
<1> QED
  BY <1>1, <1>2, <1>3, <1>4, <1>5, <1>6, <1>7 DEF Next, Reconcile

\* Only what exists is attached, which is a pair of a target and a policy.
LEMMA AttachedPair ==
  ASSUME TypeOK, Exists(obj), SpecInv, Attachable
  PROVE  obj.spec \in Pairs
<1>1. /\ obj.spec \in [target : Targets, policy : Policies \union Externals \union {NoPolicy}]
      /\ obj.spec.policy \in Targets \union Policies \union Externals
  BY AttachmentAssumption DEF SpecInv, SpecOf, Attachable, TypeOK
<1>2. obj.spec.policy # NoPolicy
  BY <1>1, AttachmentAssumption
<1> QED
  BY <1>1, <1>2 DEF Pairs

LEMMA StepType ==
  ASSUME TypeOK, SpecInv, StepInv, [Next]_vars
  PROVE  TypeOK'
<1> USE DEF AttachmentSteps
<1>1. ASSUME BaseTypeOK(AttachmentStatuses, AttachmentSteps)', UNCHANGED awsVars
      PROVE  TypeOK'
  BY <1>1 DEF TypeOK, awsVars
<1>2. CASE User
  <2>1. BaseTypeOK(AttachmentStatuses, AttachmentSteps)'
    BY <1>2, UserType, AttachmentTypes, AttachmentConstants DEF User
  <2>2. former' \subseteq Specs
    <3>1. Exists(cr) => {cr.spec} \subseteq Specs
      BY DEF SpecInv, SpecOf
    <3> QED
      BY <1>2, <3>1 DEF User, TypeOK
  <2> QED
    BY <1>2, <2>1, <2>2 DEF User, TypeOK
<1>3. CASE SyncAttachment \/ RestartOperator
  BY <1>1, <1>3, SyncType, AttachmentTypes, AttachmentConstants DEF SyncAttachment, RestartOperator
<1>4. CASE References
  <2>1. /\ UNCHANGED <<cr, cache, cacheFresh, obj, fresh, pc, queued, edits, attached, former>>
        /\ faults' \in 0 .. MaxFaults
    BY <1>4, BoundsAssumption
       DEF References, ListingChanges, ObjectAppears, ObjectDisappears, Fault, base, TypeOK, BaseTypeOK
  <2>2. listed' \subseteq Targets \union Policies /\ alive' \subseteq Targets \union Policies
    BY <1>4, AttachmentAssumption
       DEF References, ListingChanges, ObjectAppears, ObjectDisappears, TypeOK
  <2> QED
    BY <2>1, <2>2 DEF TypeOK, BaseTypeOK
<1>5. CASE NotFound \/ Skip
  BY <1>1, <1>5 DEF NotFound, Skip, LoadAndReturn, TypeOK, BaseTypeOK
<1>6. CASE RefsError \/ Start
  <2>1. PICK p \in AttachmentSteps : Load(cache, p) /\ (UNCHANGED faults \/ Fault)
    BY <1>6 DEF RefsError, Start, FirstStep, AfterFinalizer
  <2> QED
    BY <1>1, <1>6, <2>1, LoadType, AttachmentTypes DEF RefsError, Start
<1>7. CASE AddFinalizer
  <2>1. /\ pc' \in AttachmentSteps \union {"idle"} /\ obj' \in Resources(AttachmentStatuses)
        /\ queued' \in BOOLEAN /\ Logged([cr EXCEPT !.fin = TRUE])
    BY <1>7, FinalizerAdded, AttachmentTypes DEF Goto, Retry, Logged
  <2>2. [cr EXCEPT !.fin = TRUE] \in Resources(AttachmentStatuses)
    BY AttachmentTypes, AttachmentConstants, UpdatedType
  <2> QED
    BY <1>1, <1>7, <2>1, <2>2, WriteType, AttachmentTypes DEF AddFinalizer
<1>8. CASE Delete \/ Create
  <2>1. /\ pc' \in AttachmentSteps /\ obj' = obj /\ queued' = queued /\ NoWrite
        /\ UNCHANGED faults \/ Fault
    BY <1>8 DEF Delete, Create, Goto, AfterDelete
  <2>2. BaseTypeOK(AttachmentStatuses, AttachmentSteps)'
    BY <2>1, NoWriteType, AttachmentTypes
  <2>3. attached' \subseteq attached \/ (Attachable /\ attached' = attached \union {obj.spec})
    BY <1>8 DEF Delete, Create
  <2>4. Exists(obj)
    BY <1>8 DEF StepInv, Delete, Create
  <2>5. attached' \subseteq Pairs
    BY <2>3, <2>4, AttachedPair DEF TypeOK
  <2> QED
    BY <1>8, <2>2, <2>5 DEF Delete, Create, TypeOK
<1>9. CASE RemoveFinalizer
  <2>1. Logged(Absent) /\ obj' = Absent /\ pc' = "idle" /\ queued' \in BOOLEAN
    BY <1>9, AttachmentTypes DEF RemoveFinalizer, Logged, Return, Retry
  <2> QED
    BY <1>1, <1>9, <2>1, WriteType, AttachmentTypes DEF RemoveFinalizer
<1>10. CASE CreateFailed \/ OkStatusUpdate \/ Observe \/ Report
  <2>1. PICK s \in AttachmentStatuses :
          /\ Logged(WithStatus(s)) /\ UNCHANGED awsVars
          /\ \/ pc' = "idle" /\ obj' = Absent /\ queued' \in BOOLEAN
             \/ Goto(pc', [obj EXCEPT !.status = s]) /\ pc' \in {"errWithStatus", "observe"}
    BY <1>10, StatusWrite
  <2>2. [obj EXCEPT !.status = s] \in Resources(AttachmentStatuses)
        /\ WithStatus(s) \in Resources(AttachmentStatuses)
    BY AttachmentTypes, UpdatedType DEF WithStatus
  <2>3. /\ pc' \in AttachmentSteps \union {"idle"} /\ obj' \in Resources(AttachmentStatuses)
        /\ queued' \in BOOLEAN
    BY <2>1, <2>2, AttachmentTypes DEF Goto
  <2> QED
    BY <1>1, <2>1, <2>2, <2>3, WriteType, AttachmentTypes
<1>11. CASE UNCHANGED vars
  BY <1>1, <1>11 DEF vars, base, TypeOK, BaseTypeOK
<1> QED
  BY <1>2, <1>3, <1>4, <1>5, <1>6, <1>7, <1>8, <1>9, <1>10, <1>11 DEF Next, Reconcile
-----------------------------------------------------------------------------
(* The invariant: what each kind of step does to its parts. *)

LEMMA InitInv == Init => TypeOK /\ SpecInv /\ AttachmentInv
<1>1. SUFFICES ASSUME Init PROVE TypeOK /\ SpecInv /\ AttachmentInv
  OBVIOUS
<1>2. /\ cr = Absent /\ cache = Absent /\ obj = Absent /\ fresh = FALSE /\ pc = "idle"
      /\ edits = 0 /\ attached = {}
  BY <1>1 DEF Init, BaseInit
<1>3. /\ Absent.uid = 0 /\ Absent.gen = 0 /\ Absent.fin = FALSE /\ Absent.deleting = FALSE
      /\ Absent.status.state # "OK" /\ Absent.status.og = 0
  BY AttachmentConstants DEF Absent
<1>4. BaseTypeOK(AttachmentStatuses, AttachmentSteps)
  BY <1>1, AttachmentConstants, AbsentType DEF Init, BaseInit, BaseTypeOK
<1>5. TypeOK
  BY <1>1, <1>4 DEF Init, TypeOK
<1>6. StoredInv /\ SettledInv
  <2>1. cr.uid = 0 /\ cr.deleting = FALSE /\ cr.status.state # "OK" /\ ~Exists(cr)
    BY <1>2, <1>3 DEF Exists
  <2> QED
    BY <1>2, <2>1 DEF StoredInv, SettledInv, Settled
<1>7. CacheInv /\ FreshInv /\ StepInv
  BY <1>1, <1>2, <1>3 DEF Init, BaseInit, CacheInv, FreshInv, StepInv, Exists, Holding
<1>8. \A o \in {cr, cache, obj} : CopyInv(o) /\ ObservedInv(o)
  <2>1. CopyInv(Absent)
    BY <1>2, <1>3 DEF CopyInv, Exists
  <2>2. ObservedInv(Absent)
    BY <1>3 DEF ObservedInv
  <2> QED
    BY <1>2, <2>1, <2>2
<1>9. AttachmentInv
  BY <1>2, <1>6, <1>7, <1>8 DEF AttachmentInv
<1> QED
  BY <1>2, <1>3, <1>5, <1>9 DEF SpecInv, SpecOf, Exists

\* A user creates the CR: the copies are of earlier ones.
LEMMA CreateInv ==
  ASSUME TypeOK, AttachmentInv, UserCreate, UNCHANGED awsVars
  PROVE  AttachmentInv'
<1>1. PICK s \in Specs :
        WrittenByOthers([Absent EXCEPT !.uid = edits + 1, !.gen = 1,
                                       !.rev = edits + 1, !.spec = s])
  BY DEF UserCreate
<1>2. /\ cr'.uid = edits + 1 /\ cr'.gen = 1 /\ cr'.deleting = FALSE /\ cr'.fin = FALSE
      /\ cr'.status = NoStatus
  BY <1>1 DEF WrittenByOthers, Absent
<1>3. /\ edits' = edits + 1 /\ ~Exists(cr) /\ cacheFresh' = FALSE /\ fresh' = FALSE
      /\ UNCHANGED <<cache, obj, pc, faults, listed, alive, attached, former>>
  BY <1>1 DEF UserCreate, Edit, WrittenByOthers, awsVars
<1>4. ASSUME NEW o \in {cache, obj} PROVE (CopyInv(o) /\ ObservedInv(o))'
  BY <1>2, <1>3, <1>4, AttachmentTypes DEF AttachmentInv, CopyInv, ObservedInv, Exists
<1>5. cr'.status.og = 0 /\ cr'.status.state # "OK"
  BY <1>2, AttachmentConstants
<1>6. (CopyInv(cr) /\ ObservedInv(cr))'
  <2>1. edits' \in Nat
    BY <1>3, AttachmentTypes
  <2>2. CopyInv(cr)'
    BY <1>2, <1>3, <2>1 DEF CopyInv
  <2>3. ObservedInv(cr)'
    BY <1>2, <1>5 DEF ObservedInv
  <2> QED
    BY <2>2, <2>3
<1>7. StoredInv'
  <2>1. attached' \ former' = {} /\ Exists(cr)' /\ edits' \in Nat
    BY <1>2, <1>3, AttachmentTypes DEF AttachmentInv, StoredInv, Exists
  <2> QED
    BY <1>2, <1>3, <1>5, <2>1 DEF StoredInv
<1>8. SettledInv'
  BY <1>2, <1>5 DEF SettledInv, Settled, OnlyStatusUpdated
<1>9. CacheInv' /\ FreshInv' /\ StepInv'
  BY <1>2, <1>3, AttachmentTypes
     DEF AttachmentInv, CacheInv, CopyInv, FreshInv, StepInv, Exists
<1> QED
  BY <1>3, <1>4, <1>6, <1>7, <1>8, <1>9 DEF AttachmentInv

\* A user edits the CR: what the spec was before is a former pair now.
LEMMA EditInv ==
  ASSUME TypeOK, AttachmentInv, User, UserEdit
  PROVE  AttachmentInv'
<1>1. PICK s \in Specs :
        WrittenByOthers([cr EXCEPT !.gen = cr.gen + 1, !.rev = edits + 1, !.spec = s])
  BY DEF UserEdit
<1>2. /\ cr'.uid = cr.uid /\ cr'.gen = cr.gen + 1 /\ cr'.deleting = cr.deleting
      /\ cr'.fin = cr.fin /\ cr'.status = cr.status
  BY <1>1, AttachmentTypes DEF WrittenByOthers, Resources
<1>3. /\ edits' = edits + 1 /\ Exists(cr) /\ cacheFresh' = FALSE /\ fresh' = FALSE
      /\ UNCHANGED <<cache, obj, pc, faults, alive, attached>>
  BY <1>1 DEF User, UserEdit, Edit, WrittenByOthers
<1>4. former \subseteq former' /\ (cr.spec \in former' \/ cr'.spec = cr.spec)
  BY <1>2, <1>3 DEF User, Exists
<1>5. ASSUME NEW o \in {cache, obj} PROVE (CopyInv(o) /\ ObservedInv(o))'
  BY <1>2, <1>3, <1>4, <1>5, AttachmentTypes DEF AttachmentInv, CopyInv, ObservedInv, Exists
<1>6. (CopyInv(cr) /\ ObservedInv(cr))' /\ StoredInv'
  BY <1>2, <1>3, <1>4, AttachmentTypes DEF AttachmentInv, StoredInv, CopyInv, ObservedInv, Exists
<1>7. SettledInv'
  BY <1>2, <1>3, AttachmentTypes DEF AttachmentInv, SettledInv, Settled, OnlyStatusUpdated, ObservedInv
<1>8. CacheInv' /\ FreshInv' /\ StepInv'
  BY <1>2, <1>3 DEF AttachmentInv, CacheInv, FreshInv, StepInv, Exists
<1> QED
  BY <1>3, <1>5, <1>6, <1>7, <1>8 DEF AttachmentInv

\* A user deletes the CR.  Without a finalizer nothing is attached for it.
LEMMA DeleteInv ==
  ASSUME TypeOK, AttachmentInv, User, UserDelete
  PROVE  AttachmentInv'
<1>1. /\ UNCHANGED <<cache, obj, pc, edits, faults, alive, attached>>
      /\ cacheFresh' = FALSE /\ fresh' = FALSE /\ Exists(cr) /\ ~cr.deleting
  BY DEF User, UserDelete, WrittenByOthers
<1>2. CASE cr.fin
  <2>1. /\ cr'.uid = cr.uid /\ cr'.gen = cr.gen + 1 /\ cr'.deleting = TRUE
        /\ cr'.fin = cr.fin /\ cr'.status = cr.status /\ cr'.spec = cr.spec
    BY <1>2, AttachmentTypes DEF UserDelete, WrittenByOthers, Resources
  <2>2. former' = former
    BY <2>1 DEF User
  <2>3. ASSUME NEW o \in {cache, obj} PROVE (CopyInv(o) /\ ObservedInv(o))'
    BY <1>1, <2>1, <2>2, <2>3, AttachmentTypes DEF AttachmentInv, CopyInv, ObservedInv, Exists
  <2>4. (CopyInv(cr) /\ ObservedInv(cr))' /\ StoredInv'
    BY <1>1, <1>2, <2>1, <2>2, AttachmentTypes
       DEF AttachmentInv, StoredInv, CopyInv, ObservedInv, Exists
  <2>5. SettledInv'
    BY <1>1, <2>1, AttachmentTypes
       DEF AttachmentInv, SettledInv, Settled, OnlyStatusUpdated, ObservedInv
  <2>6. CacheInv' /\ FreshInv' /\ StepInv'
    BY <1>1, <2>1 DEF AttachmentInv, CacheInv, FreshInv, StepInv, Exists
  <2> QED
    BY <1>1, <2>3, <2>4, <2>5, <2>6 DEF AttachmentInv
<1>3. CASE ~cr.fin
  <2>1. /\ cr' = Absent /\ cr'.uid = 0 /\ cr'.gen = 0 /\ cr'.deleting = FALSE /\ cr'.fin = FALSE
        /\ cr'.status = NoStatus
    BY <1>3 DEF UserDelete, WrittenByOthers, Absent
  <2>2. former' = former
    BY <2>1 DEF User, Exists
  <2>3. ASSUME NEW o \in {cache, obj} PROVE (CopyInv(o) /\ ObservedInv(o))'
    BY <1>1, <1>3, <2>1, <2>2, <2>3, AttachmentTypes DEF AttachmentInv, CopyInv, ObservedInv, Exists
  <2>4. (CopyInv(cr) /\ ObservedInv(cr))' /\ StoredInv'
    <3>1. cr'.status.og = 0 /\ cr'.status.state # "OK" /\ ~Exists(cr)'
      BY <2>1, AttachmentConstants DEF Exists
    <3>2. attached' \ former' = {} /\ edits' \in Nat
      BY <1>1, <1>3, <2>2, AttachmentTypes DEF AttachmentInv, StoredInv
    <3>3. CopyInv(cr)'
      BY <2>1, <3>1, <3>2 DEF CopyInv
    <3>4. ObservedInv(cr)'
      BY <2>1, <3>1 DEF ObservedInv
    <3>5. StoredInv'
      BY <2>1, <3>1, <3>2 DEF StoredInv
    <3> QED
      BY <3>3, <3>4, <3>5
  <2>5. SettledInv' /\ CacheInv' /\ FreshInv' /\ StepInv'
    BY <1>1, <2>1 DEF AttachmentInv, SettledInv, Settled, CacheInv, FreshInv, StepInv, Exists
  <2> QED
    BY <1>1, <2>3, <2>4, <2>5 DEF AttachmentInv
<1> QED
  BY <1>2, <1>3

\* The informer delivers, or the operator restarts.
LEMMA SyncInv ==
  ASSUME TypeOK, AttachmentInv, Sync \/ Restart, UNCHANGED awsVars
  PROVE  AttachmentInv'
<1>1. /\ UNCHANGED <<cr, edits, alive, attached, former>> /\ cache' = cr
      /\ faults' = 0 => faults = 0
      /\ \/ UNCHANGED <<obj, fresh, pc>>
         \/ obj' = Absent /\ fresh' = FALSE /\ pc' = "idle"
      /\ pc' = pc \/ faults' # 0
  <2>1. faults \in Nat
    BY BoundsAssumption DEF TypeOK, BaseTypeOK
  <2> QED
    BY <2>1 DEF Sync, Restart, Fault, awsVars
<1>2. /\ Absent.uid = 0 /\ Absent.gen = 0 /\ Absent.fin = FALSE /\ Absent.deleting = FALSE
      /\ Absent.status.og = 0
  BY AttachmentConstants DEF Absent
<1>3. StoredInv' /\ SettledInv'
  BY <1>1, <1>2 DEF AttachmentInv, StoredInv, SettledInv, Settled, OnlyStatusUpdated, Exists, Holding
<1>4. ASSUME NEW o, CopyInv(o), ObservedInv(o) PROVE (CopyInv(o) /\ ObservedInv(o))'
  BY <1>1, <1>4 DEF CopyInv, ObservedInv, Exists
<1>5. \A o \in {cr', cache', obj'} : o \in {cr, cache, obj, Absent}
  BY <1>1
<1>6. CopyInv(Absent) /\ ObservedInv(Absent)
  BY <1>2, AttachmentTypes DEF CopyInv, ObservedInv, Exists
<1>7. CacheInv' /\ FreshInv' /\ StepInv'
  BY <1>1, <1>2 DEF AttachmentInv, CopyInv, CacheInv, FreshInv, StepInv, Exists, Holding
<1>8. (CopyInv(cr) /\ ObservedInv(cr))' /\ (CopyInv(cache) /\ ObservedInv(cache))'
      /\ (CopyInv(obj) /\ ObservedInv(obj))'
  BY <1>1, <1>2, AttachmentTypes DEF AttachmentInv, CopyInv, ObservedInv, Exists
<1> QED
  BY <1>1, <1>3, <1>7, <1>8 DEF AttachmentInv

\* What a PolicyAttachment refers to comes and goes: only a fault takes it from
\* under a settled one.
LEMMA ReferencesInv ==
  ASSUME TypeOK, AttachmentInv, References
  PROVE  AttachmentInv'
<1>1. /\ UNCHANGED <<cr, cache, cacheFresh, obj, fresh, pc, edits, attached, former>>
      /\ faults' = 0 => faults = 0
  <2>1. faults \in Nat
    BY BoundsAssumption DEF TypeOK, BaseTypeOK
  <2> QED
    BY <2>1 DEF References, ListingChanges, ObjectAppears, ObjectDisappears, Fault, base
<1>2. \A p \in attached : {p.target, p.policy} \subseteq alive' \union Externals
  <2>1. CASE alive \subseteq alive'
    BY <2>1 DEF AttachmentInv
  <2>2. CASE ObjectDisappears
    BY <2>2 DEF ObjectDisappears, Names, AttachmentInv
  <2> QED
    BY <2>1, <2>2 DEF References, ListingChanges, ObjectAppears
<1>3. SettledInv'
  <2>1. SUFFICES ASSUME faults' = 0, Settled(cr)
                 PROVE  {cr.spec.target, cr.spec.policy} \subseteq alive' \union Externals
    BY <1>1 DEF AttachmentInv, SettledInv, Settled, OnlyStatusUpdated, Exists
  <2>2. {cr.spec.target, cr.spec.policy} \subseteq alive \union Externals
    BY <1>1, <2>1 DEF AttachmentInv, SettledInv
  <2>3. CASE alive \subseteq alive'
    BY <2>2, <2>3
  <2>4. CASE ObjectDisappears
    <3>1. faults \in Nat
      BY BoundsAssumption DEF TypeOK, BaseTypeOK
    <3>2. PICK x : alive' = alive \ {x} /\ ~Names(cr.spec, x)
      BY <2>1, <2>4, <3>1 DEF ObjectDisappears, Fault, Settled
    <3> QED
      BY <2>2, <3>2 DEF Names
  <2> QED
    BY <2>3, <2>4 DEF References, ListingChanges, ObjectAppears
<1>4. ASSUME NEW o \in {cr, cache, obj} PROVE (CopyInv(o) /\ ObservedInv(o))'
  BY <1>1, <1>4 DEF AttachmentInv, CopyInv, ObservedInv, Exists
<1>5. StoredInv' /\ CacheInv' /\ FreshInv' /\ StepInv'
  BY <1>1 DEF AttachmentInv, StoredInv, CacheInv, FreshInv, StepInv, Exists
<1> QED
  BY <1>1, <1>2, <1>3, <1>4, <1>5 DEF AttachmentInv

\* Reconcile takes its copy from the cache.
LEMMA LoadInv ==
  ASSUME TypeOK, AttachmentInv, RefsError \/ Start
  PROVE  AttachmentInv'
<1>1. /\ UNCHANGED <<cr, cache, cacheFresh, edits, alive, attached, former>>
      /\ obj' = cache /\ fresh' = cacheFresh /\ Exists(cache)
      /\ pc = "idle" /\ pc' \in {"errWithStatus", FirstStep(cache)}
      /\ pc' # "errWithStatus" => (cache.deleting => cache.fin)
      /\ faults' = 0 => faults = 0
  <2>1. faults \in Nat
    BY BoundsAssumption DEF TypeOK, BaseTypeOK
  <2> QED
    BY <2>1 DEF RefsError, Start, Load, Dequeue, Fault, awsVars
<1>2. StepInv'
  BY <1>1 DEF StepInv, Exists, Holding, FirstStep, AfterFinalizer
<1>3. SettledInv'
  BY <1>1 DEF AttachmentInv, SettledInv, Settled, OnlyStatusUpdated, Exists
<1>4. (CopyInv(cr) /\ ObservedInv(cr))' /\ (CopyInv(cache) /\ ObservedInv(cache))'
      /\ (CopyInv(obj) /\ ObservedInv(obj))'
  BY <1>1 DEF AttachmentInv, CopyInv, ObservedInv, Exists
<1>5. StoredInv' /\ CacheInv' /\ FreshInv'
  BY <1>1 DEF AttachmentInv, StoredInv, CacheInv, FreshInv, Exists
<1> QED
  BY <1>1, <1>2, <1>3, <1>4, <1>5 DEF AttachmentInv

\* Nothing the invariant speaks of changes.
LEMMA QuietInv ==
  ASSUME AttachmentInv, NotFound \/ Skip \/ UNCHANGED vars
  PROVE  AttachmentInv'
<1>1. UNCHANGED <<cr, cache, cacheFresh, obj, fresh, pc, edits, faults, alive, attached, former>>
  BY DEF NotFound, Skip, LoadAndReturn, vars, base, awsVars
<1>2. (CopyInv(cr) /\ ObservedInv(cr))' /\ (CopyInv(cache) /\ ObservedInv(cache))'
      /\ (CopyInv(obj) /\ ObservedInv(obj))'
  BY <1>1 DEF AttachmentInv, CopyInv, ObservedInv, Exists
<1>3. StoredInv' /\ CacheInv' /\ FreshInv' /\ StepInv' /\ SettledInv'
  BY <1>1 DEF AttachmentInv, StoredInv, CacheInv, FreshInv, StepInv, SettledInv,
              Settled, OnlyStatusUpdated, Exists
<1> QED
  BY <1>1, <1>2, <1>3 DEF AttachmentInv

\* Detaching: what the CR shows as settled is detached by a run that is not
\* deleting it, and that attaches it next.
LEMMA DetachInv ==
  ASSUME TypeOK, AttachmentInv, Delete
  PROVE  AttachmentInv'
<1>1. /\ UNCHANGED <<cr, cache, cacheFresh, obj, edits, alive, former>>
      /\ (fresh' => fresh) /\ pc = "delete" /\ obj.fin /\ Exists(obj)
      /\ attached' \in {attached, attached \ {obj.spec}}
      /\ \/ pc' = "errorStatus" /\ (attached' = attached \/ faults' # 0)
         \/ obj.deleting /\ pc' = "removeFinalizer" /\ attached' = attached \ {obj.spec}
         \/ ~obj.deleting /\ pc' = "create" /\ attached' = attached \ {obj.spec}
      /\ faults' = 0 => faults = 0
  <2>1. faults \in Nat
    BY BoundsAssumption DEF TypeOK, BaseTypeOK
  <2>2. pc = "delete" /\ obj.fin /\ Exists(obj)
    BY DEF Delete, AttachmentInv, StepInv
  <2>3. /\ UNCHANGED <<cr, cache, cacheFresh, obj, edits, alive, former>>
        /\ fresh' => fresh
    BY DEF Delete, Goto, NoWrite, TypeOK, BaseTypeOK
  <2>4. AfterDelete(obj) = IF obj.deleting THEN "removeFinalizer" ELSE "create"
    BY DEF AfterDelete
  <2>5. CASE Fault /\ Goto("errorStatus", obj) /\ attached' \in {attached, attached \ {obj.spec}}
    BY <2>1, <2>2, <2>3, <2>5 DEF Goto, Fault
  <2>6. CASE /\ obj.spec \notin attached /\ Goto("errorStatus", obj)
             /\ UNCHANGED <<attached, faults>>
    BY <2>2, <2>3, <2>6 DEF Goto
  <2>7. CASE /\ Goto(AfterDelete(obj), obj) /\ attached' = attached \ {obj.spec}
             /\ UNCHANGED faults
    BY <2>2, <2>3, <2>4, <2>7 DEF Goto
  <2> QED
    BY <2>5, <2>6, <2>7 DEF Delete
<1>2. StoredInv' /\ CacheInv' /\ FreshInv'
  BY <1>1 DEF AttachmentInv, StoredInv, CacheInv, FreshInv, Exists
<1>3. StepInv'
  BY <1>1 DEF AttachmentInv, StepInv, Exists, Holding
<1>4. ASSUME Settled(cr) PROVE ~obj.deleting
  <2>1. cr.fin
    BY <1>4 DEF AttachmentInv, StoredInv, Settled, OnlyStatusUpdated
  <2>2. obj.uid = cr.uid
    BY <1>1, <2>1 DEF AttachmentInv, CacheInv
  <2>3. ~cr.deleting
    BY <1>4, AttachmentTypes DEF AttachmentInv, ObservedInv, Settled, OnlyStatusUpdated
  <2> QED
    BY <1>1, <2>2, <2>3 DEF AttachmentInv, CopyInv, Exists
<1>5. SettledInv'
  BY <1>1, <1>4 DEF AttachmentInv, SettledInv, Settled, OnlyStatusUpdated, Exists
<1>6. (CopyInv(cr) /\ ObservedInv(cr))' /\ (CopyInv(cache) /\ ObservedInv(cache))'
      /\ (CopyInv(obj) /\ ObservedInv(obj))'
  BY <1>1 DEF AttachmentInv, CopyInv, ObservedInv, Exists
<1> QED
  BY <1>1, <1>2, <1>3, <1>5, <1>6 DEF AttachmentInv

\* Attaching: a run that attaches holds the finalizer of the stored CR, whose
\* spec or former spec it has in hand.
LEMMA AttachInv ==
  ASSUME TypeOK, AttachmentInv, Create
  PROVE  AttachmentInv'
<1>1. pc = "create" /\ obj.fin /\ ~obj.deleting /\ Exists(obj)
  BY DEF Create, AttachmentInv, StepInv, Holding
<1>2. cr.uid = obj.uid /\ Exists(cr) /\ cr.fin /\ (obj.spec = cr.spec \/ obj.spec \in former)
  BY <1>1 DEF AttachmentInv, CopyInv, Exists
<1>3. /\ UNCHANGED <<cr, cache, cacheFresh, obj, edits, alive, former>>
      /\ fresh' => fresh
  BY DEF Create, Goto, NoWrite, TypeOK, BaseTypeOK
<1>4. /\ faults' = 0 => faults = 0
      /\ attached' = attached \/ (Attachable /\ attached' = attached \union {obj.spec})
      /\ \/ pc' = "okStatus" /\ obj.spec \in attached'
         \/ pc' = "createFailed" /\ (Attachable => faults' # 0)
  <2>1. faults \in Nat
    BY BoundsAssumption DEF TypeOK, BaseTypeOK
  <2>2. CASE /\ Attachable /\ attached' = attached \union {obj.spec}
             /\ Goto("okStatus", obj) /\ UNCHANGED faults
    BY <2>2 DEF Goto
  <2>3. CASE ~Attachable /\ Goto("createFailed", obj) /\ UNCHANGED <<attached, faults>>
    BY <2>3 DEF Goto
  <2>4. CASE /\ Fault /\ Goto("createFailed", obj)
             /\ attached' \in {attached, IF Attachable THEN attached \union {obj.spec} ELSE attached}
    BY <2>1, <2>4 DEF Goto, Fault
  <2> QED
    BY <2>2, <2>3, <2>4 DEF Create
<1>5. \A p \in attached' : {p.target, p.policy} \subseteq alive' \union Externals
  BY <1>3, <1>4 DEF AttachmentInv, Attachable
<1>6. StoredInv'
  BY <1>2, <1>3, <1>4 DEF AttachmentInv, StoredInv, Exists
<1>7. StepInv'
  BY <1>1, <1>3, <1>4 DEF StepInv, Exists, Holding
<1>8. SettledInv'
  BY <1>1, <1>3, <1>4 DEF AttachmentInv, SettledInv, Settled, OnlyStatusUpdated, Exists, Attachable
<1>9. CacheInv' /\ FreshInv'
  BY <1>3 DEF AttachmentInv, CacheInv, FreshInv, Exists
<1>10. (CopyInv(cr) /\ ObservedInv(cr))' /\ (CopyInv(cache) /\ ObservedInv(cache))'
       /\ (CopyInv(obj) /\ ObservedInv(obj))'
  BY <1>3 DEF AttachmentInv, CopyInv, ObservedInv, Exists
<1> QED
  BY <1>3, <1>5, <1>6, <1>7, <1>8, <1>9, <1>10 DEF AttachmentInv

\* A write without a fault is one the API server took, or one it refused for its
\* version.
LEMMA WriteFaults ==
  ASSUME TypeOK, NEW new, Logged(new)
  PROVE  faults' = 0 => faults = 0
<1>1. faults \in Nat
  BY BoundsAssumption DEF TypeOK, BaseTypeOK
<1> QED
  BY <1>1 DEF Logged, Accepted, Refused, Fault

\* The CR goes: its pair is not attached, and no copy in the cache holds it.
LEMMA ReleaseInv ==
  ASSUME TypeOK, AttachmentInv, RemoveFinalizer
  PROVE  AttachmentInv'
<1>1. /\ pc = "removeFinalizer" /\ obj.deleting /\ obj.spec \notin attached /\ Exists(obj)
      /\ UNCHANGED <<alive, attached, former>> /\ obj' = Absent /\ pc' = "idle"
      /\ Logged(Absent)
  BY DEF RemoveFinalizer, AttachmentInv, StepInv, Return, Retry, Logged, awsVars
<1>2. /\ cr' = cr \/ (fresh /\ cr' = Absent)
      /\ cacheFresh' => cacheFresh /\ cr' = cr
      /\ fresh' = FALSE /\ cache' = cache /\ edits' = edits
      /\ faults' = 0 => faults = 0
  BY <1>1, Written, WriteFaults, AttachmentTypes
<1>3. /\ Absent.uid = 0 /\ Absent.gen = 0 /\ Absent.fin = FALSE /\ Absent.deleting = FALSE
      /\ Absent.status.og = 0 /\ Absent.status.state # "OK"
  BY AttachmentConstants DEF Absent
<1>4. CopyInv(Absent)' /\ ObservedInv(Absent)'
  BY <1>2, <1>3, AttachmentTypes DEF CopyInv, ObservedInv, Exists
<1>5. FreshInv' /\ StepInv'
  BY <1>1, <1>2, <1>3 DEF FreshInv, StepInv, Exists, Holding
<1>6. CASE cr' = cr
  <2>1. StoredInv' /\ SettledInv'
    BY <1>1, <1>2, <1>6 DEF AttachmentInv, StoredInv, SettledInv, Settled, OnlyStatusUpdated, Exists
  <2>2. CacheInv'
    BY <1>1, <1>2, <1>3, <1>6 DEF AttachmentInv, CacheInv, Exists
  <2>3. (CopyInv(cr) /\ ObservedInv(cr))' /\ (CopyInv(cache) /\ ObservedInv(cache))'
    BY <1>1, <1>2, <1>6 DEF AttachmentInv, CopyInv, ObservedInv, Exists
  <2> QED
    BY <1>1, <1>4, <1>5, <2>1, <2>2, <2>3 DEF AttachmentInv
<1>7. CASE fresh /\ cr' = Absent
  <2>1. obj.uid = cr.uid /\ obj.spec = cr.spec
    BY <1>7 DEF AttachmentInv, FreshInv
  <2>2. cache.uid = cr.uid /\ cache.deleting
    BY <1>1, <2>1 DEF AttachmentInv, CacheInv, Exists
  <2>3. attached \ former = {}
    BY <1>1, <2>1 DEF AttachmentInv, StoredInv
  <2>4. ~Exists(Absent)
    BY <1>3 DEF Exists
  <2>5. StoredInv'
    BY <1>1, <1>2, <1>3, <1>7, <2>3, <2>4, AttachmentTypes DEF StoredInv
  <2>6. SettledInv' /\ CacheInv'
    BY <1>1, <1>2, <1>3, <1>7, <2>4
       DEF AttachmentInv, SettledInv, CacheInv, Settled, Exists
  <2>7. (CopyInv(cache) /\ ObservedInv(cache))'
    BY <1>1, <1>2, <1>3, <1>7, <2>2, AttachmentTypes DEF AttachmentInv, CopyInv, ObservedInv, Exists
  <2> QED
    BY <1>1, <1>4, <1>5, <1>7, <2>5, <2>6, <2>7 DEF AttachmentInv
<1> QED
  BY <1>2, <1>6, <1>7

\* The finalizer is written: from here on the copies of this CR hold it.
LEMMA FinalizerInv ==
  ASSUME TypeOK, AttachmentInv, AddFinalizer
  PROVE  AttachmentInv'
<1> DEFINE new == [cr EXCEPT !.fin = TRUE]
<1>1. /\ pc = "addFinalizer" /\ ~obj.deleting /\ Exists(obj)
      /\ UNCHANGED <<alive, attached, former>>
  BY DEF AddFinalizer, AttachmentInv, StepInv, awsVars
<1>2. /\ new.uid = cr.uid /\ new.gen = cr.gen /\ new.deleting = cr.deleting
      /\ new.fin = TRUE /\ new.spec = cr.spec /\ new.status = cr.status
  BY AttachmentTypes DEF Resources
<1>3. Logged(new)
  BY FinalizerAdded DEF Logged
<1>4. \/ obj' = Absent /\ pc' = "idle"
      \/ /\ pc' \in {"delete", "create"} /\ fresh /\ cr' = new
         /\ obj'.uid = obj.uid /\ obj'.gen = obj.gen /\ obj'.deleting = obj.deleting
         /\ obj'.fin = TRUE /\ obj'.status \in {obj.status, cr.status} /\ obj'.spec = obj.spec
  BY FinalizerAdded DEF Goto, Retry, Accepted, Stored
<1> HIDE DEF new
<1>5. /\ cr' = cr \/ (fresh /\ cr' = new)
      /\ cacheFresh' => cacheFresh /\ cr' = cr
      /\ fresh' => fresh /\ pc' # "idle"
      /\ cache' = cache /\ edits' = edits
      /\ faults' = 0 => faults = 0
  BY <1>3, Written, WriteFaults, AttachmentTypes
<1>6. fresh => /\ obj.uid = cr.uid /\ obj.gen = cr.gen /\ obj.spec = cr.spec
               /\ obj.deleting = cr.deleting /\ cache.uid = cr.uid
  BY <1>1 DEF AttachmentInv, FreshInv, CacheInv, Exists
<1>7. /\ Absent.uid = 0 /\ Absent.gen = 0 /\ Absent.fin = FALSE /\ Absent.deleting = FALSE
      /\ Absent.status.og = 0
  BY AttachmentConstants DEF Absent
<1>8. /\ cr'.uid = cr.uid /\ cr'.gen = cr.gen /\ cr'.deleting = cr.deleting
      /\ cr'.spec = cr.spec /\ cr'.status = cr.status
      /\ cr'.fin = cr.fin \/ (cr'.fin = TRUE /\ fresh)
  BY <1>2, <1>5
<1>9. (CopyInv(cr) /\ ObservedInv(cr))' /\ (CopyInv(cache) /\ ObservedInv(cache))'
  BY <1>1, <1>5, <1>8 DEF AttachmentInv, CopyInv, ObservedInv, Exists
<1>10. StoredInv' /\ SettledInv'
  <2>1. ~Exists(cr) => cr' = cr
    BY <1>1, <1>5, <1>6 DEF Exists
  <2> QED
    BY <1>1, <1>5, <1>8, <2>1
       DEF AttachmentInv, StoredInv, SettledInv, Settled, OnlyStatusUpdated, Exists
<1>11. CASE obj' = Absent /\ pc' = "idle"
  <2>1. CopyInv(obj)' /\ ObservedInv(obj)'
    BY <1>5, <1>7, <1>11, AttachmentTypes DEF CopyInv, ObservedInv, Exists
  <2>2. FreshInv' /\ StepInv'
    BY <1>5, <1>7, <1>11 DEF FreshInv, StepInv, Exists, Holding
  <2>3. CacheInv'
    BY <1>1, <1>5, <1>6, <1>7, <1>8, <1>11 DEF AttachmentInv, CacheInv, Exists
  <2> QED
    BY <1>1, <1>9, <1>10, <2>1, <2>2, <2>3 DEF AttachmentInv
<1>12. CASE /\ pc' \in {"delete", "create"} /\ fresh /\ cr' = new
            /\ obj'.uid = obj.uid /\ obj'.gen = obj.gen /\ obj'.deleting = obj.deleting
            /\ obj'.fin = TRUE /\ obj'.status \in {obj.status, cr.status} /\ obj'.spec = obj.spec
  <2>1. CopyInv(obj)'
    BY <1>1, <1>2, <1>5, <1>6, <1>12, AttachmentTypes DEF AttachmentInv, CopyInv, Exists
  <2>2. ObservedInv(obj)'
    BY <1>1, <1>6, <1>12 DEF AttachmentInv, ObservedInv
  <2>3. FreshInv' /\ StepInv'
    BY <1>1, <1>2, <1>6, <1>12 DEF FreshInv, StepInv, Exists, Holding
  <2>4. CacheInv'
    BY <1>1, <1>2, <1>5, <1>6, <1>8, <1>12 DEF AttachmentInv, CacheInv, Exists
  <2> QED
    BY <1>1, <1>9, <1>10, <2>1, <2>2, <2>3, <2>4 DEF AttachmentInv
<1> QED
  BY <1>4, <1>11, <1>12

\* A status is written: OK only where the pair in hand is attached, a generation
\* only as observed if it is the one in hand.
LEMMA StatusInv ==
  ASSUME TypeOK, AttachmentInv, CreateFailed \/ OkStatusUpdate \/ Observe \/ Report
  PROVE  AttachmentInv'
<1>1. PICK s \in AttachmentStatuses :
        /\ Logged(WithStatus(s)) /\ UNCHANGED awsVars
        /\ s.og \in {obj.status.og, obj.gen}
        /\ s.state = "OK" => pc \in {"okStatus", "observe"}
        /\ pc \notin {"idle", "create"}
        /\ s.og = obj.status.og \/ pc = "observe"
        /\ \/ pc' = "idle" /\ obj' = Absent /\ queued' \in BOOLEAN
           \/ /\ Goto(pc', [obj EXCEPT !.status = s])
              /\ \/ pc = "createFailed" /\ pc' = "errWithStatus"
                 \/ pc = "okStatus" /\ pc' = "observe"
  BY StatusWrite
<1>2. /\ WithStatus(s).uid = cr.uid /\ WithStatus(s).gen = cr.gen
      /\ WithStatus(s).deleting = cr.deleting /\ WithStatus(s).fin = cr.fin
      /\ WithStatus(s).spec = cr.spec /\ WithStatus(s).status = s
  BY AttachmentTypes DEF WithStatus, Resources
<1>3. /\ cr' = cr \/ (fresh /\ cr' = WithStatus(s))
      /\ cacheFresh' => cacheFresh /\ cr' = cr
      /\ fresh' => fresh /\ pc' # "idle"
      /\ cache' = cache /\ edits' = edits
      /\ faults' = 0 => faults = 0
  BY <1>1, Written, WriteFaults, AttachmentTypes
<1>4. /\ Exists(obj)
      /\ s.state = "OK" => obj.spec \in attached /\ obj.fin
      /\ UNCHANGED <<alive, attached, former>>
      /\ s.og <= obj.gen /\ (obj.deleting => s.og < obj.gen)
  <2>1. Exists(obj)
    BY <1>1 DEF AttachmentInv, StepInv
  <2>2. s.state = "OK" => obj.spec \in attached /\ obj.fin
    BY <1>1 DEF AttachmentInv, StepInv, Holding
  <2>3. s.og <= obj.gen /\ (obj.deleting => s.og < obj.gen)
    BY <1>1, AttachmentTypes DEF AttachmentInv, StepInv, ObservedInv, Holding
  <2> QED
    BY <1>1, <2>1, <2>2, <2>3 DEF awsVars
<1>5. /\ cr'.uid = cr.uid /\ cr'.gen = cr.gen /\ cr'.deleting = cr.deleting
      /\ cr'.spec = cr.spec /\ cr'.fin = cr.fin
      /\ \/ cr' = cr
         \/ /\ cr'.status = s /\ fresh /\ obj.uid = cr.uid /\ obj.gen = cr.gen
            /\ obj.spec = cr.spec /\ obj.deleting = cr.deleting /\ obj.fin = cr.fin
  BY <1>2, <1>3 DEF AttachmentInv, FreshInv
<1>6. \/ pc' = "idle" /\ obj' = Absent
      \/ /\ obj'.uid = obj.uid /\ obj'.gen = obj.gen /\ obj'.deleting = obj.deleting
         /\ obj'.spec = obj.spec /\ obj'.fin = obj.fin /\ obj'.status = s
         /\ \/ pc = "createFailed" /\ pc' = "errWithStatus"
            \/ pc = "okStatus" /\ pc' = "observe"
  BY <1>1, AttachmentTypes DEF Goto, Resources
<1>7. /\ Absent.uid = 0 /\ Absent.gen = 0 /\ Absent.fin = FALSE /\ Absent.deleting = FALSE
      /\ Absent.status.og = 0
  BY AttachmentConstants DEF Absent
<1>8. StoredInv'
  BY <1>3, <1>4, <1>5 DEF AttachmentInv, StoredInv, Exists
<1>9. SettledInv'
  BY <1>1, <1>3, <1>4, <1>5 DEF AttachmentInv, SettledInv, Settled, OnlyStatusUpdated, Exists
<1>10. (CopyInv(cr) /\ ObservedInv(cr))' /\ (CopyInv(cache) /\ ObservedInv(cache))'
  BY <1>3, <1>4, <1>5 DEF AttachmentInv, CopyInv, ObservedInv, Exists
<1>11. CacheInv'
  BY <1>3, <1>5, <1>6, <1>7 DEF AttachmentInv, CacheInv, Exists
<1>12. FreshInv'
  BY <1>3, <1>5, <1>6 DEF AttachmentInv, FreshInv, Exists
<1>13. StepInv'
  BY <1>4, <1>6, <1>7 DEF AttachmentInv, StepInv, Exists, Holding
<1>14. CopyInv(obj)' /\ ObservedInv(obj)'
  <2>1. CASE obj' = Absent
    BY <1>3, <1>7, <2>1, AttachmentTypes DEF CopyInv, ObservedInv, Exists
  <2>2. CASE /\ obj'.uid = obj.uid /\ obj'.gen = obj.gen /\ obj'.deleting = obj.deleting
             /\ obj'.spec = obj.spec /\ obj'.fin = obj.fin /\ obj'.status = s
    BY <1>3, <1>4, <1>5, <2>2 DEF AttachmentInv, CopyInv, ObservedInv, Exists
  <2> QED
    BY <1>6, <2>1, <2>2
<1> QED
  BY <1>4, <1>8, <1>9, <1>10, <1>11, <1>12, <1>13, <1>14 DEF AttachmentInv

-----------------------------------------------------------------------------
(* The theorems. *)

LEMMA StepInvariant ==
  ASSUME TypeOK, AttachmentInv, [Next]_vars
  PROVE  AttachmentInv'
<1>1. CASE User
  <2>1. CASE UserCreate
    <3>1. UNCHANGED awsVars
      BY <1>1, <2>1 DEF User, UserCreate, awsVars
    <3> QED
      BY <2>1, <3>1, CreateInv
  <2> QED
    BY <1>1, <2>1, EditInv, DeleteInv DEF User, UserStep
<1>2. CASE SyncAttachment \/ RestartOperator
  BY <1>2, SyncInv DEF SyncAttachment, RestartOperator
<1>3. CASE References
  BY <1>3, ReferencesInv
<1>4. CASE Reconcile
  BY <1>4, QuietInv, LoadInv, FinalizerInv, DetachInv, ReleaseInv, AttachInv, StatusInv
     DEF Reconcile
<1>5. CASE UNCHANGED vars
  BY <1>5, QuietInv
<1> QED
  BY <1>1, <1>2, <1>3, <1>4, <1>5 DEF Next

LEMMA Inductive == Spec => [](TypeOK /\ SpecInv /\ AttachmentInv)
<1>1. TypeOK /\ SpecInv /\ AttachmentInv /\ [Next]_vars
        => (TypeOK /\ SpecInv /\ AttachmentInv)'
  <2>1. AttachmentInv => StepInv
    BY DEF AttachmentInv
  <2> QED
    BY <2>1, StepType, StepSpec, StepInvariant
<1> QED
  BY <1>1, InitInv, PTL DEF Spec

\* The types of the PolicyAttachment CR, its copies and what is attached in AWS:
\* every pair ever attached is of a target and a policy that were written by a user.
THEOREM TypeCorrect == Spec => []TypeOK
BY Inductive, PTL

\* What AWS keeps attached beyond the pair of the stored CR is a pair that a user
\* changed the spec away from, for any number of users' edits, faults and restarts.
THEOREM OnlyFormerLeft == Spec => []OnlyFormerPairsLeft
<1>1. AttachmentInv => OnlyFormerPairsLeft
  BY DEF AttachmentInv, StoredInv, OnlyFormerPairsLeft
<1> QED
  BY <1>1, Inductive, PTL

\* Without a fault, a PolicyAttachment that shows OK and its generation as observed
\* is attached, whatever copies Reconcile detached and attached it again with.
THEOREM SettledIsAttached == Spec => []SettledMeansAttached
<1>1. AttachmentInv => SettledMeansAttached
  BY DEF AttachmentInv, SettledInv, SettledMeansAttached
<1> QED
  BY <1>1, Inductive, PTL
-----------------------------------------------------------------------------
(* What is left to do. *)

\* A generation is noted with OK, so the run that notes it has settled the PolicyAttachment.
RequestInv ==
  /\ Quiet /\ Exists(cr) => OnlyStatusUpdated(cr)
  /\ pc = "observe" => obj.status.state = "OK"

LEMMA StepRequest ==
  ASSUME TypeOK, AttachmentInv, RequestInv, [Next]_vars
  PROVE  RequestInv'
<1>1. CASE User \/ SyncAttachment \/ RestartOperator
  <2>1. (pc' = pc /\ obj' = obj) \/ pc' = "idle"
    BY <1>1 DEF User, UserStep, UserCreate, UserEdit, UserDelete, SyncAttachment, Sync,
                RestartOperator, Restart
  <2>2. Quiet' => ~Exists(cr')
    BY <1>1, Busy, RestartBusy DEF User, SyncAttachment, RestartOperator
  <2> QED
    BY <2>1, <2>2 DEF RequestInv
<1>2. CASE References \/ UNCHANGED vars
  <2>1. UNCHANGED <<cr, cacheFresh, pc, queued, obj>>
    BY <1>2 DEF References, ListingChanges, ObjectAppears, ObjectDisappears, vars, base
  <2> QED
    BY <2>1, StillQuiet DEF RequestInv, OnlyStatusUpdated
<1>3. CASE NotFound \/ Skip
  <2>1. /\ LoadAndReturn /\ pc' = "idle"
        /\ ~Exists(cache) \/ OnlyStatusUpdated(cache) \/ (cache.deleting /\ ~cache.fin)
    BY <1>3 DEF NotFound, Skip, Dequeue, LoadAndReturn
  <2>2. Quiet' /\ Exists(cr') => /\ OnlyStatusUpdated(cr') \/ (cr'.deleting /\ ~cr'.fin)
                                 /\ cr'.deleting => cr'.fin
    BY <2>1, SkipQuiet DEF AttachmentInv, CacheInv, StoredInv
  <2> QED
    BY <2>1, <2>2 DEF RequestInv
<1>4. CASE RefsError \/ Start \/ AddFinalizer \/ Delete \/ Create \/ CreateFailed \/ Report
  <2>1. Retry \/ pc' \notin {"idle", "observe"}
    BY <1>4 DEF RefsError, Start, Load, FirstStep, AfterFinalizer, AddFinalizer, Delete,
       AfterDelete, Create, CreateFailed, Report, ReportError, Goto
  <2>2. pc' # "observe"
    BY <2>1 DEF Retry
  <2> QED
    BY <2>1, <2>2, Busy DEF RequestInv
<1>5. CASE RemoveFinalizer
  <2>1. pc' = "idle" /\ (Retry \/ cr' = Absent)
    BY <1>5 DEF RemoveFinalizer, Return, Retry, Accepted, Stored
  <2> QED
    BY <2>1, Busy DEF RequestInv, Exists, Absent
<1>6. CASE OkStatusUpdate
  <2>1. pc' = "observe" /\ obj' = [obj EXCEPT !.status = OkStatus(obj)]
    BY <1>6 DEF OkStatusUpdate, Goto
  <2>2. obj'.status.state = "OK"
    BY <2>1, AttachmentTypes DEF OkStatus, Resources, AttachmentStatuses
  <2> QED
    BY <2>1, <2>2, Busy DEF RequestInv
<1>7. CASE Observe
  <2> DEFINE s == [obj.status EXCEPT !.og = obj.gen]
  <2>1. pc = "observe" /\ pc' = "idle" /\ (Retry \/ (fresh /\ cr' = WithStatus(s)))
    BY <1>7 DEF Observe, Return, Retry, Accepted, Stored
  <2>2. s.og = obj.gen /\ s.state = "OK"
    BY <2>1, AttachmentTypes DEF RequestInv, Resources, AttachmentStatuses
  <2>3. WithStatus(s).status = s /\ WithStatus(s).gen = cr.gen
    BY AttachmentTypes DEF WithStatus, Resources
  <2>4. fresh => obj.gen = cr.gen
    BY DEF AttachmentInv, FreshInv
  <2> HIDE DEF s
  <2> QED
    BY <2>1, <2>2, <2>3, <2>4, Busy DEF RequestInv, OnlyStatusUpdated
<1> QED
  BY <1>1, <1>2, <1>3, <1>4, <1>5, <1>6, <1>7 DEF Next, Reconcile

\* No request that would have settled a PolicyAttachment, or deleted it, gets lost: not
\* when what it refers to is not found, and whatever else fails.
THEOREM QuietIsSettled == Spec => []QuietMeansSettled
<1>1. Init => RequestInv
  BY DEF Init, BaseInit, RequestInv, Exists, Absent
<1>2. TypeOK /\ AttachmentInv /\ RequestInv => QuietMeansSettled
  <2>1. SUFFICES ASSUME TypeOK, AttachmentInv, RequestInv, Quiet, Exists(cr)
                 PROVE  ~cr.deleting /\ Settled(cr)
    BY DEF QuietMeansSettled
  <2> QED
    BY <2>1, AttachmentTypes
       DEF RequestInv, AttachmentInv, ObservedInv, OnlyStatusUpdated, Settled
<1>3. TypeOK /\ AttachmentInv /\ RequestInv /\ [Next]_vars => RequestInv'
  BY StepRequest
<1> QED
  BY <1>1, <1>2, <1>3, Inductive, PTL DEF Spec
==============================================================================
