--------------------------- MODULE IamObject_proofs ---------------------------
(***************************************************************************)
(* Lemmas about the steps the controllers share: each of them keeps        *)
(* LifecycleInv, and is a step of CloudResource or a stutter.              *)
(***************************************************************************)
EXTENDS IamObject, Reconciler_proofs

\* Deletion of the IAM object keeps the types.
LEMMA DeprovisionType ==
  ASSUME NEW Statuses, NEW Steps, NEW Objects,
         BaseTypeOK(Statuses, Steps), IamTypeOK(Objects), Cleanup \/ Delete,
         {"delete", "errorStatus", "removeFinalizer", "create"} \subseteq Steps
  PROVE  BaseTypeOK(Statuses, Steps)' /\ IamTypeOK(Objects)'
<1>1. pc' \in Steps /\ obj' = obj /\ queued' = queued
  BY DEF Cleanup, Delete, Goto, AfterDelete
<1>2. NoWrite /\ (UNCHANGED faults \/ Fault)
  BY DEF Cleanup, Delete
<1>3. BaseTypeOK(Statuses, Steps)'
  BY <1>1, <1>2, NoWriteType DEF BaseTypeOK
<1>4. iam' \in {iam, NoObject} /\ UNCHANGED attVars
  BY DEF Cleanup, Delete
<1>5. IamTypeOK(Objects)'
  BY <1>4 DEF IamTypeOK, attVars
<1> QED
  BY <1>3, <1>5

\* So do its creation and update.
LEMMA ProvisionType ==
  ASSUME NEW Statuses, NEW Steps, NEW Objects, NEW wanted \in Objects, NEW next \in Steps,
         BaseTypeOK(Statuses, Steps), IamTypeOK(Objects), {"errorStatus", "okStatus"} \subseteq Steps,
         CreateAWSObject(wanted, next) \/ UpdateAWSObject(wanted, next)
  PROVE  BaseTypeOK(Statuses, Steps)' /\ IamTypeOK(Objects)'
<1>1. pc' \in Steps /\ obj' = obj /\ queued' = queued
  BY DEF CreateAWSObject, UpdateAWSObject, Goto
<1>2. NoWrite /\ (UNCHANGED faults \/ Fault)
  BY DEF CreateAWSObject, UpdateAWSObject
<1>3. BaseTypeOK(Statuses, Steps)'
  BY <1>1, <1>2, NoWriteType DEF BaseTypeOK
<1>4. iam' \in {iam, wanted} /\ UNCHANGED attVars
  BY DEF CreateAWSObject, UpdateAWSObject
<1>5. IamTypeOK(Objects)'
  BY <1>4 DEF IamTypeOK, attVars
<1> QED
  BY <1>3, <1>5

\* Reconcile returned: nothing is in hand any more.
LEMMA ReturnedRun ==
  ASSUME LifecycleInv, NoStatus.arn = FALSE, edits' \in Nat,
         pc' = "idle", obj' = Absent, fresh' = FALSE
  PROVE  RunInv'
BY DEF LifecycleInv, RunInv, CopyInv, AheadInv, FreshInv, StepInv, ArnInv, Exists, Absent,
       Recorded, Provisioned, Holding

\* A user creates the CR: the copies are of earlier ones.
LEMMA CreateLifecycle ==
  ASSUME NEW Statuses, NEW Steps, NoStatus \in Statuses, NoStatus.arn = FALSE,
         BaseTypeOK(Statuses, Steps), LifecycleInv, UserCreate, UNCHANGED iam
  PROVE  LifecycleInv'
<1>1. PICK s \in Specs :
        WrittenByOthers([Absent EXCEPT !.uid = edits + 1, !.gen = 1,
                                       !.rev = edits + 1, !.spec = s])
  BY DEF UserCreate
<1>2. /\ cr'.uid = edits + 1 /\ cr'.rev = edits + 1 /\ cr'.deleting = FALSE
      /\ cr'.fin = FALSE /\ cr'.status.arn = FALSE
  BY <1>1 DEF WrittenByOthers, Absent
<1>3. edits' = edits + 1 /\ cr = Absent /\ cr.uid = 0 /\ cr.fin = FALSE /\ edits \in Nat
  BY CopyTypes DEF UserCreate, Edit, LifecycleInv, StoredInv, Absent
<1>4. UNCHANGED <<cache, obj, pc>> /\ cacheFresh' = FALSE /\ fresh' = FALSE
  BY <1>1 DEF UserCreate, WrittenByOthers
<1>5. StoredInv'
  BY <1>2, <1>3 DEF StoredInv, Exists
<1>6. ASSUME NEW o \in Resources(Statuses), CopyInv(o)
      PROVE  CopyInv(o)'
  BY <1>2, <1>3, <1>6 DEF CopyInv, Exists, Absent, Resources
<1>7. ASSUME NEW o \in Resources(Statuses), CopyInv(o), ArnInv(o)
      PROVE  ArnInv(o)'
  BY <1>2, <1>3, <1>7 DEF CopyInv, ArnInv, Exists, Absent, Resources
<1>8. CacheInv'
  BY <1>4, <1>6, <1>7 DEF LifecycleInv, CacheInv, BaseTypeOK, CopyInv, ArnInv
<1>9. RunInv'
  BY <1>2, <1>3, <1>4, <1>6, <1>7, CopyTypes
     DEF LifecycleInv, RunInv, BaseTypeOK, CopyInv, ArnInv, AheadInv, FreshInv, StepInv, Exists
<1> QED
  BY <1>5, <1>8, <1>9 DEF LifecycleInv

\* A user edits the CR: neither uid, finalizer, deletion nor status change.
LEMMA EditLifecycle ==
  ASSUME NEW Statuses, NEW Steps, BaseTypeOK(Statuses, Steps), LifecycleInv,
         UserEdit, UNCHANGED iam
  PROVE  LifecycleInv'
<1>1. PICK s \in Specs :
        WrittenByOthers([cr EXCEPT !.gen = cr.gen + 1, !.rev = edits + 1, !.spec = s])
  BY DEF UserEdit
<1>2. /\ cr'.uid = cr.uid /\ cr'.rev = edits + 1 /\ cr'.deleting = cr.deleting
      /\ cr'.fin = cr.fin /\ cr'.status = cr.status
  BY <1>1 DEF WrittenByOthers, BaseTypeOK, Resources
<1>3. edits' = edits + 1 /\ edits \in Nat /\ Exists(cr) /\ edits + 1 # 0
  BY CopyTypes DEF UserEdit, Edit
<1>4. UNCHANGED <<cache, obj, pc>> /\ cacheFresh' = FALSE /\ fresh' = FALSE
  BY <1>1 DEF UserEdit, WrittenByOthers
<1>5. StoredInv'
  BY <1>2, <1>3, CopyTypes DEF LifecycleInv, StoredInv, Exists
<1>6. CacheInv'
  BY <1>2, <1>3, <1>4, CopyTypes DEF LifecycleInv, CacheInv, CopyInv, ArnInv, Exists
<1>7. RunInv'
  BY <1>2, <1>3, <1>4, CopyTypes
     DEF LifecycleInv, RunInv, CopyInv, ArnInv, AheadInv, FreshInv, StepInv, Exists
<1> QED
  BY <1>5, <1>6, <1>7 DEF LifecycleInv

\* A user deletes the CR.  Without a finalizer it had no ARN either, so the
\* copies that carry one are of earlier CRs.
LEMMA DeleteLifecycle ==
  ASSUME NEW Statuses, NEW Steps, NoStatus.arn = FALSE,
         BaseTypeOK(Statuses, Steps), LifecycleInv, UserDelete, UNCHANGED iam
  PROVE  LifecycleInv'
<1>1. UNCHANGED <<cache, obj, pc, edits>> /\ cacheFresh' = FALSE /\ fresh' = FALSE
  BY DEF UserDelete, WrittenByOthers
<1>2. CASE cr.fin
  <2>1. /\ cr'.uid = cr.uid /\ cr'.rev = cr.rev /\ cr'.deleting = TRUE
        /\ cr'.fin = cr.fin /\ cr'.status = cr.status /\ Exists(cr)
    BY <1>2 DEF UserDelete, WrittenByOthers, BaseTypeOK, Resources
  <2>2. StoredInv'
    BY <1>1, <1>2, <2>1, CopyTypes DEF LifecycleInv, StoredInv, Exists
  <2>3. CacheInv'
    BY <1>1, <1>2, <2>1, CopyTypes DEF LifecycleInv, CacheInv, CopyInv, ArnInv, Exists
  <2>4. RunInv'
    BY <1>1, <1>2, <2>1, CopyTypes
       DEF LifecycleInv, RunInv, CopyInv, ArnInv, AheadInv, FreshInv, StepInv, Exists
  <2> QED
    BY <2>2, <2>3, <2>4 DEF LifecycleInv
<1>3. CASE ~cr.fin
  <2>1. /\ cr' = Absent /\ cr'.uid = 0 /\ cr'.deleting = FALSE /\ cr'.fin = FALSE
        /\ cr'.status.arn = FALSE /\ cr.uid # 0
    BY <1>3 DEF UserDelete, WrittenByOthers, Absent, Exists
  <2>2. StoredInv'
    BY <1>1, <2>1, CopyTypes DEF LifecycleInv, StoredInv, Exists
  <2>3. CacheInv'
    BY <1>1, <1>3, <2>1, CopyTypes
       DEF LifecycleInv, StoredInv, CacheInv, CopyInv, ArnInv, Exists, Absent
  <2>4. RunInv'
    BY <1>1, <1>3, <2>1, CopyTypes
       DEF LifecycleInv, StoredInv, RunInv, CopyInv, ArnInv, AheadInv, FreshInv, StepInv,
           Exists, Absent
  <2> QED
    BY <2>2, <2>3, <2>4 DEF LifecycleInv
<1> QED
  BY <1>2, <1>3, CopyTypes

\* The informer delivers.
LEMMA SyncLifecycle ==
  ASSUME NEW Statuses, NEW Steps, NoStatus.arn = FALSE,
         BaseTypeOK(Statuses, Steps), LifecycleInv, Sync, UNCHANGED iam
  PROVE  LifecycleInv'
<1>1. UNCHANGED <<cr, obj, fresh, pc, edits, iam>> /\ cache' = cr /\ cacheFresh' = TRUE
  BY DEF Sync
<1>2. StoredInv'
  BY <1>1 DEF LifecycleInv, StoredInv, Exists
<1>3. CacheInv'
  BY <1>1, CopyTypes DEF LifecycleInv, StoredInv, CacheInv, CopyInv, ArnInv, Exists
<1>4. RunInv'
  BY <1>1, CopyTypes
     DEF LifecycleInv, RunInv, CopyInv, ArnInv, AheadInv, FreshInv, StepInv, Exists
<1> QED
  BY <1>2, <1>3, <1>4 DEF LifecycleInv

\* The operator restarts.
LEMMA RestartLifecycle ==
  ASSUME NEW Statuses, NEW Steps, NoStatus.arn = FALSE,
         BaseTypeOK(Statuses, Steps), LifecycleInv, Restart, UNCHANGED iam
  PROVE  LifecycleInv'
<1>1. /\ UNCHANGED <<cr, edits, iam>> /\ cache' = cr /\ cacheFresh' = TRUE
      /\ pc' = "idle" /\ obj' = Absent /\ fresh' = FALSE
  BY DEF Restart
<1>2. StoredInv'
  BY <1>1 DEF LifecycleInv, StoredInv, Exists
<1>3. CacheInv'
  BY <1>1, CopyTypes DEF LifecycleInv, StoredInv, CacheInv, CopyInv, ArnInv, Exists
<1>4. RunInv'
  BY <1>1, ReturnedRun, CopyTypes
<1> QED
  BY <1>2, <1>3, <1>4 DEF LifecycleInv

\* Reconcile takes a copy o of the cache, perhaps with another detail of the
\* status, and goes to one of its first steps.
LEMMA LoadLifecycle ==
  ASSUME NEW Statuses, NEW Steps, NEW o, NEW p,
         BaseTypeOK(Statuses, Steps), LifecycleInv, Exists(cache),
         o.uid = cache.uid, o.rev = cache.rev, o.fin = cache.fin,
         o.deleting = cache.deleting, o.status.arn = cache.status.arn,
         p \in {"errWithStatus", "addFinalizer", "cleanup", "create", "update"},
         p = "addFinalizer" => ~o.fin /\ ~o.deleting,
         p = "cleanup" => o.fin,
         p \in {"create", "update"} => o.fin /\ ~o.deleting,
         Load(o, p), UNCHANGED iam
  PROVE  LifecycleInv'
<1>1. /\ UNCHANGED <<cr, cache, cacheFresh, edits, iam>>
      /\ obj' = o /\ pc' = p /\ fresh' = cacheFresh
  BY DEF Load
<1>2. p \notin Provisioned /\ p \notin Recorded /\ p \notin {"idle", "removeFinalizer"}
  BY DEF Provisioned, Recorded
<1>3. p \in Holding => p \in {"create", "update"}
  BY <1>2 DEF Holding
<1>4. StoredInv' /\ CacheInv'
  BY <1>1 DEF LifecycleInv, StoredInv, CacheInv, CopyInv, ArnInv, Exists
<1>5. CopyInv(obj)' /\ ArnInv(obj)' /\ AheadInv' /\ FreshInv'
  BY <1>1 DEF LifecycleInv, CacheInv, CopyInv, ArnInv, AheadInv, FreshInv, Exists
<1>6. StepInv'
  BY <1>1, <1>2, <1>3 DEF StepInv, Exists
<1> QED
  BY <1>4, <1>5, <1>6 DEF LifecycleInv, RunInv

-----------------------------------------------------------------------------
(* Writes to the API server. *)

\* A status write that keeps the ARN, and sets one only under the finalizer,
\* keeps the invariant of what is stored.
LEMMA StatusStored ==
  ASSUME NEW Statuses, NEW Steps, BaseTypeOK(Statuses, Steps), LifecycleInv, NEW s,
         Logged(WithStatus(s)), UNCHANGED iam,
         fresh /\ cr.status.arn => s.arn,
         fresh /\ s.arn => cr.fin
  PROVE  StoredInv' /\ CacheInv'
<1>1. StoredInv'
  BY StatusWritten DEF LifecycleInv, StoredInv, FreshInv, RunInv, Exists
<1>2. CacheInv'
  BY StatusWritten DEF LifecycleInv, CacheInv, CopyInv, ArnInv, Exists
<1> QED
  BY <1>1, <1>2

\* ReportError: the status written carries the ARN of the copy in hand.
LEMMA ReportLifecycle ==
  ASSUME NEW Statuses, NEW Steps, NoStatus.arn = FALSE, BaseTypeOK(Statuses, Steps),
         LifecycleInv, ReportError, UNCHANGED iam,
         ErrorStatus(obj).arn = obj.status.arn
  PROVE  LifecycleInv'
<1>1. pc \notin Recorded /\ Logged(WithStatus(ErrorStatus(obj))) /\ Retry
  BY DEF ReportError, Recorded
<1>2. StoredInv' /\ CacheInv'
  BY <1>1, StatusStored DEF LifecycleInv, StoredInv, RunInv, FreshInv
<1>3. pc' = "idle" /\ obj' = Absent /\ fresh' = FALSE /\ edits' \in Nat
  BY <1>1, StatusWritten, CopyTypes DEF Retry
<1> QED
  BY <1>2, <1>3, ReturnedRun DEF LifecycleInv

\* A status write after which Reconcile goes on: the write of OK and the ARN, a
\* later one with the ARN, or that of an error which does not end the run.
LEMMA StatusLifecycle ==
  ASSUME NEW Statuses, NEW Steps, BaseTypeOK(Statuses, Steps), LifecycleInv, NEW s, NEW p,
         pc \in Holding, p \in Holding, iam = NoObject => p \notin Provisioned,
         \/ s.arn = TRUE /\ p \in Recorded
         \/ s.arn = obj.status.arn /\ p \notin Recorded /\ pc \notin Recorded,
         Goto(p, [obj EXCEPT !.status = s]), Logged(WithStatus(s)), UNCHANGED iam
  PROVE  LifecycleInv'
<1>1. /\ obj'.uid = obj.uid /\ obj'.rev = obj.rev /\ obj'.fin = obj.fin
      /\ obj'.deleting = obj.deleting /\ obj'.status = s /\ pc' = p
  BY DEF Goto, BaseTypeOK, Resources
<1>2. Exists(obj) /\ obj.fin /\ ~obj.deleting /\ cr.uid = obj.uid /\ cr.fin
  BY DEF LifecycleInv, RunInv, StepInv, CopyInv, Holding, Provisioned, Recorded
<1>3. fresh /\ cr.status.arn => s.arn
  BY DEF LifecycleInv, RunInv, FreshInv
<1>4. StoredInv' /\ CacheInv'
  BY <1>2, <1>3, StatusStored
<1>5. cr'.uid = cr.uid /\ cr'.fin = cr.fin /\ cr'.deleting = cr.deleting /\ edits' = edits
      /\ cache' = cache
  BY StatusWritten
<1>6. CopyInv(obj)' /\ AheadInv'
  BY <1>1, <1>2, <1>5 DEF LifecycleInv, RunInv, CopyInv, AheadInv, Exists
<1>7. FreshInv'
  BY <1>1, <1>2, <1>3, <1>5, StatusWritten DEF LifecycleInv, RunInv, FreshInv, Exists
<1>8. pc' \notin Recorded => ArnInv(obj)'
  BY <1>1, <1>2, <1>5, StatusWritten DEF LifecycleInv, RunInv, ArnInv
<1>9. StepInv'
  BY <1>1, <1>2 DEF StepInv, Exists, Holding, Provisioned, Recorded
<1> QED
  BY <1>4, <1>6, <1>7, <1>8, <1>9 DEF LifecycleInv, RunInv

\* The finalizer is written: what is stored and cached stays in order, whether
\* or not Reconcile hears of it.
LEMMA FinalizerStored ==
  ASSUME NEW Statuses, NEW Steps, BaseTypeOK(Statuses, Steps), LifecycleInv,
         Logged([cr EXCEPT !.fin = TRUE]), UNCHANGED iam
  PROVE  StoredInv' /\ CacheInv'
<1>1. \/ cr' = cr
      \/ /\ cr'.uid = cr.uid /\ cr'.rev = cr.rev /\ cr'.fin = TRUE
         /\ cr'.deleting = cr.deleting /\ cr'.status = cr.status /\ fresh
  BY Written DEF BaseTypeOK, Resources
<1>2. edits' = edits /\ cache' = cache /\ (cacheFresh' => cacheFresh /\ cr' = cr)
  BY Written
<1>3. fresh => Exists(cr)
  BY DEF LifecycleInv, RunInv, FreshInv, Exists
<1>4. StoredInv'
  BY <1>1, <1>2, <1>3 DEF LifecycleInv, StoredInv, Exists
<1>5. CacheInv'
  BY <1>1, <1>2 DEF LifecycleInv, CacheInv, CopyInv, ArnInv, Exists
<1> QED
  BY <1>4, <1>5

\* The finalizer is in place and Reconcile goes on with the answer o.
LEMMA FinalizerLifecycle ==
  ASSUME NEW Statuses, NEW Steps, NEW o, NEW p,
         BaseTypeOK(Statuses, Steps), LifecycleInv, pc = "addFinalizer",
         o.uid = obj.uid, o.rev = obj.rev, o.deleting = obj.deleting, o.fin = TRUE,
         o.status = obj.status \/ o.status = cr.status,
         p \in {"cleanup", "create", "update"},
         Goto(p, o), Accepted([cr EXCEPT !.fin = TRUE]), UNCHANGED iam
  PROVE  LifecycleInv'
<1>1. StoredInv' /\ CacheInv'
  BY FinalizerStored DEF Logged
<1>2. fresh /\ Exists(obj) /\ ~obj.deleting /\ obj.uid = cr.uid /\ pc \notin Recorded
  BY DEF LifecycleInv, RunInv, StepInv, FreshInv, Accepted, Recorded
<1>3. /\ cr'.uid = cr.uid /\ cr'.fin = TRUE /\ cr'.deleting = cr.deleting
      /\ cr'.status = cr.status
  BY DEF Accepted, Stored, BaseTypeOK, Resources
<1>4. obj' = o /\ pc' = p /\ cache' = cache /\ edits' = edits
  BY DEF Goto, Accepted
<1>5. o.status.arn => cr.status.arn
  BY <1>2 DEF LifecycleInv, RunInv, FreshInv
<1>6. cr.status.arn => o.status.arn
  BY <1>2 DEF LifecycleInv, RunInv, FreshInv
<1>7. CopyInv(obj)' /\ AheadInv'
  BY <1>2, <1>3, <1>4 DEF LifecycleInv, RunInv, CopyInv, AheadInv, Exists
<1>8. FreshInv' /\ ArnInv(obj)'
  BY <1>2, <1>3, <1>4, <1>5, <1>6 DEF LifecycleInv, RunInv, FreshInv, ArnInv, Exists
<1>9. StepInv'
  BY <1>2, <1>4 DEF StepInv, Exists, Holding, Provisioned, Recorded
<1> QED
  BY <1>1, <1>7, <1>8, <1>9 DEF LifecycleInv, RunInv

\* The write of the finalizer is refused, and Reconcile goes on to report it.
LEMMA FinalizerRefused ==
  ASSUME NEW Statuses, NEW Steps, BaseTypeOK(Statuses, Steps), LifecycleInv,
         pc = "addFinalizer", Goto("errWithStatus", obj),
         Refused([cr EXCEPT !.fin = TRUE]), UNCHANGED iam
  PROVE  LifecycleInv'
<1>1. StoredInv' /\ CacheInv'
  BY FinalizerStored DEF Logged
<1>2. Exists(obj) /\ ~obj.fin /\ ~obj.deleting /\ pc \notin Recorded
  BY DEF LifecycleInv, RunInv, StepInv, Recorded
<1>3. obj' = obj /\ pc' = "errWithStatus" /\ edits' = edits /\ cache' = cache
  BY Written DEF Goto, Logged
<1>4. /\ cr'.uid = cr.uid /\ cr'.deleting = cr.deleting /\ cr'.status = cr.status
      /\ fresh' => fresh /\ cr' = cr
  <2> DEFINE new == [cr EXCEPT !.fin = TRUE]
  <2>1. new.uid = cr.uid /\ new.deleting = cr.deleting /\ new.status = cr.status
    BY DEF BaseTypeOK, Resources
  <2>2. fresh \in BOOLEAN
    BY DEF BaseTypeOK
  <2> HIDE DEF new
  <2>3. Refused(new)
    BY DEF new
  <2>4. CASE UNCHANGED cr
    BY <2>2, <2>3, <2>4 DEF Refused
  <2>5. CASE cr' = new /\ fresh' = FALSE
    BY <2>1, <2>5
  <2> QED
    BY <2>3, <2>4, <2>5 DEF Refused, Stored
<1>5. CopyInv(obj)' /\ AheadInv' /\ FreshInv' /\ ArnInv(obj)'
  BY <1>2, <1>3, <1>4
     DEF LifecycleInv, RunInv, CopyInv, AheadInv, FreshInv, ArnInv, Exists
<1>6. StepInv'
  BY <1>2, <1>3 DEF StepInv, Exists, Holding, Provisioned, Recorded
<1> QED
  BY <1>1, <1>5, <1>6 DEF LifecycleInv, RunInv

\* The finalizer is removed: the CR goes, its IAM object went before.
LEMMA ReleaseLifecycle ==
  ASSUME NEW Statuses, NEW Steps, NoStatus.arn = FALSE,
         BaseTypeOK(Statuses, Steps), LifecycleInv, pc = "removeFinalizer",
         Logged(Absent), pc' = "idle", obj' = Absent, UNCHANGED iam
  PROVE  LifecycleInv'
<1>1. cr' = cr \/ (fresh /\ cr' = Absent)
  BY Written
<1>2. /\ edits' = edits /\ cache' = cache /\ (cacheFresh' => cacheFresh /\ cr' = cr)
      /\ fresh' = FALSE
  BY Written
<1>3. CASE cr' = cr
  <2>1. StoredInv' /\ CacheInv'
    BY <1>2, <1>3 DEF LifecycleInv, StoredInv, CacheInv, CopyInv, ArnInv, Exists
  <2> QED
    BY <1>2, <2>1, ReturnedRun, CopyTypes DEF LifecycleInv
<1>4. CASE fresh /\ cr' = Absent /\ cr' # cr
  <2>1. /\ cr'.uid = 0 /\ cr'.deleting = FALSE /\ cr'.fin = FALSE /\ cr'.rev = 0
        /\ cr'.status.arn = FALSE
    BY <1>4 DEF Absent
  <2>2. /\ Exists(obj) /\ obj.uid = cr.uid /\ obj.deleting
        /\ (cr.status.arn => iam = NoObject)
    BY <1>4 DEF LifecycleInv, RunInv, FreshInv, StepInv
  <2>3. cache.uid = cr.uid /\ cache.deleting /\ (cache.status.arn => iam = NoObject)
    BY <2>2 DEF LifecycleInv, RunInv, AheadInv, CacheInv, ArnInv
  <2>4. StoredInv'
    BY <1>2, <1>4, <2>1, CopyTypes DEF StoredInv, Exists
  <2>5. CacheInv'
    BY <1>2, <1>4, <2>1, <2>3 DEF LifecycleInv, CacheInv, CopyInv, ArnInv, Exists
  <2> QED
    BY <1>2, <2>4, <2>5, ReturnedRun, CopyTypes DEF LifecycleInv
<1> QED
  BY <1>1, <1>3, <1>4

-----------------------------------------------------------------------------
(* Calls to AWS. *)

\* Reconcile goes on with the same copy; the IAM object appeared only for a copy
\* that pins the CR.
LEMMA AwsLifecycle ==
  ASSUME NEW Statuses, NEW Steps, NEW p,
         BaseTypeOK(Statuses, Steps), LifecycleInv, pc # "idle", pc \notin Recorded,
         Goto(p, obj), NoWrite, StepInv',
         iam = NoObject /\ iam' # NoObject => obj.fin /\ ~obj.deleting,
         p \notin Recorded \union {"idle"}
  PROVE  LifecycleInv'
<1>1. /\ UNCHANGED <<cr, cache, cacheFresh, edits, obj>> /\ pc' = p
      /\ fresh' \in BOOLEAN /\ (fresh' => fresh)
  BY DEF Goto, NoWrite, BaseTypeOK
<1>2. Exists(obj)
  BY DEF LifecycleInv, RunInv, StepInv
<1>3. obj.fin /\ ~obj.deleting => cache.uid = cr.uid /\ obj.uid = cr.uid
  BY <1>2 DEF LifecycleInv, RunInv, CopyInv, AheadInv
<1>4. StoredInv' /\ CacheInv'
  BY <1>1, <1>3 DEF LifecycleInv, StoredInv, CacheInv, CopyInv, ArnInv, Exists
<1>5. CopyInv(obj)' /\ ArnInv(obj)' /\ AheadInv' /\ FreshInv'
  BY <1>1, <1>3 DEF LifecycleInv, RunInv, CopyInv, ArnInv, AheadInv, FreshInv, Exists
<1> QED
  BY <1>4, <1>5 DEF LifecycleInv, RunInv

LEMMA CleanupLifecycle ==
  ASSUME NEW Statuses, NEW Steps, BaseTypeOK(Statuses, Steps), LifecycleInv, Cleanup
  PROVE  LifecycleInv'
<1>1. PICK p \in {"errorStatus", "delete"} : Goto(p, obj)
  BY DEF Cleanup
<1>2. NoWrite /\ iam' = iam /\ pc = "cleanup" /\ pc \notin Recorded
  BY DEF Cleanup, Recorded
<1>3. StepInv'
  BY <1>1, <1>2 DEF LifecycleInv, RunInv, StepInv, Goto, Exists, Holding, Provisioned, Recorded
<1>4. p \notin Recorded \union {"idle"}
  BY DEF Recorded
<1> QED
  BY <1>1, <1>2, <1>3, <1>4, AwsLifecycle

LEMMA DeprovisionLifecycle ==
  ASSUME NEW Statuses, NEW Steps, BaseTypeOK(Statuses, Steps), LifecycleInv, Delete
  PROVE  LifecycleInv'
<1>1. PICK p \in {"errorStatus", "create", "removeFinalizer"} :
        /\ Goto(p, obj)
        /\ p = "create" => ~obj.deleting
        /\ p = "removeFinalizer" => obj.deleting /\ (obj.status.arn => iam' = NoObject)
  BY DEF Delete, AfterDelete
<1>2. NoWrite /\ pc = "delete" /\ pc \notin Recorded
  BY DEF Delete, Recorded
<1>3. iam' = iam \/ iam' = NoObject
  BY DEF Delete
<1>4. StepInv'
  BY <1>1, <1>2 DEF LifecycleInv, RunInv, StepInv, Goto, Exists, Holding, Provisioned, Recorded
<1>5. p \notin Recorded \union {"idle"}
  BY DEF Recorded
<1> QED
  BY <1>1, <1>2, <1>3, <1>4, <1>5, AwsLifecycle

LEMMA ProvisionLifecycle ==
  ASSUME NEW Statuses, NEW Steps, NEW wanted, NEW taken \in {"errorStatus", "nameTaken"},
         BaseTypeOK(Statuses, Steps), LifecycleInv, pc = "create",
         wanted # NoObject, CreateAWSObject(wanted, taken)
  PROVE  LifecycleInv'
<1>1. PICK p \in {"errorStatus", "nameTaken", "okStatus"} :
        Goto(p, obj) /\ (p = "okStatus" => iam' = wanted)
  BY DEF CreateAWSObject
<1>2. NoWrite /\ pc \notin Recorded /\ obj.fin /\ ~obj.deleting
  BY DEF CreateAWSObject, LifecycleInv, RunInv, StepInv, Holding, Recorded
<1>3. StepInv'
  BY <1>1, <1>2 DEF LifecycleInv, RunInv, StepInv, Goto, Exists, Holding, Provisioned, Recorded
<1>4. p \notin Recorded \union {"idle"}
  BY DEF Recorded
<1> QED
  BY <1>1, <1>2, <1>3, <1>4, AwsLifecycle

LEMMA UpdateLifecycle ==
  ASSUME NEW Statuses, NEW Steps, NEW wanted,
         BaseTypeOK(Statuses, Steps), LifecycleInv, pc = "update",
         wanted # NoObject, UpdateAWSObject(wanted, "updated")
  PROVE  LifecycleInv'
<1>1. PICK p \in {"errorStatus", "updated"} :
        Goto(p, obj) /\ (p = "updated" => iam' = wanted)
  BY DEF UpdateAWSObject
<1>2. NoWrite /\ pc \notin Recorded /\ obj.fin /\ ~obj.deleting
  BY DEF UpdateAWSObject, LifecycleInv, RunInv, StepInv, Holding, Recorded
<1>3. StepInv'
  BY <1>1, <1>2 DEF LifecycleInv, RunInv, StepInv, Goto, Exists, Holding, Provisioned, Recorded
<1>4. p \notin Recorded \union {"idle"}
  BY DEF Recorded
<1> QED
  BY <1>1, <1>2, <1>3, <1>4, AwsLifecycle

\* A ServiceAccount, the members of a group: the IAM object stays.
LEMMA OtherCallLifecycle ==
  ASSUME NEW Statuses, NEW Steps, NEW p, BaseTypeOK(Statuses, Steps), LifecycleInv,
         pc \in Recorded, p \in Recorded, Goto(p, obj), NoWrite,
         (iam' = NoObject) = (iam = NoObject)
  PROVE  LifecycleInv'
<1>1. /\ UNCHANGED <<cr, cache, cacheFresh, edits, obj>> /\ pc' = p
      /\ fresh' \in BOOLEAN /\ (fresh' => fresh)
  BY DEF Goto, NoWrite, BaseTypeOK
<1>2. StoredInv' /\ CacheInv'
  BY <1>1 DEF LifecycleInv, StoredInv, CacheInv, CopyInv, ArnInv, Exists
<1>3. p \in Holding /\ p \in Provisioned /\ pc \in Holding /\ pc \in Provisioned
  BY DEF Holding, Provisioned
<1>4. CopyInv(obj)' /\ AheadInv' /\ FreshInv'
  BY <1>1, <1>3 DEF LifecycleInv, RunInv, CopyInv, AheadInv, FreshInv, Exists
<1>5. /\ pc \notin {"idle", "addFinalizer", "cleanup", "delete", "removeFinalizer"}
      /\ p \notin {"idle", "addFinalizer", "cleanup", "delete", "removeFinalizer"}
  BY DEF Recorded
<1>6. StepInv'
  BY <1>1, <1>3, <1>5 DEF LifecycleInv, RunInv, StepInv, Exists
<1> QED
  BY <1>1, <1>2, <1>4, <1>6 DEF LifecycleInv, RunInv

\* Steps of others, which only count edits.
LEMMA QuietLifecycle ==
  ASSUME LifecycleInv, cr.uid \in Nat, cache.uid \in Nat, obj.uid \in Nat,
         edits \in Nat, edits' \in {edits, edits + 1},
         UNCHANGED <<cr, cache, cacheFresh, obj, fresh, pc, iam>>
  PROVE  LifecycleInv'
<1>1. StoredInv' /\ CacheInv'
  BY DEF LifecycleInv, StoredInv, CacheInv, CopyInv, ArnInv, Exists
<1>2. RunInv'
  BY DEF LifecycleInv, RunInv, CopyInv, AheadInv, FreshInv, StepInv, ArnInv, Exists
<1> QED
  BY <1>1, <1>2 DEF LifecycleInv

\* A run ends without a write.
LEMMA AbandonedRun ==
  ASSUME LifecycleInv, NoStatus.arn = FALSE, edits \in Nat,
         UNCHANGED <<cr, cache, cacheFresh, edits, iam>>,
         pc' = "idle", obj' = Absent, fresh' = FALSE
  PROVE  LifecycleInv'
<1>1. StoredInv' /\ CacheInv'
  BY DEF LifecycleInv, StoredInv, CacheInv, CopyInv, ArnInv, Exists
<1> QED
  BY <1>1, ReturnedRun DEF LifecycleInv

-----------------------------------------------------------------------------
(* Each step is a step of CloudResource, or a stutter. *)

LifecycleStep == [Lifecycle!Next]_(Lifecycle!vars)

\* Where neither CR nor IAM object changes.
LEMMA QuietStep ==
  ASSUME UNCHANGED <<cr, iam>>
  PROVE  LifecycleStep
BY DEF LifecycleStep, Lifecycle!vars, Phase, Exists

\* Users create, edit and delete the CR.
LEMMA UserRefines ==
  ASSUME NEW Statuses, NEW Steps, NoStatus.arn = FALSE,
         BaseTypeOK(Statuses, Steps), \A t \in Statuses : t.arn \in BOOLEAN,
         LifecycleInv, UserStep, UNCHANGED iam
  PROVE  LifecycleStep
<1>1. cr.status.arn \in BOOLEAN /\ cr.uid \in Nat /\ edits \in Nat
  BY CopyTypes DEF BaseTypeOK, Resources
<1>2. StoredInv
  BY DEF LifecycleInv
<1>3. CASE UserCreate
  <2>1. /\ cr = Absent /\ cr.uid = 0 /\ cr.status.arn = FALSE
    BY <1>2, <1>3 DEF UserCreate, StoredInv, Absent
  <2>2. /\ cr'.uid = edits + 1 /\ cr'.deleting = FALSE /\ cr'.fin = FALSE
        /\ cr'.status.arn = FALSE
    BY <1>3 DEF UserCreate, WrittenByOthers, Absent
  <2>3. Phase = "absent" /\ Phase' = "new"
    BY <1>1, <2>1, <2>2 DEF Phase, Exists
  <2> QED
    BY <2>1, <2>2, <2>3 DEF LifecycleStep, Lifecycle!Next, Lifecycle!Apply
<1>4. CASE UserEdit
  <2>1. /\ cr'.uid = cr.uid /\ cr'.deleting = cr.deleting /\ cr'.fin = cr.fin
        /\ cr'.status = cr.status
    BY <1>4 DEF UserEdit, WrittenByOthers, BaseTypeOK, Resources
  <2> QED
    BY <2>1 DEF LifecycleStep, Lifecycle!vars, Phase, Exists
<1>5. CASE UserDelete /\ cr.fin
  <2>1. /\ cr'.uid = cr.uid /\ cr'.deleting = TRUE /\ cr'.fin = cr.fin
        /\ cr'.status = cr.status
    BY <1>5 DEF UserDelete, WrittenByOthers, BaseTypeOK, Resources
  <2>2. Phase = "held" /\ Phase' = "dying"
    BY <1>5, <2>1 DEF UserDelete, Phase, Exists
  <2> QED
    BY <2>1, <2>2 DEF LifecycleStep, Lifecycle!Next, Lifecycle!Withdraw
<1>6. CASE UserDelete /\ ~cr.fin
  <2>1. cr.status.arn = FALSE
    BY <1>1, <1>2, <1>6 DEF StoredInv
  <2>2. cr'.uid = 0 /\ cr'.status.arn = FALSE
    BY <1>6 DEF UserDelete, WrittenByOthers, Absent
  <2>3. Phase = "new" /\ Phase' = "absent"
    BY <1>6, <2>2 DEF UserDelete, Phase, Exists
  <2> QED
    BY <2>1, <2>2, <2>3 DEF LifecycleStep, Lifecycle!Next, Lifecycle!Abandon
<1> QED
  BY <1>3, <1>4, <1>5, <1>6 DEF UserStep

\* The finalizer is written.
LEMMA FinalizerRefines ==
  ASSUME NEW Statuses, NEW Steps, BaseTypeOK(Statuses, Steps), LifecycleInv,
         pc = "addFinalizer", Logged([cr EXCEPT !.fin = TRUE]), UNCHANGED iam
  PROVE  LifecycleStep
<1>1. CASE cr' = cr
  BY <1>1, QuietStep
<1>2. CASE fresh /\ cr' = [cr EXCEPT !.fin = TRUE]
  <2>1. Exists(cr) /\ ~cr.fin /\ ~cr.deleting
    BY <1>2 DEF LifecycleInv, RunInv, StepInv, FreshInv, Exists
  <2>2. /\ cr'.uid = cr.uid /\ cr'.deleting = cr.deleting /\ cr'.fin = TRUE
        /\ cr'.status = cr.status
    BY <1>2 DEF BaseTypeOK, Resources
  <2>3. Phase = "new" /\ Phase' = "held"
    BY <2>1, <2>2 DEF Phase, Exists
  <2> QED
    BY <2>2, <2>3 DEF LifecycleStep, Lifecycle!Next, Lifecycle!Hold
<1> QED
  BY <1>1, <1>2, Written

\* The finalizer is removed.
LEMMA ReleaseRefines ==
  ASSUME NEW Statuses, NEW Steps, NoStatus.arn = FALSE, BaseTypeOK(Statuses, Steps),
         LifecycleInv, pc = "removeFinalizer", Logged(Absent), UNCHANGED iam
  PROVE  LifecycleStep
<1>1. CASE cr' = cr
  BY <1>1, QuietStep
<1>2. CASE fresh /\ cr' = Absent
  <2>1. Exists(cr) /\ cr.deleting /\ (cr.status.arn => iam = NoObject)
    BY <1>2 DEF LifecycleInv, RunInv, StepInv, FreshInv, Exists
  <2>2. cr'.uid = 0 /\ cr'.status.arn = FALSE
    BY <1>2 DEF Absent
  <2>3. Phase = "dying" /\ Phase' = "absent"
    BY <2>1, <2>2 DEF Phase, Exists
  <2> QED
    BY <2>1, <2>2, <2>3 DEF LifecycleStep, Lifecycle!Next, Lifecycle!Release
<1> QED
  BY <1>1, <1>2, Written

\* The status is written: an ARN it did not have is that of the IAM object.
LEMMA StatusRefines ==
  ASSUME NEW Statuses, NEW Steps, NEW s, BaseTypeOK(Statuses, Steps),
         s.arn \in BOOLEAN, \A t \in Statuses : t.arn \in BOOLEAN,
         LifecycleInv, Logged(WithStatus(s)), UNCHANGED iam,
         \/ s.arn = TRUE /\ pc \in Provisioned
         \/ s.arn = obj.status.arn /\ pc \notin Recorded
  PROVE  LifecycleStep
<1>1. CASE cr' = cr
  BY <1>1, QuietStep
<1>2. CASE fresh /\ cr'.status = s /\ cr'.uid = cr.uid /\ cr'.fin = cr.fin
           /\ cr'.deleting = cr.deleting
  <2>1. UNCHANGED Phase
    BY <1>2 DEF Phase, Exists
  <2>2. cr.status.arn \in BOOLEAN /\ (cr.status.arn => s.arn = TRUE)
    BY <1>2 DEF LifecycleInv, RunInv, FreshInv, BaseTypeOK, Resources
  <2>3. CASE s.arn = cr.status.arn
    BY <1>2, <2>1, <2>3 DEF LifecycleStep, Lifecycle!vars
  <2>4. CASE s.arn # cr.status.arn
    <3>1. s.arn = TRUE /\ pc \in Provisioned
      BY <1>2, <2>2, <2>4 DEF LifecycleInv, RunInv, FreshInv
    <3>2. iam # NoObject /\ Exists(cr) /\ cr.fin
      BY <1>2, <3>1 DEF LifecycleInv, RunInv, StepInv, FreshInv, Holding, Exists
    <3>3. Phase \in {"held", "dying"}
      BY <3>2 DEF Phase
    <3> QED
      BY <1>2, <2>1, <3>1, <3>2, <3>3
         DEF LifecycleStep, Lifecycle!Next, Lifecycle!Record, Lifecycle!InHand
  <2> QED
    BY <2>3, <2>4
<1> QED
  BY <1>1, <1>2, StatusWritten

\* The IAM object is created, updated or deleted.
LEMMA AwsRefines ==
  ASSUME NEW Statuses, NEW Steps, BaseTypeOK(Statuses, Steps),
         \A t \in Statuses : t.arn \in BOOLEAN, LifecycleInv, UNCHANGED cr,
         \/ iam' = iam
         \/ iam # NoObject /\ iam' # NoObject
         \/ pc = "create" /\ iam = NoObject /\ iam' # NoObject
         \/ pc = "delete" /\ iam' = NoObject /\ obj.status.arn
  PROVE  LifecycleStep
<1>1. UNCHANGED <<Phase, cr.status.arn>>
  BY DEF Phase, Exists
<1>2. CASE iam' = iam \/ (iam # NoObject /\ iam' # NoObject) \/ (iam = NoObject /\ iam' = NoObject)
  BY <1>1, <1>2 DEF LifecycleStep, Lifecycle!vars
<1>3. CASE pc = "create" /\ iam = NoObject /\ iam' # NoObject
  <2>1. Exists(cr) /\ cr.fin
    BY <1>3 DEF LifecycleInv, RunInv, StepInv, CopyInv, Holding, Exists
  <2>2. Phase \in {"held", "dying"}
    BY <2>1 DEF Phase
  <2> QED
    BY <1>1, <1>3, <2>2 DEF LifecycleStep, Lifecycle!Next, Lifecycle!Provision, Lifecycle!InHand
<1>4. CASE pc = "delete" /\ iam # NoObject /\ iam' = NoObject /\ obj.status.arn
  <2>1. cr.uid = obj.uid /\ cr.status.arn /\ Exists(cr)
    BY <1>4 DEF LifecycleInv, RunInv, StepInv, ArnInv, Recorded, Exists
  <2>2. Phase \in {"held", "dying"}
    BY <2>1 DEF LifecycleInv, StoredInv, Phase
  <2> QED
    BY <1>1, <1>4, <2>1, <2>2
       DEF LifecycleStep, Lifecycle!Next, Lifecycle!Deprovision, Lifecycle!InHand
<1> QED
  BY <1>2, <1>3, <1>4

\* A step of CloudResource never makes a CR that stays forget its ARN.
LEMMA StepKeepsArn ==
  ASSUME LifecycleStep
  PROVE  Exists(cr) /\ cr'.uid = cr.uid /\ cr.status.arn => cr'.status.arn
<1>1. SUFFICES ASSUME Exists(cr), cr'.uid = cr.uid, cr.status.arn
               PROVE  cr'.status.arn
  OBVIOUS
<1>2. Phase' # "absent"
  BY <1>1 DEF Phase, Exists
<1> QED
  BY <1>1, <1>2 DEF LifecycleStep, Lifecycle!vars, Lifecycle!Next, Lifecycle!Apply,
     Lifecycle!Abandon, Lifecycle!Hold, Lifecycle!Withdraw, Lifecycle!Provision,
     Lifecycle!Record, Lifecycle!Deprovision, Lifecycle!Release
==============================================================================
