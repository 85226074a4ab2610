---------------------------- MODULE RoleController ----------------------------
(***************************************************************************)
(* RoleReconciler: the controller of the Role kind.  A Role CR stands for  *)
(* an IAM role whose trust policy is written inline, read from an          *)
(* AssumeRolePolicy (ARP), or generated for IRSA.  One Role is modelled,   *)
(* with the ARP it refers to, the ServiceAccount it may create, the IAM    *)
(* role, and the PolicyAttachments on it.                                  *)
(***************************************************************************)
EXTENDS IamObject

CONSTANTS
  OidcConfigured   \* the operator was given an OIDC provider ARN

RoleSpecs == [inline : BOOLEAN, ref : BOOLEAN, irsa : BOOLEAN, sa : BOOLEAN]

RoleStatuses == [state : {"", "OK", "ERROR"}, arn : BOOLEAN, og : Nat, readVer : Nat]

ASSUME RoleAssumption ==
  /\ OidcConfigured \in BOOLEAN
  /\ Specs \subseteq RoleSpecs /\ NoSpec \notin RoleSpecs
  /\ NoStatus = [state |-> "", arn |-> FALSE, og |-> 0, readVer |-> 0]
  /\ NoObject = [rev |-> 0, doc |-> 0]

VARIABLES
  timer,     \* a RequeueAfter is pending
  resVer,    \* version of the ARP whose statement is in Reconcile's polDoc; 0: none
  arp,       \* version of the stored ARP; 0: it does not exist
  arpCache,  \* the informer's copy of it
  sa         \* uid of the Role that owns the ServiceAccount; 0: no ServiceAccount

local == <<timer, resVer>>
arpVars == <<arp, arpCache>>
vars == <<base, local, arpVars, sa, iam, attVars>>

RoleSteps == {"errWithStatus", "addFinalizer", "cleanup", "delete", "errorStatus",
              "removeFinalizer", "create", "okStatus", "serviceAccount", "observe"}

TypeOK ==
  /\ BaseTypeOK(RoleStatuses, RoleSteps)
  /\ timer \in BOOLEAN /\ resVer \in 0 .. MaxEdits
  /\ arp \in 0 .. MaxEdits /\ arpCache \in 0 .. MaxEdits
  /\ sa \in Nat /\ IamTypeOK([rev : Nat, doc : 0 .. MaxEdits])

Init ==
  /\ BaseInit /\ IamInit
  /\ timer = FALSE /\ resVer = 0 /\ arp = 0 /\ arpCache = 0 /\ sa = 0

-----------------------------------------------------------------------------
(* getPolicyDoc, with s the spec and a the cached ARP. *)

ReadsReference(s) == ~s.inline /\ ~s.irsa

PolicyDocFails(s, a) ==
  \/ s.inline /\ s.ref
  \/ ReadsReference(s) /\ (~s.ref \/ a = 0)
  \/ s.irsa /\ ~OidcConfigured

ResourceVersion(s, a) == IF ReadsReference(s) THEN a ELSE 0

\* The IAM role a run with copy o and ARP version v creates.
Wanted(o, v) == [rev |-> o.rev, doc |-> v]

\* Mutant: a changed ARP is not noticed.
IgnoreReadVersion(o, a) == o.status.og = o.gen /\ o.status.state = "OK"

ReconcileUnnecessary(o, a) ==
  /\ o.status.og = o.gen /\ o.status.state = "OK"
  /\ o.status.readVer = ResourceVersion(o.spec, a)

-----------------------------------------------------------------------------
(* The surroundings: users, informers, AWS clients, garbage collection. *)

User == UserStep /\ UNCHANGED <<local, arpVars, sa, iam, attVars>>

SyncRole == Sync /\ UNCHANGED <<local, arpVars, sa, iam, attVars>>

RestartOperator ==
  /\ Restart /\ timer' = FALSE /\ resVer' = 0 /\ arpCache' = arp
  /\ UNCHANGED <<arp, sa, iam, attVars>>

TimerFires ==
  /\ timer /\ timer' = FALSE /\ queued' = TRUE
  /\ UNCHANGED <<cr, cache, cacheFresh, obj, fresh, pc, edits, faults>>
  /\ UNCHANGED <<resVer, arpVars, sa, iam, attVars>>

WriteArp ==
  /\ Edit /\ arp' = edits + 1
  /\ UNCHANGED <<cr, cache, cacheFresh, obj, fresh, pc, queued, faults>>
  /\ UNCHANGED <<local, arpCache, sa, iam, attVars>>

DeleteArp ==
  /\ arp # 0 /\ arp' = 0
  /\ UNCHANGED <<base, local, arpCache, sa, iam, attVars>>

SyncArp ==
  /\ arpCache # arp /\ arpCache' = arp
  /\ UNCHANGED <<base, local, arp, sa, iam, attVars>>

RoleAttachments == Attachments /\ UNCHANGED <<local, arpVars, sa>>

\* Kubernetes removes a ServiceAccount whose owner no longer exists.
CollectServiceAccount ==
  /\ sa # 0 /\ sa # cr.uid /\ sa' = 0
  /\ UNCHANGED <<base, local, arpVars, iam, attVars>>

-----------------------------------------------------------------------------
(* Reconcile: from the request to the finalizer. *)

\* An error is returned: the request is queued again.
Fails == Retry /\ resVer' = 0 /\ UNCHANGED timer

\* ctrl.Result{RequeueAfter: r.Interval}
Finishes == Return /\ resVer' = 0 /\ timer' = TRUE

Continue(p, o) == Goto(p, o) /\ UNCHANGED local

Outside == UNCHANGED <<arpVars, attVars>>

\* Mutant: an update is reported as done without creating the role anew.
UpdateInPlace(o) == IF o.status.arn THEN "okStatus" ELSE "create"

\* Where Reconcile goes once the finalizer of the copy o is in place.
AfterFinalizer(o) == IF o.status.arn THEN "cleanup" ELSE "create"

\* Mutant: the finalizer goes first, the IAM role is forgotten.
ReleaseFirst(o) == IF o.deleting THEN "removeFinalizer"
                   ELSE IF o.fin THEN AfterFinalizer(o) ELSE "addFinalizer"

FirstStep(o) == IF o.deleting THEN "cleanup"
                ELSE IF o.fin THEN AfterFinalizer(o) ELSE "addFinalizer"

NotFound ==
  /\ Dequeue /\ ~Exists(cache) /\ LoadAndReturn
  /\ Outside /\ UNCHANGED <<local, sa, iam>>

PolicyDocError ==
  /\ Dequeue /\ Exists(cache) /\ PolicyDocFails(cache.spec, arpCache)
  /\ Load(cache, "errWithStatus") /\ UNCHANGED faults
  /\ Outside /\ UNCHANGED <<local, sa, iam>>

\* Mutant: a CR without an ARN is taken to need no deletion.
NoArnNothingToDo(o) == \/ ReconcileUnnecessary(o, arpCache)
                       \/ o.deleting /\ ~o.status.arn

\* Nothing changed, or the CR is being deleted and no longer ours.
NothingToDo(o) == \/ ReconcileUnnecessary(o, arpCache)
                  \/ o.deleting /\ ~o.fin

\* Mutant: a settled Role is not looked at again.
SkipForGood ==
  /\ Dequeue /\ Exists(cache) /\ ~PolicyDocFails(cache.spec, arpCache)
  /\ NothingToDo(cache)
  /\ LoadAndReturn /\ UNCHANGED timer
  /\ Outside /\ UNCHANGED <<resVer, sa, iam>>

Skip ==
  /\ Dequeue /\ Exists(cache) /\ ~PolicyDocFails(cache.spec, arpCache)
  /\ NothingToDo(cache)
  /\ LoadAndReturn /\ timer' = TRUE
  /\ Outside /\ UNCHANGED <<resVer, sa, iam>>

\* IAMService may fail; otherwise the copy goes on with the new
\* ReadAssumeRolePolicyVersion in it, not yet written.
Start ==
  /\ Dequeue /\ Exists(cache) /\ ~PolicyDocFails(cache.spec, arpCache)
  /\ ~NothingToDo(cache)
  /\ resVer' = ResourceVersion(cache.spec, arpCache)
  /\ LET o == [cache EXCEPT !.status.readVer = resVer'] IN
       \/ Load(o, FirstStep(o)) /\ UNCHANGED faults
       \/ Load(o, "errWithStatus") /\ Fault
  /\ Outside /\ UNCHANGED <<timer, sa, iam>>

AddFinalizer ==
  /\ pc = "addFinalizer"
  /\ LET new == [cr EXCEPT !.fin = TRUE]
         o   == [Answer(obj) EXCEPT !.fin = TRUE]
     IN \/ Continue(AfterFinalizer(o), o) /\ Accepted(new)
        \/ Fails /\ Refused(new)
  /\ Outside /\ UNCHANGED <<sa, iam>>

-----------------------------------------------------------------------------
(* Reconcile: deletion of the IAM role, on the way out or to create it anew. *)

CleanupRole == Cleanup /\ UNCHANGED <<local, arpVars, sa>>

DeleteRole == Delete /\ UNCHANGED <<local, arpVars, sa>>

RemoveFinalizer ==
  /\ pc = "removeFinalizer"
  /\ \/ Finishes /\ Accepted(Absent)
     \/ Fails /\ Refused(Absent)
  /\ Outside /\ UNCHANGED <<sa, iam>>

-----------------------------------------------------------------------------
(* Reconcile: creation of the IAM role and of its ServiceAccount. *)

CreateRole ==
  /\ pc = "create" /\ CreateAWSObject(Wanted(obj, resVer), "errorStatus")
  /\ UNCHANGED <<local, arpVars, sa>>

\* Mutant: an update creates no ServiceAccount.
SkipOnUpdate(o) == IF o.spec.sa /\ o.status.og = 0 THEN "serviceAccount" ELSE "observe"

AfterOkStatus(o) == IF o.spec.sa THEN "serviceAccount" ELSE "observe"

\* SuccessStatusUpdater: the ARN reaches the status unless the write fails,
\* which is only logged.
OkStatusUpdate ==
  /\ pc = "okStatus"
  /\ LET o == [obj EXCEPT !.status = OkStatus(obj)] IN
       Continue(AfterOkStatus(o), o) /\ Logged(WithStatus(o.status))
  /\ Outside /\ UNCHANGED <<sa, iam>>

\* createRoleServiceAccount: one that exists already is left as it is.
CreateServiceAccount ==
  /\ pc = "serviceAccount"
  /\ \/ /\ Continue("observe", obj) /\ UNCHANGED faults
        /\ sa' = IF sa = 0 THEN obj.uid ELSE sa
     \/ /\ Fails /\ Fault
        /\ sa' \in {sa, IF sa = 0 THEN obj.uid ELSE sa}
  /\ NoWrite /\ Outside /\ UNCHANGED iam

Observed(o) == [o.status EXCEPT !.og = o.gen]

Observe ==
  /\ pc = "observe"
  /\ \/ Finishes /\ Accepted(WithStatus(Observed(obj)))
     \/ Fails /\ Refused(WithStatus(Observed(obj)))
  /\ Outside /\ UNCHANGED <<sa, iam>>

Report ==
  /\ ReportError /\ resVer' = 0
  /\ Outside /\ UNCHANGED <<timer, sa, iam>>

Reconcile ==
  \/ NotFound \/ PolicyDocError \/ Skip \/ Start \/ AddFinalizer
  \/ CleanupRole \/ DeleteRole \/ RemoveFinalizer
  \/ CreateRole \/ OkStatusUpdate \/ CreateServiceAccount \/ Observe \/ Report

Next ==
  \/ User \/ SyncRole \/ RestartOperator \/ TimerFires
  \/ WriteArp \/ DeleteArp \/ SyncArp \/ RoleAttachments \/ CollectServiceAccount
  \/ Reconcile

Spec == Init /\ [][Next]_vars

\* The informers deliver, the interval passes, the garbage collector runs and
\* the worker keeps working.  Nothing is assumed of users and faults.
Fairness ==
  /\ WF_vars(SyncRole) /\ WF_vars(SyncArp) /\ WF_vars(TimerFires)
  /\ WF_vars(CollectServiceAccount) /\ WF_vars(Reconcile)

FairSpec == Spec /\ Fairness

-----------------------------------------------------------------------------
(* Properties. *)

Settled(o, a) == /\ Exists(o) /\ ~PolicyDocFails(o.spec, a)
                 /\ ReconcileUnnecessary(o, a)

Applied(o, a) == iam = Wanted(o, ResourceVersion(o.spec, a))

\* As long as no call fails half-way: whenever the worker is idle and the next
\* Reconcile would return at once (role_controller.go:78-87), the IAM role
\* exists and was created with the cached spec and the cached trust document.
\* A skip is never wrong, however stale the copies earlier runs worked on.
SettledMeansApplied ==
  pc = "idle" /\ faults = 0 /\ Settled(cache, arpCache) => Applied(cache, arpCache)

\* With faults and restarts a settled Role may have lost its IAM role, but an
\* IAM role that exists is never another than the one the CR says is settled.
SettledNeverDiffers ==
  pc = "idle" /\ Settled(cache, arpCache) => iam = NoObject \/ Applied(cache, arpCache)

\* The status the API server shows: OK with the current generation observed
\* means that the IAM role carries the current spec, and a trust document not
\* older than the one noted, while no Reconcile is at work on it.
StatusIsTrue ==
  pc = "idle" /\ faults = 0 /\ cr.status.state = "OK" /\ cr.status.og = cr.gen
    => iam.rev = cr.rev /\ iam.doc >= cr.status.readVer

\* A Role is never out of sight: when nothing is left to do, it has been observed, nobody
\* waits for its deletion, and the interval after which it is looked at again runs.
QuietMeansWatched ==
  Quiet /\ Exists(cr)
    => timer /\ ~cr.deleting /\ cr.status.state = "OK" /\ cr.status.og = cr.gen

\* A settled Role that asks for a ServiceAccount owns it, however often it was edited -
\* the first Role of its name.  A later one takes what its predecessor left for its own
\* (role_controller.go:307), until the garbage collector removes it.
ServiceAccountOwned ==
  pc = "idle" /\ cr.uid = 1 /\ Settled(cr, arp) /\ cr.spec.sa => sa = cr.uid

\* A Role whose trust document can be computed is, once left alone with nothing
\* attached to it any more, applied and settled for good - unless its IAM role got
\* stranded, or a fault between DeleteRole and CreateRole met a status write that was
\* refused.  A PolicyAttachment refuses the deletion an update begins with
\* (role_controller.go:216).
Ready == /\ Exists(cr) /\ ~cr.deleting /\ ~refs /\ ~bound
         /\ ~PolicyDocFails(cr.spec, arp)

Converges ==
  <>[]Ready
    => \/ <>[](Settled(cr, arp) /\ (Applied(cr, arp) \/ (iam = NoObject /\ faults > 0)))
       \/ <>[]Stranded

\* A Role being deleted goes away once nothing is attached to it any more, provided
\* its trust document can be computed (role_controller.go:74).
DeletionCompletes ==
  <>[](~refs /\ ~bound /\ (cr.deleting => ~PolicyDocFails(cr.spec, arp)))
    => []<>(~cr.deleting)
==============================================================================
