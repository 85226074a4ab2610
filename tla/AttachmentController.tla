------------------------- MODULE AttachmentController -------------------------
(***************************************************************************)
(* PolicyAttachmentReconciler: the controller of the PolicyAttachment      *)
(* kind.  A PolicyAttachment CR attaches a policy, given by a Policy CR or *)
(* by its ARN, to the IAM object of a Role, User or Group CR.              *)
(***************************************************************************)
EXTENDS Reconciler, FiniteSets

CONSTANTS
  Targets,       \* Role, User and Group CRs a PolicyAttachment may refer to
  Policies,      \* Policy CRs it may refer to
  Externals,     \* policies given by their ARN
  NoPolicy,      \* stands for every malformed policy or target reference
  Volatile,      \* the CRs that come, go and lose their IAM object
  MissingDelete  \* answers of the library to detaching what is not attached

Pairs == [target : Targets, policy : Policies \union Externals]

ASSUME AttachmentAssumption ==
  /\ Specs \subseteq [target : Targets, policy : Policies \union Externals \union {NoPolicy}]
  /\ NoPolicy \notin Targets \union Policies \union Externals
  /\ NoSpec \notin Specs /\ Volatile \subseteq Targets \union Policies
  /\ MissingDelete \subseteq {"ok", "error"} /\ MissingDelete # {}
  /\ NoStatus = [state |-> "", arn |-> FALSE, og |-> 0]

AttachmentStatuses == [state : {"", "OK", "ERROR"}, arn : BOOLEAN, og : Nat]

AttachmentSteps == {"errWithStatus", "addFinalizer", "delete", "errorStatus",
                    "removeFinalizer", "create", "createFailed", "okStatus", "observe"}

VARIABLES
  listed,    \* CRs the cache knows with an ARN in their status
  alive,     \* CRs whose IAM object exists
  attached,  \* attachments in AWS
  former     \* history: the pairs users changed a PolicyAttachment away from

awsVars == <<listed, alive, attached, former>>
vars == <<base, awsVars>>

TypeOK ==
  /\ BaseTypeOK(AttachmentStatuses, AttachmentSteps)
  /\ listed \subseteq Targets \union Policies /\ alive \subseteq Targets \union Policies
  /\ attached \subseteq Pairs /\ former \subseteq Specs

Init ==
  /\ BaseInit
  /\ listed = Targets \union Policies /\ alive = Targets \union Policies
  /\ attached = {} /\ former = {}

-----------------------------------------------------------------------------
(* The surroundings. *)

User ==
  /\ UserStep
  /\ former' = former \union IF Exists(cr) /\ Exists(cr') /\ cr'.spec # cr.spec
                             THEN {cr.spec} ELSE {}
  /\ UNCHANGED <<listed, alive, attached>>

SyncAttachment == Sync /\ UNCHANGED awsVars
RestartOperator == Restart /\ UNCHANGED awsVars

Names(s, x) == x \in {s.target, s.policy}

\* The other controllers create and delete the CRs a PolicyAttachment refers to.
ListingChanges ==
  /\ \E x \in Volatile : listed' \in {listed \union {x}, listed \ {x}}
  /\ listed' # listed
  /\ UNCHANGED <<base, alive, attached, former>>

ObjectAppears ==
  /\ \E x \in Volatile \ alive : alive' = alive \union {x}
  /\ UNCHANGED <<base, listed, attached, former>>

\* IAM deletes nothing that has an attachment.  That an IAM object disappears
\* under a PolicyAttachment that refers to it, which the cleanup functions of
\* the other controllers prevent but for a race, counts as a fault.
ObjectDisappears ==
  /\ \E x \in Volatile \intersect alive :
       /\ \A p \in attached : ~Names(p, x)
       /\ alive' = alive \ {x}
       /\ IF Exists(cr) /\ Names(cr.spec, x) THEN Fault ELSE UNCHANGED faults
  /\ UNCHANGED <<cr, cache, cacheFresh, obj, fresh, pc, queued, edits>>
  /\ UNCHANGED <<listed, attached, former>>

References == ListingChanges \/ ObjectAppears \/ ObjectDisappears

-----------------------------------------------------------------------------
(* Reconcile: the references, the finalizer. *)

OnlyStatusUpdated(o) == o.status.og = o.gen /\ o.status.state = "OK"

\* getPolicyAttachmentARNs, GetAttachmentType: a policy given by its ARN is not
\* looked up.
RefsFound(s) == /\ s.policy # NoPolicy
                /\ {s.target, s.policy} \subseteq listed \union Externals

AfterFinalizer(o) == IF o.status.arn THEN "delete" ELSE "create"

\* Mutant: the finalizer is removed without a deletion.
ReleaseFirst(o) == IF o.deleting THEN "removeFinalizer"
                   ELSE IF o.fin THEN AfterFinalizer(o) ELSE "addFinalizer"

\* Mutant: the deletionTimestamp is not looked at.
IgnoreDeletion(o) == IF o.fin THEN AfterFinalizer(o) ELSE "addFinalizer"

FirstStep(o) == IF o.deleting THEN "delete"
                ELSE IF o.fin THEN AfterFinalizer(o) ELSE "addFinalizer"

NotFound == Dequeue /\ ~Exists(cache) /\ LoadAndReturn /\ UNCHANGED awsVars

Skip ==
  /\ Dequeue /\ Exists(cache)
  /\ OnlyStatusUpdated(cache) \/ (RefsFound(cache.spec) /\ cache.deleting /\ ~cache.fin)
  /\ LoadAndReturn /\ UNCHANGED awsVars

\* Before anything else, also before a deletion is looked at.
RefsError ==
  /\ Dequeue /\ Exists(cache) /\ ~OnlyStatusUpdated(cache) /\ ~RefsFound(cache.spec)
  /\ Load(cache, "errWithStatus") /\ UNCHANGED <<faults, awsVars>>

Start ==
  /\ Dequeue /\ Exists(cache) /\ ~OnlyStatusUpdated(cache) /\ RefsFound(cache.spec)
  /\ cache.deleting => cache.fin
  /\ \/ Load(cache, FirstStep(cache)) /\ UNCHANGED faults
     \/ Load(cache, "errWithStatus") /\ Fault
  /\ UNCHANGED awsVars

AddFinalizer ==
  /\ pc = "addFinalizer"
  /\ LET new == [cr EXCEPT !.fin = TRUE]
         o   == [Answer(obj) EXCEPT !.fin = TRUE]
     IN \/ Goto(AfterFinalizer(o), o) /\ Accepted(new)
        \/ Retry /\ Refused(new)
  /\ UNCHANGED awsVars

-----------------------------------------------------------------------------
(* Reconcile: detach and attach, both for the pair the spec in hand names. *)

\* Mutant: detached to be attached anew, and not attached.
ForgetToCreate(o) == IF o.deleting THEN "removeFinalizer" ELSE "okStatus"

AfterDelete(o) == IF o.deleting THEN "removeFinalizer" ELSE "create"

Delete ==
  /\ pc = "delete"
  /\ \/ /\ obj.spec \in attached \/ "ok" \in MissingDelete
        /\ Goto(AfterDelete(obj), obj) /\ attached' = attached \ {obj.spec}
        /\ UNCHANGED faults
     \/ /\ obj.spec \notin attached /\ "error" \in MissingDelete
        /\ Goto("errorStatus", obj) /\ UNCHANGED <<attached, faults>>
     \/ /\ Fault /\ Goto("errorStatus", obj)
        /\ attached' \in {attached, attached \ {obj.spec}}
  /\ NoWrite /\ UNCHANGED <<listed, alive, former>>

RemoveFinalizer ==
  /\ pc = "removeFinalizer"
  /\ \/ Return /\ Accepted(Absent)
     \/ Retry /\ Refused(Absent)
  /\ UNCHANGED awsVars

\* AWS attaches what is attached already once more without a complaint, and
\* refuses to attach what does not exist.
Attachable == {obj.spec.target, obj.spec.policy} \subseteq alive \union Externals

Create ==
  /\ pc = "create"
  /\ \/ /\ Attachable /\ attached' = attached \union {obj.spec}
        /\ Goto("okStatus", obj) /\ UNCHANGED faults
     \/ /\ ~Attachable
        /\ Goto("createFailed", obj) /\ UNCHANGED <<attached, faults>>
     \/ /\ Fault /\ Goto("createFailed", obj)
        /\ attached' \in {attached, IF Attachable THEN attached \union {obj.spec} ELSE attached}
  /\ NoWrite /\ UNCHANGED <<listed, alive, former>>

\* The ErrorStatusUpdater writes, then errWithStatus does.
CreateFailed ==
  /\ pc = "createFailed"
  /\ LET o == [obj EXCEPT !.status = ErrorStatus(obj)] IN
       Goto("errWithStatus", o) /\ Logged(WithStatus(o.status))
  /\ UNCHANGED awsVars

OkStatusUpdate ==
  /\ pc = "okStatus"
  /\ LET o == [obj EXCEPT !.status = OkStatus(obj)] IN
       Goto("observe", o) /\ Logged(WithStatus(o.status))
  /\ UNCHANGED awsVars

Observe ==
  /\ pc = "observe"
  /\ LET s == [obj.status EXCEPT !.og = obj.gen] IN
       \/ Return /\ Accepted(WithStatus(s))
       \/ Retry /\ Refused(WithStatus(s))
  /\ UNCHANGED awsVars

Report == ReportError /\ UNCHANGED awsVars

Reconcile ==
  \/ NotFound \/ Skip \/ RefsError \/ Start \/ AddFinalizer
  \/ Delete \/ RemoveFinalizer \/ Create \/ CreateFailed \/ OkStatusUpdate
  \/ Observe \/ Report

Next == User \/ SyncAttachment \/ RestartOperator \/ References \/ Reconcile

Spec == Init /\ [][Next]_vars

\* Nothing is assumed of users, of the CRs referred to and of faults.
FairSpec == Spec /\ WF_vars(SyncAttachment) /\ WF_vars(Reconcile)

-----------------------------------------------------------------------------
(* Properties. *)

Settled(o) == Exists(o) /\ OnlyStatusUpdated(o)

\* As long as no call fails half-way, a PolicyAttachment that shows OK and its
\* generation as observed is attached in AWS, however stale the copies were that
\* Reconcile detached it and attached it again with.
SettledMeansAttached ==
  pc = "idle" /\ faults = 0 /\ Settled(cr) => cr.spec \in attached

\* When nothing is left to do, the PolicyAttachment there is has been observed and nobody
\* waits for its deletion: a reference that is not found keeps the request in the queue.
QuietMeansSettled == Quiet /\ Exists(cr) => ~cr.deleting /\ Settled(cr)

\* What is attached in AWS and not what the spec says is a pair that a user
\* changed the spec away from; nothing else survives the PolicyAttachment,
\* whatever fails, even if its status never carried an ARN.
OnlyFormerPairsLeft ==
  pc = "idle" => attached \ former \subseteq (IF Exists(cr) THEN {cr.spec} ELSE {})

\* A PolicyAttachment being deleted goes away if what it refers to is found.
DeletionCompletes ==
  <>[](cr.deleting => RefsFound(cr.spec)) => []<>(~cr.deleting)

\* A PolicyAttachment whose references are found and exist is, once left alone,
\* attached and settled for good, unless a fault between detaching and attaching
\* met a status write that was refused.
Ready(o) == /\ Exists(o) /\ ~o.deleting /\ RefsFound(o.spec)
            /\ {o.spec.target, o.spec.policy} \subseteq alive \union Externals

Converges ==
  <>[]Ready(cr) => <>[](Settled(cr) /\ (cr.spec \in attached \/ faults > 0))

-----------------------------------------------------------------------------
(* What the repository says of the program and the code does not keep. *)

\* policyattachment_controller.go:127, "A user could have changed the
\* TargetReference, so we need to remove it from the old status ARN": a settled
\* PolicyAttachment is attached nowhere but where its spec says.
OldTargetDetached ==
  pc = "idle" /\ faults = 0 /\ Settled(cr) => attached \subseteq {cr.spec}
==============================================================================
