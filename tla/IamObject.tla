------------------------------- MODULE IamObject -------------------------------
(***************************************************************************)
(* What the controllers of Role, Policy, User and Group share: helpers.go  *)
(* and the IAM object it creates, updates and deletes.  The object has one *)
(* name for the lifetime of the CR, so that its ARN is a Boolean of the    *)
(* status.  AWS and the library cloud-objects are not part of the          *)
(* repository; they are modelled as the controllers use them.              *)
(***************************************************************************)
EXTENDS Reconciler

CONSTANTS
  NoObject,      \* the value of iam when the IAM object does not exist
  MissingDelete, \* answers of the library to a Delete of an object that is gone
  Attachable     \* PolicyAttachments may refer to the CR

ASSUME IamAssumption ==
  /\ MissingDelete \subseteq {"ok", "error"} /\ MissingDelete # {}
  /\ Attachable \in BOOLEAN

VARIABLES
  iam,    \* what the IAM object was last created or updated with
  refs,   \* the cached PolicyAttachments list one that refers to the CR
  bound   \* AWS has an attachment of the IAM object

attVars == <<refs, bound>>

IamTypeOK(Objects) ==
  iam \in Objects \union {NoObject} /\ refs \in BOOLEAN /\ bound \in BOOLEAN

IamInit == iam = NoObject /\ refs = FALSE /\ bound = FALSE

\* PolicyAttachments come and go on their own, and so do the attachments in
\* AWS they stand for.
Attachments ==
  /\ Attachable
  /\ \/ refs' = ~refs /\ UNCHANGED bound
     \/ bound' = ~bound /\ (bound' => iam # NoObject) /\ UNCHANGED refs
  /\ UNCHANGED <<base, iam>>

-----------------------------------------------------------------------------
(* DeleteAWSObject: the cleanup function, then Delete. *)

\* Mutant: PolicyAttachments are not looked for.
CleanupSkipped ==
  /\ pc = "cleanup" /\ Goto("delete", obj)
  /\ NoWrite /\ UNCHANGED <<iam, attVars, faults>>

\* roleCleanup, policyCleanup, userCleanup, groupCleanup: a PolicyAttachment
\* that refers to the CR forbids the deletion.
Cleanup ==
  /\ pc = "cleanup"
  /\ Goto(IF refs THEN "errorStatus" ELSE "delete", obj)
  /\ NoWrite /\ UNCHANGED <<iam, attVars, faults>>

\* Mutant: deleted to be created anew, and not created.
ForgetToCreate(o) == IF o.deleting THEN "removeFinalizer" ELSE "okStatus"

AfterDelete(o) == IF o.deleting THEN "removeFinalizer" ELSE "create"

\* IAM refuses to delete what is attached.
DeleteAccepted == IF iam = NoObject THEN "ok" \in MissingDelete ELSE ~bound
DeleteRefused  == IF iam = NoObject THEN "error" \in MissingDelete ELSE bound

\* Without an ARN the library answers NotYetCreated, which is ignored.
\* A fault may hide a deletion that took place.
Delete ==
  /\ pc = "delete"
  /\ \/ /\ ~obj.status.arn
        /\ Goto(AfterDelete(obj), obj) /\ UNCHANGED <<iam, faults>>
     \/ /\ obj.status.arn /\ DeleteAccepted
        /\ Goto(AfterDelete(obj), obj) /\ iam' = NoObject /\ UNCHANGED faults
     \/ /\ obj.status.arn /\ DeleteRefused
        /\ Goto("errorStatus", obj) /\ UNCHANGED <<iam, faults>>
     \/ /\ obj.status.arn /\ Fault /\ Goto("errorStatus", obj)
        /\ iam' \in {iam} \union (IF bound THEN {} ELSE {NoObject})
  /\ NoWrite /\ UNCHANGED attVars

-----------------------------------------------------------------------------
(* CreateAWSObject and UpdateAWSObject. *)

\* Create fails on a name that is taken, and Reconcile goes on at step taken;
\* a fault may hide a creation that took place.
CreateAWSObject(wanted, taken) ==
  /\ \/ /\ iam = NoObject /\ iam' = wanted
        /\ Goto("okStatus", obj) /\ UNCHANGED faults
     \/ /\ iam # NoObject
        /\ Goto(taken, obj) /\ UNCHANGED <<iam, faults>>
     \/ /\ Fault /\ Goto("errorStatus", obj)
        /\ iam' \in {iam} \union (IF iam = NoObject THEN {wanted} ELSE {})
  /\ NoWrite /\ UNCHANGED attVars

\* Without an ARN the library has nothing to update.
UpdateAWSObject(wanted, done) ==
  /\ \/ /\ obj.status.arn /\ iam # NoObject /\ iam' = wanted
        /\ Goto(done, obj) /\ UNCHANGED faults
     \/ /\ ~obj.status.arn \/ iam = NoObject
        /\ Goto("errorStatus", obj) /\ UNCHANGED <<iam, faults>>
     \/ /\ Fault /\ Goto("errorStatus", obj)
        /\ iam' \in {iam, IF obj.status.arn /\ iam # NoObject THEN wanted ELSE iam}
  /\ NoWrite /\ UNCHANGED attVars

-----------------------------------------------------------------------------
(* Properties every one of these controllers has. *)

\* An ARN that reached the status stays there as long as the CR does: no run
\* working on an older copy wipes it out (it would orphan the IAM object).
ArnNeverForgotten ==
  [][Exists(cr) /\ cr'.uid = cr.uid /\ cr.status.arn => cr'.status.arn]_cr

\* Seen from outside, the CR and its IAM object behave as CloudResource says:
\* what a finalizer (role_controller.go:90) and the resourceVersion of every
\* write are to guarantee, whatever fails in between.
Phase == IF ~Exists(cr) THEN "absent"
         ELSE IF cr.deleting THEN "dying" ELSE IF cr.fin THEN "held" ELSE "new"

Lifecycle == INSTANCE CloudResource
               WITH phase <- Phase, known <- cr.status.arn, ext <- iam # NoObject

LifecycleSpec == Lifecycle!Spec

-----------------------------------------------------------------------------
(* The inductive invariant behind both. *)

\* Steps at which the copy in hand has the finalizer and is not being deleted,
\* at which the IAM object is in place, and at which the copy has its ARN while
\* the stored CR may not.
Recorded    == {"serviceAccount", "addUsers", "userError", "loginSecret",
                "loginStatus", "keysSecret", "keysStatus", "observe"}
Provisioned == {"okStatus", "updated"} \union Recorded
Holding     == {"create", "nameTaken", "update"} \union Provisioned

StoredInv ==
  /\ ~Exists(cr) => cr = Absent
  /\ Exists(cr) => cr.rev # 0
  /\ cr.uid <= edits
  /\ cr.deleting \/ cr.status.arn => cr.fin

\* A copy with the finalizer pins the CR it was made of, until it or a later
\* copy is seen to be under deletion.
CopyInv(o) ==
  /\ ~Exists(o) => o = Absent
  /\ Exists(o) => o.rev # 0
  /\ o.uid <= edits
  /\ Exists(o) /\ o.fin /\ ~o.deleting => cr.uid = o.uid /\ cr.fin
  /\ Exists(o) /\ o.deleting /\ cr.uid = o.uid => cr.deleting

\* The ARN a copy carries is that of the stored CR, or of nothing any more.
ArnInv(o) ==
  o.status.arn => IF cr.uid = o.uid THEN cr.status.arn ELSE iam = NoObject

CacheInv == (cacheFresh => cache = cr) /\ CopyInv(cache) /\ ArnInv(cache)

\* The cache never falls behind the copy Reconcile took from it.
AheadInv ==
  Exists(obj) /\ cr.uid = obj.uid
    => cache.uid = obj.uid /\ (obj.deleting => cache.deleting)

FreshInv ==
  fresh => /\ Exists(obj) /\ obj.uid = cr.uid
           /\ obj.deleting = cr.deleting /\ obj.fin = cr.fin
           /\ cr.status.arn => obj.status.arn
           /\ pc \notin Recorded => (obj.status.arn => cr.status.arn)

StepInv ==
  /\ (pc = "idle") = ~Exists(obj)
  /\ pc = "addFinalizer" => ~obj.fin /\ ~obj.deleting
  /\ pc \in {"cleanup", "delete"} => obj.fin
  /\ pc \in Holding => obj.fin /\ ~obj.deleting
  /\ pc \in Provisioned => iam # NoObject
  /\ pc \in Recorded => obj.status.arn
  /\ pc = "removeFinalizer" => obj.deleting /\ (obj.status.arn => iam = NoObject)

RunInv ==
  /\ CopyInv(obj) /\ AheadInv /\ FreshInv /\ StepInv
  /\ pc \notin Recorded => ArnInv(obj)

\* Nothing a Reconcile does, on however old a copy, takes the CR from under
\* the IAM object or the ARN from a CR whose IAM object exists.
LifecycleInv == StoredInv /\ CacheInv /\ RunInv

-----------------------------------------------------------------------------
\* An IAM object whose ARN the CR does not know: its creation keeps failing.
Stranded == iam # NoObject /\ ~cr.status.arn

\* role_controller.go:89 and policy_controller.go:71, "the finalizer for deleting
\* the actual aws resources": when the CR is gone and nothing runs, so is the
\* IAM object.  The controllers do not keep it.
NothingLeftBehind == pc = "idle" /\ ~Exists(cr) => iam = NoObject
==============================================================================
