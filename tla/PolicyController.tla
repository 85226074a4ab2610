--------------------------- MODULE PolicyController ---------------------------
(***************************************************************************)
(* PolicyReconciler: the controller of the Policy kind.  A Policy CR       *)
(* stands for a managed IAM policy with one document.  Reconcile always    *)
(* tries to create the IAM policy and updates it when the name is taken.   *)
(***************************************************************************)
EXTENDS IamObject

PolicyStatuses == [state : {"", "OK", "ERROR"}, arn : BOOLEAN, og : Nat]

ASSUME PolicyAssumption ==
  /\ NoStatus = [state |-> "", arn |-> FALSE, og |-> 0] /\ NoObject = 0
  /\ NoSpec \notin Specs

\* "updated" is the status write after an update: the error of the attempt to
\* create is returned after it, whatever its outcome.
PolicySteps == {"errWithStatus", "addFinalizer", "cleanup", "delete", "errorStatus",
                "removeFinalizer", "create", "okStatus", "nameTaken", "update",
                "updated", "observe"}

vars == <<base, iam, attVars>>

\* iam is the number of the edit whose document the IAM policy carries.
TypeOK == BaseTypeOK(PolicyStatuses, PolicySteps) /\ IamTypeOK(1 .. MaxEdits)

Init == BaseInit /\ IamInit

Kept == UNCHANGED <<iam, attVars>>

-----------------------------------------------------------------------------
(* The surroundings. *)

User == UserStep /\ Kept
SyncPolicy == Sync /\ Kept
RestartOperator == Restart /\ Kept

-----------------------------------------------------------------------------
(* Reconcile. *)

\* Mutant: any successful write of the status settles the Policy.
OkIsEnough(o) == o.status.state = "OK"

\* "return if only status/metadata updated"
OnlyStatusUpdated(o) == o.status.og = o.gen /\ o.status.state = "OK"

FirstStep(o) == IF o.deleting THEN "cleanup"
                ELSE IF o.fin THEN "create" ELSE "addFinalizer"

NotFound == Dequeue /\ ~Exists(cache) /\ LoadAndReturn /\ Kept

\* Mutant: a Policy without an ARN is taken to need no deletion.
NoArnNothingToDo(o) == OnlyStatusUpdated(o) \/ (o.deleting /\ ~o.status.arn)

NothingToDo(o) == OnlyStatusUpdated(o) \/ (o.deleting /\ ~o.fin)

Skip == Dequeue /\ Exists(cache) /\ NothingToDo(cache) /\ LoadAndReturn /\ Kept

Start ==
  /\ Dequeue /\ Exists(cache) /\ ~NothingToDo(cache)
  /\ Load(cache, FirstStep(cache)) /\ UNCHANGED faults
  /\ Kept

\* IAMService fails: the error is returned, the status keeps what it says.
IamServiceError ==
  /\ Dequeue /\ Exists(cache) /\ ~NothingToDo(cache)
  /\ Retry /\ NoWrite /\ Fault
  /\ Kept

\* A refused write is reported by another one, from the same copy.
AddFinalizer ==
  /\ pc = "addFinalizer"
  /\ LET new == [cr EXCEPT !.fin = TRUE]
         o   == [Answer(obj) EXCEPT !.fin = TRUE]
     IN \/ Goto("create", o) /\ Accepted(new)
        \/ Goto("errWithStatus", obj) /\ Refused(new)
  /\ Kept

CleanupPolicy == Cleanup

DeletePolicy == Delete

RemoveFinalizer ==
  /\ pc = "removeFinalizer"
  /\ \/ Return /\ Accepted(Absent)
     \/ Retry /\ Refused(Absent)
  /\ Kept

CreatePolicy == pc = "create" /\ CreateAWSObject(obj.rev, "nameTaken")

OkStatusUpdate ==
  /\ pc = "okStatus"
  /\ LET o == [obj EXCEPT !.status = OkStatus(obj)] IN
       Goto("observe", o) /\ Logged(WithStatus(o.status))
  /\ Kept

\* The failed attempt to create reports ERROR before the update is tried.
NameTaken ==
  /\ pc = "nameTaken"
  /\ LET o == [obj EXCEPT !.status = ErrorStatus(obj)] IN
       Goto("update", o) /\ Logged(WithStatus(o.status))
  /\ Kept

\* Mutant: the update sends the document the CR was created with.
UpdateWithFirstDocument == pc = "update" /\ UpdateAWSObject(obj.uid, "updated")

UpdatePolicy == pc = "update" /\ UpdateAWSObject(obj.rev, "updated")

\* The ObservedGeneration is not written here: Reconcile returns the error of
\* the attempt to create.
Updated ==
  /\ pc = "updated"
  /\ Retry /\ Logged(WithStatus(OkStatus(obj)))
  /\ Kept

Observe ==
  /\ pc = "observe"
  /\ LET s == [obj.status EXCEPT !.og = obj.gen] IN
       \/ Return /\ Accepted(WithStatus(s))
       \/ Retry /\ Refused(WithStatus(s))
  /\ Kept

Report == ReportError /\ Kept

Reconcile ==
  \/ NotFound \/ Skip \/ Start \/ IamServiceError \/ AddFinalizer
  \/ CleanupPolicy \/ DeletePolicy \/ RemoveFinalizer
  \/ CreatePolicy \/ OkStatusUpdate \/ NameTaken \/ UpdatePolicy \/ Updated
  \/ Observe \/ Report

Next == User \/ SyncPolicy \/ RestartOperator \/ Attachments \/ Reconcile

Spec == Init /\ [][Next]_vars

\* Nothing is assumed of users, PolicyAttachments and faults.
FairSpec == Spec /\ WF_vars(SyncPolicy) /\ WF_vars(Reconcile)

-----------------------------------------------------------------------------
(* Properties. *)

\* A Policy that Reconcile would skip, stored or cached, has its document in
\* AWS - after any faults, and even while an older copy is being worked on.
SettledMeansApplied ==
  /\ Exists(cr) /\ OnlyStatusUpdated(cr) => iam = cr.rev
  /\ Exists(cache) /\ OnlyStatusUpdated(cache) /\ cache.uid = cr.uid /\ ~cr.deleting
       => iam >= cache.rev

\* When nothing is left to do, the Policy there is has been observed and AWS has its
\* document: no conflict, error that is only logged, lost answer or restart loses the
\* request that would have finished the work.
QuietMeansApplied ==
  Quiet /\ Exists(cr) => ~cr.deleting /\ OnlyStatusUpdated(cr) /\ iam = cr.rev

\* The document in AWS never goes back to that of an earlier edit, whatever
\* copies the runs that wrote it worked on.
NeverRolledBack == [][iam # NoObject /\ iam' # NoObject => iam' >= iam]_iam

\* A Policy left alone carries its latest document in the end, unless its IAM
\* policy got stranded.
EventuallyApplied ==
  <>[](Exists(cr) /\ ~cr.deleting) => <>[](iam = cr.rev) \/ <>[]Stranded

\* A Policy being deleted goes away once nothing is attached to it any more.
DeletionCompletes == <>[](~refs /\ ~bound) => []<>(~cr.deleting)

-----------------------------------------------------------------------------
(* What the repository says of the program and the code does not keep. *)

\* common.go:35, "ObservedGeneration holds the generation (metadata.generation in
\* CR) observed by the controller": a Policy left alone is observed in the end.
EventuallyObserved ==
  <>[](Exists(cr) /\ ~cr.deleting) => <>[](cr.status.og = cr.gen) \/ <>[]Stranded
==============================================================================
