---------------------------- MODULE GroupController ----------------------------
(***************************************************************************)
(* GroupReconciler: the controller of the Group kind.  A Group CR stands   *)
(* for an IAM group with the users its spec lists.  An update deletes the  *)
(* IAM group and creates it anew; users are added one by one afterwards.   *)
(***************************************************************************)
EXTENDS IamObject

CONSTANTS
  Users,     \* User CRs a Group may list
  Volatile   \* those that come, go and lose their IAM user

GroupSpecs == [users : SUBSET Users]

\* What AWS keeps of a group.
IamGroups == [members : SUBSET Users]

GroupStatuses == [state : {"", "OK", "ERROR"}, arn : BOOLEAN, og : Nat]

ASSUME GroupAssumption ==
  /\ NoStatus = [state |-> "", arn |-> FALSE, og |-> 0]
  /\ Specs \subseteq GroupSpecs /\ NoSpec \notin GroupSpecs
  /\ NoObject \notin IamGroups /\ Volatile \subseteq Users

GroupSteps == {"errWithStatus", "addFinalizer", "cleanup", "delete", "errorStatus",
               "removeFinalizer", "create", "okStatus", "addUsers", "userError",
               "observe"}

VARIABLES
  todo,     \* users of the spec in hand that are not added yet
  listed,   \* User CRs the cache knows with an ARN in their status
  alive     \* User CRs whose IAM user exists

userVars == <<listed, alive>>
vars == <<base, todo, userVars, iam, attVars>>

TypeOK ==
  /\ BaseTypeOK(GroupStatuses, GroupSteps) /\ IamTypeOK(IamGroups)
  /\ todo \subseteq Users /\ listed \subseteq Users /\ alive \subseteq Users

Init ==
  /\ BaseInit /\ IamInit
  /\ todo = {} /\ listed = Users /\ alive = Users

Kept == UNCHANGED <<todo, userVars, iam, attVars>>

-----------------------------------------------------------------------------
(* The surroundings. *)

User == UserStep /\ Kept
SyncGroup == Sync /\ Kept
RestartOperator == Restart /\ todo' = {} /\ UNCHANGED <<userVars, iam, attVars>>
GroupAttachments == Attachments /\ UNCHANGED <<todo, userVars>>

ListingChanges ==
  /\ \E u \in Volatile : listed' \in {listed \union {u}, listed \ {u}}
  /\ listed' # listed
  /\ UNCHANGED <<base, todo, alive, iam, attVars>>

\* IAM deletes no user that is a member of a group.
IamUserChanges ==
  /\ \/ \E u \in Volatile \ alive : alive' = alive \union {u}
     \/ \E u \in Volatile \intersect alive :
          /\ iam # NoObject => u \notin iam.members
          /\ alive' = alive \ {u}
  /\ UNCHANGED <<base, todo, listed, iam, attVars>>

-----------------------------------------------------------------------------
(* Reconcile: from the request to the finalizer. *)

OnlyStatusUpdated(o) == o.status.og = o.gen /\ o.status.state = "OK"

\* Mutant: an update adds users to the IAM group there is.
UpdateInPlace(o) == IF o.status.arn THEN "okStatus" ELSE "create"

AfterFinalizer(o) == IF o.status.arn THEN "cleanup" ELSE "create"

FirstStep(o) == IF o.deleting THEN "cleanup"
                ELSE IF o.fin THEN AfterFinalizer(o) ELSE "addFinalizer"

\* Mutant: a Group without an ARN is taken to need no deletion.
NoArnNothingToDo(o) == OnlyStatusUpdated(o) \/ (o.deleting /\ ~o.status.arn)

NothingToDo(o) == OnlyStatusUpdated(o) \/ (o.deleting /\ ~o.fin)

NotFound == Dequeue /\ ~Exists(cache) /\ LoadAndReturn /\ Kept

\* IAMService fails: looked at before anything else, also for a settled Group.
IamServiceError ==
  /\ Dequeue /\ Exists(cache)
  /\ Load(cache, "errWithStatus") /\ Fault
  /\ Kept

Skip == Dequeue /\ Exists(cache) /\ NothingToDo(cache) /\ LoadAndReturn /\ Kept

Start ==
  /\ Dequeue /\ Exists(cache) /\ ~NothingToDo(cache)
  /\ Load(cache, FirstStep(cache)) /\ UNCHANGED faults
  /\ Kept

AddFinalizer ==
  /\ pc = "addFinalizer"
  /\ LET new == [cr EXCEPT !.fin = TRUE]
         o   == [Answer(obj) EXCEPT !.fin = TRUE]
     IN \/ Goto(AfterFinalizer(o), o) /\ Accepted(new)
        \/ Retry /\ Refused(new)
  /\ Kept

-----------------------------------------------------------------------------
(* Reconcile: the IAM group and its members. *)

Members == UNCHANGED <<todo, userVars>>

CleanupGroup == Cleanup /\ Members

DeleteGroup == Delete /\ Members

RemoveFinalizer ==
  /\ pc = "removeFinalizer"
  /\ \/ Return /\ Accepted(Absent)
     \/ Retry /\ Refused(Absent)
  /\ Kept

CreateGroup == pc = "create" /\ CreateAWSObject([members |-> {}], "errorStatus") /\ Members

\* The next step of the loop over the users of the spec.
NextUser(left) == IF left = {} THEN "observe" ELSE "addUsers"

\* The Group shows OK before its users are added.
OkStatusUpdate ==
  /\ pc = "okStatus"
  /\ LET o == [obj EXCEPT !.status = OkStatus(obj)] IN
       Goto(NextUser(o.spec.users), o) /\ Logged(WithStatus(o.status))
  /\ todo' = obj.spec.users /\ UNCHANGED <<userVars, iam, attVars>>

WithMembers(S) == [iam EXCEPT !.members = @ \union S]

\* A User CR that is not found looks like one without an ARN: the error of Get
\* is not assigned.
AddUser ==
  /\ pc = "addUsers"
  /\ \E u \in todo :
       \/ /\ u \in listed \intersect alive
          /\ iam' = WithMembers({u}) /\ todo' = todo \ {u}
          /\ Goto(NextUser(todo'), obj) /\ UNCHANGED faults
       \/ /\ u \notin listed \intersect alive
          /\ Goto("userError", obj) /\ todo' = {} /\ UNCHANGED <<iam, faults>>
       \/ /\ u \in listed /\ Fault
          /\ Goto("userError", obj) /\ todo' = {}
          /\ iam' \in {iam, WithMembers({u} \intersect alive)}
  /\ NoWrite /\ UNCHANGED <<userVars, attVars>>

\* errWithStatus, for a user that cannot be added.
UserError ==
  /\ pc = "userError"
  /\ Retry /\ Logged(WithStatus(ErrorStatus(obj)))
  /\ Kept

Observe ==
  /\ pc = "observe"
  /\ LET s == [obj.status EXCEPT !.og = obj.gen] IN
       \/ Return /\ Accepted(WithStatus(s))
       \/ Retry /\ Refused(WithStatus(s))
  /\ Kept

Report == ReportError /\ Kept

Reconcile ==
  \/ NotFound \/ IamServiceError \/ Skip \/ Start \/ AddFinalizer
  \/ CleanupGroup \/ DeleteGroup \/ RemoveFinalizer
  \/ CreateGroup \/ OkStatusUpdate \/ AddUser \/ UserError \/ Observe \/ Report

Next ==
  \/ User \/ SyncGroup \/ RestartOperator
  \/ GroupAttachments \/ ListingChanges \/ IamUserChanges \/ Reconcile

Spec == Init /\ [][Next]_vars

\* Nothing is assumed of users, PolicyAttachments, User CRs and faults.
FairSpec == Spec /\ WF_vars(SyncGroup) /\ WF_vars(Reconcile)

-----------------------------------------------------------------------------
(* Properties. *)

Settled(o) == Exists(o) /\ OnlyStatusUpdated(o)

\* Nobody is a member of a settled Group's IAM group whom its spec does not
\* list: no run on an older copy brings a removed user back, whatever fails.
NobodyElse == Settled(cr) => iam = NoObject \/ iam.members \subseteq cr.spec.users

\* When nothing is left to do, the Group there is has been observed and nobody waits for
\* its deletion: a user that cannot be added keeps the request in the queue.
QuietMeansSettled == Quiet /\ Exists(cr) => ~cr.deleting /\ Settled(cr)

\* A Group whose users are all there and that is left alone settles for good,
\* unless its IAM group got stranded.
Ready == /\ Exists(cr) /\ ~cr.deleting /\ ~refs /\ ~bound
         /\ cr.spec.users \subseteq listed \intersect alive

Converges == <>[]Ready => <>[](Settled(cr)) \/ <>[]Stranded

\* A Group being deleted goes away once nothing is attached to it any more.
DeletionCompletes == <>[](~refs /\ ~bound) => []<>(~cr.deleting)

-----------------------------------------------------------------------------
(* What the repository says of the program and the code does not keep. *)

\* group_types.go:27, "Users holds the list of all Users to be added the group":
\* when every later Reconcile will find the Group settled, its IAM group has them all.
AllUsersAdded ==
  pc = "idle" /\ cacheFresh /\ Settled(cr) /\ iam # NoObject
    => cr.spec.users \subseteq iam.members
==============================================================================
