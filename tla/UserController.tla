---------------------------- MODULE UserController ----------------------------
(***************************************************************************)
(* UserReconciler: the controller of the User kind.  A User CR stands for  *)
(* an IAM user and, as its spec asks, for a login profile and an access    *)
(* key of it.  AWS tells such credentials once, when it makes them; the    *)
(* controller writes them into a Secret that the CR owns and notes in the  *)
(* status that it did.                                                     *)
(***************************************************************************)
EXTENDS IamObject

\* The login profile (name and password) and the programmatic access.
Kinds == {"login", "keys"}

UserSpecs == [creds : SUBSET Kinds]

\* What AWS keeps of a user: the kinds of credentials it has.
IamUsers == [creds : SUBSET Kinds]

\* made: LoginProfileCreated and ProgrammaticAccessCreated.
UserStatuses ==
  [state : {"", "OK", "ERROR"}, arn : BOOLEAN, og : Nat, made : SUBSET Kinds]

ASSUME UserAssumption ==
  /\ NoStatus = [state |-> "", arn |-> FALSE, og |-> 0, made |-> {}]
  /\ Specs \subseteq UserSpecs /\ NoSpec \notin UserSpecs
  /\ NoObject \notin IamUsers

UserSteps == {"errWithStatus", "addFinalizer", "cleanup", "delete", "errorStatus",
              "removeFinalizer", "create", "update", "okStatus", "loginSecret",
              "loginStatus", "keysSecret", "keysStatus", "observe"}

\* Secrets in the API server: owner is the uid of the owning User, 0 for no
\* Secret; live says that the credentials in it work.
Secrets == [owner : Nat, live : BOOLEAN]
NoSecret == [owner |-> 0, live |-> FALSE]

VARIABLES
  secrets,   \* the Secret for each kind of credentials
  seen,      \* kinds whose Secret the informer cache has
  held       \* kinds of new credentials the running Reconcile has in memory

vars == <<base, secrets, seen, held, iam, attVars>>

TypeOK ==
  /\ BaseTypeOK(UserStatuses, UserSteps) /\ IamTypeOK(IamUsers)
  /\ secrets \in [Kinds -> Secrets] /\ seen \subseteq Kinds /\ held \subseteq Kinds

Init ==
  /\ BaseInit /\ IamInit
  /\ secrets = [k \in Kinds |-> NoSecret] /\ seen = {} /\ held = {}

\* What is in memory is lost when the call of Reconcile ends.  Used after pc'.
Memory == held' = IF pc' = "idle" THEN {} ELSE held

Kept == Memory /\ UNCHANGED <<secrets, seen, iam, attVars>>

InStore(S) == {k \in Kinds : S[k].owner # 0}

-----------------------------------------------------------------------------
(* The surroundings. *)

User == UserStep /\ Kept
SyncUser == Sync /\ Kept
UserAttachments == Attachments /\ UNCHANGED <<secrets, seen, held>>

RestartOperator ==
  /\ Restart /\ Memory
  /\ seen' = InStore(secrets) /\ UNCHANGED <<secrets, iam, attVars>>

\* The informer of the Users is resynced every ten hours: every one of them is
\* enqueued again.
ResyncUsers ==
  /\ Exists(cache) /\ ~queued /\ queued' = TRUE
  /\ UNCHANGED <<cr, cache, cacheFresh, obj, fresh, pc, edits, faults>> /\ Kept

SyncSecrets ==
  /\ seen' = InStore(secrets) /\ seen' # seen
  /\ UNCHANGED <<base, secrets, held, iam, attVars>>

\* The garbage collector takes the Secrets of a User that is gone.
CollectSecret ==
  /\ \E k \in InStore(secrets) :
       /\ secrets[k].owner # cr.uid
       /\ secrets' = [secrets EXCEPT ![k] = NoSecret]
  /\ UNCHANGED <<base, seen, held, iam, attVars>>

-----------------------------------------------------------------------------
(* Reconcile: from the request to the finalizer. *)

OnlyStatusUpdated(o) == o.status.og = o.gen /\ o.status.state = "OK"

\* Mutant: a User without an ARN is taken to need no deletion.
NoArnNothingToDo(o) == OnlyStatusUpdated(o) \/ (o.deleting /\ ~o.status.arn)

NothingToDo(o) == OnlyStatusUpdated(o) \/ (o.deleting /\ ~o.fin)

AfterFinalizer(o) == IF o.status.arn THEN "update" ELSE "create"

FirstStep(o) == IF o.deleting THEN "cleanup"
                ELSE IF o.fin THEN AfterFinalizer(o) ELSE "addFinalizer"

NotFound == Dequeue /\ ~Exists(cache) /\ LoadAndReturn /\ Kept

Skip == Dequeue /\ Exists(cache) /\ NothingToDo(cache) /\ LoadAndReturn /\ Kept

\* A settled User is left alone before IAMService is asked for.
IamServiceError ==
  /\ Dequeue /\ Exists(cache) /\ ~OnlyStatusUpdated(cache)
  /\ Load(cache, "errWithStatus") /\ Fault
  /\ Kept

Start ==
  /\ Dequeue /\ Exists(cache) /\ ~NothingToDo(cache)
  /\ Load(cache, FirstStep(cache)) /\ UNCHANGED faults
  /\ Kept

AddFinalizer ==
  /\ pc = "addFinalizer"
  /\ LET new == [cr EXCEPT !.fin = TRUE]
         o   == [Answer(obj) EXCEPT !.fin = TRUE]
     IN \/ Goto(AfterFinalizer(o), o) /\ Accepted(new)
        \/ Retry /\ Refused(new)
  /\ Kept

-----------------------------------------------------------------------------
(* Reconcile: the IAM user and its credentials. *)

\* Credentials that AWS does not know any more are of no use to whoever reads
\* them from a Secret.  Used after iam'.
Revoked ==
  /\ secrets' = [k \in Kinds |-> [secrets[k] EXCEPT
                   !.live = @ /\ iam' # NoObject /\ k \in iam'.creds]]
  /\ UNCHANGED seen

CleanupUser == Cleanup /\ Memory /\ UNCHANGED <<secrets, seen>>

\* The library drops the credentials the status speaks of, and then the user,
\* which AWS keeps as long as it has others.
MayDrop(S) == S \subseteq iam.creds \/ "ok" \in MissingDelete
MayNotDrop(S) == ~(S \subseteq iam.creds) /\ "error" \in MissingDelete

DeletedHalfway ==
  /\ pc = "delete" /\ obj.status.arn /\ iam # NoObject
  /\ \/ /\ bound \/ MayNotDrop(obj.status.made) \/ ~(iam.creds \subseteq obj.status.made)
        /\ UNCHANGED faults
     \/ Fault
  /\ \E C \in SUBSET obj.status.made : iam' = [iam EXCEPT !.creds = @ \ C]
  /\ Goto("errorStatus", obj) /\ NoWrite /\ UNCHANGED attVars

DeleteUser ==
  /\ \/ /\ Delete
        /\ iam' # iam => iam.creds \subseteq obj.status.made /\ MayDrop(obj.status.made)
     \/ DeletedHalfway
  /\ Memory /\ Revoked

RemoveFinalizer ==
  /\ pc = "removeFinalizer"
  /\ \/ Return /\ Accepted(Absent)
     \/ Retry /\ Refused(Absent)
  /\ Kept

\* A failure may come after the user was made, or one of its credentials.
CreatedHalfway ==
  /\ iam = NoObject /\ Fault
  /\ \E C \in SUBSET obj.spec.creds : iam' = [creds |-> C]
  /\ Goto("errorStatus", obj) /\ NoWrite /\ UNCHANGED attVars

CreateUser ==
  /\ pc = "create"
  /\ CreateAWSObject([creds |-> obj.spec.creds], "errorStatus") \/ CreatedHalfway
  /\ held' = IF pc' = "okStatus" THEN obj.spec.creds ELSE held
  /\ UNCHANGED <<secrets, seen>>

\* The library goes by the spec and the status of the copy, not by what AWS has.
ToMake == obj.spec.creds \ obj.status.made

\* Mutant: an update makes the credentials anew.
AllMade == obj.status.made

ToDrop == obj.status.made \ obj.spec.creds

UpdatedHalfway ==
  /\ \/ (ToMake \intersect iam.creds # {} \/ MayNotDrop(ToDrop)) /\ UNCHANGED faults
     \/ Fault
  /\ \E M \in SUBSET ToMake, D \in SUBSET ToDrop :
       iam' = [iam EXCEPT !.creds = (@ \union M) \ D]
  /\ Goto("errorStatus", obj)

\* Where AWS already has credentials of a kind to be made, it refuses others
\* (a second login profile) or makes them besides (a second access key).
UpdateUser ==
  /\ pc = "update"
  /\ \/ /\ iam # NoObject /\ MayDrop(ToDrop)
        /\ iam' = [iam EXCEPT !.creds = (@ \union ToMake) \ ToDrop]
        /\ Goto("okStatus", obj) /\ UNCHANGED faults
     \/ iam # NoObject /\ UpdatedHalfway
     \/ /\ iam = NoObject /\ iam' = iam
        /\ Goto("errorStatus", obj) /\ (UNCHANGED faults \/ Fault)
  /\ held' = IF pc' = "okStatus" THEN ToMake ELSE held
  /\ NoWrite /\ Revoked /\ UNCHANGED attVars

OkStatusUpdate ==
  /\ pc = "okStatus"
  /\ LET o == [obj EXCEPT !.status = OkStatus(obj)] IN
       Goto("loginSecret", o) /\ Logged(WithStatus(o.status))
  /\ Kept

-----------------------------------------------------------------------------
(* Reconcile: the Secrets, of the login profile first. *)

SecretStep == [login |-> "loginSecret", keys |-> "keysSecret"]
StatusStep == [login |-> "loginStatus", keys |-> "keysStatus"]
AfterKind  == [login |-> "keysSecret", keys |-> "observe"]

WithSecret(k, s) == [secrets EXCEPT ![k] = s]

\* Mutant: a Secret that is there already will do.
TakenForCreated(k) == TRUE

Creatable(k) == secrets[k].owner = 0

\* Create fails on a Secret that is there already; no error is reported.
CreateSecret(k) ==
  /\ k \in obj.spec.creds \ obj.status.made
  /\ LET new == WithSecret(k, [owner |-> obj.uid, live |-> k \in held]) IN
       \/ /\ Creatable(k) /\ Goto(StatusStep[k], obj) /\ UNCHANGED faults
          /\ secrets' = IF secrets[k].owner = 0 THEN new ELSE secrets
       \/ ~Creatable(k) /\ Retry /\ UNCHANGED <<secrets, faults>>
       \/ /\ Fault /\ Retry
          /\ secrets' \in {secrets, IF secrets[k].owner = 0 THEN new ELSE secrets}

\* Get asks the cache, Delete the API server, which may have a Secret since or
\* none any more.
DeleteSecret(k) ==
  /\ k \notin obj.spec.creds /\ k \in seen
  /\ \/ /\ secrets' = WithSecret(k, NoSecret)
        /\ Goto(StatusStep[k], obj) /\ UNCHANGED faults
     \/ /\ Fault /\ Retry
        /\ secrets' \in {secrets, WithSecret(k, NoSecret)}

LeaveSecret(k) ==
  /\ IF k \in obj.spec.creds THEN k \in obj.status.made ELSE k \notin seen
  /\ Goto(AfterKind[k], obj) /\ UNCHANGED <<secrets, faults>>

SecretOf(k) ==
  /\ pc = SecretStep[k]
  /\ CreateSecret(k) \/ DeleteSecret(k) \/ LeaveSecret(k)
  /\ NoWrite /\ Memory /\ UNCHANGED <<seen, iam, attVars>>

\* LoginProfileCreated and LoginProfileSecret; the error of the write is dropped.
StatusOf(k) ==
  /\ pc = StatusStep[k]
  /\ LET made == IF k \in obj.spec.creds THEN obj.status.made \union {k}
                 ELSE obj.status.made \ {k}
         s    == [obj.status EXCEPT !.made = made]
     IN Goto(AfterKind[k], [obj EXCEPT !.status = s]) /\ Logged(WithStatus(s))
  /\ Kept

\* Mutant: the generation is not noted.
ForgetGeneration(o) == o.status

Observed(o) == [o.status EXCEPT !.og = o.gen]

\* The error of this write is dropped as well.
Observe ==
  /\ pc = "observe"
  /\ Return /\ Logged(WithStatus(Observed(obj)))
  /\ Kept

Report == ReportError /\ Kept

Reconcile ==
  \/ NotFound \/ Skip \/ IamServiceError \/ Start \/ AddFinalizer
  \/ CleanupUser \/ DeleteUser \/ RemoveFinalizer
  \/ CreateUser \/ UpdateUser \/ OkStatusUpdate
  \/ (\E k \in Kinds : SecretOf(k) \/ StatusOf(k)) \/ Observe \/ Report

Next ==
  \/ User \/ SyncUser \/ UserAttachments \/ RestartOperator \/ ResyncUsers
  \/ SyncSecrets \/ CollectSecret \/ Reconcile

Spec == Init /\ [][Next]_vars

\* Nothing is assumed of users, PolicyAttachments and faults.
FairSpec ==
  /\ Spec /\ WF_vars(SyncUser) /\ WF_vars(ResyncUsers)
  /\ WF_vars(SyncSecrets) /\ WF_vars(CollectSecret) /\ WF_vars(Reconcile)

-----------------------------------------------------------------------------
(* Properties. *)

Settled(o) == Exists(o) /\ OnlyStatusUpdated(o)

\* A status that says a Secret was created speaks of a Secret of this very User,
\* or of one somebody deleted since: never of the one a User of the same name
\* left behind, with credentials of an IAM user that is gone.
MadeMeansOwn ==
  \A k \in cr.status.made : secrets[k].owner \in {0, cr.uid}

\* The inductive invariant behind this property and the next.  A Secret is made for the CR that the
\* copy in hand and the cache are of, the status notes only what this CR made, and
\* credentials work only while AWS has them.
SecretsInv ==
  /\ \A o \in {cr, cache, obj} :
       \A k \in o.status.made : secrets[k].owner \in {0, o.uid}
  /\ \A k \in Kinds : pc = StatusStep[k] /\ k \in obj.spec.creds
                       => secrets[k].owner \in {0, obj.uid}
  /\ \A k \in Kinds : k \in held \/ secrets[k].live => iam # NoObject /\ k \in iam.creds
  /\ pc \notin Provisioned => held = {}
  /\ pc \in {"cleanup", "delete"} => obj.deleting

\* Credentials delivered in a Secret keep working until a run that was started
\* for a spec without them, or for the deletion, takes them away: no retry after
\* a lost answer or a lost status write rotates them or removes the Secret.
WorkingSecretKept ==
  [][\A k \in Kinds :
       secrets[k].live /\ secrets[k].owner = cr.uid /\ ~secrets'[k].live
         => Exists(obj) /\ (obj.deleting \/ k \notin obj.spec.creds)]_secrets

\* Without faults, when nothing is left to do, the User there is has been observed and
\* nobody waits for its deletion, although the errors of five status writes are dropped
\* (user_controller.go:180, 193, 209, 222, 227): a write is refused only because of
\* another one, which makes a request of its own.
QuietMeansSettled == faults = 0 /\ Quiet /\ Exists(cr) => ~cr.deleting /\ Settled(cr)

\* AWS or the API server have credentials the status does not know of: making
\* them again keeps failing.
Unrecorded ==
  /\ Exists(cr)
  /\ \E k \in cr.spec.creds \ cr.status.made :
       (iam # NoObject /\ k \in iam.creds) \/ secrets[k].owner = cr.uid

\* A User that is left alone settles for good, unless its IAM user or some of its
\* credentials got stranded.
Converges ==
  <>[](Exists(cr) /\ ~cr.deleting)
    => <>[](Settled(cr)) \/ <>[]Stranded \/ <>[]Unrecorded

\* A User being deleted goes away once nothing is attached to its IAM user any
\* more and it has no credentials the status does not know of.
DeletionCompletes ==
  <>[](~refs /\ ~bound /\ (iam # NoObject => iam.creds \subseteq cr.status.made))
    => []<>(~cr.deleting)

-----------------------------------------------------------------------------
(* What the repository says of the program and the code does not keep. *)

\* user_types.go:26, "creates a user/pass secret", and 29, "creates a cred secret":
\* when every later Reconcile will find the User settled, it has the Secrets its
\* spec asks for.
SecretsCreated ==
  pc = "idle" /\ cacheFresh /\ Settled(cr) /\ ~cr.deleting
    => \A k \in cr.spec.creds : secrets[k].owner = cr.uid
==============================================================================
