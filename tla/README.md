# A TLA+ model of aws-iam-operator

The operator keeps IAM roles, policies, users, groups and policy attachments in AWS in step with
custom resources (CRs) of Kubernetes.  This directory holds TLA+ modules that model its controllers
step by step, TLC configurations that check them on small instances, and TLAPS proofs of what holds
for every instance.  `PROJECT.json` maps every definition to the lines of code it models.

Everything below refers to paths relative to the repository (`controllers/...` is
`src/controllers/...` in `PROJECT.json`).

## 1. Inventory

| Component | State it keeps | Operations | Where |
|---|---|---|---|
| Role controller | Role CR (spec, status, finalizer), IAM role, ServiceAccount | `Reconcile`, `getPolicyDoc`, `roleCleanup`, `createRoleServiceAccount` | `controllers/role_controller.go` |
| Policy controller | Policy CR, managed IAM policy | `Reconcile`, `policyCleanup` | `controllers/policy_controller.go` |
| PolicyAttachment controller | PolicyAttachment CR, attachment in AWS | `Reconcile`, `getPolicyAttachmentARNs`, `GetAttachmentType` | `controllers/policyattachment_controller.go` |
| Group controller | Group CR, IAM group and its members | `Reconcile`, `groupCleanup`, `AddUser` per member | `controllers/group_controller.go` |
| User controller | User CR, IAM user, two Secrets with credentials | `Reconcile`, `userCleanup`, `userSecret` | `controllers/user_controller.go` |
| Shared helpers | none of their own | `CreateAWSObject`, `UpdateAWSObject`, `DeleteAWSObject`, `errWithStatus`, `SuccessStatusUpdater`, `ErrorStatusUpdater` | `controllers/helpers.go` |
| Common status | ARN, State, ObservedGeneration, Message, LastSyncAttempt | read and written by all of the above | `api/v1beta1/common.go` |
| AssumeRolePolicy kind | a trust statement; no controller of its own | read by the Role controller | `api/v1beta1/assumerolepolicy_*.go` |
| Manager | caches, work queues, one worker per kind | start, stop, `RequeueAfter` interval | `main.go` |
| Glue and manifests | none | scheme registration, deep copies, CRDs, RBAC | `api/v1beta1/`, `config/` |

How they interact.  The controllers never call each other.  They meet in four places:

* **the API server**, where users write specs and delete, and controllers write finalizers and
  statuses; every write of a controller carries the resourceVersion of the copy it was made from
  and is refused (a conflict) if that version is no longer the stored one;
* **the informer caches**, which `client.Get` and `client.List` read, and which may be behind the
  API server, also behind the controller's own last write;
* **the work queue** of each kind: a change seen by the informer, an error returned by `Reconcile`
  or a `RequeueAfter` puts a request into it; one worker per kind takes them out one by one
  (`MaxConcurrentReconciles` is not set and defaults to 1);
* **AWS**, where a name can be created once and where IAM refuses to delete what has an attachment.

What is hard.  There is no lock and no transaction: a `Reconcile` is a sequence of calls to two
remote systems, working on a copy that may be old when it starts and older when it ends.  Any call
can fail, or succeed and lose its answer; the process can stop between two calls.  Several errors
are only logged (`helpers.go:127`, `helpers.go:141`) or dropped (`user_controller.go:180`, 193, 209, 222, 227).  An update of a Role or a Group is a deletion
and a creation.  The ARN, the one thing that lets the operator find what it created, is
recorded by a status write that may be refused.

What makes each component correct:

| Component | Correct when | Stated as |
|---|---|---|
| Role | skipping a `Reconcile` is never wrong; the status is true; its ServiceAccount is there; a known ARN is never lost; a CR never goes before an IAM role it knows; a Role is never out of sight; a Role left alone settles; a deletion ends | `QuietMeansWatched`, `SettledMeansApplied`, `StatusIsTrue`, `ServiceAccountOwned`, `ArnNeverForgotten`, `SettledNeverDiffers`, `LifecycleSpec`, `Converges`, `DeletionCompletes` |
| Policy | as above; no request that is needed is lost; the document in AWS never goes back to an older one | `QuietMeansApplied`, `NeverRolledBack`, `EventuallyApplied`, `SettledMeansApplied`, `ArnNeverForgotten`, `LifecycleSpec`, `DeletionCompletes` |
| PolicyAttachment | a settled one is attached; nothing but the attachments users changed away from is left; none is left unsettled without a request | `SettledMeansAttached`, `OnlyFormerPairsLeft`, `QuietMeansSettled`, `Converges`, `DeletionCompletes` |
| Group | no run brings back a user the spec does not list any more; a Group left alone settles once its users are there; no request that is needed is lost; ARN, finalizer and deletion as above | `NobodyElse`, `QuietMeansSettled`, `Converges`, `ArnNeverForgotten`, `LifecycleSpec`, `DeletionCompletes` |
| User | a Secret the status speaks of is the User's own; no retry rotates or removes working credentials; requests, ARN, finalizer, settling and deletion as above | `MadeMeansOwn`, `WorkingSecretKept`, `QuietMeansSettled`, `ArnNeverForgotten`, `LifecycleSpec`, `Converges`, `DeletionCompletes` |
| Policy and PolicyAttachment together | a settled attachment is in effect with the current document; both take effect, and go, whatever the order they came in | `SettledMeansInEffect`, `TakesEffect`, `PolicyGoes`, `AttachmentGoes`, `PolicySpec`, `AttachmentSteps` |
| Helpers | a failed call leaves ERROR or the former status, a finished one the ARN | part of all of the above |

## 2. Modules

```
Reconciler            one CR: API server, cache, queue, worker, writes that may be refused
 +- IamObject         helpers.go and one IAM object with one name;   refines  CloudResource
 |   +- RoleController       (MCRole)      proofs: RoleController_proofs
 |   +- PolicyController     (MCPolicy)    proofs: PolicyController_proofs
 |   +- GroupController      (MCGroup)     proofs: GroupController_proofs
 |   +- UserController       (MCUser)      proofs: UserController_proofs
 +- AttachmentController     (MCAttachment)  proofs: AttachmentController_proofs
Operator = PolicyController + AttachmentController   (MCOperator)   proofs: Operator_proofs
Reconciler_proofs, IamObject_proofs         lemmas about the shared steps
```

**Reconciler** is what every controller stands on.  `cr` is the stored CR, `cache` the informer's
copy, `obj` the copy a running `Reconcile` holds, `pc` the next call it makes.  A `Reconcile` is one
step per call to the outside: whatever the code computes between two such calls belongs to the step
before, so that users, informers, other controllers and faults can come in exactly where they can in
the program.  Steps of a controller are named for the call (`addFinalizer`, `cleanup`, `delete`,
`create`, `okStatus`, `observe`, ...).  `Accepted`, `Refused` and `Logged` are the three ways a write
goes: `Logged` is a write whose error the code only logs.

**IamObject** adds the IAM object (`iam` is what it was last created or updated with: the number of
the edit that wrote the spec, for a Role the version of the trust document as well, for a Group the
members), the steps of
`DeleteAWSObject`, `CreateAWSObject` and `UpdateAWSObject`, and the PolicyAttachments that make
a deletion fail: those in the cache (`refs`, looked at by the cleanup function) and those
in AWS (`bound`, looked at by IAM).

**CloudResource** is the abstract specification: a CR is absent, new, held by a finalizer or dying;
an AWS resource comes into being only while the CR is held or dying, its ARN is noted only while the
resource exists, and a CR that knows the ARN is released only after the resource is gone.
`LifecycleSpec` is the refinement: `INSTANCE CloudResource WITH phase <- Phase, known <-
cr.status.arn, ext <- iam # NoObject`.

**RoleController**, **PolicyController**, **GroupController**, **UserController** and **AttachmentController** are the five
`Reconcile` functions; the names of their actions are those of the functions or of the step they stand for, in
the order of the code.  RoleController adds the AssumeRolePolicy the Role refers to, stored and
cached, the requeue timer, and the ServiceAccount with Kubernetes' garbage collection.
GroupController adds the loop over the users of the spec (`todo`), one step per user, and the User CRs
and IAM users it needs (`listed`, `alive`).
UserController adds the two kinds of credentials of an IAM user (`iam.creds`), the Secrets they are
delivered in (`secrets`, `seen` for the informer's view), the new credentials a running `Reconcile` has
in memory (`held`), and in the status what was noted as created (`made`).  The steps that handle a Secret are the
same for the login profile and the access key: `SecretOf(k)` and `StatusOf(k)`, in the order of the code.
AttachmentController has the CRs it refers to (`listed`: the cache knows them with an ARN) and
their IAM objects (`alive`) come and go, and one history variable, `former`.

**Operator** puts two controllers side by side, each with its own CR, cache, queue and worker, over one AWS.  It
instantiates both modules and replaces what they leave to their surroundings by expressions over the other one's
state: `refs` (what `policyCleanup` lists) is that the cached PolicyAttachment names the Policy, `bound` that AWS has an
attachment of it, `listed` (what `getPolicyAttachmentARNs` finds) that the cached Policy has an ARN, `alive` that AWS
has the policy.  Its steps are the steps of the two modules; there are no others.  `PolicySpec` says that the
Policy cannot tell the difference: the composed system implements `PolicyController`'s specification, in which
PolicyAttachments come and go by themselves.  `AttachmentSteps` says the same of the PolicyAttachment, but for one step
that module allows only as a fault (`DeletedUnderReference`).

| State of the model | Code |
|---|---|
| `cr.fin`, `cr.deleting`, `cr.gen` | finalizer list, `DeletionTimestamp`, `metadata.generation` |
| `cr.status.state`, `.arn`, `.og`, `.readVer` | `State`, `ARN # ""`, `ObservedGeneration`, `ReadAssumeRolePolicyVersion` |
| `fresh`, `cacheFresh` | the copy's or the cache's `metadata.resourceVersion` is the stored one |
| `pc`, `obj` | where `Reconcile` is, and its variable `role`, `policy`, `group`, `policyAttachment` |
| `queued`, `timer` | a request in the work queue; a pending `RequeueAfter` |
| `secrets[k]`, `seen`, `cr.status.made` | the Secrets, the informer's Secrets, `LoginProfileCreated` and `ProgrammaticAccessCreated` |
| `held` | the credentials in `ins` after `Create` or `Update` |
| `resVer` | `polDoc` and `resVer` of `role_controller.go:73` |

### Abstractions

* resourceVersions are two Booleans: only "is it the stored one" is ever asked of them.  A write that
  changes nothing may keep the version (the API server skips it); whether it changes
  anything depends on `LastSyncAttempt`, which has a resolution of one minute and is left out, so
  both outcomes are allowed (`Stored`).
* The informer delivers the latest stored CR, at any later time; intermediate versions are skipped.
  One that is delivered and then superseded is the same as a later `Sync` at an earlier time.
* After a `r.Update` the answer is decoded over the copy.  As long as the server has no status, what
  `Reconcile` wrote into its copy's status survives; afterwards it is overwritten (`Answer`).  This is
  why a Role's `ReadAssumeRolePolicyVersion` can get lost between `role_controller.go:86` and 201.
* An ARN is a Boolean: the name of the IAM object does not change during the life of a CR
  (`awsRoleName` is not edited) and an ARN in a status can be parsed.
* One CR per controller and per IAM object.  Nobody but the operator touches the IAM object, apart
  from attachments.  One replica is active.
* A lost answer and a call that failed are *faults*, so is a restart; `MaxFaults` bounds them.
  Conflicts, stale caches, refused deletions and taken names are not faults: they happen in every run.
* cloud-objects is not in the repository.  What the code relies on is assumed: `Delete` without an ARN
  answers `NotYetCreated` (ignored by `ignoreDoesNotExistError`), `Create` fails on a taken name,
  `Update` without an ARN fails.  What it answers to a `Delete` of an object that is gone is left
  open (`MissingDelete`): the Role runs for safety allow both answers and so do all proofs; the runs with
  liveness take the friendly one, because with the other one a deletion whose answer was lost is
  retried for ever.  That the retry of a deletion of what is gone comes to an end is therefore shown for such a library only.
* Of a Group's members: deleting an IAM group takes its members with it (the program never removes
  one), IAM does not delete a user that is a member, and users are added in any order (`todo`), which
  includes the order of the spec.  A User that is not found and one without an ARN are the same
  (`group_controller.go:150` drops the error of `Get`, line 156 then finds no ARN).
* Credentials are told apart by whether they work: `secrets[k].live`.  `Create` and `Update` of the library
  make and remove the two kinds one after the other, going by the spec and the status they are given
  (`user_controller.go:97`) and not by what AWS has, so a failure may leave any part of it done
  (`CreatedHalfway`, `UpdatedHalfway`, `DeletedHalfway`).  AWS refuses a second login profile and deletes no user
  that has credentials; whether removing what is gone already is an error is left open, as above.
* `SecretReference` in a User's status is not modelled apart from the flag it is written with.
* The informers of controller-runtime v0.12.3 enqueue everything again after ten hours (`ResyncUsers`).  Only the User's liveness
  needs it, so the other modules, whose CRs have to settle without it, do not have it.
* In Operator there is one Policy, one PolicyAttachment, targets that stay, and no faults or restarts: those are in the runs of
  the parts.  Users' edits are numbered for each kind separately.
* Left out of the code's paths: `GVKForObject` and `SetControllerReference` errors (the scheme is
  fixed), a NotFound from the creation of a ServiceAccount (its namespace is gone), and an
  `IAMService` error of a CR under deletion that has no finalizer of ours.

## 3. Runs

| Run | Bounds | Asks | Distinct states |
|---|---|---|---|
| `MCRole` | 3 edits, no faults, PolicyAttachments, OIDC | `TypeOK`, `SettledMeansApplied`, `StatusIsTrue`, `ServiceAccountOwned`, `ArnNeverForgotten` | 850 000 |
| `MCRoleFaults` | 2 edits, 2 faults, PolicyAttachments, an inline, a referring and an invalid spec | `SettledNeverDiffers`, `LifecycleInv`, `QuietMeansWatched`, `LifecycleSpec`, `Converges`, `DeletionCompletes` | 411 000 |
| `MCPolicy` | 3 edits, 2 faults, PolicyAttachments | `TypeOK`, `SettledMeansApplied`, `QuietMeansApplied`, `NeverRolledBack`, `EventuallyApplied`, `DeletionCompletes` | 117 000 |
| `MCGroup` | 2 edits, 1 fault, 2 users of whom one comes and goes, PolicyAttachments | `TypeOK`, `NobodyElse`, `QuietMeansSettled`, `Converges`, `DeletionCompletes` | 391 000 |
| `MCAttachment` | 3 edits, 1 fault, 2 targets of which one comes and goes, a Policy, an external policy, an invalid one | `TypeOK`, `SettledMeansAttached`, `OnlyFormerPairsLeft`, `QuietMeansSettled`, `Converges`, `DeletionCompletes` | 547 000 |
| `MCUser` | 2 edits, 1 fault, specs with one or the other kind of credentials, PolicyAttachments | `TypeOK`, `MadeMeansOwn`, `QuietMeansSettled`, `WorkingSecretKept`, `Converges`, `DeletionCompletes` | 586 000 |
| `MCOperator` | 1 edit of the Policy, 2 of the PolicyAttachment, which names the Policy or an external one | `SettledMeansInEffect`, `PolicySpec`, `AttachmentSteps`, `TakesEffect`, `PolicyGoes`, `AttachmentGoes` | 417 000 |
| `MCRoleOrphan`, `MCPolicyObserved`, `MCGroupMembers`, `MCUserCredentials`, `MCAttachmentRetarget` | 2 or 3 edits, at most 1 fault | one property each that the code does not keep, section 5 | |

**Bounds.**  `MaxEdits` counts creations and edits of the CR and, for a Role, writes of the
AssumeRolePolicy; deletions are free.  Three are needed: a creation, an edit (or a deletion and a
second creation under the same name), and one more write that makes a copy in hand stale while a
cached copy is stale in another way.  `MCRoleFaults` has two, beside its faults and the PolicyAttachments: with an inline spec
these are a creation and an edit or a second Role of the name, with a reference the Role and its AssumeRolePolicy in either order.
Two instances with three edits and two of the specs, one with two faults and no PolicyAttachments (597 000 states) and one with a fault and
PolicyAttachments (1.4 million), were checked by hand with the same result.  For a Group two suffice: every run of an edited
Group deletes and creates, so a second edit alone gives runs on copies of three ages (none, first,
second spec), and two users separate the one who was removed from the one who stays.  The same two suffice for a User, where they are a creation and either an edit that swaps
one kind of credentials for the other or a second User of the same name, which meets the first one's Secrets.
In `MCOperator` the PolicyAttachment has two edits because its interesting history is a retarget or
a second life; the Policy has one creation and any number of deletions.  The instance with the bounds exchanged (2 and 1, 300 000
states) and one with three edits shared between both (1.8 million states, beyond the five minutes a run may take) were
checked by hand with the same result, as was `MCAttachment` with a Policy that comes and goes as well (1.9 million).  Two edits give the shortest counterexamples of section 5.
`MaxFaults` is two because the interesting double failure is a call that took effect and was reported
as failed, followed by the failed write of that report, or by a restart.  `uid`, `gen` and
`rev` are bounded by `MaxEdits` and the deletions it allows.  Runs stop when users have used up their
edits and nothing is left to do, hence `CHECK_DEADLOCK FALSE`: an idle operator is no deadlock.
There is no symmetry: users' edits are numbered, and two targets play different parts.

**What the runs show.**

* `SettledMeansApplied` (Role): whenever the next `Reconcile` would return at
  `role_controller.go:83`, the IAM role was created with the spec and the trust document the cache
  shows.  The way to break it would be a run on an old copy that
  deletes and creates the IAM role and then manages to write its status; the resourceVersion
  forbids the write, so the stored CR has to be reconciled again.  With faults the invariant is
  weaker (`SettledNeverDiffers`), see the finding on State.
* For a Policy the same holds with faults, because a Policy is never deleted to be updated, and
  `NeverRolledBack` shows more: the order of updates in AWS follows the order of edits
  although runs work on cached copies.
* `ArnNeverForgotten`: no status write of a run that started with a copy without the ARN
  replaces a status with one.
* `NobodyElse`: a settled Group's IAM group, as long as there is one, has no member the spec does not
  list.  A run on an older copy may well add one, but its next status write is refused and the CR stays
  unsettled.  The other half, that all users of the spec are members, is not kept: section 5.
* `ServiceAccountOwned`: the first Role of a name that settles owns the ServiceAccount its spec asks for, although it is
  created after the status says OK and the run may be repeated on any copy.
* `MadeMeansOwn` (User): a User created while the Secret of a deleted one of the same name is
  still there never takes it for its own: `Create` fails, and fails again until it is collected.
  Credentials made meanwhile are in nobody's hands (`Unrecorded`), which is why `Converges` has that exception.
* `WorkingSecretKept`: retries after lost answers, lost status writes and stale copies can fail for ever, but they never
  rotate or remove credentials somebody may be using.
* `SettledMeansInEffect`, `TakesEffect` (Operator): a settled PolicyAttachment has its policy attached, with the document of
  the Policy if that is settled as well, and both get there in any order of creation.  Excluded is a Policy that is being deleted, or
  was created anew: `policyCleanup` looks into a cache, and a PolicyAttachment that has looked up the ARN but is not
  attached yet is seen by nobody.  IAM then deletes the policy under it; a settled PolicyAttachment is
  not looked at again when a new Policy of that name appears.
* `PolicyGoes`, `AttachmentGoes`: deletions end in whatever order the two are deleted, with two exceptions that really
  occur: the attachment to the Policy a retarget left behind in AWS refuses the deletion of the policy, and a PolicyAttachment that refers to a Policy
  without an ARN stays (section 5).
* `QuietMeansApplied`, `QuietMeansSettled`, `QuietMeansWatched`: a run that fails leaves its work to a later one, and what
  brings that one about is a request in the queue, an event on its way, or the Role's timer.  If none of them is there
  (`Quiet`) and no run is under way, the CR is settled, or it is gone; what a deletion waits for (a reference, an attachment, a user)
  keeps the request in the queue.  This is the part of liveness that is a safety property, and holds with the errors that
  are only logged, lost answers and restarts.  Five errors of the User's status writes are dropped without any retry;
  a lost answer of one of them does leave a User alone (until the resync), so its property is stated without faults, where what
  refuses such a write is a write of somebody else, whose event is a request of its own.
* `LifecycleSpec`: section 2.  `LifecycleInv` is the inductive invariant behind its proof, `ArnNeverForgotten` follows from both.
  The two runs of the Role check them; for the other kinds with an IAM object of their own they were checked on
  the instances of `MCPolicy`, `MCGroup` and `MCUser`, are proved for every instance (section 4), and have no run
  of their own any more.
* `Converges` and `DeletionCompletes` of a Role, a Group, a User or a Policy ask, where a deletion in AWS is part of the work, that
  nothing is attached to the IAM object any more: an update of a Role deletes, and as long as a PolicyAttachment refers to it
  `roleCleanup` refuses that (`role_controller.go:216`), so an edited Role with an attachment is retried and does not settle.  In all these runs
  PolicyAttachments come and go and may stay; `QuietMeansWatched` shows that a Role they hold up keeps its request.
* `Converges` and `EventuallyApplied` are as strong as the code allows: an IAM object
  whose ARN was never recorded (`Stranded`) stays so for ever, since `Create` fails on the
  taken name and nothing adopts it.
* `OnlyFormerPairsLeft`: the only attachments that survive are pairs a user changed the
  PolicyAttachment away from, whatever fails; a pair is even removed when its ARN never reached the
  status, because the references are resolved anew each time.

**Fairness.**  Weak fairness of the informers (they list and watch until they succeed), of
the timer (`RequeueAfter` is a delayed add to the queue), of the ten-hourly resync of the Users, of the garbage collector and of
`Reconcile` as a whole (controller-runtime's worker takes what is queued, and each step of a running
`Reconcile` is a call that returns).  Which outcome a step has is not assumed: an error that
depends on the state, such as an attachment that refuses a deletion, may repeat for ever.  No
fairness of users, of other controllers (but in Operator both have it), of faults or of restarts.  Back-off delays are not modelled:
they are finite.

## 4. Proofs

TLAPS proves, for every number of edits and faults, every set of specs, with and without
attachments and for every answer of the library, in `RoleController_proofs`,
`PolicyController_proofs`, `GroupController_proofs` (there also for every set of users), `UserController_proofs` and, for the
first row and its own, `AttachmentController_proofs` (for every set of targets and policies):

| Theorem | States |
|---|---|
| `TypeCorrect` | `Spec => []TypeOK` |
| `LifecycleCorrect` | `Spec => []LifecycleInv` |
| `RefinesCloudResource` | `Spec => LifecycleSpec` |
| `ArnIsKept` | `Spec => ArnNeverForgotten` |
| `QuietIsApplied` (Policy) | `Spec => []QuietMeansApplied` |
| `QuietIsSettled` (Group, User, PolicyAttachment) | `Spec => []QuietMeansSettled` |
| `QuietIsWatched` (Role) | `Spec => []QuietMeansWatched` |
| `SecretsAreOwn` (User) | `Spec => []MadeMeansOwn` |
| `WorkingSecretStays` (User) | `Spec => WorkingSecretKept` |
| `SettledIsNoOther` (Role) | `Spec => []SettledNeverDiffers` |
| `SettledIsApplied` (Role) | `Spec => []SettledMeansApplied` |
| `StatusTold` (Role) | `Spec => []StatusIsTrue` |
| `OwnerKept` (Role) | `Spec => []ServiceAccountOwned` |
| `SettledIsApplied` (Policy) | `Spec => []SettledMeansApplied` |
| `NoRollback` (Policy) | `Spec => NeverRolledBack` |
| `NobodyElseEver` (Group) | `Spec => []NobodyElse` |
| `OnlyFormerLeft` (PolicyAttachment) | `Spec => []OnlyFormerPairsLeft` |
| `SettledIsAttached` (PolicyAttachment) | `Spec => []SettledMeansAttached` |
| `PolicyCarriesOver` (Operator) | `Spec => PolicySpec`, that is `Spec => P!Spec` |
| `OneRaceOnly` (Operator) | `Spec => AttachmentSteps` |
| `PolicyStaysApplied`, `PolicyNoRollback`, `PolicyLifecycle`, `PolicyQuiet` (Operator) | the theorems of the Policy, of the composition |
| `OnlyFormerLeft` (Operator) | `Spec => []A!OnlyFormerPairsLeft` |
| `SettledIsInEffect` (Operator) | `Spec => []SettledMeansInEffect` |
| `QuietIsInEffect` (Operator) | with nothing left to do on either side, the attachment is in effect with the document of the last edit |

Assumptions: the named ones of the modules (`BoundsAssumption`, `IamAssumption`, `RoleAssumption`,
`PolicyAssumption`, `GroupAssumption`, `UserAssumption`, `AttachmentAssumption`, `OperatorAssumption`): bounds are naturals, the specs have the shape the CRD gives them, the zero
values are no real values.  TLC evaluates them in every run.

The refinement is not inductive by itself: that a run may remove the finalizer depends on what its
copy says, not on what is stored.  `LifecycleInv` says what a copy is worth:

* `StoredInv`: a stored CR that has an ARN or is being deleted has the finalizer;
* `CopyInv`: a copy with the finalizer and without a deletion, in the cache or in hand, pins the CR it
  was made of: the same CR (uid) is still stored and still has the finalizer, for only a
  run that saw the deletion removes it, and there is one worker;
* `AheadInv`: the cache is never behind the copy in hand, so the next run does not see less than
  this one did;
* `ArnInv`: an ARN a copy carries is that of the stored CR, or the CR was released and there is no
  IAM object any more;
* `FreshInv`: a copy with the current resourceVersion agrees with the stored CR on what a write of
  it would change, except for an ARN just obtained;
* `StepInv`: what `Reconcile` has established when it gets to a step: the finalizer before a creation
  (`Holding`), the IAM object before the status write (`Provisioned`), the ARN in the copy after it
  (`Recorded`), and no IAM object with a known ARN before the finalizer goes.

The argument has one lemma per shared step in `Reconciler_proofs` (types of the writes and of the
queue) and `IamObject_proofs` (the invariant's conjuncts, and the CloudResource step or stutter the
step maps to), and one case per action in the controllers' modules.  A Policy also needs that every
edit number in a copy is at most `edits` (`RevInv`), because the type of `iam` says that AWS carries
the document of an edit; a Group that every CR in a copy that exists has a spec somebody wrote (`SpecInv`), because
the loop runs over the users of the copy, and a User likewise.  `ArnNeverForgotten` follows from the refinement and the identity of the CR.

The User has a second inductive invariant, `SecretsInv`: what a copy notes as made was made by the CR of that uid (a uid is never
given twice, and `CopyInv` ties the copy in hand to the stored CR while a Secret is created); credentials in memory
or working in a Secret are known to AWS; nothing is in memory outside the steps that follow the creation or
update; and only a copy that is being deleted gets to the deletion.  `WorkingSecretStays` is an action property over it: of
all steps only the update (by what the spec does not list), the deletion and the removal of a Secret can
end working credentials, and each has its copy to justify it.

`PolicyCarriesOver` needs no invariant.  A step of the Policy's worker, its informer or its users is that step of
PolicyController by definition.  A step on the other side leaves the Policy's state alone, so it has to be
a stutter or PolicyController's `Attachments`: `refs` changes only when the PolicyAttachment's cache does, and then AWS
does not change; `bound` becomes true only when a pair is attached whose policy exists, which is what `Attachments` asks for.

`OneRaceOnly` is the same from the other side, and needs one (`SharedInv`).  A deletion of the policy while its PolicyAttachment
refers to it has to be a step AttachmentController leaves open (the policy vanishes under a pair that is not attached) or the race that
`DeletedUnderReference` names.  `RaceInv` says why there is no third case: between the look of `policyCleanup` and the deletion, a
PolicyAttachment that refers to the Policy is one written after the look, since one that was in the cache then would have ended
the run.  This rests on the cache (`AttachmentInv`): a cached PolicyAttachment is the stored one or has an older spec.

What a settled CR promises needs to know how old a copy can be:

* **Role** (`RoleInv`).  Spec and trust document change independently and have caches of their own.  The versions of the
  AssumeRolePolicy only go up (`VersionInv`): the version a status notes, that of the document in AWS and the cached one are in this
  order, so a settled status, whose version is the cached one, leaves no room between them.  For the spec, edit numbers
  identify it (`EditInv`) and a run beside a settled status works on the very edit that is settled (`NotedInv`): the run that wrote
  the status took its copy from the cache.  Without faults that run does not end between `DeleteRole` and `CreateRole`, and
  nothing is noted before the finalizer (`UnheldInv`); this is all `SettledIsApplied` adds to `SettledIsNoOther`.  TLC checked the
  invariant on the instance of `MCRole` and on one with faults (850 000 and 597 000 states) before it was proved.
* **Policy** (`DocumentInv`).  The edits are numbered upwards, a run takes its copy from a cache that does not go back, and
  AWS has the document of some run's copy.  So the numbers are ordered: stored CR, cache, copy in hand, AWS, each at least as
  new as the next.  `NoRollback` reads it off at the update.  For `SettledIsApplied` the write that notes a generation
  is accepted only on a current copy, whose document is the one in AWS; from then on nothing older than it can be written.
  A deletion is a generation of its own that no run notes (`ObservedInv`), so what is settled is not being deleted.
* **Group** (`MembersInv`).  Here AWS does go back: a run on an older copy recreates the group and adds what that copy lists.
  What saves `NobodyElse` is that a generation is noted by a run on a copy of it (`NotedInv`): no later copy is older, two
  copies of one generation have one spec (`SeenInv`), and so every later run adds users of that spec only.
* **PolicyAttachment** (`AttachmentInv`).  A pair that is attached and not a former one is that of the stored CR, which still
  has its finalizer (`StoredInv`): a copy's pair is that of the CR or one users changed it away from (`CopyInv`), and the finalizer goes
  only after the pair was detached (`StepInv`).  For `SettledIsAttached`, a run on a copy from before the observation detaches
  what is settled; without faults it goes on to attach it again (`SettledInv`), because IAM keeps what has an
  attachment and the references of what is settled stay attachable.  TLC checked `AttachmentInv` on two instances (547 000 and
  1.2 million states) before it was proved.

**Requests** (`RequestInv`, in every controller's proofs).  `Quiet` CRs are settled because every CR that is not settled has
a run under way that will ask for another one, a request, or an event that has not been delivered.  The step that could
break it is the one that ends a run without a request: it has written the observed generation.  If the write was accepted
the CR is settled, and that of the current generation, since an accepted copy is current (`GenInv`: a copy
of the stored version has the stored generation; the generation grows with every edit and with the stamp of a deletion).  If
it was refused, either the error is returned and the request queued again, or, where the User drops it, somebody else wrote and
the informer has yet to say so.  A skip is only taken by a run on a settled copy: if the copy is not the stored CR, an event
is pending (`SkipQuiet`), and a generation is noted by no copy of another one (`ObservedInv`).  The lemmas for the steps all
controllers share are in `Reconciler_proofs` (sections "Generations" and "Requests").

**The composition.**  Operator_proofs instantiates the proof modules of the two parts (`PP`, `AR`); what they assume of their constants is proved of the
Operator's (`PolicyConstants`, `AttachmentConstants`).  With `PolicyCarriesOver`, each theorem of a Policy alone is one of the
composition.  The PolicyAttachment's do not carry over like this, because the composition has the one race.
So its inductive invariant is kept again (`PairInv`, with the race counted among its faults by `Raced`): a step of the PolicyAttachment is
a step of its module, for which the lemmas of `AttachmentController_proofs` are cited, and a step of the Policy leaves all it
speaks of alone, except that the policy may go.  Unless it is the race, nothing refers to the policy then (`Unseen`), so nothing
that is settled is lost.  `SettledMeansInEffect` excludes the race by speaking of the first Policy of a name that is not being
deleted, and `FirstInv` is the reason why this is enough: as long as that one lives, no copy, in the cache or in hand, shows a deletion, so
nobody has deleted the policy yet.  With `PolicyStaysApplied` the document is the one the settled Policy shows, and
`QuietIsInEffect` puts it all together with the `Quiet` properties of both.  TLC checked the invariants on the instance of
`MCOperator` and on one with two edits of each (3.4 million states) before they were proved.

Every safety and action property a run checks is proved.  Model-checked only: liveness (`Converges`, `EventuallyApplied`, `DeletionCompletes`, `TakesEffect`,
`PolicyGoes`, `AttachmentGoes`), which is out of the prover's reach.

## 5. What the code does not keep

Each of these is a run whose property quotes the repository and which TLC refutes:

* **`MCRoleOrphan`, `NothingLeftBehind`.**  A user edits a Role while its IAM role is being created.  The
  status write that would record the ARN conflicts and is only logged; so does the one of the
  observed generation.  Every later run finds no ARN, tries to create a name that is taken, and reports
  ERROR.  Deleting the CR now removes the finalizer without deleting the IAM role.
* **`MCPolicyObserved`, `EventuallyObserved`.**  After a name was found taken and the Policy was updated,
  the error of the creation is returned before `ObservedGeneration` is written.  An edited Policy is updated
  again at every retry, and never observed.
* **`MCGroupMembers`, `AllUsersAdded`.**  A Group shows OK before its users are added, and that write puts
  a second request into the queue.  The second run starts on a copy from before the observed generation
  was written, deletes the IAM group, creates it anew and then meets a user whose CR is not listed (any
  more).  Its write of ERROR conflicts; the stored status says OK for the current generation and the
  members are gone, also when the user is back.
* **`MCUserCredentials`, `SecretsCreated`.**  A user turns the login profile of a User off and, while that is being
  carried out, on again.  The Secret is deleted, the write of `LoginProfileCreated = false` conflicts with the second edit, and its
  error is dropped (`user_controller.go:193`).  The next run finds the profile noted as created, makes none, deletes none, and
  settles: AWS has no login profile and there is no Secret, for good.
* **`MCAttachmentRetarget`, `OldTargetDetached`.**  A PolicyAttachment pointed at another target detaches
  the new pair, attaches it, and leaves the old attachment in AWS.

More were met while modelling and have no run of their own:

* A Role being deleted whose AssumeRolePolicy is gone, or whose spec is invalid, fails in `getPolicyDoc`
  (`role_controller.go:74`) before the deletion is looked at, and keeps its finalizer for ever; `DeletionCompletes` of the
  Role excludes it.  A PolicyAttachment whose target is gone does the same (`policyattachment_controller.go:67`).
* A run on a stale copy of a Role that was observed meanwhile deletes the IAM role and fails to create it; its write of ERROR
  conflicts.  The stored status says OK for the current generation, so no later run does anything and the IAM role is gone.  This
  is what makes `SettledNeverDiffers` weaker than `SettledMeansApplied`, and an exception of the Role's `Converges`.
* A Policy and its PolicyAttachment can wait for each other: the Policy under deletion, whose ARN was never recorded, for the
  PolicyAttachment to go (`policy_controller.go:174`), and the PolicyAttachment, which has its finalizer from an earlier external
  policy, for the Policy's ARN (`policyattachment_controller.go:253`).  `AttachmentGoes` names the state.
* `policyCleanup` lists a cache and misses a PolicyAttachment that is about to be attached; the policy goes under it
  (`DeletedUnderReference`, `policy_controller.go:168`).
* A Secret is looked for in the cache before it is deleted (`user_controller.go:184`): one created a moment ago is not found and
  stays, with credentials that do not work.
* With `addIRSAPolicy` and an `assumeRolePolicyRef` (the sample of the repository's README sets both) the reference is never read
  (`role_controller.go:248`).
* A Role that is deleted and created again while the old ServiceAccount still exists takes it for its own
  (`AlreadyExists`, `role_controller.go:307`); Kubernetes collects it with its old owner, and the settled Role never creates
  another.  `ServiceAccountOwned` is therefore stated of the first Role of a name.

## 6. Not modelled

* **Two CRs with one AWS name** (in two namespaces): the second one fails to create, or for a Policy overwrites the first.  Operator
  composes two kinds, not two CRs of one kind, which share a worker.
* **Roles, Users and Groups as targets in Operator**: `roleCleanup`, `userCleanup` and `groupCleanup` are those of
  `policyCleanup` with the target's name, and are checked in their own modules with attachments that come and go.
* **AssumeRolePolicy marshalling, deep copies, scheme, flags, metrics, manifests**: pure data or no
  state of their own.
* **Leader election**: one active replica is assumed; with two, two workers would run for one CR.
* **Changes of AWS by others, changes of `awsRoleName`.**

## 7. Plan

Done, in this order: Reconciler, CloudResource and IamObject; RoleController with its runs;
PolicyController; AttachmentController; GroupController; their proofs; UserController with its proofs; Operator and
`PolicyCarriesOver`; what a settled Policy, Group, PolicyAttachment and Role promise; `OneRaceOnly`; the theorems of both parts
in the composition and `SettledIsInEffect`; no request is lost (`Quiet...`), for each controller and the composition.

Next:

1. **Proofs**: every `Reconcile` ends by itself, from a measure of `pc` and, for a Group, of the users still to be added.
2. **Operator** with a Role in the place of the target, and with two CRs of one AWS name behind one worker.
