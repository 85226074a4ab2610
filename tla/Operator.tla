------------------------------- MODULE Operator -------------------------------
(***************************************************************************)
(* The operator's process (main.go) with two of its controllers: one       *)
(* Policy and one PolicyAttachment that may refer to it.  What each module *)
(* leaves to its surroundings is here what the other controller does: the  *)
(* Policy's cleanup finds the PolicyAttachment in the shared cache and IAM *)
(* its attachment; the PolicyAttachment finds the Policy with its ARN in   *)
(* the cache, and in IAM the policy to attach.  The targets stay.          *)
(***************************************************************************)
EXTENDS Naturals

CONSTANTS
  Documents,        \* specs of the Policy
  Bindings,         \* specs of the PolicyAttachment
  Targets, Externals, NoPolicy,   \* as in AttachmentController
  policy,           \* the Policy, as a PolicyAttachment names it
  NoSpec, NoStatus, MissingDelete,
  PolicyEdits, AttachmentEdits    \* bounds: creations and spec edits of each

ASSUME OperatorAssumption ==
  /\ PolicyEdits \in Nat /\ AttachmentEdits \in Nat
  /\ Bindings \subseteq [target : Targets, policy : {policy} \union Externals]
  /\ policy \notin Targets \union Externals
  /\ NoPolicy \notin Targets \union {policy} \union Externals
  /\ NoSpec \notin Documents \union Bindings
  /\ NoStatus = [state |-> "", arn |-> FALSE, og |-> 0]
  /\ MissingDelete \subseteq {"ok", "error"} /\ MissingDelete # {}

VARIABLES
  pcr, pcache, pcacheFresh, pobj, pfresh, ppc, pqueued, pedits,   \* of the Policy
  acr, acache, acacheFresh, aobj, afresh, apc, aqueued, aedits,   \* of the PolicyAttachment
  iam,        \* the IAM policy
  attached,   \* attachments in AWS
  former,     \* history: see AttachmentController
  looked      \* history: rev of the PolicyAttachment policyCleanup found, until Delete

policyVars == <<pcr, pcache, pcacheFresh, pobj, pfresh, ppc, pqueued, pedits, iam>>
attachmentVars ==
  <<acr, acache, acacheFresh, aobj, afresh, apc, aqueued, aedits, attached, former>>
vars == <<policyVars, attachmentVars, looked>>

RefersTo(o) == o.uid # 0 /\ o.spec.policy = policy

\* What policyCleanup lists, and what IAM looks for.
Refs  == RefersTo(acache)
Bound == \E p \in attached : p.policy = policy

P == INSTANCE PolicyController WITH
       cr <- pcr, cache <- pcache, cacheFresh <- pcacheFresh, obj <- pobj,
       fresh <- pfresh, pc <- ppc, queued <- pqueued, edits <- pedits,
       refs <- Refs, bound <- Bound, faults <- 0,
       Specs <- Documents, NoObject <- 0, Attachable <- TRUE,
       MaxEdits <- PolicyEdits, MaxFaults <- 0

\* What getPolicyAttachmentARNs finds, and what can be attached.
Listed == Targets \union (IF pcache.status.arn THEN {policy} ELSE {})

\* Mutant: a policy whose ARN is known is taken to exist.
ListedIsAlive == Listed

Alive == Targets \union (IF iam # 0 THEN {policy} ELSE {})

A == INSTANCE AttachmentController WITH
       cr <- acr, cache <- acache, cacheFresh <- acacheFresh, obj <- aobj,
       fresh <- afresh, pc <- apc, queued <- aqueued, edits <- aedits,
       listed <- Listed, alive <- Alive, faults <- 0,
       Specs <- Bindings, Policies <- {policy}, Volatile <- {policy},
       MaxEdits <- AttachmentEdits, MaxFaults <- 0

Init ==
  /\ P!BaseInit /\ A!BaseInit
  /\ iam = 0 /\ attached = {} /\ former = {} /\ looked = 0

-----------------------------------------------------------------------------
(* Two informers, and two workers that know nothing of each other. *)

UserOfPolicy == UNCHANGED <<attachmentVars, looked>> /\ P!User
SyncPolicy   == UNCHANGED <<attachmentVars, looked>> /\ P!SyncPolicy

ReconcilePolicy ==
  /\ UNCHANGED attachmentVars /\ P!Reconcile
  /\ looked' = IF ppc = "cleanup" /\ ppc' = "delete" THEN acache.rev ELSE 0

UserOfAttachment    == UNCHANGED <<policyVars, looked>> /\ A!User
SyncAttachment      == UNCHANGED <<policyVars, looked>> /\ A!SyncAttachment
ReconcileAttachment == UNCHANGED <<policyVars, looked>> /\ A!Reconcile

Next ==
  \/ UserOfPolicy \/ SyncPolicy \/ ReconcilePolicy
  \/ UserOfAttachment \/ SyncAttachment \/ ReconcileAttachment

Spec == Init /\ [][Next]_vars

\* Nothing is assumed of users.
FairSpec ==
  /\ Spec /\ WF_vars(SyncPolicy) /\ WF_vars(ReconcilePolicy)
  /\ WF_vars(SyncAttachment) /\ WF_vars(ReconcileAttachment)

-----------------------------------------------------------------------------
(* Properties. *)

\* What PolicyController leaves open of its surroundings covers what the other
\* controller does: seen from the Policy, PolicyAttachments come and go one way at a
\* time, and nothing is attached that does not exist.  All that is shown of
\* PolicyController's Spec therefore holds in the composed system.
PolicySpec == P!Spec

\* So does what AttachmentController leaves open, but for a race: IAM deletes the policy
\* under a PolicyAttachment that was written, or came into the cache, only after
\* the Policy's cleanup had looked (policy_controller.go:168).  That module counts
\* it as a fault.
DeletedUnderReference ==
  /\ iam # 0 /\ iam' = 0 /\ ~Bound
  /\ RefersTo(acr) /\ acr.rev > looked
  /\ UNCHANGED <<attachmentVars, Listed>>

AttachmentSteps == [][A!Next \/ DeletedUnderReference]_(A!vars)

InEffect == acr.spec \in attached /\ iam # 0

\* Once the PolicyAttachment is settled, its target has the Policy, with the current
\* document if the Policy is settled too.  A Policy under deletion, or created
\* anew after one, is excluded: its cleanup may have missed the PolicyAttachment.
SettledMeansInEffect ==
  /\ ppc = "idle" /\ apc = "idle" /\ A!Settled(acr) /\ RefersTo(acr)
  /\ pcr.uid = 1 /\ ~pcr.deleting
  => InEffect /\ (P!OnlyStatusUpdated(pcr) => iam = pcr.rev)

\* A Policy and a PolicyAttachment that are left alone take effect, whichever came
\* first, unless the IAM policy got stranded, or the PolicyAttachment had settled
\* on an earlier Policy of that name.
TakesEffect ==
  <>[](/\ P!Exists(pcr) /\ ~pcr.deleting
       /\ RefersTo(acr) /\ ~acr.deleting)
    => \/ <>[](InEffect /\ iam = pcr.rev) \/ <>[]P!Stranded
       \/ <>[](A!Settled(acr) /\ pcr.uid # 1)

\* A Policy being deleted goes away once there is no PolicyAttachment, unless one
\* was pointed elsewhere before and its attachment to the Policy is left behind in AWS.
PolicyGoes ==
  <>[](~A!Exists(acr))
    => \/ []<>(~pcr.deleting)
       \/ <>[](\E p \in attached \intersect former : p.policy = policy)

\* A PolicyAttachment being deleted goes away, unless the Policy it refers to has no
\* ARN: its cleanup missed the PolicyAttachment, or the policy was never
\* created in AWS.  Then it stays, and a Policy under deletion waits for it in turn.
AttachmentGoes ==
  []<>(~acr.deleting) \/ <>[](RefersTo(acr) /\ ~pcr.status.arn)
==============================================================================
