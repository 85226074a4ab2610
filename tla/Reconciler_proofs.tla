--------------------------- MODULE Reconciler_proofs ---------------------------
(***************************************************************************)
(* Lemmas about the environment of a controller, for any set of statuses   *)
(* and of steps: what its building blocks do to the types.                 *)
(***************************************************************************)
EXTENDS Reconciler, TLAPS

\* The constant part of the types: the records the environment starts from.
LEMMA AbsentType ==
  ASSUME NEW Statuses, NoStatus \in Statuses
  PROVE  Absent \in Resources(Statuses)
BY DEF Absent, Resources

\* A CR keeps its type when its status, its finalizer, or both are replaced.
LEMMA UpdatedType ==
  ASSUME NEW Statuses, NEW o \in Resources(Statuses), NEW s \in Statuses
  PROVE  /\ o.status \in Statuses
         /\ [o EXCEPT !.status = s] \in Resources(Statuses)
         /\ [o EXCEPT !.fin = TRUE] \in Resources(Statuses)
BY DEF Resources

\* Users keep the types.
LEMMA UserType ==
  ASSUME NEW Statuses, NEW Steps, NoStatus \in Statuses,
         BaseTypeOK(Statuses, Steps), UserStep
  PROVE  BaseTypeOK(Statuses, Steps)'
<1>1. CASE UserCreate
  <2>1. PICK s \in Specs :
          WrittenByOthers([Absent EXCEPT !.uid = edits + 1, !.gen = 1,
                                         !.rev = edits + 1, !.spec = s])
    BY <1>1 DEF UserCreate
  <2>2. edits + 1 \in Nat /\ edits' \in 0 .. MaxEdits
    BY <1>1, BoundsAssumption DEF UserCreate, Edit, BaseTypeOK
  <2>3. [Absent EXCEPT !.uid = edits + 1, !.gen = 1, !.rev = edits + 1, !.spec = s]
          \in Resources(Statuses)
    BY <2>2, AbsentType DEF Resources
  <2> QED
    BY <1>1, <2>1, <2>2, <2>3 DEF UserCreate, WrittenByOthers, BaseTypeOK
<1>2. CASE UserEdit
  <2>1. PICK s \in Specs :
          WrittenByOthers([cr EXCEPT !.gen = cr.gen + 1, !.rev = edits + 1, !.spec = s])
    BY <1>2 DEF UserEdit
  <2>2. edits + 1 \in Nat /\ edits' \in 0 .. MaxEdits
    BY <1>2, BoundsAssumption DEF UserEdit, Edit, BaseTypeOK
  <2>3. cr.gen + 1 \in Nat
    BY DEF BaseTypeOK, Resources
  <2>4. [cr EXCEPT !.gen = cr.gen + 1, !.rev = edits + 1, !.spec = s] \in Resources(Statuses)
    BY <2>2, <2>3 DEF BaseTypeOK, Resources
  <2> QED
    BY <1>2, <2>1, <2>2, <2>4 DEF UserEdit, WrittenByOthers, BaseTypeOK
<1>3. CASE UserDelete
  <2>1. Absent \in Resources(Statuses)
    BY AbsentType
  <2>2. cr.gen + 1 \in Nat
    BY DEF BaseTypeOK, Resources
  <2>3. [cr EXCEPT !.deleting = TRUE, !.gen = cr.gen + 1] \in Resources(Statuses)
    BY <2>2 DEF BaseTypeOK, Resources
  <2> QED
    BY <1>3, <2>1, <2>3 DEF UserDelete, WrittenByOthers, BaseTypeOK
<1> QED
  BY <1>1, <1>2, <1>3 DEF UserStep

\* So does the informer, and a restart.
LEMMA SyncType ==
  ASSUME NEW Statuses, NEW Steps, NoStatus \in Statuses,
         BaseTypeOK(Statuses, Steps), Sync \/ Restart
  PROVE  BaseTypeOK(Statuses, Steps)'
<1>1. Absent \in Resources(Statuses)
  BY AbsentType
<1>2. CASE Sync
  BY <1>2 DEF Sync, BaseTypeOK
<1>3. CASE Restart
  <2>1. faults' \in 0 .. MaxFaults
    BY <1>3, BoundsAssumption DEF Restart, Fault, BaseTypeOK
  <2>2. queued' \in BOOLEAN
    BY <1>3 DEF Restart, Exists
  <2> QED
    BY <1>1, <1>3, <2>1, <2>2 DEF Restart, BaseTypeOK
<1> QED
  BY <1>2, <1>3

\* A write keeps the types if what it writes has one and the step it is part
\* of leaves pc, obj and queued well-typed.
LEMMA WriteType ==
  ASSUME NEW Statuses, NEW Steps, NEW new \in Resources(Statuses),
         BaseTypeOK(Statuses, Steps), Logged(new),
         pc' \in Steps \union {"idle"}, obj' \in Resources(Statuses), queued' \in BOOLEAN
  PROVE  BaseTypeOK(Statuses, Steps)'
<1>1. cr' \in Resources(Statuses) /\ cacheFresh' \in BOOLEAN
  BY DEF Logged, Accepted, Refused, Stored, BaseTypeOK
<1>2. fresh' \in BOOLEAN
  BY DEF Logged, Accepted, Refused, BaseTypeOK
<1>3. faults' \in 0 .. MaxFaults
  BY BoundsAssumption DEF Logged, Accepted, Refused, Fault, BaseTypeOK
<1> QED
  BY <1>1, <1>2, <1>3 DEF Logged, Accepted, Refused, BaseTypeOK

\* Reconcile takes a copy from the cache.
LEMMA LoadType ==
  ASSUME NEW Statuses, NEW Steps, NEW o \in Resources(Statuses), NEW p \in Steps,
         BaseTypeOK(Statuses, Steps), Load(o, p), UNCHANGED faults \/ Fault
  PROVE  BaseTypeOK(Statuses, Steps)'
<1>1. faults' \in 0 .. MaxFaults
  BY BoundsAssumption DEF Fault, BaseTypeOK
<1> QED
  BY <1>1 DEF Load, BaseTypeOK

\* A step of Reconcile that writes nothing.
LEMMA NoWriteType ==
  ASSUME NEW Statuses, NEW Steps, BaseTypeOK(Statuses, Steps), NoWrite,
         pc' \in Steps \union {"idle"}, obj' \in Resources(Statuses), queued' \in BOOLEAN,
         UNCHANGED faults \/ Fault
  PROVE  BaseTypeOK(Statuses, Steps)'
<1>1. faults' \in 0 .. MaxFaults
  BY BoundsAssumption DEF Fault, BaseTypeOK
<1>2. fresh' \in BOOLEAN
  BY DEF NoWrite, BaseTypeOK
<1> QED
  BY <1>1, <1>2 DEF NoWrite, BaseTypeOK

\* The end of a run that failed.
LEMMA ReportType ==
  ASSUME NEW Statuses, NEW Steps, NoStatus \in Statuses, BaseTypeOK(Statuses, Steps),
         ReportError, ErrorStatus(obj) \in Statuses
  PROVE  BaseTypeOK(Statuses, Steps)'
<1>1. WithStatus(ErrorStatus(obj)) \in Resources(Statuses)
  BY UpdatedType DEF WithStatus, BaseTypeOK
<1>2. Logged(WithStatus(ErrorStatus(obj)))
  BY DEF ReportError
<1>3. pc' = "idle" /\ obj' = Absent /\ queued' = TRUE
  BY DEF ReportError, Retry
<1> QED
  BY <1>1, <1>2, <1>3, WriteType, AbsentType

\* What the types give the lemmas below.
LEMMA CopyTypes ==
  ASSUME NEW Statuses, NEW Steps, BaseTypeOK(Statuses, Steps)
  PROVE  /\ edits \in Nat
         /\ cr.uid \in Nat /\ cache.uid \in Nat /\ obj.uid \in Nat
         /\ cr.rev \in Nat /\ cache.rev \in Nat /\ obj.rev \in Nat
         /\ cr.fin \in BOOLEAN /\ cache.fin \in BOOLEAN /\ obj.fin \in BOOLEAN
         /\ cr.deleting \in BOOLEAN /\ cache.deleting \in BOOLEAN /\ obj.deleting \in BOOLEAN
BY BoundsAssumption DEF BaseTypeOK, Resources

\* What an accepted write of new, or one that only seems refused, does.
LEMMA Written ==
  ASSUME NEW Statuses, NEW Steps, BaseTypeOK(Statuses, Steps), NEW new,
         Logged(new)
  PROVE  /\ cr' = cr \/ (fresh /\ cr' = new)
         /\ cacheFresh' => cacheFresh /\ cr' = cr
         /\ fresh' \in BOOLEAN /\ (fresh' => fresh /\ pc' # "idle")
         /\ cache' = cache /\ edits' = edits
<1>1. fresh \in BOOLEAN /\ cacheFresh \in BOOLEAN
  BY DEF BaseTypeOK
<1>2. CASE Accepted(new)
  BY <1>1, <1>2 DEF Accepted, Stored
<1>3. CASE Refused(new)
  <2>1. CASE ~fresh /\ UNCHANGED <<cr, cacheFresh, fresh, faults>>
    BY <1>1, <1>3, <2>1 DEF Refused
  <2>2. CASE fresh' = (fresh /\ pc' # "idle") /\ UNCHANGED <<cr, cacheFresh>>
    BY <1>1, <1>3, <2>2 DEF Refused
  <2>3. CASE fresh /\ Stored(new) /\ fresh' = FALSE
    BY <1>1, <1>3, <2>3 DEF Refused, Stored
  <2> QED
    BY <1>3, <2>1, <2>2, <2>3 DEF Refused
<1> QED
  BY <1>2, <1>3 DEF Logged

\* What a write of the status s does to the stored CR and to its versions.
LEMMA StatusWritten ==
  ASSUME NEW Statuses, NEW Steps, BaseTypeOK(Statuses, Steps), NEW s,
         Logged(WithStatus(s))
  PROVE  /\ \/ cr' = cr
            \/ fresh /\ cr'.status = s /\ cr'.uid = cr.uid /\ cr'.rev = cr.rev
               /\ cr'.fin = cr.fin /\ cr'.deleting = cr.deleting
         /\ cacheFresh' => cacheFresh /\ cr' = cr
         /\ fresh' \in BOOLEAN /\ (fresh' => fresh /\ pc' # "idle")
         /\ cache' = cache /\ edits' = edits
<1>1. /\ WithStatus(s).status = s /\ WithStatus(s).uid = cr.uid /\ WithStatus(s).rev = cr.rev
      /\ WithStatus(s).fin = cr.fin /\ WithStatus(s).deleting = cr.deleting
  BY DEF WithStatus, BaseTypeOK, Resources
<1> QED
  BY <1>1, Written

-----------------------------------------------------------------------------
(* Specs. *)

\* A CR that exists has a spec a user wrote.
SpecOf(o) == Exists(o) => o.spec \in Specs

SpecInv == SpecOf(cr) /\ SpecOf(cache) /\ SpecOf(obj)

\* Users write specs.
LEMMA UserSpec ==
  ASSUME NEW Statuses, NEW Steps, BaseTypeOK(Statuses, Steps), SpecInv, UserStep
  PROVE  SpecInv'
<1>1. UNCHANGED <<cache, obj>> /\ (SpecOf(cr)' \/ (cr'.spec = cr.spec /\ cr'.uid = cr.uid))
  <2>1. CASE UserCreate
    <3>1. PICK s \in Specs :
            cr' = [Absent EXCEPT !.uid = edits + 1, !.gen = 1, !.rev = edits + 1, !.spec = s]
      BY <2>1 DEF UserCreate, WrittenByOthers
    <3>2. cr'.spec = s
      BY <3>1 DEF Absent
    <3> QED
      BY <2>1, <3>2 DEF UserCreate, SpecOf
  <2>2. CASE UserEdit
    <3>1. PICK s \in Specs :
            cr' = [cr EXCEPT !.gen = cr.gen + 1, !.rev = edits + 1, !.spec = s]
      BY <2>2 DEF UserEdit, WrittenByOthers
    <3>2. cr'.spec = s
      BY <3>1 DEF BaseTypeOK, Resources
    <3> QED
      BY <2>2, <3>2 DEF UserEdit, SpecOf
  <2>3. CASE UserDelete
    <3>1. cr' = Absent \/ cr' = [cr EXCEPT !.deleting = TRUE, !.gen = cr.gen + 1]
      BY <2>3 DEF UserDelete, WrittenByOthers
    <3>2. /\ Absent.uid = 0
          /\ [cr EXCEPT !.deleting = TRUE, !.gen = cr.gen + 1].spec = cr.spec
          /\ [cr EXCEPT !.deleting = TRUE, !.gen = cr.gen + 1].uid = cr.uid
      BY DEF BaseTypeOK, Resources, Absent
    <3>3. cr'.uid = 0 \/ (cr'.spec = cr.spec /\ cr'.uid = cr.uid)
      BY <3>1, <3>2
    <3> QED
      BY <2>3, <3>3 DEF UserDelete, SpecOf, Exists
  <2> QED
    BY <2>1, <2>2, <2>3 DEF UserStep
<1> QED
  BY <1>1 DEF SpecInv, SpecOf, Exists

\* Copies are copied.
LEMMA CopiedSpec ==
  ASSUME SpecInv, cr' = cr, cache' \in {cache, cr}, obj' \in {obj, cache, Absent}
  PROVE  SpecInv'
BY DEF SpecInv, SpecOf, Exists, Absent

\* Writes of Reconcile leave the spec alone, or remove the CR.
LEMMA WrittenSpec ==
  ASSUME NEW Statuses, NEW Steps, BaseTypeOK(Statuses, Steps), SpecInv,
         NEW new, Logged(new), new = Absent \/ (new.spec = cr.spec /\ new.uid = cr.uid),
         obj' = Absent \/ (obj'.spec = obj.spec /\ obj'.uid = obj.uid)
  PROVE  SpecInv'
<1>1. cache' = cache /\ (cr' = cr \/ cr' = new)
  BY Written
<1> QED
  BY <1>1 DEF SpecInv, SpecOf, Exists, Absent

-----------------------------------------------------------------------------
(* Generations. *)

\* A deletion is a generation that no status write of Reconcile notes.
ObservedInv(o) ==
  o.status.og <= o.gen /\ (o.deleting => o.status.og < o.gen)

\* A copy with the current version is of the current generation.
GenInv ==
  /\ ObservedInv(cr) /\ ObservedInv(cache) /\ ObservedInv(obj)
  /\ fresh => obj.gen = cr.gen /\ obj.deleting = cr.deleting
  /\ cacheFresh => cache = cr

LEMMA AbsentObserved ==
  ASSUME NoStatus.og = 0
  PROVE  ObservedInv(Absent)
<1>1. Absent.status.og = 0 /\ Absent.gen = 0 /\ ~Absent.deleting
  BY DEF Absent
<1> QED
  BY <1>1 DEF ObservedInv

LEMMA GenTypes ==
  ASSUME NEW Statuses, NEW Steps, BaseTypeOK(Statuses, Steps), \A s \in Statuses : s.og \in Nat
  PROVE  /\ cr.gen \in Nat /\ cache.gen \in Nat /\ obj.gen \in Nat
         /\ cr.status.og \in Nat /\ cache.status.og \in Nat /\ obj.status.og \in Nat
BY DEF BaseTypeOK, Resources

\* An edit and a deletion make a new generation.
LEMMA UserGen ==
  ASSUME NEW Statuses, NEW Steps, BaseTypeOK(Statuses, Steps), \A s \in Statuses : s.og \in Nat,
         NoStatus.og = 0, GenInv, UserStep
  PROVE  GenInv'
<1>1. cache' = cache /\ obj' = obj /\ fresh' = FALSE /\ cacheFresh' = FALSE
  BY DEF UserStep, UserCreate, UserEdit, UserDelete, WrittenByOthers
<1>2. CASE UserCreate
  <2>1. PICK s \in Specs :
          cr' = [Absent EXCEPT !.uid = edits + 1, !.gen = 1, !.rev = edits + 1, !.spec = s]
    BY <1>2 DEF UserCreate, WrittenByOthers
  <2>2. cr'.gen = 1 /\ ~cr'.deleting /\ cr'.status.og = 0
    BY <2>1 DEF Absent
  <2> QED
    BY <1>1, <2>2 DEF GenInv, ObservedInv
<1>3. CASE UserEdit
  <2>1. PICK s \in Specs :
          cr' = [cr EXCEPT !.gen = cr.gen + 1, !.rev = edits + 1, !.spec = s]
    BY <1>3 DEF UserEdit, WrittenByOthers
  <2>2. cr'.gen = cr.gen + 1 /\ cr'.status = cr.status
    BY <2>1 DEF BaseTypeOK, Resources
  <2> QED
    BY <1>1, <2>2, GenTypes DEF GenInv, ObservedInv
<1>4. CASE UserDelete
  <2>1. cr' = Absent \/ cr' = [cr EXCEPT !.deleting = TRUE, !.gen = cr.gen + 1]
    BY <1>4 DEF UserDelete, WrittenByOthers
  <2>2. CASE cr' = [cr EXCEPT !.deleting = TRUE, !.gen = cr.gen + 1]
    <3>1. cr'.gen = cr.gen + 1 /\ cr'.status = cr.status
      BY <2>2 DEF BaseTypeOK, Resources
    <3> QED
      BY <1>1, <3>1, GenTypes DEF GenInv, ObservedInv
  <2> QED
    BY <1>1, <2>1, <2>2, AbsentObserved DEF GenInv
<1> QED
  BY <1>2, <1>3, <1>4 DEF UserStep

\* What copies are copied from, and a run without a write.
LEMMA CopiedGen ==
  ASSUME GenInv, NoStatus.og = 0, cr' = cr, cache' \in {cache, cr},
         cacheFresh' => cacheFresh \/ cache' = cr,
         \/ obj' = obj /\ (fresh' => fresh)
         \/ obj' = Absent /\ ~fresh'
         \/ /\ obj'.gen = cache.gen /\ obj'.deleting = cache.deleting
            /\ obj'.status.og = cache.status.og /\ (fresh' => cacheFresh)
  PROVE  GenInv'
BY AbsentObserved DEF GenInv, ObservedInv

\* A write of Reconcile notes no generation, or that of a copy that is not being deleted.
LEMMA WrittenGen ==
  ASSUME NEW Statuses, NEW Steps, BaseTypeOK(Statuses, Steps), \A s \in Statuses : s.og \in Nat,
         NoStatus.og = 0, GenInv, NEW new, Logged(new),
         \/ new = Absent /\ pc' = "idle"
         \/ /\ new.gen = cr.gen /\ new.deleting = cr.deleting
            /\ \/ new.status.og \in {cr.status.og, obj.status.og}
               \/ new.status.og = obj.gen /\ ~obj.deleting,
         \/ obj' = Absent /\ pc' = "idle"
         \/ /\ obj'.gen = obj.gen /\ obj'.deleting = obj.deleting
            /\ obj'.status.og = obj.status.og \/ (fresh /\ obj'.status.og = cr.status.og)
  PROVE  GenInv'
<1> USE GenTypes
<1>1. /\ cr' = cr \/ (fresh /\ cr' = new)
      /\ cacheFresh' => cacheFresh /\ cr' = cr
      /\ fresh' => fresh /\ pc' # "idle"
      /\ cache' = cache
  BY Written
<1>2. ObservedInv(cr)'
  BY <1>1, AbsentObserved DEF GenInv, ObservedInv
<1>3. ObservedInv(cache)' /\ (cacheFresh' => cache' = cr')
  BY <1>1 DEF GenInv, ObservedInv
<1>4. ObservedInv(obj)'
  BY AbsentObserved DEF GenInv, ObservedInv
<1>5. fresh' => obj'.gen = cr'.gen /\ obj'.deleting = cr'.deleting
  BY <1>1 DEF GenInv
<1> QED
  BY <1>2, <1>3, <1>4, <1>5 DEF GenInv

-----------------------------------------------------------------------------
(* Requests. *)

\* What leaves something to do: a write by a user, whose event the informer has yet to
\* deliver, the event, an error that Reconcile returns, and a run under way.
LEMMA Busy ==
  ASSUME UserStep \/ Sync \/ Retry \/ pc' # "idle"
  PROVE  ~Quiet'
BY DEF UserStep, UserCreate, UserEdit, UserDelete, WrittenByOthers, Sync, Retry, Quiet

\* After a restart every CR found is enqueued.
LEMMA RestartBusy ==
  ASSUME Restart, Quiet'
  PROVE  ~Exists(cr')
BY DEF Restart, Quiet

\* A run that returns at once leaves nothing to do only if it has seen the stored CR.
LEMMA SkipQuiet ==
  ASSUME LoadAndReturn, cacheFresh => cache = cr, Quiet'
  PROVE  cache = cr /\ cr' = cr
BY DEF LoadAndReturn, Quiet

\* A step that is none of the controller's, and no write, leaves to do what there was.
LEMMA StillQuiet ==
  ASSUME UNCHANGED <<cr, cacheFresh, pc, queued>>
  PROVE  cr' = cr /\ (Quiet' <=> Quiet)
BY DEF Quiet
==============================================================================
