------------------------------ MODULE Reconciler ------------------------------
(***************************************************************************)
(* What every controller of the operator stands on: one custom resource    *)
(* (CR) of the controller's kind in the API server, the informer cache the *)
(* controller reads it from, the work queue with its single worker, and    *)
(* the in-memory copy one call of Reconcile works on.  The controllers     *)
(* (RoleController, PolicyController, AttachmentController) extend this    *)
(* module with the steps of their own Reconcile.                           *)
(*                                                                         *)
(* Every write to the API server carries the resourceVersion of the copy   *)
(* it was made from and is refused when that version is no longer the      *)
(* stored one.  Two Booleans stand for resourceVersions: "fresh" (obj      *)
(* carries the stored version) and "cacheFresh" (the cache does).          *)
(***************************************************************************)
EXTENDS Naturals

CONSTANTS
  Specs,      \* the specs a user may write
  NoSpec,     \* spec of a CR that does not exist
  NoStatus,   \* the zero status, before the first status write
  MaxEdits,   \* bound: creations and spec edits (and writes of referenced objects)
  MaxFaults   \* bound: failed or half-done calls, and restarts of the operator

ASSUME BoundsAssumption == MaxEdits \in Nat /\ MaxFaults \in Nat

VARIABLES
  cr,         \* the CR the API server stores
  cache,      \* the informer's copy of it
  cacheFresh,
  obj,        \* the copy Reconcile holds; Absent when it is not running
  fresh,
  pc,         \* the step Reconcile is at; "idle" when the worker waits
  queued,     \* the work queue holds a request for the CR
  edits,      \* user writes so far; each one numbers what it wrote
  faults      \* faults so far

base == <<cr, cache, cacheFresh, obj, fresh, pc, queued, edits, faults>>

\* uid and rev are the numbers of the edits that created the CR and that wrote
\* its spec; gen is metadata.generation, fin "carries our finalizer".
Resources(Statuses) ==
  [uid : Nat, gen : Nat, rev : Nat, deleting : BOOLEAN, fin : BOOLEAN,
   spec : Specs \union {NoSpec}, status : Statuses]

Absent == [uid |-> 0, gen |-> 0, rev |-> 0, deleting |-> FALSE, fin |-> FALSE,
           spec |-> NoSpec, status |-> NoStatus]

Exists(o) == o.uid # 0

BaseTypeOK(Statuses, Steps) ==
  /\ cr \in Resources(Statuses) /\ cache \in Resources(Statuses)
  /\ obj \in Resources(Statuses)
  /\ cacheFresh \in BOOLEAN /\ fresh \in BOOLEAN /\ queued \in BOOLEAN
  /\ pc \in Steps \union {"idle"}
  /\ edits \in 0 .. MaxEdits /\ faults \in 0 .. MaxFaults

BaseInit ==
  /\ cr = Absent /\ cache = Absent /\ cacheFresh = TRUE
  /\ obj = Absent /\ fresh = FALSE /\ pc = "idle" /\ queued = FALSE
  /\ edits = 0 /\ faults = 0

-----------------------------------------------------------------------------
(* The users of the API server. *)

\* A write by anybody but this Reconcile: every copy now carries an old version.
WrittenByOthers(new) == cr' = new /\ cacheFresh' = FALSE /\ fresh' = FALSE

Edit == edits < MaxEdits /\ edits' = edits + 1

UserCreate ==
  /\ ~Exists(cr) /\ Edit
  /\ \E s \in Specs :
       WrittenByOthers([Absent EXCEPT !.uid = edits + 1, !.gen = 1,
                                      !.rev = edits + 1, !.spec = s])
  /\ UNCHANGED <<cache, obj, pc, queued, faults>>

UserEdit ==
  /\ Exists(cr) /\ Edit
  /\ \E s \in Specs :
       WrittenByOthers([cr EXCEPT !.gen = cr.gen + 1, !.rev = edits + 1, !.spec = s])
  /\ UNCHANGED <<cache, obj, pc, queued, faults>>

\* With a finalizer the API server only stamps the deletionTimestamp, which
\* counts as a new generation; without one the CR is gone at once.
UserDelete ==
  /\ Exists(cr) /\ ~cr.deleting
  /\ WrittenByOthers(IF cr.fin THEN [cr EXCEPT !.deleting = TRUE, !.gen = cr.gen + 1]
                     ELSE Absent)
  /\ UNCHANGED <<cache, obj, pc, queued, edits, faults>>

UserStep == UserCreate \/ UserEdit \/ UserDelete

-----------------------------------------------------------------------------
(* The informer, the queue and the worker. *)

\* The watch delivers what is stored now and enqueues a request.
Sync ==
  /\ ~cacheFresh
  /\ cache' = cr /\ cacheFresh' = TRUE /\ queued' = TRUE
  /\ UNCHANGED <<cr, obj, fresh, pc, edits, faults>>

Fault == faults < MaxFaults /\ faults' = faults + 1

\* The operator's process dies and starts again: the call of Reconcile is lost,
\* the cache is listed anew and every object found is enqueued.
Restart ==
  /\ Fault
  /\ pc' = "idle" /\ obj' = Absent /\ fresh' = FALSE
  /\ cache' = cr /\ cacheFresh' = TRUE /\ queued' = Exists(cr)
  /\ UNCHANGED <<cr, edits>>

Dequeue == pc = "idle" /\ queued

\* r.Get filled the copy o from the cache and Reconcile goes on at step p.
Load(o, p) == /\ pc' = p /\ obj' = o /\ fresh' = cacheFresh /\ queued' = FALSE
              /\ UNCHANGED <<cr, cache, cacheFresh, edits>>

\* Reconcile returns before its first write.
LoadAndReturn == /\ queued' = FALSE
                 /\ UNCHANGED <<cr, cache, cacheFresh, obj, fresh, pc, edits, faults>>

Goto(p, o) == pc' = p /\ obj' = o /\ UNCHANGED queued

Return == pc' = "idle" /\ obj' = Absent /\ UNCHANGED queued

\* Mutant: an error is swallowed.
NoRetry == pc' = "idle" /\ obj' = Absent /\ UNCHANGED queued

Retry == pc' = "idle" /\ obj' = Absent /\ queued' = TRUE

\* Nothing is left to do: no run, no request for one, and no event on its way.
Quiet == pc = "idle" /\ ~queued /\ cacheFresh

-----------------------------------------------------------------------------
(* Writes of Reconcile to the API server.  The operators below are used    *)
(* after pc' is set; a call that ends leaves fresh FALSE.                  *)

\* A write that changes nothing keeps the resourceVersion, so the cache may
\* stay fresh: LastSyncAttempt has a resolution of a minute.
Stored(new) == /\ cr' = new
               /\ cacheFresh' \in {FALSE, cacheFresh /\ new = cr}

\* Mutant: no resourceVersion is sent, the last write wins.
LastWriteWins(new) ==
  /\ Stored(new) /\ fresh' = (pc' # "idle")
  /\ UNCHANGED <<cache, edits, faults>>

Accepted(new) ==
  /\ fresh /\ Stored(new) /\ fresh' = (pc' # "idle")
  /\ UNCHANGED <<cache, edits, faults>>

\* A conflict, a call that did not reach the API server, or one that did and
\* whose answer was lost.
Refused(new) ==
  /\ \/ /\ ~fresh
        /\ UNCHANGED <<cr, cacheFresh, fresh, faults>>
     \/ /\ Fault /\ fresh' = (fresh /\ pc' # "idle")
        /\ UNCHANGED <<cr, cacheFresh>>
     \/ /\ Fault /\ fresh /\ Stored(new) /\ fresh' = FALSE
  /\ UNCHANGED <<cache, edits>>

\* A write whose error is only logged.
Logged(new) == Accepted(new) \/ Refused(new)

\* A step that writes nothing to the API server.
NoWrite == /\ UNCHANGED <<cr, cache, cacheFresh, edits>>
           /\ fresh' = (fresh /\ pc' # "idle")

WithStatus(s) == [cr EXCEPT !.status = s]

\* What the answer to r.Update leaves in the copy: the answer is decoded over
\* it, so the status is the server's as soon as the server has one.
Answer(o) == [o EXCEPT !.status = IF cr.status = NoStatus THEN @ ELSE cr.status]

-----------------------------------------------------------------------------
(* helpers.go: the status a failed or finished call leaves behind. *)

ErrorStatus(o) == [o.status EXCEPT !.state = "ERROR"]

\* Mutant: the state of a run under way is reported for a finished one.
StillSyncing(o) == [o.status EXCEPT !.state = "SYNC", !.arn = TRUE]

OkStatus(o) == [o.status EXCEPT !.state = "OK", !.arn = TRUE]

\* errWithStatus: write the error, return the write's error or the original one.
\* ErrorStatusUpdater: write the error, log a failure; its caller then returns.
ReportError ==
  /\ pc \in {"errWithStatus", "errorStatus"}
  /\ Retry /\ Logged(WithStatus(ErrorStatus(obj)))
==============================================================================
