---------------------------- MODULE DeliveryQueue ----------------------------
(***************************************************************************)
(* The delivery queue of hookbox: the rows of webhook_deliveries           *)
(* (hookbox-postgres/src/storage.rs, DeliveryStorage) and the workers that *)
(* drain it (hookbox-server/src/worker.rs, EmitterWorker).                 *)
(*                                                                         *)
(* A worker loops: sleep, reclaim_expired, claim_pending, then one         *)
(* dispatch_one future per claimed row under join_all, then sleep again.   *)
(* Every statement the worker sends is one atomic step of the database;    *)
(* between two statements any other worker, the downstream system or the   *)
(* clock may move.  Statements fail, processes crash, emits time out.      *)
(*                                                                         *)
(* Time is two flags per row.  `due` is next_attempt_at <= now() and       *)
(* `expired` is last_attempt_at < now() - lease_duration; the clock raises *)
(* each of them at an arbitrary moment.  Metrics, error texts and the      *)
(* health snapshot, which no step of the queue reads, are left out.        *)
(***************************************************************************)
EXTENDS Naturals, FiniteSets

CONSTANTS
  Emitter,      \* names of the configured emitters
  Worker,       \* emitter workers: one per emitter in each server process
  EmitterOf,    \* the emitter a worker serves
  Delivery,     \* delivery ids, those not inserted yet included
  TargetOf,     \* the emitter_name column of a delivery row
  Legacy,       \* rows backfilled by migration 0002 (immutable = TRUE)
  MaxAttempts,  \* RetryPolicy::max_attempts
  BatchSize,    \* EmitterWorker::concurrency, the LIMIT of a claim
  MaxFaults,    \* bound: how many faults the environment may inject
  Overrun       \* may an emit outlive the lease of its row?

ASSUME QueueAssumption ==
  /\ IsFiniteSet(Worker)
  /\ EmitterOf \in [Worker -> Emitter]
  /\ TargetOf \in [Delivery -> Emitter]
  /\ Legacy \subseteq Delivery
  /\ MaxAttempts \in Nat \ {0}
  /\ BatchSize \in Nat \ {0}
  /\ MaxFaults \in Nat
  /\ Overrun \in BOOLEAN

VARIABLES
  state,          \* DeliveryState of each row; "absent" before the INSERT
  attempt_count,  \* the attempt_count column
  due,            \* next_attempt_at <= now()
  expired,        \* last_attempt_at < now() - lease_duration
  pc,             \* where each worker is in its loop; "down" when not running
  task,           \* the dispatch_one future of each worker and row
  seen,           \* the attempt_count the claim handed to that future
  copies,         \* history: times the downstream system took the event
  failures,       \* history: emits of the row that returned an error
  faults          \* faults the environment may still inject

rows == <<state, attempt_count, due, expired>>
vars == <<state, attempt_count, due, expired, pc, task, seen,
          copies, failures, faults>>

DeliveryState == {"pending", "in_flight", "emitted", "failed", "dead_lettered"}
Terminal == {"emitted", "dead_lettered"}

(***************************************************************************)
(* A dispatch_one future is waiting for the downstream system ("emit"),    *)
(* waiting for its answer ("sent"), or about to record a success ("ok") or *)
(* a failure ("err").                                                      *)
(***************************************************************************)
TaskState == {"idle", "emit", "sent", "ok", "err"}

Live(w, d) == task[w][d] # "idle"
Dispatched(d) == \E w \in Worker : Live(w, d)

\* One unit of bad luck: a failed statement, a crash, an overrun lease, an
\* answer lost on the way back.
Fault ==
  /\ faults > 0
  /\ faults' = faults - 1

TypeOK ==
  /\ state \in [Delivery -> DeliveryState \cup {"absent"}]
  /\ attempt_count \in [Delivery -> Nat]
  /\ due \in [Delivery -> BOOLEAN]
  /\ expired \in [Delivery -> BOOLEAN]
  /\ pc \in [Worker -> {"down", "sleep", "reclaim", "claim", "dispatch"}]
  /\ task \in [Worker -> [Delivery -> TaskState]]
  /\ seen \in [Worker -> [Delivery -> Nat]]
  /\ copies \in [Delivery -> Nat]
  /\ failures \in [Delivery -> Nat]
  /\ faults \in 0..MaxFaults

(***************************************************************************)
(* The queue starts with the rows of the backfill: they are of any settled *)
(* or failed state, with the emit_count of their receipt.                  *)
(***************************************************************************)
Backfilled ==
  /\ state \in [Delivery -> {"absent", "emitted", "failed", "dead_lettered"}]
  /\ attempt_count \in [Delivery -> {0, MaxAttempts}]
  /\ \A d \in Delivery :
       IF d \in Legacy THEN state[d] # "absent"
                       ELSE state[d] = "absent" /\ attempt_count[d] = 0

Init ==
  /\ Backfilled
  /\ due = [d \in Delivery |-> d \in Legacy]
  /\ expired = [d \in Delivery |-> FALSE]
  /\ pc = [w \in Worker |-> "sleep"]
  /\ task = [w \in Worker |-> [d \in Delivery |-> "idle"]]
  /\ seen = [w \in Worker |-> [d \in Delivery |-> 0]]
  /\ copies = [d \in Delivery |-> 0]
  /\ failures = [d \in Delivery |-> 0]
  /\ faults = MaxFaults

-----------------------------------------------------------------------------
(***************************************************************************)
(* The producers: one transaction inserts a set of pending rows (the       *)
(* fan-out of store_with_deliveries, insert_replays; insert_replay inserts *)
(* one).                                                                   *)
(***************************************************************************)
InsertRows(D) ==
  /\ D # {}
  /\ \A d \in D : state[d] = "absent"
  /\ state' = [d \in Delivery |-> IF d \in D THEN "pending" ELSE state[d]]
  /\ due' = [d \in Delivery |-> d \in D \/ due[d]]
  /\ UNCHANGED <<attempt_count, expired, pc, task, seen, copies, failures, faults>>

(***************************************************************************)
(* The worker loop up to the claim.                                        *)
(***************************************************************************)
Poll(w) ==
  /\ pc[w] = "sleep"
  /\ pc' = [pc EXCEPT ![w] = "reclaim"]
  /\ UNCHANGED <<rows, task, seen, copies, failures, faults>>

\* Mutant: the lease test is dropped.
ReclaimableUnexpired(w) ==
  {d \in Delivery : TargetOf[d] = EmitterOf[w] /\ state[d] = "in_flight" /\ d \notin Legacy}

\* WHERE clause of reclaim_expired.
Reclaimable(w) ==
  {d \in Delivery : /\ TargetOf[d] = EmitterOf[w]
                    /\ state[d] = "in_flight"
                    /\ expired[d]
                    /\ d \notin Legacy}

\* Mutant: a reclaimed row starts over.
ReclaimExpiredResets(w) ==
  LET S == Reclaimable(w) IN
  /\ pc[w] = "reclaim"
  /\ state' = [d \in Delivery |-> IF d \in S THEN "failed" ELSE state[d]]
  /\ attempt_count' = [d \in Delivery |-> IF d \in S THEN 0 ELSE attempt_count[d]]
  /\ due' = [d \in Delivery |-> d \in S \/ due[d]]
  /\ pc' = [pc EXCEPT ![w] = "claim"]
  /\ UNCHANGED <<expired, task, seen, copies, failures, faults>>

ReclaimExpired(w) ==
  LET S == Reclaimable(w) IN
  /\ pc[w] = "reclaim"
  /\ state' = [d \in Delivery |-> IF d \in S THEN "failed" ELSE state[d]]
  /\ due' = [d \in Delivery |-> d \in S \/ due[d]]
  /\ pc' = [pc EXCEPT ![w] = "claim"]
  /\ UNCHANGED <<attempt_count, expired, task, seen, copies, failures, faults>>

\* The error is logged and the loop goes on to the claim.
ReclaimError(w) ==
  /\ pc[w] = "reclaim"
  /\ Fault
  /\ pc' = [pc EXCEPT ![w] = "claim"]
  /\ UNCHANGED <<rows, task, seen, copies, failures>>

\* Mutant: the immutable test is dropped.
ClaimableImmutable(w) ==
  {d \in Delivery : /\ TargetOf[d] = EmitterOf[w]
                    /\ state[d] \in {"pending", "failed"}
                    /\ due[d]}

\* Mutant: the emitter_name test is dropped.
ClaimableAnyEmitter(w) ==
  {d \in Delivery : state[d] \in {"pending", "failed"} /\ due[d] /\ d \notin Legacy}

\* WHERE clause of claim_pending.
Claimable(w) ==
  {d \in Delivery : /\ TargetOf[d] = EmitterOf[w]
                    /\ state[d] \in {"pending", "failed"}
                    /\ due[d]
                    /\ d \notin Legacy}

\* A batch the claim may return.  SKIP LOCKED may leave out rows that
\* another statement holds, so it need not be the largest one.
Batch(w) ==
  {S \in SUBSET Claimable(w) :
     /\ Cardinality(S) <= BatchSize
     /\ S = {} => Claimable(w) = {}}

\* The UPDATE of claim_pending on the rows of a batch.
Lease(S) ==
  /\ state' = [d \in Delivery |-> IF d \in S THEN "in_flight" ELSE state[d]]
  /\ expired' = [d \in Delivery |-> d \notin S /\ expired[d]]

\* The claim succeeds: an empty batch ends the iteration, otherwise one
\* future per row starts, holding the row as the claim returned it.
ClaimPending(w) ==
  /\ pc[w] = "claim"
  /\ \E S \in Batch(w) :
       /\ Lease(S)
       /\ task' = [task EXCEPT ![w] = [d \in Delivery |->
                                         IF d \in S THEN "emit" ELSE "idle"]]
       /\ seen' = [seen EXCEPT ![w] = [d \in Delivery |->
                                         IF d \in S THEN attempt_count[d] ELSE 0]]
       /\ pc' = [pc EXCEPT ![w] = IF S = {} THEN "sleep" ELSE "dispatch"]
  /\ UNCHANGED <<attempt_count, due, copies, failures, faults>>

\* claim_pending returns an error.  The UPDATE is a statement of its own: if
\* it is the read of a receipt that fails afterwards, the claimed rows stay
\* in_flight and nobody holds them.
ClaimError(w) ==
  /\ pc[w] = "claim"
  /\ Fault
  /\ \E S \in Batch(w) \cup {{}} : Lease(S)
  /\ pc' = [pc EXCEPT ![w] = "sleep"]
  /\ UNCHANGED <<attempt_count, due, task, seen, copies, failures>>

-----------------------------------------------------------------------------
(***************************************************************************)
(* dispatch_one.  Emitter::emit is external: the downstream system may     *)
(* take the event, and the call returns Ok only if it did.                 *)
(***************************************************************************)
SetTask(w, d, t) == task' = [task EXCEPT ![w][d] = t]

\* The future ends, and the row it held goes with it.
EndTask(w, d) ==
  /\ SetTask(w, d, "idle")
  /\ seen' = [seen EXCEPT ![w][d] = 0]

DownstreamTakes(w, d) ==
  /\ task[w][d] = "emit"
  /\ SetTask(w, d, "sent")
  /\ copies' = [copies EXCEPT ![d] = @ + 1]
  /\ UNCHANGED <<rows, pc, seen, failures, faults>>

EmitOk(w, d) ==
  /\ task[w][d] = "sent"
  /\ SetTask(w, d, "ok")
  /\ UNCHANGED <<rows, pc, seen, copies, failures, faults>>

EmitErr(w, d) ==
  /\ task[w][d] = "emit"
  /\ SetTask(w, d, "err")
  /\ failures' = [failures EXCEPT ![d] = @ + 1]
  /\ UNCHANGED <<rows, pc, seen, copies, faults>>

\* The adapter gives up on an event the downstream system has taken.
EmitTimeout(w, d) ==
  /\ task[w][d] = "sent"
  /\ Fault
  /\ SetTask(w, d, "err")
  /\ failures' = [failures EXCEPT ![d] = @ + 1]
  /\ UNCHANGED <<rows, pc, seen, copies>>

\* The three mark_* statements share their guard, `state = 'in_flight'`; on
\* any other state they match no row, and the worker only logs it.
MarkEmitted(w, d) ==
  /\ task[w][d] = "ok"
  /\ state' = [state EXCEPT ![d] = IF @ = "in_flight" THEN "emitted" ELSE @]
  /\ EndTask(w, d)
  /\ UNCHANGED <<attempt_count, due, expired, pc, copies, failures, faults>>

\* Mutant: `>` for `>=`.
ExhaustedLate(w, d) == seen[w][d] + 1 > MaxAttempts

\* next_attempt >= policy.max_attempts, from the row the claim returned.
Exhausted(w, d) == seen[w][d] + 1 >= MaxAttempts

\* Mutant: the attempt is not stored.
MarkFailedUncounted(w, d) ==
  /\ task[w][d] = "err"
  /\ ~Exhausted(w, d)
  /\ state' = [state EXCEPT ![d] = IF @ = "in_flight" THEN "failed" ELSE @]
  /\ due' = [due EXCEPT ![d] = state[d] # "in_flight" /\ @]
  /\ EndTask(w, d)
  /\ UNCHANGED <<attempt_count, expired, pc, copies, failures, faults>>

MarkFailed(w, d) ==
  /\ task[w][d] = "err"
  /\ ~Exhausted(w, d)
  /\ IF state[d] = "in_flight"
     THEN /\ state' = [state EXCEPT ![d] = "failed"]
          /\ attempt_count' = [attempt_count EXCEPT ![d] = seen[w][d] + 1]
          /\ due' = [due EXCEPT ![d] = FALSE]
     ELSE UNCHANGED <<state, attempt_count, due>>
  /\ EndTask(w, d)
  /\ UNCHANGED <<expired, pc, copies, failures, faults>>

\* Mutant: the statement has no guard on the state.
MarkDeadLetteredUnguarded(w, d) ==
  /\ task[w][d] = "err"
  /\ Exhausted(w, d)
  /\ state' = [state EXCEPT ![d] = "dead_lettered"]
  /\ EndTask(w, d)
  /\ UNCHANGED <<attempt_count, due, expired, pc, copies, failures, faults>>

MarkDeadLettered(w, d) ==
  /\ task[w][d] = "err"
  /\ Exhausted(w, d)
  /\ state' = [state EXCEPT ![d] = IF @ = "in_flight" THEN "dead_lettered" ELSE @]
  /\ EndTask(w, d)
  /\ UNCHANGED <<attempt_count, due, expired, pc, copies, failures, faults>>

\* A mark_* statement fails: the error is logged, the future ends.
MarkError(w, d) ==
  /\ task[w][d] \in {"ok", "err"}
  /\ Fault
  /\ EndTask(w, d)
  /\ UNCHANGED <<rows, pc, copies, failures>>

\* join_all returns when every future of the batch has ended.
BatchDone(w) ==
  /\ pc[w] = "dispatch"
  /\ \A d \in Delivery : ~Live(w, d)
  /\ pc' = [pc EXCEPT ![w] = "sleep"]
  /\ UNCHANGED <<rows, task, seen, copies, failures, faults>>

-----------------------------------------------------------------------------
(***************************************************************************)
(* The process of a worker dies (or the worker's task panics) and with it  *)
(* the futures it was driving; later a new process takes its place.        *)
(***************************************************************************)
Crash(w) ==
  /\ pc[w] # "down"
  /\ Fault
  /\ pc' = [pc EXCEPT ![w] = "down"]
  /\ task' = [task EXCEPT ![w] = [d \in Delivery |-> "idle"]]
  /\ seen' = [seen EXCEPT ![w] = [d \in Delivery |-> 0]]
  /\ UNCHANGED <<rows, copies, failures>>

Restart(w) ==
  /\ pc[w] = "down"
  /\ pc' = [pc EXCEPT ![w] = "sleep"]
  /\ UNCHANGED <<rows, task, seen, copies, failures, faults>>

(***************************************************************************)
(* The clock.                                                              *)
(***************************************************************************)
BackoffElapses(d) ==
  /\ state[d] = "failed"
  /\ ~due[d]
  /\ due' = [due EXCEPT ![d] = TRUE]
  /\ UNCHANGED <<state, attempt_count, expired, pc, task, seen, copies,
                 failures, faults>>

\* The lease of a row nobody works on runs out.
OrphanExpires(d) ==
  /\ state[d] = "in_flight"
  /\ ~expired[d]
  /\ ~Dispatched(d)
  /\ expired' = [expired EXCEPT ![d] = TRUE]
  /\ UNCHANGED <<state, attempt_count, due, pc, task, seen, copies, failures,
                 faults>>

\* The lease runs out under a worker that is still dispatching the row.
LeaseOverruns(d) ==
  /\ Overrun
  /\ state[d] = "in_flight"
  /\ ~expired[d]
  /\ Dispatched(d)
  /\ Fault
  /\ expired' = [expired EXCEPT ![d] = TRUE]
  /\ UNCHANGED <<state, attempt_count, due, pc, task, seen, copies, failures>>

-----------------------------------------------------------------------------
Emit(w, d) ==
  \/ DownstreamTakes(w, d)
  \/ EmitOk(w, d)
  \/ EmitErr(w, d)
  \/ EmitTimeout(w, d)

Mark(w, d) ==
  \/ MarkEmitted(w, d)
  \/ MarkFailed(w, d)
  \/ MarkDeadLettered(w, d)
  \/ MarkError(w, d)

Loop(w) ==
  \/ Poll(w)
  \/ ReclaimExpired(w)
  \/ ReclaimError(w)
  \/ ClaimPending(w)
  \/ ClaimError(w)
  \/ BatchDone(w)

Clock(d) ==
  \/ BackoffElapses(d)
  \/ OrphanExpires(d)
  \/ LeaseOverruns(d)

Next ==
  \/ \E D \in SUBSET Delivery : InsertRows(D)
  \/ \E w \in Worker : Loop(w) \/ Crash(w) \/ Restart(w)
  \/ \E w \in Worker, d \in Delivery : Emit(w, d) \/ Mark(w, d)
  \/ \E d \in Delivery : Clock(d)

Spec == Init /\ [][Next]_vars

(***************************************************************************)
(* What a deployment keeps doing for one emitter: the runtime polls the    *)
(* tasks of its workers and their futures, the adapter bounds an emit by a *)
(* timeout, a dead process is restarted, and time passes.  Nothing obliges *)
(* a fault, or an overrun, to happen, nor anyone to insert rows.           *)
(***************************************************************************)
FairnessOf(e) ==
  \A w \in Worker, d \in Delivery : EmitterOf[w] = e /\ TargetOf[d] = e =>
    /\ WF_vars(Loop(w) \/ Restart(w))
    /\ WF_vars(Emit(w, d) \/ Mark(w, d))
    /\ WF_vars(BackoffElapses(d) \/ OrphanExpires(d))

-----------------------------------------------------------------------------
(***************************************************************************)
(* Properties.                                                             *)
(***************************************************************************)
Mutable == Delivery \ Legacy

\* The attempt_count of a row, and the copy of it a dispatch_one future works
\* from, never exceed the emits of the row that failed, however many workers,
\* reclaims and stale marks there are: a row is dead-lettered only after
\* max_attempts emits of it really failed.  Neither counter reaches
\* max_attempts, so that the `next_attempt >= max_attempts` of dispatch_one
\* never meets a row that should have been dead-lettered before; of the stored
\* one the design says otherwise (DeadLetterIsCounted).
AttemptsAreFailures ==
  \A d \in Mutable :
    /\ attempt_count[d] < MaxAttempts
    /\ attempt_count[d] <= failures[d]
    /\ \A w \in Worker : Live(w, d) => /\ seen[w][d] < MaxAttempts
                                      /\ seen[w][d] <= failures[d]
    /\ state[d] = "dead_lettered" => failures[d] >= MaxAttempts

\* What the design of the fan-out says of a dead letter: `Persist attempt_count
\* = next_attempt` comes before its state is set, so that it shows as many
\* attempts as were made.
DeadLetterIsCounted ==
  \A d \in Mutable : state[d] = "dead_lettered" => attempt_count[d] = MaxAttempts

\* At-least-once, and no more than the faults explain: beyond the first copy,
\* every copy of an event that the downstream system takes is paid for by a
\* fault (a crash, a failed statement, a lost answer, an overrun lease), so
\* that without faults every delivery is taken at most once.
DuplicatesNeedFaults ==
  \A d \in Delivery : copies[d] <= 1 + (MaxFaults - faults)

\* One server process: no two workers serve the same emitter.
Solo == \A v, w \in Worker : EmitterOf[v] = EmitterOf[w] => v = w

\* A worker is the only one to dispatch a row, the row is in flight while it
\* does, and the attempt_count the worker counts from is the stored one: what
\* claim_pending, reclaim_expired and the guard of mark_* are there for.
Exclusive ==
  \A w \in Worker, d \in Delivery :
    Live(w, d) => /\ state[d] = "in_flight"
                  /\ seen[w][d] = attempt_count[d]
                  /\ \A v \in Worker : Live(v, d) => v = w

\* Without faults max_attempts bounds the emits that fail, and a fault makes
\* at most one failed emit go uncounted.  Where a lease may overrun while
\* another worker serves the emitter, a stale mark may set attempt_count back:
\* there a fault costs at most one more series of max_attempts emits, so that
\* retries still come to an end.
FailuresBounded ==
  \A d \in Mutable :
    failures[d] <= IF Overrun /\ ~Solo THEN MaxAttempts * (1 + (MaxFaults - faults))
                   ELSE MaxAttempts + (MaxFaults - faults)

\* The attempt_count of a row never goes back, so that retries come to an end.
AttemptsNeverRegress ==
  [][\A d \in Delivery : attempt_count'[d] >= attempt_count[d]]_vars

\* No statement of a worker touches a row of the backfill, although mark_*
\* does not test the immutable column.
LegacyUntouched ==
  [][\A d \in Legacy : /\ state'[d] = state[d]
                       /\ attempt_count'[d] = attempt_count[d]
                       /\ copies'[d] = 0]_vars

\* Every delivery to e that was inserted is emitted or dead-lettered in the
\* end, through crashes, lost claims, lost marks and overrun leases.
Settles(e) ==
  \A d \in Mutable :
    TargetOf[d] = e => (state[d] = "pending" ~> state[d] \in Terminal)

(***************************************************************************)
(* The queue implements the ledger: in it a row is open from its insertion *)
(* until it is emitted or dead-lettered.                                   *)
(***************************************************************************)
Outcome(s) ==
  IF s = "absent" THEN "none" ELSE IF s \in Terminal THEN s ELSE "open"

Ledger == INSTANCE DeliveryLedger WITH
            Delivery <- Mutable,
            outcome <- [d \in Mutable |-> Outcome(state[d])],
            copies <- [d \in Mutable |-> copies[d]],
            failures <- [d \in Mutable |-> failures[d]]

\* Whatever the workers and the environment do, what becomes of a delivery is
\* what the ledger allows: it is settled at most once, and truthfully.
ImplementsLedger == Ledger!Spec
=============================================================================
