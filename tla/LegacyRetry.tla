----------------------------- MODULE LegacyRetry -----------------------------
(***************************************************************************)
(* Retries at the level of a receipt, older than the delivery rows: the    *)
(* RetryWorker (hookbox-server/src/worker.rs), the queries it uses         *)
(* (hookbox-postgres/src/storage.rs, "Ops-specific queries") and the       *)
(* command `hookbox replay failed` (hookbox-cli/src/commands/replay.rs).   *)
(*                                                                         *)
(* A worker reads a batch, then works through it oldest first: it emits,   *)
(* then records the outcome.  The command reads a batch and resets its     *)
(* receipts one by one.  The writes name a receipt and test nothing of its *)
(* state: what a reader saw may be long gone when its write arrives.       *)
(*                                                                         *)
(* Receipts are numbered by received_at.                                   *)
(***************************************************************************)
EXTENDS Naturals, FiniteSets

CONSTANTS
  Receipt,      \* ids of the receipts, in the order of received_at
  RetryWorker,  \* running RetryWorkers
  Operator,     \* terminals at which `hookbox replay failed` is run
  MaxAttempts,  \* RetryWorker::max_attempts
  BatchLimit,   \* LIMIT of the queries
  MaxResets,    \* bound: how often `replay failed` is run
  MaxRetryFaults \* bound: failing statements

ASSUME LegacyRetryAssumption ==
  /\ Receipt \subseteq Nat
  /\ IsFiniteSet(RetryWorker)
  /\ RetryWorker \cap Operator = {}
  /\ MaxAttempts \in Nat \ {0}
  /\ BatchLimit \in Nat \ {0}
  /\ MaxResets \in Nat
  /\ MaxRetryFaults \in Nat

VARIABLES
  processing_state, \* the column of webhook_receipts
  emit_count,       \* the column of webhook_receipts
  batch,            \* what each worker or operator has read and not handled
  outcome,          \* of the emit a worker has not recorded yet, or "none"
  late,             \* history: read before somebody else marked it emitted
  resets,           \* runs of `replay failed` left
  retryFaults       \* failing statements left

receiptColumns == <<processing_state, emit_count>>
retryVars == <<processing_state, emit_count, batch, outcome, late, resets, retryFaults>>

Actor == RetryWorker \cup Operator

\* The states a stored receipt may have; the pipeline writes only "stored".
ProcessingState == {"stored", "emitted", "processed", "emit_failed", "dead_lettered", "replayed"}
Failed == {"emit_failed", "dead_lettered"}

LegacyTypeOK ==
  /\ processing_state \in [Receipt -> ProcessingState]
  /\ emit_count \in [Receipt -> Nat]
  /\ batch \in [Actor -> SUBSET Receipt]
  /\ outcome \in [Actor -> {"none", "ok", "err"}]
  /\ late \in [Actor -> SUBSET Receipt]
  /\ resets \in 0..MaxResets
  /\ retryFaults \in 0..MaxRetryFaults

(***************************************************************************)
(* A database left by the release before the delivery rows, with the same  *)
(* max_attempts.                                                           *)
(***************************************************************************)
LegacyInit ==
  /\ processing_state \in [Receipt -> ProcessingState]
  /\ emit_count \in [Receipt -> 0..MaxAttempts]
  /\ \A r \in Receipt :
       /\ processing_state[r] = "emit_failed" => emit_count[r] < MaxAttempts
       /\ processing_state[r] = "dead_lettered" => emit_count[r] = MaxAttempts
       /\ processing_state[r] \notin Failed => emit_count[r] = 0
  /\ batch = [a \in Actor |-> {}]
  /\ outcome = [a \in Actor |-> "none"]
  /\ late = [a \in Actor |-> {}]
  /\ resets = MaxResets
  /\ retryFaults = MaxRetryFaults

-----------------------------------------------------------------------------
\* ORDER BY received_at ASC LIMIT n
Oldest(S) == {r \in S : Cardinality({q \in S : q < r}) < BatchLimit}
Next1(S) == CHOOSE r \in S : \A q \in S : r <= q

\* Mutant: the worker takes the dead letters too.
IsFindableDead(r) == processing_state[r] \in Failed

\* Mutant: the last attempt is not retried.
IsFindableEarly(r) ==
  processing_state[r] = "emit_failed" /\ emit_count[r] + 1 < MaxAttempts

\* is_findable_by_worker, and the WHERE clause of query_for_retry.
IsFindable(r) ==
  processing_state[r] = "emit_failed" /\ emit_count[r] < MaxAttempts

\* query_for_retry at the end of the worker's sleep.
QueryForRetry(w) ==
  /\ batch[w] = {}
  /\ batch' = [batch EXCEPT ![w] = Oldest({r \in Receipt : IsFindable(r)})]
  /\ late' = [late EXCEPT ![w] = {}]
  /\ UNCHANGED <<receiptColumns, outcome, resets, retryFaults>>

\* retry_one: the emit, which succeeds or fails.
RetryEmit(w) ==
  /\ batch[w] # {}
  /\ outcome[w] = "none"
  /\ \E o \in {"ok", "err"} : outcome' = [outcome EXCEPT ![w] = o]
  /\ UNCHANGED <<receiptColumns, batch, late, resets, retryFaults>>

\* The worker is through with the receipt and turns to the next one.
RetryDone(w, r) ==
  /\ batch' = [batch EXCEPT ![w] = @ \ {r}]
  /\ outcome' = [outcome EXCEPT ![w] = "none"]
  /\ UNCHANGED <<resets, retryFaults>>

\* update_state(id, Emitted, None), whatever the receipt's state is by now.
UpdateStateEmitted(w) ==
  LET r == Next1(batch[w]) IN
  /\ batch[w] # {}
  /\ outcome[w] = "ok"
  /\ processing_state' = [processing_state EXCEPT ![r] = "emitted"]
  /\ late' = [a \in Actor |-> IF a # w /\ r \in batch[a] THEN late[a] \cup {r} ELSE late[a]]
  /\ RetryDone(w, r)
  /\ UNCHANGED emit_count

\* Mutant: one attempt too many.
RetryNextStateLate(n) == <<n + 1, IF n + 1 > MaxAttempts THEN "dead_lettered" ELSE "emit_failed">>

\* retry_next_state, and the CASE of retry_failed.
RetryNextState(n) == <<n + 1, IF n + 1 >= MaxAttempts THEN "dead_lettered" ELSE "emit_failed">>

\* retry_failed(id, max_attempts): one statement, on the receipt as it is now.
RetryFailed(w) ==
  LET r == Next1(batch[w])
      next == RetryNextState(emit_count[r])
  IN
  /\ batch[w] # {}
  /\ outcome[w] = "err"
  /\ emit_count' = [emit_count EXCEPT ![r] = next[1]]
  /\ processing_state' = [processing_state EXCEPT ![r] = next[2]]
  /\ RetryDone(w, r)
  /\ UNCHANGED late

\* Either statement fails: the error is logged and the worker goes on.
RecordFails(w) ==
  /\ outcome[w] # "none"
  /\ retryFaults > 0
  /\ retryFaults' = retryFaults - 1
  /\ batch' = [batch EXCEPT ![w] = @ \ {Next1(batch[w])}]
  /\ outcome' = [outcome EXCEPT ![w] = "none"]
  /\ UNCHANGED <<receiptColumns, late, resets>>

-----------------------------------------------------------------------------
\* Mutant: the window is not narrowed to the failed receipts.
QueryFailedSinceAll(R) == R

\* Among the receipts R of the window and the provider, the failed ones.
QueryFailedSince(R) == {r \in R : processing_state[r] \in Failed}

\* `hookbox replay failed`: the query of the receipts to reset.
ReplayFailed(o, R) ==
  /\ batch[o] = {}
  /\ resets > 0
  /\ resets' = resets - 1
  /\ batch' = [batch EXCEPT ![o] = Oldest(QueryFailedSince(R))]
  /\ late' = [late EXCEPT ![o] = {}]
  /\ UNCHANGED <<receiptColumns, outcome, retryFaults>>

\* reset_state, and the SET of reset_for_retry.
ResetState(r) == <<0, "emit_failed">>

\* reset_for_retry of the next receipt.
ResetForRetry(o) ==
  LET r == Next1(batch[o]) IN
  /\ batch[o] # {}
  /\ emit_count' = [emit_count EXCEPT ![r] = ResetState(r)[1]]
  /\ processing_state' = [processing_state EXCEPT ![r] = ResetState(r)[2]]
  /\ RetryDone(o, r)
  /\ UNCHANGED late

\* A failing reset_for_retry ends the command: the rest is not reset.
ResetFails(o) ==
  /\ batch[o] # {}
  /\ retryFaults > 0
  /\ retryFaults' = retryFaults - 1
  /\ batch' = [batch EXCEPT ![o] = {}]
  /\ UNCHANGED <<receiptColumns, outcome, late, resets>>

-----------------------------------------------------------------------------
RetryWorkerStep(w) ==
  \/ QueryForRetry(w)
  \/ RetryEmit(w)
  \/ UpdateStateEmitted(w)
  \/ RetryFailed(w)
  \/ RecordFails(w)

OperatorStep(o) ==
  \/ \E R \in SUBSET Receipt : ReplayFailed(o, R)
  \/ ResetForRetry(o)
  \/ ResetFails(o)

LegacyNext ==
  \/ \E w \in RetryWorker : RetryWorkerStep(w)
  \/ \E o \in Operator : OperatorStep(o)

(***************************************************************************)
(* The worker's loop runs as long as the process does: its next step, fail *)
(* or not, is taken.  Nothing is assumed of the operators.                 *)
(***************************************************************************)
LegacySpec ==
  /\ LegacyInit /\ [][LegacyNext]_retryVars
  /\ \A w \in RetryWorker : WF_retryVars(RetryWorkerStep(w))

-----------------------------------------------------------------------------
(***************************************************************************)
(* A failed receipt is either one the worker's query finds or one the dead *)
(* letters list: no interleaving of late retry_failed, update_state and    *)
(* reset_for_retry leaves one in emit_failed that is never retried again.  *)
(***************************************************************************)
NeverStuck ==
  \A r \in Receipt :
    /\ processing_state[r] = "emit_failed" => emit_count[r] < MaxAttempts
    /\ processing_state[r] = "dead_lettered" => emit_count[r] >= MaxAttempts

(***************************************************************************)
(* retry_failed increments whatever it finds, so racing workers overshoot  *)
(* max_attempts; they do so by at most one for each further worker.        *)
(***************************************************************************)
RetriesBounded ==
  \A r \in Receipt : emit_count[r] < MaxAttempts + Cardinality(RetryWorker)

(***************************************************************************)
(* An emitted receipt goes back to a failed state only at the hand of one  *)
(* who had read it as failed before it was marked emitted: a worker that   *)
(* was overtaken, or a `replay failed` still working through its list.     *)
(***************************************************************************)
OnlyStaleReadersReopen ==
  [][\A r \in Receipt :
       processing_state[r] = "emitted" /\ processing_state'[r] \in Failed
         => \E a \in Actor : r \in late[a] /\ r \in batch[a] /\ r \notin batch'[a]]_retryVars

(***************************************************************************)
(* Every failed receipt is settled, even one beyond the LIMIT of a batch:  *)
(* those before it use up their attempts.                                  *)
(***************************************************************************)
FailedSettles ==
  \A r \in Receipt :
    processing_state[r] = "emit_failed" ~> processing_state[r] \in {"emitted", "dead_lettered"}
=============================================================================
