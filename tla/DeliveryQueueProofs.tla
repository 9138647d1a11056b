------------------------- MODULE DeliveryQueueProofs -------------------------
(***************************************************************************)
(* Theorems about DeliveryQueue, for any number of workers, rows, emitters *)
(* and faults.                                                             *)
(***************************************************************************)
EXTENDS DeliveryQueue, TLAPS, FiniteSetTheorems

\* Each step keeps the types.
LEMMA TypeStep == TypeOK /\ [Next]_vars => TypeOK'
<1> USE QueueAssumption DEF TypeOK, TaskState, DeliveryState
<1> SUFFICES ASSUME TypeOK, [Next]_vars PROVE TypeOK'
  OBVIOUS
<1>1. ASSUME NEW D \in SUBSET Delivery, InsertRows(D) PROVE TypeOK'
  BY <1>1 DEF InsertRows
<1>2. ASSUME NEW w \in Worker, Loop(w) PROVE TypeOK'
  <2>1. CASE Poll(w)
    BY <2>1 DEF Poll, rows
  <2>2. CASE ReclaimExpired(w)
    BY <2>2 DEF ReclaimExpired
  <2>3. CASE ReclaimError(w)
    BY <2>3 DEF ReclaimError, Fault, rows
  <2>4. CASE ClaimPending(w)
    BY <2>4 DEF ClaimPending, Lease
  <2>5. CASE ClaimError(w)
    BY <2>5 DEF ClaimError, Lease, Fault
  <2>6. CASE BatchDone(w)
    BY <2>6 DEF BatchDone, rows
  <2> QED BY <1>2, <2>1, <2>2, <2>3, <2>4, <2>5, <2>6 DEF Loop
<1>3. ASSUME NEW w \in Worker, Crash(w) \/ Restart(w) PROVE TypeOK'
  <2>1. CASE Crash(w)
    BY <2>1 DEF Crash, Fault, rows
  <2>2. CASE Restart(w)
    BY <2>2 DEF Restart, rows
  <2> QED BY <1>3, <2>1, <2>2
<1>4. ASSUME NEW w \in Worker, NEW d \in Delivery, Emit(w, d) PROVE TypeOK'
  <2>1. CASE DownstreamTakes(w, d)
    BY <2>1 DEF DownstreamTakes, SetTask, rows
  <2>2. CASE EmitOk(w, d)
    BY <2>2 DEF EmitOk, SetTask, rows
  <2>3. CASE EmitErr(w, d)
    BY <2>3 DEF EmitErr, SetTask, rows
  <2>4. CASE EmitTimeout(w, d)
    BY <2>4 DEF EmitTimeout, SetTask, Fault, rows
  <2> QED BY <1>4, <2>1, <2>2, <2>3, <2>4 DEF Emit
<1>5. ASSUME NEW w \in Worker, NEW d \in Delivery, Mark(w, d) PROVE TypeOK'
  <2>1. CASE MarkEmitted(w, d)
    BY <2>1 DEF MarkEmitted, EndTask, SetTask
  <2>2. CASE MarkFailed(w, d)
    <3>1. seen[w][d] + 1 \in Nat
      OBVIOUS
    <3>2. CASE state[d] = "in_flight"
      BY <2>2, <3>1, <3>2 DEF MarkFailed, EndTask, SetTask
    <3>3. CASE state[d] # "in_flight"
      BY <2>2, <3>3 DEF MarkFailed, EndTask, SetTask
    <3> QED BY <3>2, <3>3
  <2>3. CASE MarkDeadLettered(w, d)
    BY <2>3 DEF MarkDeadLettered, EndTask, SetTask
  <2>4. CASE MarkError(w, d)
    BY <2>4 DEF MarkError, EndTask, SetTask, Fault, rows
  <2> QED BY <1>5, <2>1, <2>2, <2>3, <2>4 DEF Mark
<1>6. ASSUME NEW d \in Delivery, Clock(d) PROVE TypeOK'
  <2>1. CASE BackoffElapses(d)
    BY <2>1 DEF BackoffElapses
  <2>2. CASE OrphanExpires(d)
    BY <2>2 DEF OrphanExpires
  <2>3. CASE LeaseOverruns(d)
    BY <2>3 DEF LeaseOverruns, Fault
  <2> QED BY <1>6, <2>1, <2>2, <2>3 DEF Clock
<1>7. CASE UNCHANGED vars
  BY <1>7 DEF vars
<1> QED BY <1>1, <1>2, <1>3, <1>4, <1>5, <1>6, <1>7 DEF Next

\* Every variable keeps its type: rows of webhook_deliveries hold a
\* DeliveryState, futures one of the five stages of dispatch_one.
THEOREM TypeCorrect == Spec => []TypeOK
<1>1. Init => TypeOK
  BY QueueAssumption DEF Init, Backfilled, TypeOK, TaskState, DeliveryState
<1> QED BY <1>1, TypeStep, PTL DEF Spec

-----------------------------------------------------------------------------
(***************************************************************************)
(* The invariant behind AttemptsAreFailures and the refinement.  The       *)
(* stored attempt_count alone is not inductive: what dead-letters a row is *)
(* the copy of it a future took at its claim, possibly long ago, so the    *)
(* copy must be bounded by the failures too, and a future that is about to *)
(* record a failure must have one of its own on top.                       *)
(***************************************************************************)
TaskInv ==
  \A w \in Worker, d \in Delivery :
    Live(w, d) =>
      /\ d \in Mutable
      /\ state[d] # "absent"
      /\ seen[w][d] < MaxAttempts
      /\ seen[w][d] <= failures[d]
      /\ task[w][d] = "err" => seen[w][d] < failures[d]
      /\ task[w][d] \in {"sent", "ok"} => copies[d] > 0

RowInv ==
  \A d \in Mutable :
    /\ attempt_count[d] < MaxAttempts
    /\ attempt_count[d] <= failures[d]
    /\ state[d] = "dead_lettered" => failures[d] >= MaxAttempts
    /\ state[d] = "emitted" => copies[d] > 0

LegacyInv ==
  \A d \in Legacy : state[d] \notin {"absent", "in_flight"} /\ copies[d] = 0

QueueInv == TypeOK /\ TaskInv /\ RowInv /\ LegacyInv

\* The rows of the backfill and idle workers satisfy the invariant.
LEMMA QueueInvInit == Init => QueueInv
<1> SUFFICES ASSUME Init PROVE QueueInv
  OBVIOUS
<1> USE QueueAssumption DEF Init, Backfilled
<1>1. TypeOK
  <2>1. state \in [Delivery -> DeliveryState \cup {"absent"}]
    BY DEF DeliveryState
  <2>2. attempt_count \in [Delivery -> Nat]
    OBVIOUS
  <2>3. due \in [Delivery -> BOOLEAN] /\ expired \in [Delivery -> BOOLEAN]
    OBVIOUS
  <2>4. pc \in [Worker -> {"down", "sleep", "reclaim", "claim", "dispatch"}]
    OBVIOUS
  <2>5. task \in [Worker -> [Delivery -> TaskState]] /\ seen \in [Worker -> [Delivery -> Nat]]
    BY DEF TaskState
  <2>6. copies \in [Delivery -> Nat] /\ failures \in [Delivery -> Nat] /\ faults \in 0..MaxFaults
    OBVIOUS
  <2> QED BY <2>1, <2>2, <2>3, <2>4, <2>5, <2>6 DEF TypeOK
<1>2. TaskInv
  BY DEF TaskInv, Live
<1>3. RowInv
  BY DEF RowInv, Mutable
<1>4. LegacyInv
  BY DEF LegacyInv
<1> QED BY <1>1, <1>2, <1>3, <1>4 DEF QueueInv

\* Every step of a worker, a producer, the clock or the environment keeps the
\* invariant, overrun leases and stale marks included.
LEMMA QueueInvStep == QueueInv /\ [Next]_vars => QueueInv'
<1> SUFFICES ASSUME QueueInv, [Next]_vars PROVE TaskInv' /\ RowInv' /\ LegacyInv'
  BY TypeStep DEF QueueInv
<1> USE QueueAssumption DEF QueueInv, TypeOK, TaskInv, RowInv, LegacyInv, Live, Mutable,
        TaskState, DeliveryState
<1> DEFINE watched == <<state, attempt_count, task, seen, copies, failures>>
           Goal == TaskInv' /\ RowInv' /\ LegacyInv'
<1>1. ASSUME NEW D \in SUBSET Delivery, InsertRows(D) PROVE Goal
  <2>1. TaskInv'
    BY <1>1 DEF InsertRows
  <2>2. RowInv'
    BY <1>1 DEF InsertRows
  <2>3. LegacyInv'
    BY <1>1 DEF InsertRows
  <2> QED BY <2>1, <2>2, <2>3
<1>2. ASSUME NEW w \in Worker, ReclaimExpired(w) PROVE Goal
  <2>1. TaskInv'
    BY <1>2 DEF ReclaimExpired, Reclaimable
  <2>2. RowInv'
    BY <1>2 DEF ReclaimExpired, Reclaimable
  <2>3. LegacyInv'
    BY <1>2 DEF ReclaimExpired, Reclaimable
  <2> QED BY <2>1, <2>2, <2>3
<1>3. ASSUME NEW w \in Worker, ClaimPending(w) PROVE Goal
  <2>1. TaskInv'
    BY <1>3 DEF ClaimPending, Batch, Claimable, Lease
  <2>2. RowInv'
    BY <1>3 DEF ClaimPending, Batch, Claimable, Lease
  <2>3. LegacyInv'
    BY <1>3 DEF ClaimPending, Batch, Claimable, Lease
  <2> QED BY <2>1, <2>2, <2>3
<1>4. ASSUME NEW w \in Worker, ClaimError(w) PROVE Goal
  <2>1. TaskInv'
    BY <1>4 DEF ClaimError, Batch, Claimable, Lease
  <2>2. RowInv'
    BY <1>4 DEF ClaimError, Batch, Claimable, Lease
  <2>3. LegacyInv'
    BY <1>4 DEF ClaimError, Batch, Claimable, Lease
  <2> QED BY <2>1, <2>2, <2>3
<1>5. ASSUME NEW w \in Worker, Crash(w) PROVE Goal
  <2>1. TaskInv'
    BY <1>5 DEF Crash, rows
  <2>2. RowInv'
    BY <1>5 DEF Crash, rows
  <2>3. LegacyInv'
    BY <1>5 DEF Crash, rows
  <2> QED BY <2>1, <2>2, <2>3
<1>6. ASSUME NEW w \in Worker, NEW d \in Delivery, DownstreamTakes(w, d) PROVE Goal
  <2>1. TaskInv'
    BY <1>6 DEF DownstreamTakes, SetTask, rows
  <2>2. RowInv'
    BY <1>6 DEF DownstreamTakes, SetTask, rows
  <2>3. LegacyInv'
    BY <1>6 DEF DownstreamTakes, SetTask, rows
  <2> QED BY <2>1, <2>2, <2>3
<1>7. ASSUME NEW w \in Worker, NEW d \in Delivery, EmitOk(w, d) PROVE Goal
  <2>1. TaskInv'
    BY <1>7 DEF EmitOk, SetTask, rows
  <2>2. RowInv'
    BY <1>7 DEF EmitOk, SetTask, rows
  <2>3. LegacyInv'
    BY <1>7 DEF EmitOk, SetTask, rows
  <2> QED BY <2>1, <2>2, <2>3
<1>8. ASSUME NEW w \in Worker, NEW d \in Delivery, EmitErr(w, d) PROVE Goal
  <2>1. TaskInv'
    BY <1>8 DEF EmitErr, SetTask, rows
  <2>2. RowInv'
    BY <1>8 DEF EmitErr, SetTask, rows
  <2>3. LegacyInv'
    BY <1>8 DEF EmitErr, SetTask, rows
  <2> QED BY <2>1, <2>2, <2>3
<1>9. ASSUME NEW w \in Worker, NEW d \in Delivery, EmitTimeout(w, d) PROVE Goal
  <2>1. TaskInv'
    BY <1>9 DEF EmitTimeout, SetTask, rows
  <2>2. RowInv'
    BY <1>9 DEF EmitTimeout, SetTask, rows
  <2>3. LegacyInv'
    BY <1>9 DEF EmitTimeout, SetTask, rows
  <2> QED BY <2>1, <2>2, <2>3
<1>10. ASSUME NEW w \in Worker, NEW d \in Delivery, MarkEmitted(w, d) PROVE Goal
  <2>1. TaskInv'
    BY <1>10 DEF MarkEmitted, EndTask, SetTask
  <2>2. RowInv'
    BY <1>10 DEF MarkEmitted, EndTask, SetTask
  <2>3. LegacyInv'
    BY <1>10 DEF MarkEmitted, EndTask, SetTask
  <2> QED BY <2>1, <2>2, <2>3
<1>11. ASSUME NEW w \in Worker, NEW d \in Delivery, MarkFailed(w, d) PROVE Goal
  <2>1. TaskInv'
    BY <1>11 DEF MarkFailed, Exhausted, EndTask, SetTask
  <2>2. RowInv'
    BY <1>11 DEF MarkFailed, Exhausted, EndTask, SetTask
  <2>3. LegacyInv'
    BY <1>11 DEF MarkFailed, Exhausted, EndTask, SetTask
  <2> QED BY <2>1, <2>2, <2>3
<1>12. ASSUME NEW w \in Worker, NEW d \in Delivery, MarkDeadLettered(w, d) PROVE Goal
  <2>1. TaskInv'
    BY <1>12 DEF MarkDeadLettered, Exhausted, EndTask, SetTask
  <2>2. RowInv'
    BY <1>12 DEF MarkDeadLettered, Exhausted, EndTask, SetTask
  <2>3. LegacyInv'
    BY <1>12 DEF MarkDeadLettered, Exhausted, EndTask, SetTask
  <2> QED BY <2>1, <2>2, <2>3
<1>13. ASSUME NEW w \in Worker, NEW d \in Delivery, MarkError(w, d) PROVE Goal
  <2>1. TaskInv'
    BY <1>13 DEF MarkError, EndTask, SetTask, rows
  <2>2. RowInv'
    BY <1>13 DEF MarkError, EndTask, SetTask, rows
  <2>3. LegacyInv'
    BY <1>13 DEF MarkError, EndTask, SetTask, rows
  <2> QED BY <2>1, <2>2, <2>3
<1>14. CASE UNCHANGED watched
  BY <1>14
<1>15. ASSUME NEW w \in Worker, Poll(w) \/ ReclaimError(w) \/ BatchDone(w) \/ Restart(w)
      PROVE  UNCHANGED watched
  BY <1>15 DEF Poll, ReclaimError, BatchDone, Restart, rows
<1>16. ASSUME NEW d \in Delivery, Clock(d) PROVE UNCHANGED watched
  BY <1>16 DEF Clock, BackoffElapses, OrphanExpires, LeaseOverruns
<1>17. CASE UNCHANGED vars
  BY <1>17 DEF vars
<1> QED
  BY <1>1, <1>2, <1>3, <1>4, <1>5, <1>6, <1>7, <1>8, <1>9,
     <1>10, <1>11, <1>12, <1>13, <1>14, <1>15, <1>16, <1>17
  DEF Next, Loop, Emit, Mark

\* However many workers, reclaims and stale marks there are, no counter of
\* attempts runs ahead of the emits that failed, and a row is dead-lettered
\* only after max_attempts of them.
THEOREM AttemptsAreFailuresHolds == Spec => []AttemptsAreFailures
<1>1. QueueInv => AttemptsAreFailures
  BY DEF QueueInv, RowInv, TaskInv, Mutable, AttemptsAreFailures
<1> QED BY <1>1, QueueInvInit, QueueInvStep, PTL DEF Spec

\* The queue implements the ledger: a delivery is settled at most once, as
\* emitted only if the downstream system took it, as dead-lettered only after
\* max_attempts failures.
THEOREM RefinesLedger == Spec => ImplementsLedger
<1>1. Init => Ledger!Init
  <2> SUFFICES ASSUME Init PROVE Ledger!Init
    OBVIOUS
  <2>1. ASSUME NEW d \in Mutable PROVE Outcome(state[d]) = "none"
    BY DEF Init, Backfilled, Mutable, Outcome, Terminal
  <2>2. ASSUME NEW d \in Mutable PROVE copies[d] = 0 /\ failures[d] = 0
    BY DEF Init, Mutable
  <2> QED BY <2>1, <2>2 DEF Ledger!Init
<1>2. QueueInv /\ [Next]_vars => [Ledger!Next]_(Ledger!vars)
  <2> SUFFICES ASSUME QueueInv, [Next]_vars
               PROVE  Ledger!Next \/ UNCHANGED Ledger!vars
    OBVIOUS
  <2> USE DEF Ledger!vars, Mutable
  <2>0. ASSUME NEW d \in Mutable PROVE state[d] \in DeliveryState \cup {"absent"}
    BY DEF QueueInv, TypeOK
  <2>1. CASE UNCHANGED <<state, copies, failures>>
    BY <2>1
  <2>2. ASSUME NEW D \in SUBSET Delivery, InsertRows(D) PROVE Ledger!Next
    <3>1. \A d \in Mutable : d \in D => Outcome(state[d]) = "none" /\ Outcome(state'[d]) = "open"
      BY <2>2, <2>0 DEF InsertRows, Outcome, Terminal
    <3>2. \A d \in Mutable : d \notin D => state'[d] = state[d]
      BY <2>2 DEF InsertRows
    <3>3. Ledger!Enqueue(D \ Legacy)
      BY <2>2, <3>1, <3>2 DEF Ledger!Enqueue, InsertRows
    <3> QED BY <3>3 DEF Ledger!Next
  <2>3. ASSUME NEW w \in Worker, ReclaimExpired(w) PROVE UNCHANGED Ledger!vars
    <3>1. \A d \in Mutable : Outcome(state'[d]) = Outcome(state[d])
      BY <2>3 DEF ReclaimExpired, Reclaimable, Outcome, Terminal
    <3> QED BY <2>3, <3>1 DEF ReclaimExpired
  <2>4. ASSUME NEW w \in Worker, ClaimPending(w) \/ ClaimError(w)
        PROVE  UNCHANGED Ledger!vars
    <3>1. \A d \in Mutable : Outcome(state'[d]) = Outcome(state[d])
      BY <2>4 DEF ClaimPending, ClaimError, Batch, Claimable, Lease, Outcome, Terminal
    <3> QED BY <2>4, <3>1 DEF ClaimPending, ClaimError
  <2>5. ASSUME NEW w \in Worker,
               Poll(w) \/ ReclaimError(w) \/ BatchDone(w) \/ Crash(w) \/ Restart(w)
        PROVE  UNCHANGED <<state, copies, failures>>
    BY <2>5 DEF Poll, ReclaimError, BatchDone, Crash, Restart, rows
  <2>6. ASSUME NEW d \in Delivery, Clock(d) PROVE UNCHANGED <<state, copies, failures>>
    BY <2>6 DEF Clock, BackoffElapses, OrphanExpires, LeaseOverruns
  <2>7. ASSUME NEW w \in Worker, NEW d \in Delivery, Emit(w, d)
        PROVE  Ledger!Next \/ UNCHANGED <<state, copies, failures>>
    <3>1. CASE DownstreamTakes(w, d)
      <4>1. d \in Mutable /\ Outcome(state[d]) # "none"
        BY <3>1 DEF DownstreamTakes, QueueInv, TaskInv, Live, Outcome, Terminal
      <4>2. Ledger!Take(d)
        BY <3>1, <4>1 DEF DownstreamTakes, Ledger!Take, rows, QueueInv, TypeOK
      <4> QED BY <4>1, <4>2 DEF Ledger!Next
    <3>2. CASE EmitOk(w, d)
      BY <3>2 DEF EmitOk, rows
    <3>3. CASE EmitErr(w, d) \/ EmitTimeout(w, d)
      <4>1. d \in Mutable /\ Outcome(state[d]) # "none"
        BY <3>3 DEF EmitErr, EmitTimeout, QueueInv, TaskInv, Live, Outcome, Terminal
      <4>2. Ledger!Fail(d)
        BY <3>3, <4>1 DEF EmitErr, EmitTimeout, Ledger!Fail, rows, QueueInv, TypeOK
      <4> QED BY <4>1, <4>2 DEF Ledger!Next
    <3> QED BY <2>7, <3>1, <3>2, <3>3 DEF Emit
  <2>8. ASSUME NEW w \in Worker, NEW d \in Delivery, Mark(w, d)
        PROVE  Ledger!Next \/ UNCHANGED Ledger!vars
    <3> USE DEF QueueInv, TypeOK
    <3>0. Live(w, d) /\ d \in Mutable
      BY <2>8 DEF Mark, MarkEmitted, MarkFailed, MarkDeadLettered, MarkError, Live, TaskInv
    <3>1. CASE state[d] # "in_flight" \/ MarkError(w, d)
      BY <2>8, <3>1 DEF Mark, MarkEmitted, MarkFailed, MarkDeadLettered, MarkError, rows
    <3>2. CASE state[d] = "in_flight" /\ MarkEmitted(w, d)
      <4>1. copies[d] > 0 /\ Outcome(state[d]) = "open"
        BY <3>0, <3>2 DEF MarkEmitted, TaskInv, Outcome, Terminal
      <4>2. Outcome(state'[d]) = "emitted"
        BY <3>0, <3>2 DEF MarkEmitted, Outcome, Terminal
      <4>3. \A c \in Mutable : c # d => state'[c] = state[c]
        BY <3>2 DEF MarkEmitted
      <4>4. Ledger!SettleEmitted(d)
        BY <3>0, <3>2, <4>1, <4>2, <4>3 DEF MarkEmitted, Ledger!SettleEmitted
      <4> QED BY <3>0, <4>4 DEF Ledger!Next
    <3>3. CASE state[d] = "in_flight" /\ MarkFailed(w, d)
      <4>1. \A c \in Mutable : Outcome(state'[c]) = Outcome(state[c])
        BY <3>3 DEF MarkFailed, Outcome, Terminal
      <4> QED BY <3>3, <4>1 DEF MarkFailed
    <3>4. CASE state[d] = "in_flight" /\ MarkDeadLettered(w, d)
      <4>1. failures[d] >= MaxAttempts /\ Outcome(state[d]) = "open"
        BY QueueAssumption, <3>0, <3>4
        DEF MarkDeadLettered, Exhausted, TaskInv, Outcome, Terminal
      <4>2. Outcome(state'[d]) = "dead_lettered"
        BY <3>0, <3>4 DEF MarkDeadLettered, Outcome, Terminal
      <4>3. \A c \in Mutable : c # d => state'[c] = state[c]
        BY <3>4 DEF MarkDeadLettered
      <4>4. Ledger!SettleDeadLettered(d)
        BY <3>0, <3>4, <4>1, <4>2, <4>3 DEF MarkDeadLettered, Ledger!SettleDeadLettered
      <4> QED BY <3>0, <4>4 DEF Ledger!Next
    <3> QED BY <2>8, <3>1, <3>2, <3>3, <3>4 DEF Mark
  <2>9. CASE UNCHANGED vars
    BY <2>9 DEF vars
  <2> QED
    BY <2>1, <2>2, <2>3, <2>4, <2>5, <2>6, <2>7, <2>8, <2>9 DEF Next, Loop
<1> QED BY <1>1, <1>2, QueueInvInit, QueueInvStep, PTL DEF Spec, ImplementsLedger, Ledger!Spec

-----------------------------------------------------------------------------
(***************************************************************************)
(* When no emit outlives its lease, or each emitter has one worker, a row  *)
(* is never in two hands.  Exclusive is not inductive by itself: that a    *)
(* reclaim does not take a row from a live future needs to know that the   *)
(* lease of such a row has not expired or, with one worker per emitter,    *)
(* that the worker which would reclaim it is busy dispatching it.          *)
(***************************************************************************)
LeaseInv ==
  \A w \in Worker, d \in Delivery :
    Live(w, d) => /\ pc[w] = "dispatch"
                  /\ TargetOf[d] = EmitterOf[w]
                  /\ ~Overrun => ~expired[d]

ExclusiveInv == TypeOK /\ Exclusive /\ LeaseInv

\* At the start nobody holds a row.
LEMMA ExclusiveInit == Init => ExclusiveInv
BY QueueInvInit DEF Init, QueueInv, ExclusiveInv, Exclusive, LeaseInv, Live

\* If a lease expires only once its holder is gone, no step gives a row to a
\* second worker or changes the count under the first.
LEMMA ExclusiveStep ==
  ASSUME ~Overrun \/ Solo
  PROVE  ExclusiveInv /\ [Next]_vars => ExclusiveInv'
<1> SUFFICES ASSUME ExclusiveInv, [Next]_vars PROVE Exclusive' /\ LeaseInv'
  BY TypeStep DEF ExclusiveInv
<1> USE QueueAssumption DEF ExclusiveInv, TypeOK, Exclusive, LeaseInv, Live, TaskState, DeliveryState
<1>1. ASSUME NEW D \in SUBSET Delivery, InsertRows(D) PROVE Exclusive' /\ LeaseInv'
  <2>1. Exclusive'
    BY <1>1 DEF InsertRows
  <2>2. LeaseInv'
    BY <1>1 DEF InsertRows
  <2> QED BY <2>1, <2>2
<1>2. ASSUME NEW w \in Worker, Poll(w) PROVE Exclusive' /\ LeaseInv'
  <2>1. Exclusive'
    BY <1>2 DEF Poll, rows
  <2>2. LeaseInv'
    BY <1>2 DEF Poll, rows
  <2> QED BY <2>1, <2>2
<1>3. ASSUME NEW w \in Worker, ReclaimExpired(w) PROVE Exclusive' /\ LeaseInv'
  <2>1. Exclusive'
    BY <1>3 DEF ReclaimExpired, Reclaimable, Solo
  <2>2. LeaseInv'
    BY <1>3 DEF ReclaimExpired, Reclaimable, Solo
  <2> QED BY <2>1, <2>2
<1>4. ASSUME NEW w \in Worker, ReclaimError(w) PROVE Exclusive' /\ LeaseInv'
  <2>1. Exclusive'
    BY <1>4 DEF ReclaimError, rows
  <2>2. LeaseInv'
    BY <1>4 DEF ReclaimError, rows
  <2> QED BY <2>1, <2>2
<1>5. ASSUME NEW w \in Worker, ClaimPending(w) PROVE Exclusive' /\ LeaseInv'
  <2>0. PICK S \in Batch(w) :
          /\ Lease(S)
          /\ task' = [task EXCEPT ![w] = [d \in Delivery |->
                                            IF d \in S THEN "emit" ELSE "idle"]]
          /\ seen' = [seen EXCEPT ![w] = [d \in Delivery |->
                                            IF d \in S THEN attempt_count[d] ELSE 0]]
          /\ pc' = [pc EXCEPT ![w] = IF S = {} THEN "sleep" ELSE "dispatch"]
    BY <1>5 DEF ClaimPending
  <2>1. \A d \in S : d \in Delivery /\ TargetOf[d] = EmitterOf[w] /\ state[d] # "in_flight"
    BY <2>0 DEF Batch, Claimable
  <2>2. \A v \in Worker, d \in Delivery : Live(v, d)' => \/ v = w /\ d \in S
                                                         \/ v # w /\ Live(v, d) /\ d \notin S
    BY <2>0, <2>1
  <2>3. attempt_count' = attempt_count
    BY <1>5 DEF ClaimPending
  <2>4. Exclusive'
    BY <2>0, <2>1, <2>2, <2>3 DEF Lease
  <2>5. LeaseInv'
    BY <2>0, <2>1, <2>2 DEF Lease
  <2> QED BY <2>4, <2>5
<1>6. ASSUME NEW w \in Worker, ClaimError(w) PROVE Exclusive' /\ LeaseInv'
  <2>1. Exclusive'
    BY <1>6 DEF ClaimError, Batch, Claimable, Lease
  <2>2. LeaseInv'
    BY <1>6 DEF ClaimError, Batch, Claimable, Lease
  <2> QED BY <2>1, <2>2
<1>7. ASSUME NEW w \in Worker, BatchDone(w) PROVE Exclusive' /\ LeaseInv'
  <2>1. Exclusive'
    BY <1>7 DEF BatchDone, rows
  <2>2. LeaseInv'
    BY <1>7 DEF BatchDone, rows
  <2> QED BY <2>1, <2>2
<1>8. ASSUME NEW w \in Worker, Crash(w) PROVE Exclusive' /\ LeaseInv'
  <2>1. Exclusive'
    BY <1>8 DEF Crash, rows
  <2>2. LeaseInv'
    BY <1>8 DEF Crash, rows
  <2> QED BY <2>1, <2>2
<1>9. ASSUME NEW w \in Worker, Restart(w) PROVE Exclusive' /\ LeaseInv'
  <2>1. Exclusive'
    BY <1>9 DEF Restart, rows
  <2>2. LeaseInv'
    BY <1>9 DEF Restart, rows
  <2> QED BY <2>1, <2>2
<1>10. ASSUME NEW w \in Worker, NEW d \in Delivery, Emit(w, d) PROVE Exclusive' /\ LeaseInv'
  <2>1. /\ Live(w, d)
        /\ \E t \in TaskState : task' = [task EXCEPT ![w][d] = t]
        /\ UNCHANGED <<state, attempt_count, expired, pc, seen>>
    BY <1>10 DEF Emit, DownstreamTakes, EmitOk, EmitErr, EmitTimeout, SetTask, rows
  <2>2. \A v \in Worker, c \in Delivery : Live(v, c)' => Live(v, c)
    BY <2>1
  <2> QED BY <2>1, <2>2
<1>11. ASSUME NEW w \in Worker, NEW d \in Delivery, MarkEmitted(w, d) PROVE Exclusive' /\ LeaseInv'
  <2>1. Exclusive'
    BY <1>11 DEF MarkEmitted, EndTask, SetTask
  <2>2. LeaseInv'
    BY <1>11 DEF MarkEmitted, EndTask, SetTask
  <2> QED BY <2>1, <2>2
<1>12. ASSUME NEW w \in Worker, NEW d \in Delivery, MarkFailed(w, d) PROVE Exclusive' /\ LeaseInv'
  <2>1. Exclusive'
    BY <1>12 DEF MarkFailed, EndTask, SetTask
  <2>2. LeaseInv'
    BY <1>12 DEF MarkFailed, EndTask, SetTask
  <2> QED BY <2>1, <2>2
<1>13. ASSUME NEW w \in Worker, NEW d \in Delivery, MarkDeadLettered(w, d) PROVE Exclusive' /\ LeaseInv'
  <2>1. Exclusive'
    BY <1>13 DEF MarkDeadLettered, EndTask, SetTask
  <2>2. LeaseInv'
    BY <1>13 DEF MarkDeadLettered, EndTask, SetTask
  <2> QED BY <2>1, <2>2
<1>14. ASSUME NEW w \in Worker, NEW d \in Delivery, MarkError(w, d) PROVE Exclusive' /\ LeaseInv'
  <2>1. Exclusive'
    BY <1>14 DEF MarkError, EndTask, SetTask, rows
  <2>2. LeaseInv'
    BY <1>14 DEF MarkError, EndTask, SetTask, rows
  <2> QED BY <2>1, <2>2
<1>15. ASSUME NEW d \in Delivery, Clock(d) PROVE Exclusive' /\ LeaseInv'
  <2>1. Exclusive'
    BY <1>15 DEF Clock, BackoffElapses, OrphanExpires, LeaseOverruns, Dispatched
  <2>2. LeaseInv'
    BY <1>15 DEF Clock, BackoffElapses, OrphanExpires, LeaseOverruns, Dispatched
  <2> QED BY <2>1, <2>2
<1>16. CASE UNCHANGED vars
  BY <1>16 DEF vars
<1> QED
  BY <1>1, <1>2, <1>3, <1>4, <1>5, <1>6, <1>7, <1>8, <1>9,
     <1>10, <1>11, <1>12, <1>13, <1>14, <1>15, <1>16
  DEF Next, Loop, Mark

\* If emits end within their lease, or one server process runs, a row is
\* dispatched by one worker at a time, in flight, and from the stored count.
THEOREM ExclusiveHolds ==
  ASSUME ~Overrun \/ Solo
  PROVE  Spec => []Exclusive
<1>1. ExclusiveInv => Exclusive
  BY DEF ExclusiveInv
<1> QED BY <1>1, ExclusiveInit, ExclusiveStep, PTL DEF Spec

\* Then attempt_count never goes back, because mark_failed stores the
\* successor of the count the row still has.
THEOREM AttemptsNeverRegressHolds ==
  ASSUME ~Overrun \/ Solo
  PROVE  Spec => AttemptsNeverRegress
<1>1. ExclusiveInv /\ [Next]_vars
      => [\A d \in Delivery : attempt_count'[d] >= attempt_count[d]]_vars
  <2> SUFFICES ASSUME ExclusiveInv, Next, NEW c \in Delivery
               PROVE  attempt_count'[c] >= attempt_count[c]
    OBVIOUS
  <2> USE DEF ExclusiveInv, TypeOK
  <2>1. ASSUME NEW w \in Worker, NEW d \in Delivery, MarkFailed(w, d)
        PROVE  attempt_count'[c] >= attempt_count[c]
    BY <2>1 DEF MarkFailed, Exclusive, Live
  <2>2. CASE UNCHANGED attempt_count
    BY <2>2
  <2>3. ASSUME NEW w \in Worker, NEW d \in Delivery, Mark(w, d), ~MarkFailed(w, d)
        PROVE  UNCHANGED attempt_count
    BY <2>3 DEF Mark, MarkEmitted, MarkDeadLettered, MarkError, rows
  <2>4. ASSUME NEW w \in Worker, NEW d \in Delivery, Emit(w, d)
        PROVE  UNCHANGED attempt_count
    BY <2>4 DEF Emit, DownstreamTakes, EmitOk, EmitErr, EmitTimeout, rows
  <2>5. ASSUME NEW w \in Worker, Loop(w) \/ Crash(w) \/ Restart(w)
        PROVE  UNCHANGED attempt_count
    BY <2>5 DEF Loop, Poll, ReclaimExpired, ReclaimError, ClaimPending, ClaimError,
       BatchDone, Crash, Restart, rows
  <2>6. ASSUME NEW d \in Delivery, Clock(d) PROVE UNCHANGED attempt_count
    BY <2>6 DEF Clock, BackoffElapses, OrphanExpires, LeaseOverruns
  <2>7. ASSUME NEW D \in SUBSET Delivery, InsertRows(D) PROVE UNCHANGED attempt_count
    BY <2>7 DEF InsertRows
  <2> QED
    BY <2>1, <2>2, <2>3, <2>4, <2>5, <2>6, <2>7 DEF Next
<1> QED BY <1>1, ExclusiveInit, ExclusiveStep, PTL DEF Spec, AttemptsNeverRegress

\* No row of the backfill is ever touched, whatever the workers do: mark_*
\* reaches only rows that a claim handed out, and a claim tests immutable.
THEOREM LegacyUntouchedHolds == Spec => LegacyUntouched
<1>1. QueueInv /\ [Next]_vars
      => [\A d \in Legacy : /\ state'[d] = state[d]
                            /\ attempt_count'[d] = attempt_count[d]
                            /\ copies'[d] = 0]_vars
  <2> SUFFICES ASSUME QueueInv, Next, NEW c \in Legacy
               PROVE  /\ state'[c] = state[c]
                      /\ attempt_count'[c] = attempt_count[c]
                      /\ copies'[c] = 0
    OBVIOUS
  <2> DEFINE Same == UNCHANGED <<state[c], attempt_count[c], copies[c]>>
  <2>0. c \in Delivery /\ copies[c] = 0 /\ state[c] \notin {"absent", "in_flight"}
    BY QueueAssumption DEF QueueInv, LegacyInv
  <2>1. \A w \in Worker, d \in Delivery : Live(w, d) => d # c
    BY DEF QueueInv, TaskInv, Mutable
  <2> USE <2>0, <2>1 DEF QueueInv, TypeOK
  <2>2. ASSUME NEW D \in SUBSET Delivery, InsertRows(D) PROVE Same
    BY <2>2 DEF InsertRows
  <2>3. ASSUME NEW w \in Worker, Loop(w) \/ Crash(w) \/ Restart(w) PROVE Same
    <3>1. CASE ReclaimExpired(w)
      BY <3>1 DEF ReclaimExpired, Reclaimable
    <3>2. CASE ClaimPending(w)
      BY <3>2 DEF ClaimPending, Batch, Claimable, Lease
    <3>3. CASE ClaimError(w)
      BY <3>3 DEF ClaimError, Batch, Claimable, Lease
    <3>4. CASE Poll(w) \/ ReclaimError(w) \/ BatchDone(w) \/ Crash(w) \/ Restart(w)
      BY <3>4 DEF Poll, ReclaimError, BatchDone, Crash, Restart, rows
    <3> QED BY <2>3, <3>1, <3>2, <3>3, <3>4 DEF Loop
  <2>4. ASSUME NEW w \in Worker, NEW d \in Delivery, Emit(w, d) PROVE Same
    <3>1. d # c
      BY <2>4 DEF Emit, DownstreamTakes, EmitOk, EmitErr, EmitTimeout, Live
    <3>2. CASE DownstreamTakes(w, d)
      BY <3>1, <3>2 DEF DownstreamTakes, rows
    <3>3. CASE EmitOk(w, d) \/ EmitErr(w, d) \/ EmitTimeout(w, d)
      BY <3>3 DEF EmitOk, EmitErr, EmitTimeout, rows
    <3> QED BY <2>4, <3>2, <3>3 DEF Emit
  <2>5. ASSUME NEW w \in Worker, NEW d \in Delivery, Mark(w, d) PROVE Same
    <3>1. d # c
      BY <2>5 DEF Mark, MarkEmitted, MarkFailed, MarkDeadLettered, MarkError, Live
    <3>2. CASE MarkEmitted(w, d) \/ MarkDeadLettered(w, d)
      BY <3>1, <3>2 DEF MarkEmitted, MarkDeadLettered
    <3>3. CASE MarkFailed(w, d)
      BY <3>1, <3>3 DEF MarkFailed
    <3>4. CASE MarkError(w, d)
      BY <3>4 DEF MarkError, rows
    <3> QED BY <2>5, <3>2, <3>3, <3>4 DEF Mark
  <2>6. ASSUME NEW d \in Delivery, Clock(d) PROVE Same
    BY <2>6 DEF Clock, BackoffElapses, OrphanExpires, LeaseOverruns
  <2> QED BY <2>2, <2>3, <2>4, <2>5, <2>6 DEF Next
<1> QED BY <1>1, QueueInvInit, QueueInvStep, PTL DEF Spec, LegacyUntouched

-----------------------------------------------------------------------------
(***************************************************************************)
(* Under the same hypothesis faults account for every failed emit that     *)
(* attempt_count misses.  Besides the faults, a row may be ahead of its    *)
(* counter by the failure that is about to be recorded or that             *)
(* dead-lettered it.                                                       *)
(***************************************************************************)
Used == MaxFaults - faults
Failing(d) == state[d] = "dead_lettered" \/ \E w \in Worker : task[w][d] = "err"

CountInv ==
  \A d \in Mutable :
    /\ failures[d] <= attempt_count[d] + Used + 1
    /\ ~Failing(d) => failures[d] <= attempt_count[d] + Used

\* At the start nothing was counted or spent.
LEMMA CountInit == Init => CountInv
<1> SUFFICES ASSUME Init PROVE CountInv
  OBVIOUS
<1> QED BY QueueAssumption, QueueInvInit
        DEF Init, QueueInv, TypeOK, CountInv, Used, Mutable

\* Every failure that a step adds beyond the counted ones is paid for by a
\* fault.
LEMMA CountStep ==
  ExclusiveInv /\ QueueInv /\ CountInv /\ [Next]_vars => CountInv'
<1> SUFFICES ASSUME ExclusiveInv, QueueInv, CountInv, [Next]_vars PROVE CountInv'
  OBVIOUS
<1> TypeOK'
  BY TypeStep DEF QueueInv
<1> USE QueueAssumption DEF QueueInv, TypeOK, CountInv, Used, Failing, Mutable,
        TaskState, DeliveryState
<1>1. ASSUME NEW D \in SUBSET Delivery, InsertRows(D) PROVE CountInv'
  BY <1>1 DEF InsertRows
<1>2. ASSUME NEW w \in Worker, ReclaimExpired(w) PROVE CountInv'
  BY <1>2 DEF ReclaimExpired, Reclaimable
<1>3. ASSUME NEW w \in Worker, ClaimPending(w) PROVE CountInv'
  <2>0. PICK S \in Batch(w) : Lease(S)
    BY <1>3 DEF ClaimPending
  <2>1. /\ \A c \in Delivery : state[c] = "dead_lettered" => state'[c] = state[c]
        /\ UNCHANGED <<attempt_count, copies, failures, faults>>
    BY <1>3, <2>0 DEF ClaimPending, Batch, Claimable, Lease
  <2>2. \A v \in Worker, c \in Delivery : Live(v, c) => task'[v][c] = task[v][c]
    BY <1>3 DEF ClaimPending, ExclusiveInv, LeaseInv, Live
  <2>3. \A c \in Delivery : (Failing(c) => Failing(c)')
    BY <2>1, <2>2 DEF Live
  <2> QED BY <2>1, <2>3
<1>4. ASSUME NEW w \in Worker, ClaimError(w) PROVE CountInv'
  BY <1>4 DEF ClaimError, Fault, Batch, Claimable, Lease
<1>5. ASSUME NEW w \in Worker, Crash(w) PROVE CountInv'
  BY <1>5 DEF Crash, Fault, rows
<1>6. ASSUME NEW w \in Worker, NEW d \in Delivery, DownstreamTakes(w, d) PROVE CountInv'
  BY <1>6 DEF DownstreamTakes, SetTask, rows
<1>7. ASSUME NEW w \in Worker, NEW d \in Delivery, EmitOk(w, d) PROVE CountInv'
  BY <1>7 DEF EmitOk, SetTask, rows
<1>8. ASSUME NEW w \in Worker, NEW d \in Delivery, EmitErr(w, d) PROVE CountInv'
  <2>1. ~Failing(d)
    BY <1>8 DEF EmitErr, ExclusiveInv, Exclusive, Live
  <2>2. \A c \in Delivery : (Failing(c) => Failing(c)') /\ Failing(d)'
    BY <1>8 DEF EmitErr, SetTask, rows
  <2>3. /\ UNCHANGED <<attempt_count, copies, faults>>
        /\ failures' = [failures EXCEPT ![d] = @ + 1]
    BY <1>8 DEF EmitErr, rows
  <2> HIDE DEF Failing
  <2> QED BY <2>1, <2>2, <2>3
<1>9. ASSUME NEW w \in Worker, NEW d \in Delivery, EmitTimeout(w, d) PROVE CountInv'
  BY <1>9 DEF EmitTimeout, SetTask, Fault, ExclusiveInv, Exclusive, Live, rows
<1>10. ASSUME NEW w \in Worker, NEW d \in Delivery, MarkEmitted(w, d) PROVE CountInv'
  BY <1>10 DEF MarkEmitted, EndTask, SetTask, ExclusiveInv, Exclusive, Live
<1>11. ASSUME NEW w \in Worker, NEW d \in Delivery, MarkFailed(w, d) PROVE CountInv'
  <2>1. state[d] = "in_flight" /\ seen[w][d] = attempt_count[d]
    BY <1>11 DEF MarkFailed, ExclusiveInv, Exclusive, Live
  <2>2. \A c \in Delivery : (c # d /\ Failing(c) => Failing(c)')
    BY <1>11, <2>1 DEF MarkFailed, EndTask, SetTask
  <2>3. /\ UNCHANGED <<failures, copies, faults>>
        /\ attempt_count' = [attempt_count EXCEPT ![d] = @ + 1]
    BY <1>11, <2>1 DEF MarkFailed
  <2> HIDE DEF Failing
  <2> QED BY <2>2, <2>3
<1>12. ASSUME NEW w \in Worker, NEW d \in Delivery, MarkDeadLettered(w, d) PROVE CountInv'
  BY <1>12 DEF MarkDeadLettered, EndTask, SetTask, ExclusiveInv, Exclusive, Live
<1>13. ASSUME NEW w \in Worker, NEW d \in Delivery, MarkError(w, d) PROVE CountInv'
  BY <1>13 DEF MarkError, EndTask, SetTask, Fault, rows
<1>14. ASSUME NEW d \in Delivery, LeaseOverruns(d) PROVE CountInv'
  BY <1>14 DEF LeaseOverruns, Fault
<1>15. ASSUME NEW w \in Worker, ReclaimError(w) PROVE CountInv'
  BY <1>15 DEF ReclaimError, Fault, rows
<1>16. CASE UNCHANGED <<state, attempt_count, task, copies, failures, faults>>
  BY <1>16
<1>17. ASSUME NEW w \in Worker, Poll(w) \/ BatchDone(w) \/ Restart(w)
      PROVE  UNCHANGED <<state, attempt_count, task, copies, failures, faults>>
  BY <1>17 DEF Poll, BatchDone, Restart, rows
<1>18. ASSUME NEW d \in Delivery, BackoffElapses(d) \/ OrphanExpires(d)
      PROVE  UNCHANGED <<state, attempt_count, task, copies, failures, faults>>
  BY <1>18 DEF BackoffElapses, OrphanExpires
<1>19. CASE UNCHANGED vars
  BY <1>19 DEF vars
<1> QED
  BY <1>1, <1>2, <1>3, <1>4, <1>5, <1>6, <1>7, <1>8, <1>9,
     <1>10, <1>11, <1>12, <1>13, <1>14, <1>15, <1>16, <1>17, <1>18, <1>19
  DEF Next, Loop, Emit, Mark, Clock

-----------------------------------------------------------------------------
(***************************************************************************)
(* The sum of g[w] over the workers, for g with values up to m: the number *)
(* of pairs of a worker and one of its units.                              *)
(***************************************************************************)
Units(g, m) == {p \in Worker \X (1..m) : p[2] <= g[p[1]]}
Total(g, m) == Cardinality(Units(g, m))

\* A sum over the workers is a number.
LEMMA UnitsFinite ==
  ASSUME NEW g, NEW m \in Nat
  PROVE  IsFiniteSet(Units(g, m)) /\ Total(g, m) \in Nat
<1>1. IsFiniteSet(Worker) /\ IsFiniteSet(1..m)
  BY QueueAssumption, FS_Interval
<1>2. IsFiniteSet(Worker \X (1..m))
  BY <1>1, FS_Product, Zenon
<1>3. Units(g, m) \in SUBSET (Worker \X (1..m))
  BY DEF Units
<1>4. IsFiniteSet(Units(g, m))
  BY <1>2, <1>3, FS_Subset, Zenon
<1> QED BY <1>4, FS_CardinalityType DEF Total

\* One worker has as many units as its number says.
LEMMA SliceCard ==
  ASSUME NEW w, NEW n \in Nat
  PROVE  IsFiniteSet({w} \X (1..n)) /\ Cardinality({w} \X (1..n)) = n
<1>1. IsFiniteSet(1..n) /\ Cardinality(1..n) = n
  BY FS_Interval
<1>2. IsFiniteSet({w}) /\ Cardinality({w}) = 1
  BY FS_Singleton
<1>3. IsFiniteSet({w} \X (1..n)) /\ Cardinality({w} \X (1..n)) = Cardinality({w}) * Cardinality(1..n)
  BY <1>1, <1>2, FS_Product, Zenon
<1> QED BY <1>1, <1>2, <1>3

\* Where the number of one worker changes, the sum changes by as much.
LEMMA TotalChange ==
  ASSUME NEW m \in Nat, NEW g \in [Worker -> 0..m], NEW h \in [Worker -> 0..m],
         NEW w \in Worker, \A v \in Worker : v # w => h[v] = g[v]
  PROVE  Total(h, m) = Total(g, m) + h[w] - g[w]
<1> DEFINE others == {p \in Worker \X (1..m) : p[1] # w /\ p[2] <= g[p[1]]}
           gw == {w} \X (1..g[w])
           hw == {w} \X (1..h[w])
<1>0. g[w] \in 0..m /\ h[w] \in 0..m
  OBVIOUS
<1>1. Units(g, m) = others \cup gw /\ Units(h, m) = others \cup hw
  <2>1. ASSUME NEW p PROVE p \in Units(g, m) <=> p \in others \cup gw
    BY <1>0 DEF Units
  <2>2. ASSUME NEW p PROVE p \in Units(h, m) <=> p \in others \cup hw
    BY <1>0 DEF Units
  <2> HIDE DEF others, gw, hw
  <2> QED BY <2>1, <2>2
<1>2. others \cap gw = {} /\ others \cap hw = {}
  OBVIOUS
<1>3. IsFiniteSet(others) /\ Cardinality(others) \in Nat
  <2>1. others \in SUBSET Units(g, m)
    BY <1>1
  <2>2. IsFiniteSet(Units(g, m))
    BY UnitsFinite
  <2>3. IsFiniteSet(others)
    <3> HIDE DEF others
    <3> QED BY <2>1, <2>2, FS_Subset, Zenon
  <2> QED BY <2>3, FS_CardinalityType
<1>4. /\ IsFiniteSet(gw) /\ Cardinality(gw) = g[w]
      /\ IsFiniteSet(hw) /\ Cardinality(hw) = h[w]
  <2>1. g[w] \in Nat /\ h[w] \in Nat
    BY <1>0
  <2> QED BY <2>1, SliceCard
<1> HIDE DEF others, gw, hw
<1>5. Cardinality(others \cup gw) = Cardinality(others) + Cardinality(gw) - Cardinality(others \cap gw)
  BY <1>3, <1>4, FS_Union, Zenon
<1>6. Cardinality(others \cup hw) = Cardinality(others) + Cardinality(hw) - Cardinality(others \cap hw)
  BY <1>3, <1>4, FS_Union, Zenon
<1>7. Cardinality(others \cap gw) = 0 /\ Cardinality(others \cap hw) = 0
  BY <1>2, FS_EmptySet, Zenon
<1>8. Total(g, m) = Cardinality(others \cup gw) /\ Total(h, m) = Cardinality(others \cup hw)
  BY <1>1, Zenon DEF Total
<1> QED BY <1>0, <1>3, <1>4, <1>5, <1>6, <1>7, <1>8

\* A sum of zeros is zero.
LEMMA TotalZero ==
  ASSUME NEW m \in Nat, NEW g \in [Worker -> 0..m], \A v \in Worker : g[v] = 0
  PROVE  Total(g, m) = 0
<1>1. Units(g, m) = {}
  BY DEF Units
<1> QED BY <1>1, FS_EmptySet DEF Total

\* Only a worker in its dispatch has live futures.
DispatchInv == \A w \in Worker, d \in Delivery : Live(w, d) => pc[w] = "dispatch"

\* No worker starts with futures.
LEMMA DispatchInit == Init => DispatchInv
BY DEF Init, DispatchInv, Live

\* A claim starts futures and the dispatch that waits for them together.
LEMMA DispatchStep == TypeOK /\ DispatchInv /\ [Next]_vars => DispatchInv'
<1> SUFFICES ASSUME TypeOK, DispatchInv, [Next]_vars PROVE DispatchInv'
  OBVIOUS
<1> USE DEF TypeOK, DispatchInv, Live
<1>1. ASSUME NEW w \in Worker, Poll(w) \/ ReclaimExpired(w) \/ ReclaimError(w) \/ ClaimError(w)
                               \/ BatchDone(w) \/ Restart(w)
      PROVE  DispatchInv'
  BY <1>1 DEF Poll, ReclaimExpired, ReclaimError, ClaimError, BatchDone, Restart
<1>2. ASSUME NEW w \in Worker, ClaimPending(w) PROVE DispatchInv'
  <2>1. PICK S \in Batch(w) :
          /\ task' = [task EXCEPT ![w] = [d \in Delivery |->
                                            IF d \in S THEN "emit" ELSE "idle"]]
          /\ pc' = [pc EXCEPT ![w] = IF S = {} THEN "sleep" ELSE "dispatch"]
    BY <1>2 DEF ClaimPending
  <2> QED BY <2>1
<1>3. ASSUME NEW w \in Worker, Crash(w) PROVE DispatchInv'
  BY <1>3 DEF Crash
<1>4. ASSUME NEW w \in Worker, NEW d \in Delivery, Emit(w, d) \/ Mark(w, d) PROVE DispatchInv'
  <2>1. /\ task[w][d] # "idle" /\ pc' = pc
        /\ \E t \in TaskState : task' = [task EXCEPT ![w][d] = t]
    BY <1>4 DEF Emit, DownstreamTakes, EmitOk, EmitErr, EmitTimeout, Mark, MarkEmitted, MarkFailed,
                MarkDeadLettered, MarkError, EndTask, SetTask, TaskState
  <2> QED BY <2>1
<1>5. CASE UNCHANGED <<pc, task>>
  BY <1>5
<1>6. ASSUME NEW d \in Delivery, Clock(d) PROVE UNCHANGED <<pc, task>>
  BY <1>6 DEF Clock, BackoffElapses, OrphanExpires, LeaseOverruns
<1>7. ASSUME NEW D \in SUBSET Delivery, InsertRows(D) PROVE UNCHANGED <<pc, task>>
  BY <1>7 DEF InsertRows
<1>8. CASE UNCHANGED vars
  BY <1>8 DEF vars
<1> QED BY <1>1, <1>2, <1>3, <1>4, <1>5, <1>6, <1>7, <1>8 DEF Next, Loop

(***************************************************************************)
(* With overrun leases a row is in several hands, and what a mark does     *)
(* depends on who claimed the row since.  Every emit to come is accounted  *)
(* for all the same: a future that has not called the downstream system,   *)
(* or is about to record a failure, stands for one more copy and for the   *)
(* failures from its count up to max_attempts; a row that can be claimed,  *)
(* or reclaimed, without a fault stands for as much again.  Only a fault   *)
(* adds to the account.                                                    *)
(***************************************************************************)
Open(d) ==
  \/ state[d] \in {"absent", "pending", "failed"}
  \/ state[d] = "in_flight" /\ (expired[d] \/ ~Dispatched(d))

Call(w, d) == IF task[w][d] \in {"emit", "err"} THEN 1 ELSE 0
Try(w, d) == IF task[w][d] = "emit" THEN MaxAttempts - seen[w][d]
             ELSE IF task[w][d] = "err" THEN MaxAttempts - seen[w][d] - 1 ELSE 0
Reopen(d) == IF Open(d) THEN 1 ELSE 0
Series(d) == IF Open(d) THEN MaxAttempts - attempt_count[d] ELSE 0
Calls(d) == [w \in Worker |-> Call(w, d)]
Tries(d) == [w \in Worker |-> Try(w, d)]

PaidCopies(d) == copies[d] + Total(Calls(d), 1) + Reopen(d) <= 1 + Used
PaidFailures(d) == failures[d] + Total(Tries(d), MaxAttempts) + Series(d) <= MaxAttempts * (1 + Used)
PaidInv == \A d \in Mutable : PaidCopies(d) /\ PaidFailures(d)

\* What the accounts of a row count in.
AccountType(d) ==
  /\ \A w \in Worker : Call(w, d) \in 0..1 /\ Try(w, d) \in 0..MaxAttempts
  /\ Calls(d) \in [Worker -> 0..1] /\ Tries(d) \in [Worker -> 0..MaxAttempts]
  /\ Reopen(d) \in 0..1 /\ Series(d) \in 0..MaxAttempts
  /\ copies[d] \in Nat /\ failures[d] \in Nat /\ faults \in Nat /\ Used \in Nat

\* The accounts of a row count in numbers.
LEMMA AccountTypes == QueueInv => \A d \in Mutable : AccountType(d)
<1> SUFFICES ASSUME QueueInv, NEW d \in Mutable PROVE AccountType(d)
  OBVIOUS
<1>1. \A w \in Worker : Call(w, d) \in 0..1
  BY DEF Call
<1>2. ASSUME NEW w \in Worker PROVE Try(w, d) \in 0..MaxAttempts
  <2>1. seen[w][d] \in Nat /\ (task[w][d] # "idle" => seen[w][d] < MaxAttempts)
    BY DEF QueueInv, TypeOK, TaskInv, Live, Mutable
  <2> QED BY <2>1, QueueAssumption DEF Try
<1>3. Reopen(d) \in 0..1
  BY DEF Reopen
<1>4. Series(d) \in 0..MaxAttempts
  BY QueueAssumption DEF Series, QueueInv, TypeOK, RowInv, Mutable
<1>5. copies[d] \in Nat /\ failures[d] \in Nat /\ faults \in Nat /\ Used \in Nat
  BY QueueAssumption DEF QueueInv, TypeOK, Used, Mutable
<1>6. Calls(d) \in [Worker -> 0..1] /\ Tries(d) \in [Worker -> 0..MaxAttempts]
  BY <1>1, <1>2 DEF Calls, Tries
<1> QED BY <1>1, <1>2, <1>3, <1>4, <1>5, <1>6 DEF AccountType

\* So do they after a step.
LEMMA AccountTypesNext == QueueInv' => \A d \in Mutable : AccountType(d)'
<1>1. (\A d \in Mutable : AccountType(d))' => \A d \in Mutable : AccountType(d)'
  BY DEF Mutable
<1> QED BY <1>1, AccountTypes, PTL

\* An account that grows by m with every fault.
LEMMA Balance ==
  ASSUME NEW m \in Nat, NEW u \in Nat, NEW v \in {u, u + 1}, NEW before \in Int, NEW after \in Int,
         before <= m * (1 + u), after <= before + (IF v = u THEN 0 ELSE m)
  PROVE  after <= m * (1 + v)
<1>1. m * (1 + (u + 1)) = m * (1 + u) + m /\ m * (1 + u) \in Int
  OBVIOUS
<1>2. CASE v = u
  BY <1>2
<1>3. CASE v = u + 1
  BY <1>1, <1>3
<1> QED BY <1>2, <1>3

\* What the fault of a step pays for, in units of m.
Paying(m) == IF faults' = faults THEN 0 ELSE m

\* Each account of a row is kept if it grows by no more than what a fault pays.
LEMMA AccountStep ==
  ASSUME QueueInv, QueueInv', NEW d \in Mutable, PaidCopies(d), PaidFailures(d),
         faults' \in {faults, faults - 1},
         copies'[d] + Total(Calls(d), 1)' + Reopen(d)'
           <= copies[d] + Total(Calls(d), 1) + Reopen(d) + Paying(1),
         failures'[d] + Total(Tries(d), MaxAttempts)' + Series(d)'
           <= failures[d] + Total(Tries(d), MaxAttempts) + Series(d) + Paying(MaxAttempts)
  PROVE  PaidCopies(d)' /\ PaidFailures(d)'
<1>1. /\ Reopen(d) \in Int /\ Series(d) \in Int /\ copies[d] \in Int /\ failures[d] \in Int
      /\ faults \in Nat /\ Used \in Nat
  BY AccountTypes, QueueAssumption DEF AccountType
<1>2. /\ Reopen(d)' \in Int /\ Series(d)' \in Int /\ copies'[d] \in Int /\ failures'[d] \in Int
      /\ faults' \in Nat /\ Used' \in Nat
  BY AccountTypesNext, QueueAssumption DEF AccountType
<1>3. /\ Total(Calls(d), 1) \in Int /\ Total(Tries(d), MaxAttempts) \in Int
      /\ Total(Calls(d), 1)' \in Int /\ Total(Tries(d), MaxAttempts)' \in Int
  <2>1. \A g : Total(g, 1) \in Int /\ Total(g, MaxAttempts) \in Int
    BY QueueAssumption, UnitsFinite
  <2>2. /\ Total(Calls(d), 1)' = Total(Calls(d)', 1)
        /\ Total(Tries(d), MaxAttempts)' = Total(Tries(d)', MaxAttempts)
    BY DEF Total, Units
  <2> QED BY <2>1, <2>2
<1>4. Used' = Used + faults - faults'
  BY <1>1, <1>2, QueueAssumption DEF Used
<1>5. Used' \in {Used, Used + 1} /\ (Used' = Used <=> faults' = faults)
  BY <1>1, <1>2, <1>4
<1> DEFINE b == copies[d] + Total(Calls(d), 1) + Reopen(d)
           a == copies'[d] + Total(Calls(d), 1)' + Reopen(d)'
           f == failures[d] + Total(Tries(d), MaxAttempts) + Series(d)
           e == failures'[d] + Total(Tries(d), MaxAttempts)' + Series(d)'
<1>6. b \in Int /\ a \in Int /\ f \in Int /\ e \in Int
  BY <1>1, <1>2, <1>3
<1>7. /\ a <= b + (IF Used' = Used THEN 0 ELSE 1)
      /\ e <= f + (IF Used' = Used THEN 0 ELSE MaxAttempts)
  BY <1>5 DEF Paying
<1>8. b <= 1 + Used /\ f <= MaxAttempts * (1 + Used)
  BY DEF PaidCopies, PaidFailures
<1> HIDE DEF a, b, e, f
<1>9. a <= 1 * (1 + Used') /\ e <= MaxAttempts * (1 + Used')
  <2> DEFINE u == Used
             v == Used'
  <2>1. u \in Nat /\ v \in {u, u + 1} /\ MaxAttempts \in Nat
    BY <1>1, <1>5, QueueAssumption
  <2>2. f <= MaxAttempts * (1 + u) /\ e <= f + (IF v = u THEN 0 ELSE MaxAttempts)
    BY <1>7, <1>8
  <2>3. b <= 1 * (1 + u) /\ a <= b + (IF v = u THEN 0 ELSE 1)
    BY <1>1, <1>7, <1>8
  <2> HIDE DEF u, v
  <2>4. e <= MaxAttempts * (1 + v)
    BY <1>6, <2>1, <2>2, Balance
  <2>5. a <= 1 * (1 + v)
    BY <1>6, <2>1, <2>3, Balance
  <2> QED BY <2>4, <2>5 DEF v
<1>10. a <= 1 + Used'
  BY <1>2, <1>9
<1> QED BY <1>9, <1>10 DEF PaidCopies, PaidFailures, a, e

\* A step that leaves the futures of a row alone is paid for if the row is.
LEMMA PaidByRow ==
  ASSUME QueueInv, QueueInv', NEW d \in Mutable, PaidCopies(d), PaidFailures(d),
         faults' \in {faults, faults - 1},
         \A w \in Worker : task'[w][d] = task[w][d] /\ seen'[w][d] = seen[w][d],
         copies'[d] + Reopen(d)' <= copies[d] + Reopen(d) + Paying(1),
         failures'[d] + Series(d)' <= failures[d] + Series(d) + Paying(MaxAttempts)
  PROVE  PaidCopies(d)' /\ PaidFailures(d)'
<1>1. Calls(d)' = Calls(d) /\ Tries(d)' = Tries(d)
  BY DEF Calls, Tries, Call, Try
<1>2. /\ Total(Calls(d), 1)' = Total(Calls(d), 1)
      /\ Total(Tries(d), MaxAttempts)' = Total(Tries(d), MaxAttempts)
  BY <1>1 DEF Total, Units
<1>3. Total(Calls(d), 1) \in Nat /\ Total(Tries(d), MaxAttempts) \in Nat
  BY QueueAssumption, UnitsFinite
<1>4. /\ Reopen(d) \in Int /\ Series(d) \in Int /\ copies[d] \in Int /\ failures[d] \in Int
      /\ Reopen(d)' \in Int /\ Series(d)' \in Int /\ copies'[d] \in Int /\ failures'[d] \in Int
  BY AccountTypes, AccountTypesNext, QueueAssumption DEF AccountType
<1>5. Paying(1) \in Int /\ Paying(MaxAttempts) \in Int
  BY QueueAssumption DEF Paying
<1>6. copies'[d] + Total(Calls(d), 1)' + Reopen(d)'
        <= copies[d] + Total(Calls(d), 1) + Reopen(d) + Paying(1)
  BY <1>2, <1>3, <1>4, <1>5
<1>7. failures'[d] + Total(Tries(d), MaxAttempts)' + Series(d)'
        <= failures[d] + Total(Tries(d), MaxAttempts) + Series(d) + Paying(MaxAttempts)
  BY <1>2, <1>3, <1>4, <1>5
<1> QED BY <1>6, <1>7, AccountStep

\* A step of one future is paid for if the future and the row are.
LEMMA PaidByFuture ==
  ASSUME QueueInv, QueueInv', NEW d \in Mutable, PaidCopies(d), PaidFailures(d),
         faults' \in {faults, faults - 1}, NEW w \in Worker,
         \A v \in Worker : v # w => task'[v][d] = task[v][d] /\ seen'[v][d] = seen[v][d],
         copies'[d] + Call(w, d)' + Reopen(d)' <= copies[d] + Call(w, d) + Reopen(d) + Paying(1),
         failures'[d] + Try(w, d)' + Series(d)'
           <= failures[d] + Try(w, d) + Series(d) + Paying(MaxAttempts)
  PROVE  PaidCopies(d)' /\ PaidFailures(d)'
<1>1. \A v \in Worker : v # w => Call(v, d)' = Call(v, d) /\ Try(v, d)' = Try(v, d)
  BY DEF Call, Try
<1>2. /\ Reopen(d) \in Int /\ Series(d) \in Int /\ copies[d] \in Int /\ failures[d] \in Int
      /\ Reopen(d)' \in Int /\ Series(d)' \in Int /\ copies'[d] \in Int /\ failures'[d] \in Int
      /\ Calls(d) \in [Worker -> 0..1] /\ Tries(d) \in [Worker -> 0..MaxAttempts]
      /\ Calls(d)' \in [Worker -> 0..1] /\ Tries(d)' \in [Worker -> 0..MaxAttempts]
      /\ Call(w, d) \in Int /\ Call(w, d)' \in Int /\ Try(w, d) \in Int /\ Try(w, d)' \in Int
  <2>1. 0..1 \subseteq Int /\ 0..MaxAttempts \subseteq Int
    BY QueueAssumption
  <2> QED BY <2>1, AccountTypes, AccountTypesNext DEF AccountType
<1>3. /\ Total(Calls(d), 1)' = Total(Calls(d), 1) + Call(w, d)' - Call(w, d)
      /\ Total(Tries(d), MaxAttempts)' = Total(Tries(d), MaxAttempts) + Try(w, d)' - Try(w, d)
  <2> DEFINE g == Calls(d)
             h == Calls(d)'
             k == Tries(d)
             l == Tries(d)'
  <2>1. /\ g[w] = Call(w, d) /\ h[w] = Call(w, d)' /\ k[w] = Try(w, d) /\ l[w] = Try(w, d)'
        /\ \A v \in Worker : v # w => h[v] = g[v] /\ l[v] = k[v]
    BY <1>1 DEF Calls, Tries
  <2>2. /\ Total(Calls(d), 1)' = Total(h, 1)
        /\ Total(Tries(d), MaxAttempts)' = Total(l, MaxAttempts)
    BY DEF Total, Units
  <2>3. MaxAttempts \in Nat /\ 1 \in Nat
    BY QueueAssumption
  <2>4. /\ g \in [Worker -> 0..1] /\ h \in [Worker -> 0..1]
        /\ k \in [Worker -> 0..MaxAttempts] /\ l \in [Worker -> 0..MaxAttempts]
    BY <1>2
  <2> HIDE DEF g, h, k, l
  <2>5. Total(h, 1) = Total(g, 1) + h[w] - g[w]
    BY <2>1, <2>3, <2>4, TotalChange
  <2>6. Total(l, MaxAttempts) = Total(k, MaxAttempts) + l[w] - k[w]
    BY <2>1, <2>3, <2>4, TotalChange
  <2> QED BY <2>1, <2>2, <2>5, <2>6 DEF g, k
<1>4. Total(Calls(d), 1) \in Nat /\ Total(Tries(d), MaxAttempts) \in Nat
  BY QueueAssumption, UnitsFinite
<1>5. Paying(1) \in Int /\ Paying(MaxAttempts) \in Int
  BY QueueAssumption DEF Paying
<1>6. copies'[d] + Total(Calls(d), 1)' + Reopen(d)'
        <= copies[d] + Total(Calls(d), 1) + Reopen(d) + Paying(1)
  BY <1>2, <1>3, <1>4, <1>5
<1>7. failures'[d] + Total(Tries(d), MaxAttempts)' + Series(d)'
        <= failures[d] + Total(Tries(d), MaxAttempts) + Series(d) + Paying(MaxAttempts)
  BY <1>2, <1>3, <1>4, <1>5
<1> QED BY <1>6, <1>7, AccountStep

\* At the start every row that will be inserted stands for its first copy and
\* its first max_attempts failures, and no future for anything.
LEMMA PaidInit == Init => PaidInv
<1> SUFFICES ASSUME Init, NEW d \in Mutable PROVE PaidCopies(d) /\ PaidFailures(d)
  BY DEF PaidInv
<1>1. AccountType(d)
  BY QueueInvInit, AccountTypes
<1>2. \A w \in Worker : Call(w, d) = 0 /\ Try(w, d) = 0
  BY DEF Init, Call, Try, Mutable
<1>3. Total(Calls(d), 1) = 0
  <2> DEFINE g == Calls(d)
  <2>1. g \in [Worker -> 0..1] /\ \A v \in Worker : g[v] = 0
    BY <1>1, <1>2 DEF AccountType, Calls
  <2> HIDE DEF g
  <2>2. Total(g, 1) = 0
    BY <2>1, TotalZero
  <2> QED BY <2>2 DEF g
<1>4. Total(Tries(d), MaxAttempts) = 0
  <2> DEFINE g == Tries(d)
  <2>1. g \in [Worker -> 0..MaxAttempts] /\ \A v \in Worker : g[v] = 0
    BY <1>1, <1>2 DEF AccountType, Tries
  <2> HIDE DEF g
  <2>2. Total(g, MaxAttempts) = 0
    BY <2>1, TotalZero, QueueAssumption
  <2> QED BY <2>2 DEF g
<1>5. copies[d] = 0 /\ failures[d] = 0 /\ Used = 0
  BY QueueAssumption DEF Init, Used, Mutable
<1>6. Reopen(d) \in 0..1 /\ Series(d) \in 0..MaxAttempts
  BY <1>1 DEF AccountType
<1> QED BY <1>3, <1>4, <1>5, <1>6, QueueAssumption DEF PaidCopies, PaidFailures

\* Whether a row can be claimed is a matter of its columns and its futures.
LEMMA OpenSame ==
  ASSUME NEW d \in Delivery, state'[d] = state[d], expired'[d] = expired[d],
         \A w \in Worker : Live(w, d)' <=> Live(w, d)
  PROVE  Open(d)' <=> Open(d)
BY DEF Open, Dispatched

\* Every step of a worker, a producer, the clock or the environment keeps the
\* accounts: nothing but a fault adds to what the emits to come may cost.
LEMMA PaidStep ==
  QueueInv /\ QueueInv' /\ DispatchInv /\ PaidInv /\ [Next]_vars => PaidInv'
<1> SUFFICES ASSUME QueueInv, QueueInv', DispatchInv, PaidInv, [Next]_vars, NEW c \in Mutable
             PROVE  PaidCopies(c)' /\ PaidFailures(c)'
  BY DEF PaidInv, Mutable
<1> DEFINE Goal == PaidCopies(c)' /\ PaidFailures(c)'
<1>0. PaidCopies(c) /\ PaidFailures(c) /\ c \in Delivery /\ MaxAttempts \in Nat
  BY QueueAssumption DEF PaidInv, Mutable
<1>a. AccountType(c) /\ AccountType(c)'
  BY AccountTypes, AccountTypesNext
<1>b. TypeOK
  BY DEF QueueInv
\* The row and its futures are left alone.
<1>1. ASSUME faults' \in {faults, faults - 1},
             \A w \in Worker : task'[w][c] = task[w][c] /\ seen'[w][c] = seen[w][c],
             copies'[c] = copies[c], failures'[c] = failures[c],
             attempt_count'[c] = attempt_count[c], Open(c)' <=> Open(c)
      PROVE  Goal
  <2>1. Reopen(c)' = Reopen(c) /\ Series(c)' = Series(c)
    BY <1>1 DEF Reopen, Series
  <2>2. copies'[c] + Reopen(c)' <= copies[c] + Reopen(c) + Paying(1)
    BY <1>1, <1>a, <2>1 DEF AccountType, Paying
  <2>3. failures'[c] + Series(c)' <= failures[c] + Series(c) + Paying(MaxAttempts)
    BY <1>0, <1>1, <1>a, <2>1 DEF AccountType, Paying
  <2> QED BY <1>0, <1>1, <2>2, <2>3, PaidByRow
\* A fault closes a future of the row or reopens the row, or neither.
<1>2. ASSUME faults' = faults - 1, NEW w \in Worker,
             \A v \in Worker : v # w => task'[v][c] = task[v][c] /\ seen'[v][c] = seen[v][c],
             copies'[c] = copies[c], failures'[c] = failures[c], Call(w, c)' = 0, Try(w, c)' = 0
      PROVE  Goal
  <2>1. Paying(1) = 1 /\ Paying(MaxAttempts) = MaxAttempts
    BY <1>2, <1>a DEF Paying, AccountType
  <2>2. copies'[c] + Call(w, c)' + Reopen(c)' <= copies[c] + Call(w, c) + Reopen(c) + Paying(1)
    BY <1>2, <1>a, <2>1 DEF AccountType
  <2>3. failures'[c] + Try(w, c)' + Series(c)'
          <= failures[c] + Try(w, c) + Series(c) + Paying(MaxAttempts)
    BY <1>0, <1>2, <1>a, <2>1 DEF AccountType
  <2> QED BY <1>0, <1>2, <2>2, <2>3, PaidByFuture
<1>3. ASSUME UNCHANGED <<state, expired, attempt_count, task, seen, copies, failures>>,
             faults' \in {faults, faults - 1}
      PROVE  Goal
  <2>1. Open(c)' <=> Open(c)
    BY <1>3 DEF Open, Dispatched, Live
  <2> QED BY <1>1, <1>3, <2>1
<1>4. ASSUME NEW D \in SUBSET Delivery, InsertRows(D) PROVE Goal
  <2>1. Open(c)' <=> Open(c)
    BY <1>0, <1>4 DEF InsertRows, Open, Dispatched, Live
  <2> QED BY <1>1, <1>4, <2>1 DEF InsertRows
<1>5. ASSUME NEW w \in Worker, ReclaimExpired(w) PROVE Goal
  <2>1. Open(c)' <=> Open(c)
    BY <1>0, <1>5 DEF ReclaimExpired, Reclaimable, Open, Dispatched, Live
  <2> QED BY <1>1, <1>5, <2>1 DEF ReclaimExpired
<1>6. ASSUME NEW w \in Worker, ClaimPending(w) PROVE Goal
  <2>1. PICK S \in Batch(w) :
          /\ Lease(S)
          /\ task' = [task EXCEPT ![w] = [d \in Delivery |->
                                            IF d \in S THEN "emit" ELSE "idle"]]
          /\ seen' = [seen EXCEPT ![w] = [d \in Delivery |->
                                            IF d \in S THEN attempt_count[d] ELSE 0]]
    BY <1>6 DEF ClaimPending
  <2>2. UNCHANGED <<attempt_count, copies, failures, faults>> /\ task[w][c] = "idle"
    BY <1>0, <1>6 DEF ClaimPending, DispatchInv, Live
  <2>3. \A v \in Worker : v # w => task'[v][c] = task[v][c] /\ seen'[v][c] = seen[v][c]
    BY <2>1, <1>b DEF TypeOK
  <2>4. Call(w, c) = 0 /\ Try(w, c) = 0
    BY <2>2 DEF Call, Try
  <2>5. CASE c \in S
    <3>1. Open(c) /\ ~Open(c)'
      BY <1>0, <1>b, <2>1, <2>5 DEF Open, Lease, Batch, Claimable, Dispatched, Live, TypeOK
    <3>2. Call(w, c)' = 1 /\ Try(w, c)' = MaxAttempts - attempt_count[c]
      BY <1>0, <1>b, <2>1, <2>5 DEF Call, Try, TypeOK
    <3>3. Reopen(c) = 1 /\ Reopen(c)' = 0 /\ Series(c) = MaxAttempts - attempt_count[c] /\ Series(c)' = 0
      BY <3>1 DEF Reopen, Series
    <3>4. copies'[c] + Call(w, c)' + Reopen(c)' <= copies[c] + Call(w, c) + Reopen(c) + Paying(1)
      BY <1>a, <2>2, <2>4, <3>2, <3>3 DEF AccountType, Paying
    <3>5. failures'[c] + Try(w, c)' + Series(c)'
            <= failures[c] + Try(w, c) + Series(c) + Paying(MaxAttempts)
      BY <1>0, <1>a, <2>2, <2>4, <3>2, <3>3 DEF AccountType, Paying
    <3> QED BY <1>0, <2>2, <2>3, <3>4, <3>5, PaidByFuture
  <2>6. CASE c \notin S
    <3>1. task'[w][c] = "idle" /\ state'[c] = state[c] /\ expired'[c] = expired[c]
      BY <1>0, <1>b, <2>1, <2>6 DEF Lease, TypeOK
    <3>2. Open(c)' <=> Open(c)
      BY <1>0, <2>2, <2>3, <3>1, OpenSame DEF Live
    <3>3. /\ Call(w, c)' = 0 /\ Try(w, c)' = 0
          /\ Reopen(c)' = Reopen(c) /\ Series(c)' = Series(c)
      BY <2>2, <3>1, <3>2 DEF Call, Try, Reopen, Series
    <3>4. copies'[c] + Call(w, c)' + Reopen(c)' <= copies[c] + Call(w, c) + Reopen(c) + Paying(1)
      BY <1>a, <2>2, <2>4, <3>3 DEF AccountType, Paying
    <3>5. failures'[c] + Try(w, c)' + Series(c)'
            <= failures[c] + Try(w, c) + Series(c) + Paying(MaxAttempts)
      BY <1>0, <1>a, <2>2, <2>4, <3>3 DEF AccountType, Paying
    <3> QED BY <1>0, <2>2, <2>3, <3>4, <3>5, PaidByFuture
  <2> QED BY <2>5, <2>6
<1>7. ASSUME NEW w \in Worker, ClaimError(w) PROVE Goal
  <2>1. PICK S \in Batch(w) \cup {{}} : Lease(S)
    BY <1>7 DEF ClaimError
  <2>2. S \subseteq Claimable(w) /\ UNCHANGED <<attempt_count, task, seen, copies, failures>>
    BY <1>7 DEF ClaimError, Batch
  <2>3. Open(c)' => Open(c)
    BY <1>0, <2>1, <2>2 DEF Open, Lease, Claimable, Dispatched, Live
  <2>4. faults' = faults - 1
    BY <1>7 DEF ClaimError, Fault
  <2>5. Reopen(c)' <= Reopen(c) /\ Series(c)' <= Series(c)
    BY <1>0, <1>a, <2>2, <2>3 DEF Reopen, Series, AccountType
  <2>6. copies'[c] + Reopen(c)' <= copies[c] + Reopen(c) + Paying(1)
    BY <1>a, <2>2, <2>5 DEF AccountType, Paying
  <2>7. failures'[c] + Series(c)' <= failures[c] + Series(c) + Paying(MaxAttempts)
    BY <1>0, <1>a, <2>2, <2>5 DEF AccountType, Paying
  <2> QED BY <1>0, <2>2, <2>4, <2>6, <2>7, PaidByRow
<1>8. ASSUME NEW w \in Worker, Crash(w) PROVE Goal
  <2>1. /\ task' = [task EXCEPT ![w] = [d \in Delivery |-> "idle"]]
        /\ seen' = [seen EXCEPT ![w] = [d \in Delivery |-> 0]]
        /\ UNCHANGED <<copies, failures>> /\ faults' = faults - 1
    BY <1>8 DEF Crash, Fault
  <2>2. /\ task'[w][c] = "idle"
        /\ \A v \in Worker : v # w => task'[v][c] = task[v][c] /\ seen'[v][c] = seen[v][c]
    BY <1>0, <1>b, <2>1 DEF TypeOK
  <2>3. Call(w, c)' = 0 /\ Try(w, c)' = 0
    BY <2>2 DEF Call, Try
  <2> QED BY <1>2, <2>1, <2>2, <2>3
<1>9. ASSUME NEW d \in Delivery, Clock(d) PROVE Goal
  <2>1. CASE BackoffElapses(d)
    BY <1>3, <2>1 DEF BackoffElapses
  <2>2. CASE OrphanExpires(d)
    <3>1. Open(c)' <=> Open(c)
      BY <1>0, <1>b, <2>2 DEF OrphanExpires, Open, Dispatched, Live, TypeOK
    <3> QED BY <1>1, <2>2, <3>1 DEF OrphanExpires
  <2>3. CASE LeaseOverruns(d)
    <3>1. faults' = faults - 1 /\ UNCHANGED <<attempt_count, task, seen, copies, failures>>
      BY <2>3 DEF LeaseOverruns, Fault
    <3>2. Paying(1) = 1 /\ Paying(MaxAttempts) = MaxAttempts
      BY <1>a, <3>1 DEF Paying, AccountType
    <3>3. copies'[c] + Reopen(c)' <= copies[c] + Reopen(c) + Paying(1)
      BY <1>a, <3>1, <3>2 DEF AccountType
    <3>4. failures'[c] + Series(c)' <= failures[c] + Series(c) + Paying(MaxAttempts)
      BY <1>0, <1>a, <3>1, <3>2 DEF AccountType
    <3> QED BY <1>0, <3>1, <3>3, <3>4, PaidByRow
  <2> QED BY <1>9, <2>1, <2>2, <2>3 DEF Clock
<1>10. ASSUME NEW w \in Worker, NEW d \in Delivery, Emit(w, d) \/ Mark(w, d), c # d PROVE Goal
  <2>1. /\ seen' = seen \/ seen' = [seen EXCEPT ![w][d] = 0]
        /\ \E t : task' = [task EXCEPT ![w][d] = t]
    BY <1>10 DEF Emit, DownstreamTakes, EmitOk, EmitErr, EmitTimeout, Mark, MarkEmitted,
                 MarkFailed, MarkDeadLettered, MarkError, EndTask, SetTask
  <2>2. \A v \in Worker : task'[v][c] = task[v][c] /\ seen'[v][c] = seen[v][c]
    BY <1>0, <1>b, <1>10, <2>1 DEF TypeOK
  <2>3. /\ state'[c] = state[c] /\ expired' = expired /\ attempt_count'[c] = attempt_count[c]
        /\ copies'[c] = copies[c] /\ failures'[c] = failures[c]
    BY <1>0, <1>b, <1>10 DEF Emit, DownstreamTakes, EmitOk, EmitErr, EmitTimeout, Mark, MarkEmitted,
                       MarkFailed, MarkDeadLettered, MarkError, rows, TypeOK
  <2>4. faults' \in {faults, faults - 1}
    BY <1>10 DEF Emit, DownstreamTakes, EmitOk, EmitErr, EmitTimeout, Mark, MarkEmitted,
                       MarkFailed, MarkDeadLettered, MarkError, Fault
  <2>5. Open(c)' <=> Open(c)
    BY <1>0, <2>2, <2>3, OpenSame DEF Live
  <2> QED BY <1>1, <2>1, <2>2, <2>3, <2>4, <2>5
<1>11. ASSUME NEW w \in Worker, Emit(w, c) PROVE Goal
  <2>1. /\ UNCHANGED <<state, attempt_count, expired, seen>> /\ task[w][c] \in {"emit", "sent"}
        /\ \E t \in {"sent", "ok", "err"} : task' = [task EXCEPT ![w][c] = t]
    BY <1>11 DEF Emit, DownstreamTakes, EmitOk, EmitErr, EmitTimeout, SetTask, rows
  <2>2. \A v \in Worker : v # w => task'[v][c] = task[v][c]
    BY <1>0, <1>b, <2>1 DEF TypeOK
  <2>3. Open(c)' <=> Open(c)
    <3>1. task'[w][c] \in {"sent", "ok", "err"}
      BY <1>0, <1>b, <2>1 DEF TypeOK
    <3>2. Live(w, c) /\ Live(w, c)'
      BY <2>1, <3>1 DEF Live
    <3>3. \A v \in Worker : v # w => (Live(v, c)' <=> Live(v, c))
      BY <2>2 DEF Live
    <3>4. \A v \in Worker : Live(v, c)' <=> Live(v, c)
      BY <3>2, <3>3
    <3>5. state'[c] = state[c] /\ expired'[c] = expired[c]
      BY <2>1
    <3> QED BY <1>0, <3>4, <3>5, OpenSame
  <2>4. Reopen(c)' = Reopen(c) /\ Series(c)' = Series(c)
    BY <2>1, <2>3 DEF Reopen, Series
  <2>5. seen[w][c] \in Nat /\ seen[w][c] < MaxAttempts
    BY <1>0, <2>1 DEF QueueInv, TypeOK, TaskInv, Live
  <2>6. CASE DownstreamTakes(w, c)
    <3>1. faults' = faults /\ copies'[c] = copies[c] + 1 /\ failures'[c] = failures[c]
      BY <1>0, <1>b, <2>6 DEF DownstreamTakes, TypeOK
    <3>2. task[w][c] = "emit" /\ task'[w][c] = "sent"
      BY <1>0, <1>b, <2>6 DEF DownstreamTakes, SetTask, TypeOK
    <3>3. Call(w, c) = 1 /\ Call(w, c)' = 0 /\ Try(w, c)' = 0
      BY <3>2 DEF Call, Try
    <3>4. copies'[c] + Call(w, c)' + Reopen(c)' <= copies[c] + Call(w, c) + Reopen(c) + Paying(1)
      BY <1>a, <2>4, <3>1, <3>3 DEF AccountType, Paying
    <3>5. failures'[c] + Try(w, c)' + Series(c)'
            <= failures[c] + Try(w, c) + Series(c) + Paying(MaxAttempts)
      BY <1>0, <1>a, <2>4, <3>1, <3>3 DEF AccountType, Paying
    <3> QED BY <1>0, <2>1, <2>2, <3>1, <3>4, <3>5, PaidByFuture
  <2>7. CASE EmitOk(w, c)
    <3>1. faults' = faults /\ copies'[c] = copies[c] /\ failures'[c] = failures[c]
      BY <1>0, <1>b, <2>7 DEF EmitOk, TypeOK
    <3>2. task[w][c] = "sent" /\ task'[w][c] = "ok"
      BY <1>0, <1>b, <2>7 DEF EmitOk, SetTask, TypeOK
    <3>3. Call(w, c)' = 0 /\ Try(w, c)' = 0
      BY <3>2 DEF Call, Try
    <3>4. copies'[c] + Call(w, c)' + Reopen(c)' <= copies[c] + Call(w, c) + Reopen(c) + Paying(1)
      BY <1>a, <2>4, <3>1, <3>3 DEF AccountType, Paying
    <3>5. failures'[c] + Try(w, c)' + Series(c)'
            <= failures[c] + Try(w, c) + Series(c) + Paying(MaxAttempts)
      BY <1>0, <1>a, <2>4, <3>1, <3>3 DEF AccountType, Paying
    <3> QED BY <1>0, <2>1, <2>2, <3>1, <3>4, <3>5, PaidByFuture
  <2>8. CASE EmitErr(w, c)
    <3>1. faults' = faults /\ copies'[c] = copies[c] /\ failures'[c] = failures[c] + 1
      BY <1>0, <1>b, <2>8 DEF EmitErr, TypeOK
    <3>2. task[w][c] = "emit" /\ task'[w][c] = "err"
      BY <1>0, <1>b, <2>8 DEF EmitErr, SetTask, TypeOK
    <3>3. Call(w, c)' = Call(w, c) /\ Try(w, c)' = Try(w, c) - 1
      BY <1>0, <2>1, <2>5, <3>2 DEF Call, Try
    <3>4. copies'[c] + Call(w, c)' + Reopen(c)' <= copies[c] + Call(w, c) + Reopen(c) + Paying(1)
      BY <1>a, <2>4, <3>1, <3>3 DEF AccountType, Paying
    <3>5. failures'[c] + Try(w, c)' + Series(c)'
            <= failures[c] + Try(w, c) + Series(c) + Paying(MaxAttempts)
      BY <1>0, <1>a, <2>4, <3>1, <3>3 DEF AccountType, Paying
    <3> QED BY <1>0, <2>1, <2>2, <3>1, <3>4, <3>5, PaidByFuture
  <2>9. CASE EmitTimeout(w, c)
    <3>1. faults' = faults - 1 /\ copies'[c] = copies[c] /\ failures'[c] = failures[c] + 1
      BY <1>0, <1>b, <2>9 DEF EmitTimeout, Fault, TypeOK
    <3>2. task[w][c] = "sent" /\ task'[w][c] = "err"
      BY <1>0, <1>b, <2>9 DEF EmitTimeout, SetTask, TypeOK
    <3>3. Call(w, c)' = 1 /\ Try(w, c)' <= MaxAttempts - 1
      BY <1>0, <2>1, <2>5, <3>2 DEF Call, Try
    <3>4. Paying(1) = 1 /\ Paying(MaxAttempts) = MaxAttempts
      BY <1>a, <3>1 DEF Paying, AccountType
    <3>5. copies'[c] + Call(w, c)' + Reopen(c)' <= copies[c] + Call(w, c) + Reopen(c) + Paying(1)
      BY <1>a, <2>4, <3>1, <3>3, <3>4 DEF AccountType
    <3>6. failures'[c] + Try(w, c)' + Series(c)'
            <= failures[c] + Try(w, c) + Series(c) + Paying(MaxAttempts)
      BY <1>0, <1>a, <2>4, <3>1, <3>3, <3>4 DEF AccountType
    <3> QED BY <1>0, <2>1, <2>2, <3>1, <3>5, <3>6, PaidByFuture
  <2> QED BY <1>11, <2>6, <2>7, <2>8, <2>9 DEF Emit
<1>12. ASSUME NEW w \in Worker, Mark(w, c) PROVE Goal
  <2>1. /\ task[w][c] \in {"ok", "err"} /\ UNCHANGED <<expired, copies, failures>>
        /\ task' = [task EXCEPT ![w][c] = "idle"] /\ seen' = [seen EXCEPT ![w][c] = 0]
    BY <1>12 DEF Mark, MarkEmitted, MarkFailed, MarkDeadLettered, MarkError, EndTask, SetTask, rows
  <2>2. /\ task'[w][c] = "idle"
        /\ \A v \in Worker : v # w => task'[v][c] = task[v][c] /\ seen'[v][c] = seen[v][c]
    BY <1>0, <1>b, <2>1 DEF TypeOK
  <2>3. Call(w, c)' = 0 /\ Try(w, c)' = 0
    BY <2>2 DEF Call, Try
  <2>4. CASE MarkError(w, c)
    BY <1>2, <2>1, <2>2, <2>3, <2>4 DEF MarkError, Fault
  <2>5. CASE ~MarkError(w, c)
    <3>0. faults' = faults
      BY <1>12, <2>5 DEF Mark, MarkEmitted, MarkFailed, MarkDeadLettered
    <3>1. CASE state[c] # "in_flight"
      <4>1. state'[c] = state[c] /\ attempt_count'[c] = attempt_count[c]
        BY <1>0, <1>b, <1>12, <2>5, <3>1
        DEF Mark, MarkEmitted, MarkFailed, MarkDeadLettered, TypeOK
      <4>2. Open(c)' <=> Open(c)
        BY <3>1, <4>1 DEF Open
      <4>3. Reopen(c)' = Reopen(c) /\ Series(c)' = Series(c)
        BY <4>1, <4>2 DEF Reopen, Series
      <4>4. copies'[c] + Call(w, c)' + Reopen(c)' <= copies[c] + Call(w, c) + Reopen(c) + Paying(1)
        BY <1>a, <2>1, <2>3, <3>0, <4>3 DEF AccountType, Paying
      <4>5. failures'[c] + Try(w, c)' + Series(c)'
              <= failures[c] + Try(w, c) + Series(c) + Paying(MaxAttempts)
        BY <1>0, <1>a, <2>1, <2>3, <3>0, <4>3 DEF AccountType, Paying
      <4> QED BY <1>0, <2>1, <2>2, <3>0, <4>4, <4>5, PaidByFuture
    <3>2. CASE state[c] = "in_flight" /\ (MarkEmitted(w, c) \/ MarkDeadLettered(w, c))
      <4>1. state'[c] \in Terminal
        BY <1>0, <1>b, <3>2 DEF MarkEmitted, MarkDeadLettered, TypeOK, Terminal
      <4>2. Reopen(c)' = 0 /\ Series(c)' = 0
        BY <4>1 DEF Reopen, Series, Open, Terminal
      <4>4. copies'[c] + Call(w, c)' + Reopen(c)' <= copies[c] + Call(w, c) + Reopen(c) + Paying(1)
        BY <1>a, <2>1, <2>3, <3>0, <4>2 DEF AccountType, Paying
      <4>5. failures'[c] + Try(w, c)' + Series(c)'
              <= failures[c] + Try(w, c) + Series(c) + Paying(MaxAttempts)
        BY <1>0, <1>a, <2>1, <2>3, <3>0, <4>2 DEF AccountType, Paying
      <4> QED BY <1>0, <2>1, <2>2, <3>0, <4>4, <4>5, PaidByFuture
    <3>3. CASE state[c] = "in_flight" /\ MarkFailed(w, c)
      <4>1. /\ task[w][c] = "err" /\ state'[c] = "failed"
            /\ attempt_count'[c] = seen[w][c] + 1
        BY <1>0, <1>b, <3>3 DEF MarkFailed, TypeOK
      <4>2. seen[w][c] \in Nat
        BY <1>0, <1>b DEF TypeOK
      <4>3. Call(w, c) = 1 /\ Try(w, c) = MaxAttempts - seen[w][c] - 1
        BY <4>1 DEF Call, Try
      <4>4. Reopen(c)' = 1 /\ Series(c)' = Try(w, c)
        BY <1>0, <4>1, <4>2, <4>3 DEF Reopen, Series, Open
      <4>5. copies'[c] + Call(w, c)' + Reopen(c)' <= copies[c] + Call(w, c) + Reopen(c) + Paying(1)
        BY <1>a, <2>1, <2>3, <3>0, <4>3, <4>4 DEF AccountType, Paying
      <4>6. failures'[c] + Try(w, c)' + Series(c)'
              <= failures[c] + Try(w, c) + Series(c) + Paying(MaxAttempts)
        BY <1>0, <1>a, <2>1, <2>3, <3>0, <4>4 DEF AccountType, Paying
      <4> QED BY <1>0, <2>1, <2>2, <3>0, <4>5, <4>6, PaidByFuture
    <3> QED BY <1>12, <2>5, <3>1, <3>2, <3>3 DEF Mark
  <2> QED BY <2>4, <2>5
<1>13. ASSUME NEW w \in Worker, Poll(w) \/ ReclaimError(w) \/ BatchDone(w) \/ Restart(w)
       PROVE  Goal
  BY <1>3, <1>13 DEF Poll, ReclaimError, BatchDone, Restart, Fault, rows
<1>14. ASSUME UNCHANGED vars PROVE Goal
  BY <1>3, <1>14 DEF vars
<1>15. ASSUME NEW w \in Worker, NEW d \in Delivery, Emit(w, d) \/ Mark(w, d) PROVE Goal
  <2>1. CASE c = d
    BY <1>11, <1>12, <1>15, <2>1, Zenon
  <2>2. CASE c # d
    BY <1>10, <1>15, <2>2, Zenon
  <2> QED BY <2>1, <2>2
<1> HIDE DEF Goal
<1>16. ASSUME NEW w \in Worker, Loop(w) \/ Crash(w) \/ Restart(w) PROVE Goal
  BY <1>5, <1>6, <1>7, <1>8, <1>13, <1>16, Zenon DEF Loop
<1>17. ASSUME Next PROVE Goal
  BY <1>4, <1>9, <1>15, <1>16, <1>17, Zenon DEF Next
<1>18. Goal
  BY <1>14, <1>17, Zenon
<1> QED BY <1>18 DEF Goal

\* Beyond its first copy the downstream system takes an event at most once per
\* fault, even with overrun leases and several server processes, so that
\* without faults a delivery is made at most once.
THEOREM DuplicatesNeedFaultsHolds == Spec => []DuplicatesNeedFaults
<1>1. QueueInv /\ PaidInv => DuplicatesNeedFaults
  <2> SUFFICES ASSUME QueueInv, PaidInv, NEW d \in Delivery
               PROVE  copies[d] <= 1 + (MaxFaults - faults)
    BY DEF DuplicatesNeedFaults
  <2>1. CASE d \in Legacy
    BY <2>1, QueueAssumption DEF QueueInv, LegacyInv, TypeOK
  <2>2. CASE d \in Mutable
    <3>1. AccountType(d) /\ PaidCopies(d)
      BY <2>2, AccountTypes DEF PaidInv
    <3>2. Total(Calls(d), 1) \in Nat
      BY UnitsFinite
    <3> QED BY <3>1, <3>2 DEF PaidCopies, AccountType, Used
  <2> QED BY <2>1, <2>2 DEF Mutable
<1> QED
  BY <1>1, QueueInvInit, QueueInvStep, DispatchInit, DispatchStep, PaidInit, PaidStep, PTL
  DEF Spec, QueueInv

\* Where leases never overrun, or one server process runs, an emit fails
\* uncounted, beyond the max_attempts that dead-letter a row, at most once per
\* fault.  Everywhere else a fault costs one more series of emits at most.
THEOREM FailuresBoundedHolds == Spec => []FailuresBounded
<1>1. CASE ~Overrun \/ Solo
  <2>1. QueueInv /\ CountInv => FailuresBounded
    BY <1>1, QueueAssumption
    DEF QueueInv, TypeOK, RowInv, CountInv, Used, Mutable, FailuresBounded
  <2> QED
    BY <1>1, <2>1, QueueInvInit, QueueInvStep, ExclusiveInit, ExclusiveStep, CountInit, CountStep,
       PTL DEF Spec
<1>2. CASE Overrun /\ ~Solo
  <2>1. QueueInv /\ PaidInv => FailuresBounded
    <3> SUFFICES ASSUME QueueInv, PaidInv, NEW d \in Mutable
                 PROVE  failures[d] <= MaxAttempts * (1 + (MaxFaults - faults))
      BY <1>2 DEF FailuresBounded
    <3>1. AccountType(d) /\ PaidFailures(d)
      BY AccountTypes DEF PaidInv
    <3>2. Total(Tries(d), MaxAttempts) \in Nat /\ MaxAttempts \in Nat
      BY UnitsFinite, QueueAssumption
    <3>3. failures[d] <= MaxAttempts * (1 + Used)
      BY <3>1, <3>2 DEF PaidFailures, AccountType
    <3> QED BY <3>3 DEF Used
  <2> QED
    BY <2>1, QueueInvInit, QueueInvStep, DispatchInit, DispatchStep, PaidInit, PaidStep, PTL
    DEF Spec, QueueInv
<1> QED BY <1>1, <1>2
=============================================================================
