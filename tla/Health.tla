------------------------------- MODULE Health -------------------------------
(***************************************************************************)
(* The health of an emitter worker (hookbox-server/src/worker.rs:          *)
(* update_health, refresh_gauges, derive_status), its supervisor           *)
(* (serve.rs), and the readiness probe that reports it (routes/health.rs). *)
(*                                                                         *)
(* The worker dispatches a batch as futures of one task: they interleave   *)
(* at their awaits only, the emit (module Adapters) and the mark_*         *)
(* statement, and update the snapshot between two of them.  The supervisor *)
(* writes it when the worker's task has panicked.  A probe waits for the   *)
(* database first and then reads the snapshot.                             *)
(*                                                                         *)
(* The gauges' numbers are left out: nothing depends on them.              *)
(***************************************************************************)
EXTENDS Adapters

CONSTANTS
  Threshold,  \* consecutive failures that make an emitter unhealthy; 10 in the code
  Probe       \* requests to /readyz, and to /api/emitters, in flight

ASSUME HealthAssumption == Threshold \in Nat \ {0}

VARIABLES
  worker,   \* of the emitter: where its loop is
  batch,    \* events of the batch not yet dealt with
  health,   \* the snapshot, ArcSwap<EmitterHealth>
  recent,   \* the last failure was less than 60 s ago
  streak,   \* history: failures recorded since the last success
  probe     \* by request

healthVars == <<worker, batch, health, recent, streak, probe>>
vars == <<adapterVars, healthVars>>

Status == {"healthy", "degraded", "unhealthy"}
NoProbe == [pc |-> "idle"]

HealthTypeOK ==
  /\ AdaptersTypeOK
  /\ worker \in {"sleep", "batch", "gauges", "panicked", "reported"}
  /\ batch \subseteq Event
  /\ health \in [consecutive_failures : Nat, status : Status]
  /\ recent \in BOOLEAN
  /\ streak \in Nat
  /\ DOMAIN probe = Probe

HealthInit ==
  /\ AdaptersInit
  /\ worker = "sleep"
  /\ batch = {}
  /\ health = [consecutive_failures |-> 0, status |-> "healthy"]
  /\ recent = FALSE
  /\ streak = 0
  /\ probe = [p \in Probe |-> NoProbe]

-----------------------------------------------------------------------------
\* Mutant: a success is enough to be healthy.
DeriveStatusHasty(failures, isRecent) ==
  IF failures >= Threshold THEN "unhealthy"
  ELSE IF failures > 0 /\ isRecent THEN "degraded"
  ELSE "healthy"

\* derive_status; isRecent: last_failure_at is less than 60 s ago.
DeriveStatus(failures, isRecent) ==
  IF failures >= Threshold THEN "unhealthy"
  ELSE IF isRecent THEN "degraded"
  ELSE "healthy"

\* claim_pending gives the worker a batch; an empty one only has it refreshed.
ClaimBatch(B) ==
  /\ worker = "sleep"
  /\ \A e \in B : calls[e] < MaxCalls[e]
  /\ batch' = B
  /\ worker' = IF B = {} THEN "gauges" ELSE "batch"
  /\ UNCHANGED <<adapterVars, health, recent, streak, probe>>

\* It fails: the worker goes back to sleep and refreshes nothing.
ClaimError ==
  /\ worker = "sleep"
  /\ faults > 0
  /\ faults' = faults - 1
  /\ UNCHANGED <<kind, call, calls, resent, broker, acked, healthVars>>

\* dispatch_one up to and within the emit.
Dispatch(e) ==
  /\ worker = "batch"
  /\ e \in batch
  /\ EmitCall(e) \/ EmitStep(e)
  /\ UNCHANGED healthVars

\* Requests that were given up arrive whatever the worker does, and librdkafka
\* goes on for a future that was dropped.
Elsewhere ==
  /\ \/ BrokerStep
     \/ \E e \in Event : LandLate(e)
     \/ /\ kind = "kafka" /\ worker \in {"panicked", "reported"}
        /\ \E e \in Event : Resend(e)
  /\ UNCHANGED healthVars

\* mark_emitted, mark_failed or mark_dead_lettered ends; its error is logged.
Mark(e) ==
  /\ worker = "batch"
  /\ call[e] \in {"ok", "err"}
  /\ Returns(e, IF call[e] = "ok" THEN "marked_ok" ELSE "marked_err")
  /\ UNCHANGED <<kind, calls, resent, broker, acked, faults, healthVars>>

\* update_health: load, change and store with no await between them.
UpdateHealth(success) ==
  LET failures == IF success THEN 0 ELSE health.consecutive_failures + 1
      isRecent == IF success THEN recent ELSE TRUE
  IN
  /\ recent' = isRecent
  /\ health' = [consecutive_failures |-> failures, status |-> DeriveStatus(failures, isRecent)]

\* The future ends with update_health; with the last one join_all ends.
DispatchDone(e) ==
  LET success == call[e] = "marked_ok" IN
  /\ worker = "batch"
  /\ call[e] \in {"marked_ok", "marked_err"}
  /\ UpdateHealth(success)
  /\ streak' = IF success THEN 0 ELSE streak + 1
  /\ Returns(e, "none")
  /\ batch' = batch \ {e}
  /\ worker' = IF batch = {e} THEN "gauges" ELSE "batch"
  /\ UNCHANGED <<kind, calls, resent, broker, acked, faults, probe>>

\* Mutant: the status is left to the next dispatch.
RefreshGaugesOnly ==
  /\ worker = "gauges"
  /\ worker' = "sleep"
  /\ UNCHANGED <<adapterVars, batch, health, recent, streak, probe>>

\* refresh_gauges: the counts, errors of which count as 0, then the status.
RefreshGauges ==
  /\ worker = "gauges"
  /\ worker' = "sleep"
  /\ health' = [health EXCEPT !.status = DeriveStatus(health.consecutive_failures, recent)]
  /\ UNCHANGED <<adapterVars, batch, recent, streak, probe>>

\* 60 s have passed since the last failure.
WindowEnds ==
  /\ recent
  /\ recent' = FALSE
  /\ UNCHANGED <<adapterVars, worker, batch, health, streak, probe>>

\* The worker's task panics; its futures are dropped, what is sent is sent.
Panic ==
  /\ worker \in {"sleep", "batch", "gauges"}
  /\ worker' = "panicked"
  /\ batch' = {}
  /\ call' = [e \in Event |-> "none"]
  /\ UNCHANGED <<kind, calls, resent, broker, acked, faults, health, recent, streak, probe>>

\* Mutant: the panic counts as one more failure.
SuperviseCounts ==
  LET failures == health.consecutive_failures + 1 IN
  /\ worker = "panicked"
  /\ worker' = "reported"
  /\ recent' = TRUE
  /\ health' = [consecutive_failures |-> failures, status |-> DeriveStatus(failures, TRUE)]
  /\ UNCHANGED <<adapterVars, batch, streak, probe>>

\* supervise_worker: inner.await returns the panic.
Supervise ==
  /\ worker = "panicked"
  /\ worker' = "reported"
  /\ recent' = TRUE
  /\ health' = [consecutive_failures |-> health.consecutive_failures + 1, status |-> "unhealthy"]
  /\ UNCHANGED <<adapterVars, batch, streak, probe>>

-----------------------------------------------------------------------------
(***************************************************************************)
(* readyz: the ping of the database ends, with an error or at its timeout  *)
(* perhaps.  `hookbox serve` registers a worker for every name, a server   *)
(* that embeds the router may have a name that is missing.                 *)
(***************************************************************************)
Ping(p) ==
  /\ probe[p].pc = "idle"
  /\ \E db \in {"healthy", "unhealthy"}, missing \in BOOLEAN :
       probe' = [probe EXCEPT ![p] = [pc |-> "pinged", db |-> db, missing |-> missing]]
  /\ UNCHANGED <<adapterVars, worker, batch, health, recent, streak>>

\* synthesize_missing_emitters: the snapshots, with one synthesized for every emitter that has none.
Snapshots(missing) == {health.status} \cup (IF missing THEN {"unhealthy"} ELSE {})

\* compute_overall_status.
ComputeOverallStatus(db, statuses) ==
  CASE db = "unhealthy" \/ "unhealthy" \in statuses -> "unhealthy"
    [] db = "healthy" /\ "unhealthy" \notin statuses /\ "degraded" \in statuses -> "degraded"
    [] OTHER -> "healthy"

\* What a probe is meant to report, without the snapshot.
Outage(db, missing) == db = "unhealthy" \/ missing \/ worker = "reported" \/ streak >= Threshold

\* readyz after the ping: it reads the snapshots and answers.
Answer(p) ==
  LET overall == ComputeOverallStatus(probe[p].db, Snapshots(probe[p].missing)) IN
  /\ probe[p].pc = "pinged"
  /\ probe' = [probe EXCEPT ![p] = [pc |-> "answered",
                                    code |-> IF overall = "unhealthy" THEN 503 ELSE 200,
                                    outage |-> Outage(@.db, @.missing)]]
  /\ UNCHANGED <<adapterVars, worker, batch, health, recent, streak>>

\* list_emitters: the same snapshots, and no database.
ListEmitters(p) ==
  /\ probe[p].pc = "idle"
  /\ \E missing \in BOOLEAN :
       probe' = [probe EXCEPT ![p] = [pc |-> "listed", statuses |-> Snapshots(missing),
                                      outage |-> Outage("healthy", missing)]]
  /\ UNCHANGED <<adapterVars, worker, batch, health, recent, streak>>

ProbeDone(p) ==
  /\ probe[p].pc \in {"answered", "listed"}
  /\ probe' = [probe EXCEPT ![p] = NoProbe]
  /\ UNCHANGED <<adapterVars, worker, batch, health, recent, streak>>

-----------------------------------------------------------------------------
WorkerStep ==
  \/ \E B \in SUBSET Event : ClaimBatch(B)
  \/ ClaimError
  \/ \E e \in Event : Dispatch(e) \/ Mark(e) \/ DispatchDone(e)
  \/ RefreshGauges

HealthNext ==
  \/ WorkerStep
  \/ Elsewhere
  \/ WindowEnds
  \/ Panic
  \/ Supervise
  \/ \E p \in Probe : Ping(p) \/ Answer(p) \/ ListEmitters(p) \/ ProbeDone(p)

(***************************************************************************)
(* The worker's task, its supervisor and the clock go on; nothing is       *)
(* assumed of the brokers and of the probes.  Every emit but that of the   *)
(* channel has a timeout, and the drain task empties the channel.          *)
(***************************************************************************)
HealthSpec ==
  /\ HealthInit /\ [][HealthNext]_vars
  /\ WF_vars(WorkerStep) /\ WF_vars(Supervise) /\ WF_vars(WindowEnds)
  /\ WF_vars(Flush /\ UNCHANGED healthVars)

-----------------------------------------------------------------------------
(***************************************************************************)
(* /readyz answers 503 exactly when there is an outage: the database did   *)
(* not answer, a configured emitter has no worker, a worker has died, or   *)
(* the last Threshold emits all failed.  /api/emitters shows the same of   *)
(* the emitters.  The snapshot both trust is written by the futures of a   *)
(* batch, the tick and the supervisor.                                     *)
(***************************************************************************)
ReadyzIsTruthful ==
  \A p \in Probe :
    /\ probe[p].pc = "answered" => (probe[p].code = 503 <=> probe[p].outage)
    /\ probe[p].pc = "listed" => ("unhealthy" \in probe[p].statuses <=> probe[p].outage)

(***************************************************************************)
(* A worker is shown as healthy only if it has failed nothing for 60 s and *)
(* is alive: a success in between, or a batch that mixes both, does not    *)
(* hide a failure.                                                         *)
(***************************************************************************)
HealthyIsQuiet ==
  health.status = "healthy" => ~recent /\ streak < Threshold /\ worker # "reported"

(***************************************************************************)
(* Degraded passes by itself: "an emitter that failed and then went idle"  *)
(* does not remain degraded (comment of refresh_gauges).                   *)
(***************************************************************************)
DegradedDecays ==
  health.status = "degraded" ~> health.status # "degraded"
=============================================================================
