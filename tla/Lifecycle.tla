------------------------------ MODULE Lifecycle ------------------------------
(***************************************************************************)
(* The life of a server process: serve_inner, spawn_emitter_workers,       *)
(* supervise_worker and drain_worker_handles (hookbox-server/src/serve.rs) *)
(* with the worker loop as far as shutdown is concerned                    *)
(* (hookbox-server/src/worker.rs, EmitterWorker::spawn).                   *)
(*                                                                         *)
(* The main task builds the emitters of the configuration one by one; each *)
(* worker runs from the moment it is spawned, beside the start-up of the   *)
(* later ones.  Shutdown is a watch channel: `signal` is its value, and    *)
(* `unseen` says of each worker that the value was sent since it last      *)
(* looked.  Every task may be overtaken by any other between two awaits.   *)
(***************************************************************************)
EXTENDS Naturals, Sequences

CONSTANTS
  Entry,     \* names of the configured emitters
  Entries,   \* config.emitters: the names in their order
  Channel    \* the entries of type "channel", which need a drain task

ASSUME LifecycleAssumption ==
  /\ Entries \in Seq(Entry)
  /\ \A m, n \in 1 .. Len(Entries) : Entries[m] = Entries[n] => m = n
  /\ \A e \in Entry : \E n \in 1 .. Len(Entries) : Entries[n] = e
  /\ Channel \subseteq Entry

VARIABLES
  main,        \* where serve_inner is
  built,       \* entries spawned so far
  handles,     \* worker_handles: <<kind of task, entry>>, in order
  joined,      \* how many of the handles were awaited
  lost,        \* panicked_tasks: entries whose handle returned a JoinError
  serve_error, \* serve_result is Err
  result,      \* what serve_inner returned
  signal,      \* the value of the watch channel
  unseen,      \* per worker: a value was sent that it has not looked at
  worker,      \* per entry: where its EmitterWorker task is
  supervisor,  \* per entry: its supervising task
  drainer,     \* per entry: its drain_emitter task
  unhealthy,   \* per entry: the health snapshot says Unhealthy
  late         \* history: batches the worker began after the signal

vars == <<main, built, handles, joined, lost, serve_error, result, signal, unseen,
          worker, supervisor, drainer, unhealthy, late>>
startup == <<built, handles>>
outcome == <<joined, lost, serve_error, result>>
tasks == <<worker, supervisor, drainer, unhealthy, late>>

\* A worker before the select!, asleep in it, past it, dispatching a batch.
Running == {"select", "sleep", "claim", "batch"}
Over == {"exited", "panicked"}
Results == {"ok", "start_error", "serve_error", "panicked"}

TypeOK ==
  /\ main \in {"boot", "spawn", "rollback", "serve", "drain", "returned"}
  /\ built \in 0 .. Len(Entries)
  /\ handles \in Seq({"drain", "worker"} \X Entry)
  /\ joined \in 0 .. Len(handles)
  /\ lost \subseteq Entry
  /\ serve_error \in BOOLEAN
  /\ result \in Results \cup {"none"}
  /\ signal \in BOOLEAN
  /\ unseen \in [Entry -> BOOLEAN]
  /\ worker \in [Entry -> Running \cup Over \cup {"none"}]
  /\ supervisor \in [Entry -> {"none", "watching", "ok", "failed"}]
  /\ drainer \in [Entry -> {"none", "running", "ended"}]
  /\ unhealthy \in [Entry -> BOOLEAN]
  /\ late \in [Entry -> Nat]

Init ==
  /\ main = "boot"
  /\ built = 0
  /\ handles = <<>>
  /\ joined = 0
  /\ lost = {}
  /\ serve_error = FALSE
  /\ result = "none"
  /\ signal = FALSE
  /\ unseen = [e \in Entry |-> FALSE]
  /\ worker = [e \in Entry |-> "none"]
  /\ supervisor = [e \in Entry |-> "none"]
  /\ drainer = [e \in Entry |-> "none"]
  /\ unhealthy = [e \in Entry |-> FALSE]
  /\ late = [e \in Entry |-> 0]

\* shutdown_tx.send(true): every receiver has something to look at.
SendShutdown ==
  /\ signal' = TRUE
  /\ unseen' = [e \in Entry |-> TRUE]

-----------------------------------------------------------------------------
(***************************************************************************)
(* The main task.                                                          *)
(***************************************************************************)
\* The retry configuration is valid, the database is reachable and migrated,
\* the pipeline is built.
Boot ==
  /\ main = "boot"
  /\ main' = "spawn"
  /\ UNCHANGED <<startup, outcome, signal, unseen, tasks>>

BootFails ==
  /\ main = "boot"
  /\ main' = "returned"
  /\ result' = "start_error"
  /\ UNCHANGED <<startup, joined, lost, serve_error, signal, unseen, tasks>>

\* One turn of the loop over config.emitters.
SpawnEntry ==
  LET e == Entries[built + 1] IN
  /\ main = "spawn"
  /\ built < Len(Entries)
  /\ built' = built + 1
  /\ handles' = Append(IF e \in Channel THEN Append(handles, <<"drain", e>>) ELSE handles,
                       <<"worker", e>>)
  /\ worker' = [worker EXCEPT ![e] = "select"]
  /\ supervisor' = [supervisor EXCEPT ![e] = "watching"]
  /\ drainer' = IF e \in Channel THEN [drainer EXCEPT ![e] = "running"] ELSE drainer
  /\ UNCHANGED <<main, outcome, signal, unseen, unhealthy, late>>

\* Mutant: a failed start does not signal the workers it has spawned.
BuildFailsSilently ==
  /\ main = "spawn"
  /\ built < Len(Entries)
  /\ main' = "rollback"
  /\ UNCHANGED <<startup, outcome, signal, unseen, tasks>>

\* build_emitter_for_entry fails.
BuildFails ==
  /\ main = "spawn"
  /\ built < Len(Entries)
  /\ SendShutdown
  /\ main' = "rollback"
  /\ UNCHANGED <<startup, outcome, tasks>>

SpawnDone ==
  /\ main = "spawn"
  /\ built = Len(Entries)
  /\ main' = "serve"
  /\ UNCHANGED <<startup, outcome, signal, unseen, tasks>>

\* The shutdown future resolves: axum stops accepting and tells the workers.
ShutdownRequested ==
  /\ main = "serve"
  /\ ~signal
  /\ SendShutdown
  /\ UNCHANGED <<main, startup, outcome, tasks>>

\* The last connection closes.
ServeEnds ==
  /\ main = "serve"
  /\ signal
  /\ SendShutdown
  /\ main' = "drain"
  /\ UNCHANGED <<startup, outcome, tasks>>

\* Mutant: the error of axum::serve is returned at once.
ServeFailsReturns ==
  /\ main = "serve"
  /\ main' = "returned"
  /\ result' = "serve_error"
  /\ serve_error' = TRUE
  /\ UNCHANGED <<startup, joined, lost, signal, unseen, tasks>>

\* axum::serve fails: the error is kept until the workers have drained.
ServeFails ==
  /\ main = "serve"
  /\ SendShutdown
  /\ main' = "drain"
  /\ serve_error' = TRUE
  /\ UNCHANGED <<startup, joined, lost, result, tasks>>

\* The task of a handle has ended; a supervisor fails with its worker.
Ended(h) ==
  IF h[1] = "drain" THEN drainer[h[2]] = "ended"
                    ELSE supervisor[h[2]] \in {"ok", "failed"}

Failed(h) == h[1] = "worker" /\ supervisor[h[2]] = "failed"

\* Mutant: the JoinError is logged and forgotten.
JoinLogsOnly ==
  /\ main \in {"rollback", "drain"}
  /\ joined < Len(handles)
  /\ Ended(handles[joined + 1])
  /\ joined' = joined + 1
  /\ UNCHANGED <<main, startup, lost, serve_error, result, signal, unseen, tasks>>

\* Mutant: a turn of the loop takes two handles.
JoinSkips ==
  LET h == handles[joined + 1] IN
  /\ main \in {"rollback", "drain"}
  /\ joined < Len(handles)
  /\ Ended(h)
  /\ joined' = joined + 2
  /\ lost' = IF Failed(h) THEN lost \cup {h[2]} ELSE lost
  /\ UNCHANGED <<main, startup, serve_error, result, signal, unseen, tasks>>

\* One turn of the loop of drain_worker_handles.
Join ==
  LET h == handles[joined + 1] IN
  /\ main \in {"rollback", "drain"}
  /\ joined < Len(handles)
  /\ Ended(h)
  /\ joined' = joined + 1
  /\ lost' = IF Failed(h) THEN lost \cup {h[2]} ELSE lost
  /\ UNCHANGED <<main, startup, serve_error, result, signal, unseen, tasks>>

Return ==
  /\ main \in {"rollback", "drain"}
  /\ joined = Len(handles)
  /\ main' = "returned"
  /\ result' = IF main = "rollback" THEN "start_error"
               ELSE IF serve_error THEN "serve_error"
               ELSE IF lost # {} THEN "panicked" ELSE "ok"
  /\ UNCHANGED <<startup, joined, lost, serve_error, signal, unseen, tasks>>

-----------------------------------------------------------------------------
(***************************************************************************)
(* A worker.  Entering the select!, changed() is ready at once if there is *)
(* something unseen, and sleep() is not, since poll_interval_seconds >= 1; *)
(* later both may be ready, and select! takes either.                      *)
(***************************************************************************)
SetWorker(e, s) == worker' = [worker EXCEPT ![e] = s]

EnterSelect(e) ==
  /\ worker[e] = "select"
  /\ ~unseen[e]
  /\ SetWorker(e, "sleep")
  /\ UNCHANGED <<main, startup, outcome, signal, unseen, supervisor, drainer, unhealthy, late>>

Changed(e) ==
  /\ worker[e] \in {"select", "sleep"}
  /\ unseen[e]
  /\ unseen' = [unseen EXCEPT ![e] = FALSE]
  /\ SetWorker(e, IF signal THEN "exited" ELSE "claim")
  /\ UNCHANGED <<main, startup, outcome, signal, supervisor, drainer, unhealthy, late>>

Tick(e) ==
  /\ worker[e] = "sleep"
  /\ SetWorker(e, "claim")
  /\ UNCHANGED <<main, startup, outcome, signal, unseen, supervisor, drainer, unhealthy, late>>

\* The claim is empty or fails: `continue`.
ClaimNothing(e) ==
  /\ worker[e] = "claim"
  /\ SetWorker(e, "select")
  /\ UNCHANGED <<main, startup, outcome, signal, unseen, supervisor, drainer, unhealthy, late>>

ClaimBatch(e) ==
  /\ worker[e] = "claim"
  /\ SetWorker(e, "batch")
  /\ late' = [late EXCEPT ![e] = IF signal THEN @ + 1 ELSE @]
  /\ UNCHANGED <<main, startup, outcome, signal, unseen, supervisor, drainer, unhealthy>>

\* Mutant: borrow_and_update() marks the value seen, and the answer is ignored.
BatchDoneForgets(e) ==
  /\ worker[e] = "batch"
  /\ unseen' = [unseen EXCEPT ![e] = FALSE]
  /\ SetWorker(e, "select")
  /\ UNCHANGED <<main, startup, outcome, signal, supervisor, drainer, unhealthy, late>>

\* join_all returns; shutdown_rx.borrow_and_update().
BatchDone(e) ==
  /\ worker[e] = "batch"
  /\ unseen' = [unseen EXCEPT ![e] = FALSE]
  /\ SetWorker(e, IF signal THEN "exited" ELSE "select")
  /\ UNCHANGED <<main, startup, outcome, signal, supervisor, drainer, unhealthy, late>>

Panic(e) ==
  /\ worker[e] \in {"claim", "batch"}
  /\ SetWorker(e, "panicked")
  /\ UNCHANGED <<main, startup, outcome, signal, unseen, supervisor, drainer, unhealthy, late>>

\* Mutant: the supervisor swallows the panic and leaves the snapshot alone.
SuperviseSwallows(e) ==
  /\ supervisor[e] = "watching"
  /\ worker[e] \in Over
  /\ supervisor' = [supervisor EXCEPT ![e] = "ok"]
  /\ UNCHANGED <<main, startup, outcome, signal, unseen, worker, drainer, unhealthy, late>>

\* inner.await returns; after a panic the snapshot is replaced and the panic
\* resumed.
Supervise(e) ==
  /\ supervisor[e] = "watching"
  /\ worker[e] \in Over
  /\ supervisor' = [supervisor EXCEPT ![e] = IF worker[e] = "panicked" THEN "failed" ELSE "ok"]
  /\ unhealthy' = [unhealthy EXCEPT ![e] = @ \/ worker[e] = "panicked"]
  /\ UNCHANGED <<main, startup, outcome, signal, unseen, worker, drainer, late>>

\* The worker dropped the emitter, the only sender of the channel.
DrainEnds(e) ==
  /\ drainer[e] = "running"
  /\ worker[e] \in Over
  /\ drainer' = [drainer EXCEPT ![e] = "ended"]
  /\ UNCHANGED <<main, startup, outcome, signal, unseen, worker, supervisor, unhealthy, late>>

-----------------------------------------------------------------------------
Main ==
  \/ Boot
  \/ BootFails
  \/ SpawnEntry
  \/ BuildFails
  \/ SpawnDone
  \/ ServeEnds
  \/ Join
  \/ Return

Work(e) ==
  \/ EnterSelect(e)
  \/ Changed(e)
  \/ Tick(e)
  \/ ClaimNothing(e)
  \/ ClaimBatch(e)
  \/ BatchDone(e)

Next ==
  \/ Main
  \/ ShutdownRequested
  \/ ServeFails
  \/ \E e \in Entry : Work(e) \/ Panic(e) \/ Supervise(e) \/ DrainEnds(e)

Spec == Init /\ [][Next]_vars

(***************************************************************************)
(* The runtime polls every task.  A batch comes to an end: the Kafka, SQS  *)
(* and Redis adapters bound an emit by a timeout; NATS hands it to a       *)
(* buffer, which is assumed not to stay full.  The connections of a server *)
(* that no longer accepts come to an end too.  Nobody needs to ask for the *)
(* shutdown, and nothing needs to fail.                                    *)
(***************************************************************************)
FairSpec ==
  /\ Spec
  /\ WF_vars(Main)
  /\ \A e \in Entry : WF_vars(Work(e)) /\ WF_vars(Supervise(e)) /\ WF_vars(DrainEnds(e))

-----------------------------------------------------------------------------
(***************************************************************************)
(* Properties.                                                             *)
(***************************************************************************)

\* When serve_inner returns, after a shutdown, a fatal error of the server or
\* a start that failed half-way, no worker and no drain task is left: none
\* goes on dispatching, and none is cut off in the middle of a batch.
NobodyLeft ==
  main = "returned" =>
    \A e \in Entry : /\ worker[e] \in Over \cup {"none"}
                     /\ supervisor[e] # "watching"
                     /\ drainer[e] # "running"

\* A clean result means that no worker ever panicked; a panic that nothing
\* worse hides is what serve_inner returns.
PanicsAreReported ==
  main = "returned" =>
    /\ result = "ok" => \A e \in Entry : worker[e] # "panicked"
    /\ result = "panicked" => \E e \in Entry : worker[e] = "panicked"
    /\ result # "none"

\* After the signal a worker begins one more batch at most.
OneLateBatch == \A e \in Entry : late[e] <= 1

\* Once the operator has asked for the shutdown, the server has failed or a
\* start is rolled back, serve_inner returns: every worker is told, and none
\* misses the signal.
ShutdownCompletes ==
  signal \/ main \in {"rollback", "drain"} ~> main = "returned"

\* A worker that panics shows in the health snapshot, without waiting for the
\* shutdown.
PanicShows == \A e \in Entry : worker[e] = "panicked" ~> unhealthy[e]
=============================================================================
