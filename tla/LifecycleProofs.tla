--------------------------- MODULE LifecycleProofs ---------------------------
(***************************************************************************)
(* Proofs about Lifecycle, for any configuration of emitters.              *)
(***************************************************************************)
EXTENDS Lifecycle, SequenceTheorems, TLAPS

(***************************************************************************)
(* The inductive invariant.  PhaseInv: what holds while the main task is   *)
(* where it is.  HandleInv: every task has its handle in the list, and the *)
(* handles up to `joined` are of tasks that have ended.  TaskInv: how a    *)
(* worker and the tasks beside it go together.  ReportInv: `lost` holds    *)
(* the entries of the failed handles among those awaited.  LateInv: a late *)
(* batch is the last one.                                                  *)
(***************************************************************************)
PhaseInv ==
  /\ main = "boot" => handles = <<>> /\ \A e \in Entry : worker[e] = "none"
  /\ main \in {"boot", "spawn", "serve"} => joined = 0 /\ lost = {}
  /\ main \in {"boot", "spawn"} => ~signal
  /\ main = "returned" <=> result # "none"
  /\ main = "returned" => joined = Len(handles)

HandleInv ==
  /\ \A e \in Entry : worker[e] # "none" =>
       \E k \in 1 .. Len(handles) : handles[k] = <<"worker", e>>
  /\ \A e \in Entry : drainer[e] # "none" =>
       \E k \in 1 .. Len(handles) : handles[k] = <<"drain", e>>
  /\ \A k \in 1 .. joined : Ended(handles[k])

TaskInv ==
  \A e \in Entry :
    /\ worker[e] = "none" <=> supervisor[e] = "none"
    /\ worker[e] = "none" => drainer[e] = "none"
    /\ supervisor[e] = "ok" => worker[e] = "exited"
    /\ supervisor[e] = "failed" => worker[e] = "panicked"

ReportInv ==
  /\ \A k \in 1 .. joined : Failed(handles[k]) => handles[k][2] \in lost
  /\ \A e \in lost : worker[e] = "panicked"
  /\ result = "ok" => lost = {}
  /\ result = "panicked" => lost # {}

LateInv ==
  \A e \in Entry :
    /\ late[e] <= 1
    /\ late[e] > 0 => signal /\ worker[e] \in {"batch"} \cup Over

LifecycleInv ==
  /\ TypeOK
  /\ PhaseInv
  /\ HandleInv
  /\ TaskInv
  /\ ReportInv
  /\ LateInv

\* A process that has not started yet satisfies the invariant.
LEMMA LifecycleInvInit == Init => LifecycleInv
  <1> SUFFICES ASSUME Init PROVE LifecycleInv
    OBVIOUS
  <1> USE LifecycleAssumption DEF Init
  <1>1. TypeOK
    <2>1. handles \in Seq({"drain", "worker"} \X Entry) /\ Len(handles) = 0
      OBVIOUS
    <2>2. built \in 0 .. Len(Entries) /\ joined \in 0 .. Len(handles)
      BY <2>1
    <2> QED
      BY <2>1, <2>2, Zenon DEF TypeOK, Running
  <1>2. PhaseInv
    BY DEF PhaseInv
  <1>3. HandleInv
    BY DEF HandleInv
  <1>4. TaskInv /\ LateInv
    BY DEF TaskInv, LateInv
  <1>5. ReportInv
    BY DEF ReportInv
  <1> QED
    BY <1>1, <1>2, <1>3, <1>4, <1>5 DEF LifecycleInv

\* Spawning an entry appends its handles and starts its tasks.
LEMMA SpawnEntryKeeps ==
  ASSUME LifecycleInv, SpawnEntry
  PROVE  LifecycleInv'
  <1> USE LifecycleAssumption
  <1> DEFINE e == Entries[built + 1]
             drained == IF e \in Channel THEN Append(handles, <<"drain", e>>) ELSE handles
             Handle == {"drain", "worker"} \X Entry
  <1>1. TypeOK
    BY DEF LifecycleInv
  <1>2. e \in Entry
    BY <1>1 DEF TypeOK, SpawnEntry
  <1>3. drained \in Seq(Handle) /\ handles' = Append(drained, <<"worker", e>>)
    <2>1. <<"drain", e>> \in Handle
      BY <1>2
    <2> QED
      BY <1>1, <2>1 DEF TypeOK, SpawnEntry
  <1>4. handles' \in Seq(Handle)
    BY <1>2, <1>3
  <1>5. /\ Len(handles') = Len(drained) + 1
        /\ handles'[Len(drained) + 1] = <<"worker", e>>
        /\ \A k \in 1 .. Len(drained) : handles'[k] = drained[k]
    BY <1>2, <1>3, SMTT(30)
  <1>6. /\ Len(handles) <= Len(drained)
        /\ \A k \in 1 .. Len(handles) : drained[k] = handles[k]
        /\ e \in Channel => /\ Len(drained) = Len(handles) + 1
                            /\ drained[Len(drained)] = <<"drain", e>>
    <2>1. handles \in Seq(Handle) /\ <<"drain", e>> \in Handle
      BY <1>1, <1>2 DEF TypeOK
    <2> HIDE DEF e, Handle
    <2>2. CASE e \in Channel
      BY <2>1, <2>2
    <2>3. CASE e \notin Channel
      BY <2>1, <2>3
    <2> QED
      BY <2>2, <2>3
  <1>c. /\ built < Len(Entries) /\ built' = built + 1
        /\ worker' = [worker EXCEPT ![e] = "select"]
        /\ supervisor' = [supervisor EXCEPT ![e] = "watching"]
        /\ drainer' = IF e \in Channel THEN [drainer EXCEPT ![e] = "running"] ELSE drainer
    BY DEF SpawnEntry
  <1>t. /\ worker \in [Entry -> Running \cup Over \cup {"none"}]
        /\ supervisor \in [Entry -> {"none", "watching", "ok", "failed"}]
        /\ drainer \in [Entry -> {"none", "running", "ended"}]
    BY <1>1 DEF TypeOK
  <1>u. /\ main = "spawn" /\ main' = main /\ joined' = joined /\ lost' = lost
        /\ serve_error' = serve_error /\ result' = result
        /\ signal' = signal /\ unseen' = unseen /\ unhealthy' = unhealthy /\ late' = late
    BY Zenon DEF SpawnEntry, outcome
  <1>v. handles \in Seq(Handle)
    BY <1>1 DEF TypeOK
  <1> HIDE DEF drained, e, Handle
  <1>n. Len(handles) \in Nat /\ Len(drained) \in Nat
    BY <1>3, <1>v
  <1>7. \A k \in 1 .. Len(handles) : k \in 1 .. Len(handles') /\ handles'[k] = handles[k]
    BY <1>n, <1>5, <1>6
  <1>8. TypeOK'
    <2>1. joined' \in 0 .. Len(handles')
      BY <1>1, <1>n, <1>5, <1>6, <1>u DEF TypeOK
    <2>2. /\ worker' \in [Entry -> Running \cup Over \cup {"none"}]
          /\ supervisor' \in [Entry -> {"none", "watching", "ok", "failed"}]
          /\ drainer' \in [Entry -> {"none", "running", "ended"}]
      BY <1>t, <1>c DEF Running
    <2>3. built' \in 0 .. Len(Entries)
      BY <1>1, <1>c DEF TypeOK
    <2> QED
      BY <1>1, <1>4, <1>u, <2>1, <2>2, <2>3 DEF TypeOK, Handle
  <1>9. PhaseInv'
    BY <1>u DEF LifecycleInv, PhaseInv
  <1>10. joined' = 0 /\ lost' = {} /\ ~ signal
    BY <1>u DEF LifecycleInv, PhaseInv
  <1>11. HandleInv'
    <2>1. ASSUME NEW x \in Entry, worker'[x] # "none"
          PROVE  \E k \in 1 .. Len(handles') : handles'[k] = <<"worker", x>>
      <3>1. CASE x = e
        <4>1. Len(drained) + 1 \in 1 .. Len(handles')
          BY <1>n, <1>5
        <4>2. handles'[Len(drained) + 1] = <<"worker", x>>
          BY <1>5, <3>1, Zenon
        <4> QED
          BY <4>1, <4>2, Zenon
      <3>2. CASE x # e
        <4>1. worker[x] # "none"
          BY <1>t, <1>c, <2>1, <3>2
        <4> QED
          BY <4>1, <1>7 DEF LifecycleInv, HandleInv
      <3> QED
        BY <3>1, <3>2
    <2>2. ASSUME NEW x \in Entry, drainer'[x] # "none"
          PROVE  \E k \in 1 .. Len(handles') : handles'[k] = <<"drain", x>>
      <3>1. CASE x = e /\ e \in Channel
        <4>1. Len(drained) \in 1 .. Len(drained) /\ Len(drained) \in 1 .. Len(handles')
          BY <1>n, <1>5, <1>6, <3>1, SMTT(30)
        <4>2. handles'[Len(drained)] = <<"drain", x>>
          BY <4>1, <1>5, <1>6, <3>1, Zenon
        <4> QED
          BY <4>1, <4>2, Zenon
      <3>2. CASE ~ (x = e /\ e \in Channel)
        <4>1. drainer[x] # "none"
          BY <1>t, <1>c, <2>2, <3>2
        <4> QED
          BY <4>1, <1>7 DEF LifecycleInv, HandleInv
      <3> QED
        BY <3>1, <3>2
    <2>3. (\A k \in 1 .. joined : Ended(handles[k]))'
      BY <1>10
    <2> QED
      BY <2>1, <2>2, <2>3, Zenon DEF HandleInv
  <1>12. TaskInv'
    <2>2. \A x \in Entry : x # e =>
            worker'[x] = worker[x] /\ supervisor'[x] = supervisor[x] /\ drainer'[x] = drainer[x]
      BY <1>t, <1>2, <1>c
    <2>3. worker'[e] = "select" /\ supervisor'[e] = "watching"
      BY <1>t, <1>2, <1>c
    <2> QED
      BY <2>2, <2>3 DEF LifecycleInv, TaskInv
  <1>13. ReportInv'
    BY <1>u, <1>10 DEF LifecycleInv, ReportInv
  <1>14. LateInv'
    BY <1>1, <1>u, <1>10 DEF LifecycleInv, LateInv, TypeOK
  <1> QED
    BY <1>8, <1>9, <1>11, <1>12, <1>13, <1>14 DEF LifecycleInv

\* What the other actions have in common: the list of handles stands, and a
\* task that has ended stays as it is.
Steady ==
  /\ handles' = handles
  /\ \A e \in Entry :
       /\ worker[e] = "none" <=> worker'[e] = "none"
       /\ worker[e] \in Over => worker'[e] = worker[e]
       /\ supervisor[e] \in {"ok", "failed"} => supervisor'[e] = supervisor[e]
       /\ drainer[e] = "none" <=> drainer'[e] = "none"
       /\ drainer[e] = "ended" => drainer'[e] = "ended"

\* Main task, before and after the drain: nothing is joined.
LEMMA MainKeeps ==
  ASSUME LifecycleInv,
         \/ Boot \/ BootFails \/ BuildFails \/ SpawnDone
         \/ ShutdownRequested \/ ServeEnds \/ ServeFails \/ Return
  PROVE  LifecycleInv'
  <1> USE DEF Boot, BootFails, BuildFails, SpawnDone, ShutdownRequested, ServeEnds,
          ServeFails, Return, SendShutdown
  <1>1. /\ handles' = handles /\ joined' = joined /\ lost' = lost /\ built' = built
        /\ worker' = worker /\ supervisor' = supervisor /\ drainer' = drainer
        /\ unhealthy' = unhealthy /\ late' = late
    BY DEF startup, outcome, tasks
  <1>2. TypeOK'
    <2>1. /\ main' \in {"boot", "spawn", "rollback", "serve", "drain", "returned"}
          /\ serve_error' \in BOOLEAN
          /\ result' \in Results \cup {"none"}
          /\ signal' \in BOOLEAN
          /\ unseen' \in [Entry -> BOOLEAN]
      BY DEF LifecycleInv, TypeOK, outcome, Results
    <2> QED
      BY <1>1, <2>1 DEF LifecycleInv, TypeOK
  <1>3. PhaseInv'
    BY <1>1 DEF LifecycleInv, PhaseInv, outcome
  <1>4. HandleInv' /\ TaskInv'
    BY <1>1 DEF LifecycleInv, HandleInv, TaskInv, Ended
  <1>5. ReportInv'
    BY <1>1 DEF LifecycleInv, ReportInv, PhaseInv, Failed, outcome
  <1>6. LateInv'
    BY <1>1 DEF LifecycleInv, LateInv, outcome
  <1> QED
    BY <1>2, <1>3, <1>4, <1>5, <1>6 DEF LifecycleInv

\* One turn of drain_worker_handles.
LEMMA JoinKeeps ==
  ASSUME LifecycleInv, Join
  PROVE  LifecycleInv'
  <1> DEFINE h == handles[joined + 1]
  <1>1. /\ main' = main /\ handles' = handles /\ joined' = joined + 1
        /\ built' = built /\ serve_error' = serve_error /\ result' = result
        /\ signal' = signal /\ unseen' = unseen
        /\ worker' = worker /\ supervisor' = supervisor /\ drainer' = drainer
        /\ unhealthy' = unhealthy /\ late' = late
        /\ lost' = IF Failed(h) THEN lost \cup {h[2]} ELSE lost
        /\ main \in {"rollback", "drain"} /\ joined < Len(handles) /\ Ended(h)
    BY DEF Join, startup, tasks
  <1>2. h[1] \in {"drain", "worker"} /\ h[2] \in Entry
    BY <1>1 DEF LifecycleInv, TypeOK
  <1>3. joined \in Nat /\ Len(handles) \in Nat /\ lost \subseteq Entry
    BY DEF LifecycleInv, TypeOK
  <1> HIDE DEF h
  <1>4. TypeOK'
    <2>1. joined' \in 0 .. Len(handles') /\ lost' \subseteq Entry
      BY <1>1, <1>2, <1>3
    <2> QED
      BY <1>1, <2>1 DEF LifecycleInv, TypeOK
  <1>5. PhaseInv'
    BY <1>1 DEF LifecycleInv, PhaseInv
  <1>6. \A k \in 1 .. joined' : k \in 1 .. joined \/ handles[k] = h
    BY <1>1, <1>3 DEF h
  <1>7. HandleInv' /\ TaskInv'
    <2>1. \A k \in 1 .. joined' : Ended(handles[k])
      BY <1>1, <1>6 DEF LifecycleInv, HandleInv
    <2>2. (\A k \in 1 .. joined : Ended(handles[k]))'
      BY <1>1, <2>1 DEF Ended
    <2> QED
      BY <1>1, <2>2 DEF LifecycleInv, HandleInv, TaskInv
  <1>8. ReportInv'
    <2>1. \A k \in 1 .. joined' : Failed(handles[k]) => handles[k][2] \in lost'
      BY <1>1, <1>6 DEF LifecycleInv, ReportInv
    <2>2. (\A k \in 1 .. joined : Failed(handles[k]) => handles[k][2] \in lost)'
      BY <1>1, <2>1 DEF Failed
    <2>3. Failed(h) => worker[h[2]] = "panicked"
      BY <1>2 DEF Failed, LifecycleInv, TaskInv
    <2>4. result' = "none"
      BY <1>1 DEF LifecycleInv, PhaseInv
    <2> QED
      BY <1>1, <2>2, <2>3, <2>4 DEF LifecycleInv, ReportInv
  <1>9. LateInv'
    BY <1>1 DEF LifecycleInv, LateInv
  <1> QED
    BY <1>4, <1>5, <1>7, <1>8, <1>9 DEF LifecycleInv

\* A step of a task other than the main one leaves alone what has ended.
LEMMA SteadyKeeps ==
  ASSUME LifecycleInv, Steady, TypeOK',
         main' = main, joined' = joined, lost' = lost, result' = result, signal' = signal
  PROVE  PhaseInv' /\ HandleInv' /\ ReportInv'
  <1>1. PhaseInv'
    BY DEF LifecycleInv, PhaseInv, Steady
  <1>2. \A k \in 1 .. joined : k \in 1 .. Len(handles) /\ handles[k] \in {"drain", "worker"} \X Entry
    BY DEF LifecycleInv, TypeOK
  <1>3. \A k \in 1 .. joined : handles[k][1] \in {"drain", "worker"} /\ handles[k][2] \in Entry
    BY <1>2
  <1>4. HandleInv'
    <2>1. (\A k \in 1 .. joined : Ended(handles[k]))'
      BY <1>3 DEF LifecycleInv, HandleInv, Steady, Ended
    <2> QED
      BY <2>1 DEF LifecycleInv, HandleInv, Steady
  <1>5. ReportInv'
    <2>1. (\A k \in 1 .. joined : Failed(handles[k]) => handles[k][2] \in lost)'
      BY <1>3 DEF LifecycleInv, HandleInv, ReportInv, Steady, Ended, Failed
    <2>2. \A e \in lost : worker'[e] = "panicked"
      BY DEF LifecycleInv, TypeOK, ReportInv, Steady, Over
    <2> QED
      BY <2>1, <2>2 DEF LifecycleInv, ReportInv
  <1> QED
    BY <1>1, <1>4, <1>5

\* A worker, its supervisor or its drain task moves.
LEMMA TaskKeeps ==
  ASSUME LifecycleInv, NEW e \in Entry,
         Work(e) \/ Panic(e) \/ Supervise(e) \/ DrainEnds(e)
  PROVE  LifecycleInv'
  <1> USE DEF Work, EnterSelect, Changed, Tick, ClaimNothing, ClaimBatch, BatchDone, Panic,
          Supervise, DrainEnds, SetWorker
  <1>1. /\ main' = main /\ handles' = handles /\ built' = built /\ joined' = joined
        /\ lost' = lost /\ serve_error' = serve_error /\ result' = result /\ signal' = signal
    BY DEF startup, outcome
  <1>2. /\ worker \in [Entry -> Running \cup Over \cup {"none"}]
        /\ supervisor \in [Entry -> {"none", "watching", "ok", "failed"}]
        /\ drainer \in [Entry -> {"none", "running", "ended"}]
        /\ unseen \in [Entry -> BOOLEAN]
        /\ unhealthy \in [Entry -> BOOLEAN]
        /\ late \in [Entry -> Nat]
    BY DEF LifecycleInv, TypeOK
  <1>3. TypeOK'
    <2>1. /\ worker' \in [Entry -> Running \cup Over \cup {"none"}]
          /\ supervisor' \in [Entry -> {"none", "watching", "ok", "failed"}]
          /\ drainer' \in [Entry -> {"none", "running", "ended"}]
      BY <1>2 DEF Running, Over
    <2>2. unseen' \in [Entry -> BOOLEAN] /\ unhealthy' \in [Entry -> BOOLEAN]
      BY <1>2
    <2>3. late' \in [Entry -> Nat]
      BY <1>2
    <2> QED
      BY <1>1, <2>1, <2>2, <2>3 DEF LifecycleInv, TypeOK
  <1>4. Steady
    BY <1>1, <1>2 DEF Steady, Over
  <1>5. TaskInv'
    BY <1>2 DEF LifecycleInv, TaskInv, Over
  <1>6. LateInv'
    BY <1>1, <1>2 DEF LifecycleInv, LateInv, Over
  <1> QED
    BY <1>1, <1>3, <1>4, <1>5, <1>6, SteadyKeeps DEF LifecycleInv

\* Every step of the main task, a worker or a task beside it preserves the
\* invariant.
LEMMA LifecycleInvStep == LifecycleInv /\ [Next]_vars => LifecycleInv'
  <1> SUFFICES ASSUME LifecycleInv, [Next]_vars
               PROVE  LifecycleInv'
    OBVIOUS
  <1>1. CASE SpawnEntry
    BY <1>1, SpawnEntryKeeps
  <1>2. CASE Join
    BY <1>2, JoinKeeps
  <1>3. CASE \/ Boot \/ BootFails \/ BuildFails \/ SpawnDone
             \/ ShutdownRequested \/ ServeEnds \/ ServeFails \/ Return
    BY <1>3, MainKeeps
  <1>4. ASSUME NEW e \in Entry, Work(e) \/ Panic(e) \/ Supervise(e) \/ DrainEnds(e)
        PROVE  LifecycleInv'
    BY <1>4, TaskKeeps
  <1>5. CASE UNCHANGED vars
    <2>1. TypeOK'
      BY <1>5 DEF vars, LifecycleInv, TypeOK
    <2>2. PhaseInv' /\ TaskInv' /\ LateInv'
      BY <1>5 DEF vars, LifecycleInv, PhaseInv, TaskInv, LateInv
    <2>3. HandleInv'
      BY <1>5 DEF vars, LifecycleInv, HandleInv, Ended
    <2>4. ReportInv'
      BY <1>5 DEF vars, LifecycleInv, ReportInv, Failed
    <2> QED
      BY <2>1, <2>2, <2>3, <2>4 DEF LifecycleInv
  <1> QED
    BY <1>1, <1>2, <1>3, <1>4, <1>5 DEF Next, Main

\* When serve_inner returns every handle has been awaited, and a task that
\* was ever spawned has its handle in the list.
LEMMA AllAwaited == LifecycleInv => NobodyLeft
  <1> SUFFICES ASSUME LifecycleInv, main = "returned", NEW e \in Entry
               PROVE  /\ worker[e] \in Over \cup {"none"}
                      /\ supervisor[e] # "watching"
                      /\ drainer[e] # "running"
    BY DEF NobodyLeft
  <1>1. \A k \in 1 .. Len(handles) : Ended(handles[k])
    BY DEF LifecycleInv, PhaseInv, HandleInv
  <1>2. ASSUME worker[e] # "none"
        PROVE  supervisor[e] \in {"ok", "failed"}
    <2>1. PICK k \in 1 .. Len(handles) : handles[k] = <<"worker", e>>
      BY <1>2 DEF LifecycleInv, HandleInv
    <2> QED
      BY <1>1, <2>1 DEF Ended
  <1>3. ASSUME drainer[e] # "none"
        PROVE  drainer[e] = "ended"
    <2>1. PICK k \in 1 .. Len(handles) : handles[k] = <<"drain", e>>
      BY <1>3 DEF LifecycleInv, HandleInv
    <2> QED
      BY <1>1, <2>1 DEF Ended
  <1> QED
    BY <1>2, <1>3 DEF LifecycleInv, TaskInv, Over

\* The entries in `lost` are those whose worker panicked.
LEMMA LostArePanicked == LifecycleInv => PanicsAreReported
  <1> SUFFICES ASSUME LifecycleInv, main = "returned"
               PROVE  /\ result = "ok" => \A e \in Entry : worker[e] # "panicked"
                      /\ result = "panicked" => \E e \in Entry : worker[e] = "panicked"
                      /\ result # "none"
    BY DEF PanicsAreReported
  <1>1. ASSUME NEW e \in Entry, worker[e] = "panicked"
        PROVE  lost # {}
    <2>1. PICK k \in 1 .. Len(handles) : handles[k] = <<"worker", e>>
      BY <1>1 DEF LifecycleInv, HandleInv
    <2>2. k \in 1 .. joined /\ Ended(handles[k])
      BY <2>1 DEF LifecycleInv, PhaseInv, HandleInv
    <2>3. Failed(handles[k])
      BY <1>1, <2>1, <2>2 DEF Ended, Failed, LifecycleInv, TaskInv
    <2> QED
      BY <2>2, <2>3 DEF LifecycleInv, ReportInv
  <1>2. lost # {} => \E e \in Entry : worker[e] = "panicked"
    BY DEF LifecycleInv, TypeOK, ReportInv
  <1> QED
    BY <1>1, <1>2 DEF LifecycleInv, ReportInv, PhaseInv

\* The invariant holds in every state of the server process.
THEOREM LifecycleInvariant == Spec => []LifecycleInv
  <1> QED
    BY LifecycleInvInit, LifecycleInvStep, PTL DEF Spec

\* The variables of the server process keep their types.
THEOREM LifecycleTypeCorrect == Spec => []TypeOK
  <1>1. LifecycleInv => TypeOK
    BY DEF LifecycleInv
  <1> QED
    BY <1>1, LifecycleInvariant, PTL

\* serve_inner returns, on every path, with no worker, supervisor or drain
\* task left behind, whatever the number and kind of emitters.
THEOREM NobodyLeftHolds == Spec => []NobodyLeft
  <1> QED
    BY AllAwaited, LifecycleInvariant, PTL

\* serve_inner returns Ok only if no worker panicked.
THEOREM PanicsAreReportedHolds == Spec => []PanicsAreReported
  <1> QED
    BY LostArePanicked, LifecycleInvariant, PTL

\* A worker begins at most one batch after the shutdown signal.
THEOREM OneLateBatchHolds == Spec => []OneLateBatch
  <1>1. LifecycleInv => OneLateBatch
    BY DEF LifecycleInv, LateInv, OneLateBatch
  <1> QED
    BY <1>1, LifecycleInvariant, PTL
=============================================================================
