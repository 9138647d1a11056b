-------------------------------- MODULE Boot --------------------------------
(***************************************************************************)
(* From hookbox.toml to a server that verifies webhooks and schedules      *)
(* retries: `hookbox serve` (hookbox-cli/src/commands/serve.rs,            *)
(* hookbox-server/src/serve.rs) composed with the modules Config,          *)
(* Verifiers and Backoff.                                                  *)
(*                                                                         *)
(* The server has one provider.  It signs webhooks as time goes by; what   *)
(* arrives is put together from its signatures and from others, in any     *)
(* order, late, or with another body.                                      *)
(***************************************************************************)
EXTENDS Backoff, Config, Verifiers

CONSTANTS
  Files,      \* the files to start with
  Body,       \* bodies of webhooks
  MaxClock,   \* bound: the clock
  MaxSigned,  \* bound: webhooks the provider signs
  MaxItems,   \* bound: items in the headers of a request
  Draws       \* the random numbers, in hundredths

\* What the start looks at of hookbox.toml (see Config).
EmitterEntry ==
  [name : STRING, emitter_type : STRING, section : BOOLEAN, concurrency : Nat,
   poll_interval : Nat, lease : Nat \cup {NoLease}, retry : Policies]
EmitterConfig == [emitter_type : STRING, section : BOOLEAN]
ProviderConfig == [type : STRING, secret : {"ok", "empty", "malformed"}, tolerance : Nat]
HookboxConfig ==
  [entries : Seq(EmitterEntry), legacy : SUBSET EmitterConfig,
   interval : Nat, max_attempts : Int, provider : SUBSET ProviderConfig]

ASSUME BootAssumption ==
  /\ NotANumber = NaN
  /\ MaxClock \in Nat /\ MaxSigned \in Nat /\ MaxItems \in Nat
  /\ Draws \subseteq 0..100
  /\ Files \subseteq HookboxConfig
  /\ \A f \in Files : /\ \A p, q \in f.provider : p = q
                      /\ \A p, q \in f.legacy : p = q

VARIABLES
  phase,     \* of the start
  file,      \* the file, until it is normalised
  entries,   \* the normalised emitters
  names,     \* pipeline.emitter_names
  verifier,  \* pipeline.verifiers, at most one
  workers,   \* the entries whose workers have been spawned, in order
  clock,     \* in the unit of the tolerances
  signed,    \* history: what the provider has signed
  wire,      \* the headers and the body of the request that arrives
  verdict,   \* on the last request
  due        \* when the worker is to retry a delivery

bootVars == <<phase, file, entries, names, verifier, workers>>
serveVars == <<clock, signed, wire, verdict, due>>
vars == <<bootVars, serveVars>>

NoFile == [entries |-> <<>>, legacy |-> {}, interval |-> 0, max_attempts |-> 0, provider |-> {}]
NoRequest == [items |-> <<>>, body |-> "none", readable |-> FALSE]
NoVerdict == [status |-> "none", authentic |-> FALSE, honest |-> FALSE]
NotDue == [worker |-> 0, attempt |-> 0, delay |-> 0, panics |-> FALSE]

Init ==
  /\ phase = "file"
  /\ file \in Files
  /\ entries = <<>>
  /\ names = {}
  /\ verifier = {}
  /\ workers = <<>>
  /\ clock = 0
  /\ signed = {}
  /\ wire = NoRequest
  /\ verdict = NoVerdict
  /\ due = NotDue

-----------------------------------------------------------------------------
Fail == phase' = "failed" /\ UNCHANGED <<entries, names, verifier, workers>>

\* parse_and_normalize: also all that `hookbox config validate` does.
ParseAndNormalize ==
  /\ phase = "file"
  /\ IF NormalizeOk(file)
     THEN phase' = "retry" /\ entries' = Normalize(file) /\ UNCHANGED <<names, verifier, workers>>
     ELSE Fail
  /\ UNCHANGED <<file, serveVars>>

\* serve_inner: the retry section, then the database and its migrations.
CheckAndConnect ==
  /\ phase = "retry"
  /\ \/ ValidateRetryConfig(file) /\ phase' = "pipeline" /\ UNCHANGED <<entries, names, verifier, workers>>
     \/ Fail
  /\ UNCHANGED <<file, serveVars>>

\* build_pipeline; the file is not looked at again.
BuildPipeline ==
  /\ phase = "pipeline"
  /\ IF \A provider \in file.provider : BuildOk(provider)
     THEN /\ phase' = "workers"
          /\ names' = {entries[i].name : i \in DOMAIN entries}
          /\ verifier' = {BuildOneVerifier(provider) : provider \in file.provider}
          /\ UNCHANGED <<entries, workers>>
     ELSE Fail
  /\ file' = NoFile
  /\ UNCHANGED serveVars

\* spawn_emitter_workers, entry by entry; build_emitter may fail.
SpawnWorker ==
  /\ phase = "workers"
  /\ Len(workers) < Len(entries)
  /\ \/ workers' = Append(workers, entries[Len(workers) + 1]) /\ UNCHANGED <<phase, entries, names, verifier>>
     \/ Fail
  /\ UNCHANGED <<file, serveVars>>

\* The router is mounted.
Listen ==
  /\ phase = "workers"
  /\ Len(workers) = Len(entries)
  /\ phase' = "serving"
  /\ UNCHANGED <<file, entries, names, verifier, workers, serveVars>>

-----------------------------------------------------------------------------
Tick ==
  /\ phase = "serving"
  /\ clock < MaxClock
  /\ clock' = clock + 1
  /\ UNCHANGED <<bootVars, signed, wire, verdict, due>>

\* The provider signs a webhook, with the time of its own clock if its scheme has one.
Sign(body, ts) ==
  /\ phase = "serving"
  /\ Cardinality(signed) < MaxSigned
  /\ \E v \in verifier :
       /\ v.type \notin TimedTypes => ts = 0
       /\ signed' = signed \cup {Signature("own", ts, body)}
  /\ UNCHANGED <<bootVars, clock, wire, verdict, due>>

\* A request takes shape, item by item, if there is a verifier to read it.
Items ==
  [tag : {"t"}, at : 0..MaxClock \cup {Garbled}]
    \cup [tag : {"v1"}, sig : signed \cup {Signature("other", 0, body) : body \in Body}]
    \cup [tag : {"v0"}]
AddItem(item) ==
  /\ phase = "serving"
  /\ verifier # {}
  /\ Len(wire.items) < MaxItems
  /\ wire' = [wire EXCEPT !.items = Append(@, item)]
  /\ verdict' = NoVerdict
  /\ UNCHANGED <<bootVars, clock, signed, due>>

\* What the verdict is meant to be, from what the provider has signed.
Fresh(v, s) == v.type \in TimedTypes => clock \in (s.ts - v.tolerance)..(s.ts + v.tolerance)
Authentic(v, request) == \E s \in signed : s.body = request.body /\ Fresh(v, s)

\* A request as the provider sends it, during a rotation of its secret too; only
\* what Stripe sends has to be text.
AsSent(v, s) ==
  LET own == [tag |-> "v1", sig |-> s]
      other == [tag |-> "v1", sig |-> Signature("other", 0, s.body)]
      time == [tag |-> "t", at |-> s.ts]
  IN
  IF v.type \in TimedTypes THEN {<<time, own>>, <<time, other, own>>, <<time, own, other>>}
  ELSE {<<own>>}
Honest(v, request) ==
  \E s \in signed :
    /\ s.body = request.body /\ Fresh(v, s)
    /\ v.type = "stripe" => s.body \notin NonUtf8
    /\ request.items \in AsSent(v, s)

\* ingest, stage 2: no verifier, no verdict.
Deliver(body, readable) ==
  LET request == [items |-> wire.items, body |-> body, readable |-> readable] IN
  /\ phase = "serving"
  /\ wire' = NoRequest
  /\ verdict' = IF verifier = {} THEN [NoVerdict EXCEPT !.status = "skipped"]
                ELSE LET v == CHOOSE v \in verifier : TRUE IN
                     [status |-> IF Verify(v, request, clock) THEN "verified" ELSE "failed",
                      authentic |-> Authentic(v, request),
                      honest |-> Honest(v, request) /\ readable]
  /\ UNCHANGED <<bootVars, clock, signed, due>>

\* dispatch_one: the attempt-th failure of a delivery, not the last one.
Schedule(i, attempt, draw) ==
  LET policy == workers[i].retry
      backoff == ComputeBackoff(attempt, policy, draw)
  IN
  /\ phase = "serving"
  /\ attempt < policy.max_attempts
  /\ due' = [worker |-> i, attempt |-> attempt, delay |-> backoff, panics |-> Panics(backoff)]
  /\ UNCHANGED <<bootVars, clock, signed, wire, verdict>>

Next ==
  \/ ParseAndNormalize \/ CheckAndConnect \/ BuildPipeline \/ SpawnWorker \/ Listen
  \/ Tick
  \/ \E body \in Body : \/ \E ts \in 0..MaxClock : Sign(body, ts)
                        \/ \E readable \in BOOLEAN : Deliver(body, readable)
  \/ \E item \in Items : AddItem(item)
  \/ \E i \in DOMAIN workers, draw \in Draws :
       \E attempt \in 1..workers[i].retry.max_attempts : Schedule(i, attempt, draw)

Spec == Init /\ [][Next]_vars

-----------------------------------------------------------------------------
(***************************************************************************)
(* A server that listens drains what it fans out: every name the pipeline  *)
(* makes rows for has one worker and no more (two would share claims, see  *)
(* Exclusive of DeliveryQueue), and that worker claims rows, sleeps        *)
(* between polls, and gives a row at least one attempt.                    *)
(***************************************************************************)
FanOutIsDrained ==
  phase = "serving" =>
    /\ names # {}
    /\ names = {workers[i].name : i \in DOMAIN workers}
    /\ \A i, j \in DOMAIN workers : workers[i].name = workers[j].name => i = j
    /\ \A i \in DOMAIN workers :
         /\ workers[i].concurrency > 0 /\ workers[i].poll_interval > 0
         /\ workers[i].lease # 0 /\ workers[i].retry.max_attempts > 0

(***************************************************************************)
(* The verdict of every scheme: what is verified was signed by the         *)
(* provider with this body and, where a time is signed, within the         *)
(* tolerance of the clock; and what the provider sends is verified, also   *)
(* while it sends signatures of two secrets.                               *)
(***************************************************************************)
VerdictIsRight ==
  /\ verdict.status = "verified" => verdict.authentic
  /\ verdict.honest => verdict.status = "verified"

(***************************************************************************)
(* Whatever policy passes the validation, with a multiplier that is        *)
(* negative or infinite or a jitter of nan: a worker schedules a retry     *)
(* within the maximum of its own policy, and computes the date without a   *)
(* panic unless that maximum is beyond the range of dates.                 *)
(***************************************************************************)
BackoffIsSound ==
  phase = "serving" /\ due # NotDue =>
    LET policy == workers[due.worker].retry IN
    /\ due.delay \in 0..policy.max_backoff
    /\ due.panics => policy.max_backoff > DateRange
=============================================================================
