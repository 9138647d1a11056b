----------------------------- MODULE BootProofs -----------------------------
(***************************************************************************)
(* The invariants of Boot, for every file, whatever its entries and its    *)
(* provider, whichever of the steps of the start fail, and every request.  *)
(*                                                                         *)
(* The validation makes the normalised entries sound and their names       *)
(* distinct; from then on the start only copies them, the names to the     *)
(* pipeline and the entries, one by one, to the workers.  That both are    *)
(* read from the same entries is the invariant.                            *)
(***************************************************************************)
EXTENDS Boot, BackoffProofs, TLAPS, SequenceTheorems

\* A worker of the entry claims rows, sleeps between polls and gives a row an
\* attempt, and its policy has been validated.
SoundEntry(e) ==
  /\ e.concurrency > 0 /\ e.poll_interval > 0 /\ e.lease # 0 /\ e.retry.max_attempts > 0
  /\ e.retry \in ValidPolicies

SoundEntries(es) ==
  /\ Len(es) \in Nat \ {0} /\ DOMAIN es = 1..Len(es)
  /\ \A i \in 1..Len(es) : SoundEntry(es[i])
  /\ \A i, j \in 1..Len(es) : es[i].name = es[j].name => i = j

BootInv ==
  /\ phase \in {"file", "retry", "pipeline"} => file \in Files
  /\ phase \in {"file", "retry", "pipeline"} => workers = <<>>
  /\ phase \in {"retry", "pipeline", "workers", "serving"} => SoundEntries(entries)
  /\ phase \in {"workers", "serving"} =>
       /\ names = {entries[i].name : i \in 1..Len(entries)}
       /\ Len(workers) \in 0..Len(entries) /\ DOMAIN workers = 1..Len(workers)
       /\ \A i \in 1..Len(workers) : workers[i] = entries[i]
  /\ phase = "serving" => Len(workers) = Len(entries)

-----------------------------------------------------------------------------
\* What validate_emitter_entries lets through.
LEMMA ValidatedEntries ==
  ASSUME NEW es, Len(es) \in Nat \ {0}, DOMAIN es = 1..Len(es), ValidateEmitterEntries(es),
         \A i \in 1..Len(es) : /\ es[i].concurrency \in Nat /\ es[i].poll_interval \in Nat
                               /\ es[i].retry \in Policies
  PROVE  SoundEntries(es)
<1>1. ASSUME NEW i \in 1..Len(es)
      PROVE  SoundEntry(es[i])
  <2>1. /\ es[i].concurrency \in Nat \ {0} /\ es[i].poll_interval \in Nat \ {0}
        /\ es[i].lease # 0 /\ es[i].retry \in Policies /\ es[i].retry.max_attempts >= 1
    BY <1>1 DEF ValidateEmitterEntries
  <2>2. es[i].retry.jitter # NaN => es[i].retry.jitter >= 0 /\ es[i].retry.jitter <= 100
    BY <1>1, BootAssumption DEF ValidateEmitterEntries
  <2>. DEFINE r == es[i].retry
  <2>3. r.max_attempts \in Int /\ r.jitter \in Int \cup {NaN}
    BY <2>1 DEF Policies
  <2>4. r.jitter # NaN => r.jitter \in 0..100
    <3>1. \A x \in Int : x >= 0 /\ x <= 100 => x \in 0..100
      OBVIOUS
    <3>. QED BY <2>2, <2>3, <3>1, Zenon
  <2>5. r \in ValidPolicies
    BY <2>1, <2>4 DEF ValidPolicies
  <2>. QED BY <2>1, <2>3, <2>5 DEF SoundEntry
<1>2. ASSUME NEW i \in 1..Len(es), NEW j \in 1..Len(es), i < j
      PROVE  es[i].name # es[j].name
  <2>1. i \in 1..(j - 1)
    BY <1>2
  <2>. QED BY <2>1 DEF ValidateEmitterEntries
<1>3. ASSUME NEW i \in 1..Len(es), NEW j \in 1..Len(es), es[i].name = es[j].name
      PROVE  i = j
  BY <1>2, <1>3
<1>. QED
  BY <1>1, <1>3 DEF SoundEntries

\* What normalize returns, from either section.
LEMMA NormalizedEntries ==
  ASSUME NEW f \in Files, NormalizeOk(f)
  PROVE  SoundEntries(Normalize(f))
<1>0. ValidateEmitterEntries(Normalize(f)) /\ (f.legacy = {}) # (f.entries = <<>>)
  BY DEF NormalizeOk
<1>1. CASE f.legacy = {}
  <2>. DEFINE es == f.entries
  <2>1. Normalize(f) = es /\ es # <<>>
    BY <1>0, <1>1 DEF Normalize
  <2>2. es \in Seq(EmitterEntry)
    BY BootAssumption DEF HookboxConfig
  <2>3. Len(es) \in Nat \ {0} /\ DOMAIN es = 1..Len(es)
    BY <2>1, <2>2, EmptySeq, LenProperties
  <2>4. \A i \in 1..Len(es) : /\ es[i].concurrency \in Nat /\ es[i].poll_interval \in Nat
                              /\ es[i].retry \in Policies
    <3>1. ASSUME NEW i \in 1..Len(es)
          PROVE  es[i] \in EmitterEntry
      <4>. HIDE DEF es
      <4>. QED BY <2>2, <3>1, ElementOfSeq
    <3>2. \A x \in EmitterEntry :
            x.concurrency \in Nat /\ x.poll_interval \in Nat /\ x.retry \in Policies
      BY DEF EmitterEntry
    <3>. HIDE DEF es
    <3>. QED BY <3>1, <3>2
  <2>. QED BY <1>0, <2>1, <2>3, <2>4, ValidatedEntries
<1>2. CASE f.legacy # {}
  <2>. DEFINE e == FromLegacy(CHOOSE legacy \in f.legacy : TRUE, f)
              es == <<e>>
  <2>1. Normalize(f) = es
    BY <1>2 DEF Normalize
  <2>2. Len(es) = 1 /\ DOMAIN es = 1..1 /\ es[1] = e
    OBVIOUS
  <2>3. f.interval \in Nat /\ f.max_attempts \in Int
    BY BootAssumption DEF HookboxConfig
  <2>4. /\ e.concurrency = 1 /\ e.poll_interval = f.interval
        /\ e.retry = [DefaultRetry EXCEPT !.max_attempts = f.max_attempts]
    BY DEF FromLegacy
  <2>5. [DefaultRetry EXCEPT !.max_attempts = f.max_attempts] \in Policies
    BY <2>3 DEF DefaultRetry, Policies
  <2>. HIDE DEF e
  <2>6. Len(es) \in Nat \ {0} /\ DOMAIN es = 1..Len(es)
    BY <2>2
  <2>7. ValidateEmitterEntries(es)
    BY <1>0, <2>1
  <2>8. \A i \in 1..Len(es) : /\ es[i].concurrency \in Nat /\ es[i].poll_interval \in Nat
                              /\ es[i].retry \in Policies
    BY <2>2, <2>3, <2>4, <2>5
  <2>. HIDE DEF es
  <2>9. SoundEntries(es)
    BY <2>6, <2>7, <2>8, ValidatedEntries
  <2>. QED BY <2>1, <2>9
<1>. QED
  BY <1>1, <1>2

-----------------------------------------------------------------------------
\* Each step of the start copies from the validated entries or fails; no step
\* after it touches them.
LEMMA BootInductive ==
  ASSUME BootInv, [Next]_vars
  PROVE  BootInv'
<1>1. CASE ParseAndNormalize
  <2>1. CASE NormalizeOk(file)
    <3>1. SoundEntries(Normalize(file))
      BY <1>1, <2>1, NormalizedEntries DEF BootInv, ParseAndNormalize
    <3>. QED BY <1>1, <2>1, <3>1 DEF BootInv, ParseAndNormalize
  <2>2. CASE ~NormalizeOk(file)
    BY <1>1, <2>2 DEF BootInv, ParseAndNormalize, Fail
  <2>. QED BY <2>1, <2>2
<1>2. CASE CheckAndConnect
  BY <1>2 DEF BootInv, CheckAndConnect, Fail
<1>3. CASE BuildPipeline
  <2>1. CASE phase' = "failed"
    BY <2>1 DEF BootInv
  <2>2. CASE phase' # "failed"
    <3>1. /\ phase = "pipeline" /\ phase' = "workers" /\ UNCHANGED <<entries, workers>>
          /\ names' = {entries[i].name : i \in DOMAIN entries}
      BY <1>3, <2>2 DEF BuildPipeline, Fail
    <3>2. workers = <<>> /\ SoundEntries(entries)
      BY <3>1 DEF BootInv
    <3>3. Len(workers) = 0 /\ DOMAIN workers = 1..0 /\ Len(workers) \in 0..Len(entries)
      BY <3>2 DEF SoundEntries
    <3>4. names' = {entries[i].name : i \in 1..Len(entries)}
      BY <3>1, <3>2 DEF SoundEntries
    <3>. QED BY <3>1, <3>2, <3>3, <3>4 DEF BootInv
  <2>. QED BY <2>1, <2>2
<1>4. CASE SpawnWorker
  <2>1. CASE phase' = "failed"
    BY <2>1 DEF BootInv
  <2>2. CASE phase' # "failed"
    <3>. DEFINE n == Len(workers)
    <3>1. /\ phase = "workers" /\ n < Len(entries) /\ workers' = Append(workers, entries[n + 1])
          /\ UNCHANGED <<phase, entries, names>>
      BY <1>4, <2>2 DEF SpawnWorker, Fail
    <3>2. /\ n \in 0..Len(entries) /\ DOMAIN workers = 1..n /\ SoundEntries(entries)
          /\ names = {entries[i].name : i \in 1..Len(entries)}
          /\ \A i \in 1..n : workers[i] = entries[i]
      BY <3>1 DEF BootInv
    <3>3. /\ Len(workers') = n + 1 /\ DOMAIN workers' = 1..(n + 1)
          /\ workers'[n + 1] = entries[n + 1] /\ \A i \in 1..n : workers'[i] = workers[i]
      BY <3>1, <3>2
    <3>4. n \in Nat /\ Len(entries) \in Nat /\ n + 1 \in 0..Len(entries)
      BY <3>1, <3>2 DEF SoundEntries
    <3>5. \A i \in 1..(n + 1) : workers'[i] = entries[i]
      BY <3>2, <3>3, <3>4
    <3>. QED BY <3>1, <3>2, <3>3, <3>4, <3>5 DEF BootInv
  <2>. QED BY <2>1, <2>2
<1>5. CASE Listen
  BY <1>5 DEF BootInv, Listen
<1>6. CASE UNCHANGED bootVars
  BY <1>6 DEF BootInv, bootVars
<1>. QED
  BY <1>1, <1>2, <1>3, <1>4, <1>5, <1>6
  DEF Next, Tick, Sign, Deliver, AddItem, Schedule, vars

(***************************************************************************)
(* Whatever file a server starts from: if it listens, every name it fans   *)
(* out to has exactly one worker, and a sound one.                         *)
(***************************************************************************)
THEOREM FanOutIsDrainedHolds == Spec => []FanOutIsDrained
<1>1. Init => BootInv
  BY DEF Init, BootInv
<1>2. BootInv => FanOutIsDrained
  <2>. SUFFICES ASSUME BootInv, phase = "serving"
                PROVE  FanOutIsDrained
    BY DEF FanOutIsDrained
  <2>1. /\ SoundEntries(entries) /\ names = {entries[i].name : i \in 1..Len(entries)}
        /\ Len(workers) = Len(entries) /\ DOMAIN workers = 1..Len(entries)
        /\ \A i \in 1..Len(entries) : workers[i] = entries[i]
    BY DEF BootInv
  <2>2. names # {}
    <3>1. 1 \in 1..Len(entries)
      BY <2>1 DEF SoundEntries
    <3>. QED BY <2>1, <3>1
  <2>3. names = {workers[i].name : i \in DOMAIN workers}
    BY <2>1
  <2>4. \A i, j \in DOMAIN workers : workers[i].name = workers[j].name => i = j
    BY <2>1 DEF SoundEntries
  <2>5. \A i \in DOMAIN workers : SoundEntry(workers[i])
    BY <2>1 DEF SoundEntries
  <2>. QED BY <2>2, <2>3, <2>4, <2>5 DEF FanOutIsDrained, SoundEntry
<1>. QED
  BY <1>1, <1>2, BootInductive, PTL DEF Spec

-----------------------------------------------------------------------------
\* Nothing is scheduled before the server listens, and then nothing unsound.
DueInv == (phase # "serving" => due = NotDue) /\ BackoffIsSound

\* A date is computed from the policy of a worker, and the workers stay.
LEMMA DueInductive ==
  ASSUME BootInv, DueInv, [Next]_vars
  PROVE  DueInv'
<1>1. CASE \E i \in DOMAIN workers, draw \in Draws :
             \E attempt \in 1..workers[i].retry.max_attempts : Schedule(i, attempt, draw)
  <2>1. PICK i \in DOMAIN workers, draw \in Draws :
               \E attempt \in 1..workers[i].retry.max_attempts : Schedule(i, attempt, draw)
    BY <1>1
  <2>2. PICK attempt \in 1..workers[i].retry.max_attempts : Schedule(i, attempt, draw)
    BY <2>1
  <2>. DEFINE policy == workers[i].retry
              backoff == ComputeBackoff(attempt, policy, draw)
  <2>3. /\ phase = "serving" /\ phase' = phase /\ workers' = workers
        /\ due' = [worker |-> i, attempt |-> attempt, delay |-> backoff, panics |-> Panics(backoff)]
    BY <2>2 DEF Schedule, bootVars
  <2>4. policy \in ValidPolicies
    BY <2>1, <2>3 DEF BootInv, SoundEntries, SoundEntry
  <2>5. policy.max_backoff \in Nat /\ policy.max_attempts \in Int
    BY <2>4 DEF ValidPolicies, Policies
  <2>6. attempt \in Nat \ {0} /\ draw \in 0..100
    BY <2>1, <2>2, <2>5, BootAssumption
  <2>7. backoff \in 0..policy.max_backoff
    BY <2>4, <2>6, ComputeBackoffBounded
  <2>8. Panics(backoff) => policy.max_backoff > DateRange
    <3>. HIDE DEF backoff
    <3>. QED BY <2>5, <2>7, OnlyFarDatesPanic, BackoffAssumption
  <2>. HIDE DEF backoff
  <2>9. due'.worker = i /\ due'.delay = backoff /\ due'.panics = Panics(backoff)
    BY <2>3
  <2>. QED BY <2>1, <2>3, <2>7, <2>8, <2>9 DEF DueInv, BackoffIsSound
<1>2. CASE due' = due /\ (phase = "serving" => UNCHANGED <<phase, workers>>)
           /\ (phase # "serving" => due = NotDue)
  BY <1>2 DEF DueInv, BackoffIsSound
<1>3. [Next]_vars => \/ due' = due /\ (phase = "serving" => UNCHANGED <<phase, workers>>)
                     \/ \E i \in DOMAIN workers, draw \in Draws :
                          \E attempt \in 1..workers[i].retry.max_attempts :
                            Schedule(i, attempt, draw)
  BY DEF Next, ParseAndNormalize, CheckAndConnect, BuildPipeline, SpawnWorker, Listen, Tick,
         Sign, Deliver, AddItem, bootVars, serveVars, vars
<1>. QED
  BY <1>1, <1>2, <1>3 DEF DueInv

(***************************************************************************)
(* Whatever policies a file has: a server that listens schedules every     *)
(* retry within the maximum of its worker's policy, and computes the date  *)
(* without a panic unless that maximum is beyond the range of dates.       *)
(***************************************************************************)
THEOREM BackoffIsSoundHolds == Spec => []BackoffIsSound
<1>1. Init => BootInv /\ DueInv
  BY DEF Init, BootInv, DueInv, BackoffIsSound
<1>2. BootInv /\ DueInv /\ [Next]_vars => (BootInv /\ DueInv)'
  BY BootInductive, DueInductive
<1>3. DueInv => BackoffIsSound
  BY DEF DueInv
<1>. QED
  BY <1>1, <1>2, <1>3, PTL DEF Spec

-----------------------------------------------------------------------------
\* The one verifier has the provider's key, a scheme that is known and a tolerance.
SoundVerifier(v) == v.type \in KnownTypes /\ v.key = "own" /\ v.tolerance \in Nat

\* A signature of the provider; its time is 0 in the schemes without one.
SoundSignature(s) ==
  /\ s.ts \in Nat /\ s = Signature("own", s.ts, s.body)
  /\ \A v \in verifier : v.type \notin TimedTypes => s.ts = 0

\* What is in the headers: no signature with the provider's key but its own.
WireInv ==
  /\ phase \in {"workers", "serving"} =>
       /\ \A v \in verifier : SoundVerifier(v)
       /\ \A v, w \in verifier : v = w
  /\ phase # "serving" => signed = {} /\ wire = NoRequest
  /\ phase = "serving" => clock \in Nat /\ \A s \in signed : SoundSignature(s)
  /\ phase # "serving" => clock = 0
  /\ "items" \in DOMAIN wire
  /\ Len(wire.items) \in Nat /\ DOMAIN wire.items = 1..Len(wire.items)
  /\ \A i \in 1..Len(wire.items) :
       wire.items[i].tag = "v1" => wire.items[i].sig \in signed \/ wire.items[i].sig.key = "other"

\* Nothing puts the provider's key on another signature.
LEMMA WireInductive ==
  ASSUME BootInv, WireInv, [Next]_vars
  PROVE  WireInv'
<1>0. ASSUME wire' = wire, signed \subseteq signed'
      PROVE  /\ "items" \in DOMAIN wire'
             /\ Len(wire'.items) \in Nat /\ DOMAIN wire'.items = 1..Len(wire'.items)
             /\ \A i \in 1..Len(wire'.items) :
                  wire'.items[i].tag = "v1" => \/ wire'.items[i].sig \in signed'
                                              \/ wire'.items[i].sig.key = "other"
  BY <1>0 DEF WireInv
<1>1. CASE BuildPipeline
  <2>1. /\ phase = "pipeline" /\ phase' \in {"workers", "failed"} /\ UNCHANGED <<clock, signed, wire>>
        /\ phase' = "workers" => verifier' = {BuildOneVerifier(p) : p \in file.provider}
    BY <1>1 DEF BuildPipeline, Fail, serveVars
  <2>2. file \in Files
    BY <2>1 DEF BootInv
  <2>3. \A p, q \in file.provider : p.tolerance \in Nat /\ p = q
    <3>1. file.provider \subseteq ProviderConfig
      BY <2>2, BootAssumption DEF HookboxConfig
    <3>2. \A p, q \in file.provider : p = q
      BY <2>2, BootAssumption
    <3>. QED BY <3>1, <3>2 DEF ProviderConfig
  <2>4. ASSUME NEW p \in file.provider
        PROVE  SoundVerifier(BuildOneVerifier(p))
    BY <2>3 DEF SoundVerifier, BuildOneVerifier, KnownTypes
  <2>5. phase' = "workers" => /\ \A v \in verifier' : SoundVerifier(v)
                             /\ \A v, w \in verifier' : v = w
    BY <2>1, <2>3, <2>4
  <2>6. phase' # "serving" /\ signed' = {} /\ wire' = NoRequest /\ clock' = 0
    BY <2>1 DEF WireInv
  <2>. QED BY <1>0, <2>1, <2>5, <2>6 DEF WireInv, SoundSignature
<1>2. CASE ParseAndNormalize \/ CheckAndConnect \/ SpawnWorker \/ Listen
  <2>1. UNCHANGED <<verifier, clock, signed, wire>> /\ phase # "serving"
    BY <1>2 DEF ParseAndNormalize, CheckAndConnect, SpawnWorker, Listen, Fail, serveVars
  <2>2. phase' \in {"workers", "serving"} => phase = "workers"
    BY <1>2 DEF ParseAndNormalize, CheckAndConnect, SpawnWorker, Listen, Fail
  <2>3. signed = {} /\ wire = NoRequest /\ clock = 0
    BY <2>1 DEF WireInv
  <2>. QED BY <1>0, <2>1, <2>2, <2>3 DEF WireInv, SoundSignature
<1>3. CASE Tick
  <2>1. UNCHANGED <<phase, verifier, signed, wire>> /\ phase = "serving" /\ clock' = clock + 1
    BY <1>3 DEF Tick, bootVars
  <2>2. clock' \in Nat
    BY <2>1 DEF WireInv
  <2>. QED BY <1>0, <2>1, <2>2 DEF WireInv, SoundSignature
<1>4. ASSUME NEW body \in Body, NEW ts \in 0..MaxClock, Sign(body, ts)
      PROVE  WireInv'
  <2>1. PICK v \in verifier : /\ v.type \notin TimedTypes => ts = 0
                              /\ signed' = signed \cup {Signature("own", ts, body)}
    BY <1>4 DEF Sign
  <2>2. UNCHANGED <<phase, verifier, clock, wire>> /\ phase = "serving"
    BY <1>4 DEF Sign, bootVars
  <2>3. \A w \in verifier : w = v
    BY <2>2 DEF WireInv
  <2>. DEFINE s == Signature("own", ts, body)
  <2>4. s.ts = ts /\ s.body = body /\ ts \in Nat
    BY BootAssumption DEF Signature
  <2>5. SoundSignature(s)
    <3>. HIDE DEF s
    <3>1. s = Signature("own", s.ts, s.body)
      BY <2>4 DEF s
    <3>. QED BY <2>1, <2>3, <2>4, <3>1 DEF SoundSignature
  <2>. HIDE DEF s
  <2>6. signed' = signed \cup {s} /\ signed \subseteq signed'
    BY <2>1 DEF s
  <2>7. \A x \in signed' : SoundSignature(x)
    BY <2>2, <2>5, <2>6 DEF WireInv
  <2>8. \A x \in signed' : SoundSignature(x)'
    BY <2>2, <2>7 DEF SoundSignature
  <2>. QED BY <1>0, <2>2, <2>6, <2>8 DEF WireInv
<1>5. ASSUME NEW body \in Body, NEW readable \in BOOLEAN, Deliver(body, readable)
      PROVE  WireInv'
  <2>1. UNCHANGED <<phase, verifier, clock, signed>> /\ phase = "serving" /\ wire' = NoRequest
    BY <1>5 DEF Deliver, bootVars
  <2>2. NoRequest.items = <<>> /\ "items" \in DOMAIN NoRequest
    BY DEF NoRequest
  <2>3. Len(wire'.items) = 0 /\ DOMAIN wire'.items = 1..0
    BY <2>1, <2>2
  <2>. QED BY <2>1, <2>2, <2>3 DEF WireInv, SoundSignature
<1>6. ASSUME NEW item \in Items, AddItem(item)
      PROVE  WireInv'
  <2>. DEFINE items == wire.items
              n == Len(items)
  <2>1. /\ UNCHANGED <<phase, verifier, clock, signed>> /\ phase = "serving"
        /\ wire' = [wire EXCEPT !.items = Append(items, item)]
    BY <1>6 DEF AddItem, bootVars
  <2>2. item.tag = "v1" => item.sig \in signed \/ item.sig.key = "other"
    BY DEF Items, Signature
  <2>3. n \in Nat /\ DOMAIN items = 1..n
    BY DEF WireInv
  <2>4. \A i \in 1..n : items[i].tag = "v1" => items[i].sig \in signed \/ items[i].sig.key = "other"
    BY DEF WireInv
  <2>5. wire'.items = Append(items, item) /\ "items" \in DOMAIN wire'
    BY <2>1 DEF WireInv
  <2>6. /\ Len(wire'.items) = n + 1 /\ DOMAIN wire'.items = 1..(n + 1)
        /\ wire'.items[n + 1] = item /\ \A i \in 1..n : wire'.items[i] = items[i]
    BY <2>3, <2>5
  <2>. HIDE DEF items, n
  <2>7. \A i \in 1..(n + 1) : wire'.items[i].tag = "v1" =>
                                 wire'.items[i].sig \in signed \/ wire'.items[i].sig.key = "other"
    <3>1. \A i \in 1..(n + 1) : i \in 1..n \/ i = n + 1
      BY <2>3
    <3>. QED BY <2>2, <2>4, <2>6, <3>1, Zenon
  <2>. QED BY <2>1, <2>3, <2>5, <2>6, <2>7 DEF WireInv, SoundSignature
<1>7. CASE UNCHANGED <<bootVars, clock, signed, wire>>
  BY <1>0, <1>7 DEF WireInv, SoundSignature, bootVars
<1>. QED
  BY <1>1, <1>2, <1>3, <1>4, <1>5, <1>6, <1>7 DEF Next, Schedule, vars, serveVars

-----------------------------------------------------------------------------
\* A provider's signature found in the headers is one that the provider made.
LEMMA OwnSignature ==
  ASSUME WireInv, phase = "serving", NEW v \in verifier, NEW ts, NEW body,
         Signature(v.key, ts, body) \in Signatures(wire.items)
  PROVE  \E s \in signed : s.ts = ts /\ s.body = body /\ SoundSignature(s)
<1>. DEFINE x == Signature(v.key, ts, body)
<1>1. PICK i \in DOMAIN wire.items : wire.items[i].tag = "v1" /\ wire.items[i].sig = x
  BY DEF Signatures
<1>2. v.key = "own"
  BY DEF WireInv, SoundVerifier
<1>3. x.key = "own" /\ x.ts = ts /\ x.body = body
  BY <1>2 DEF Signature
<1>. HIDE DEF x
<1>4. x \in signed
  BY <1>1, <1>3 DEF WireInv
<1>. QED BY <1>3, <1>4 DEF WireInv

\* What a verifier with a timestamp lets through is authentic.
LEMMA SignedInTimeIsAuthentic ==
  ASSUME WireInv, phase = "serving", NEW v \in verifier, NEW request, NEW ts,
         request.items = wire.items, SignedInTime(v, request, clock, ts)
  PROVE  Authentic(v, request)
<1>1. PICK s \in signed : s.ts = ts /\ s.body = request.body /\ SoundSignature(s)
  BY OwnSignature DEF SignedInTime
<1>2. /\ clock \in Nat /\ v.tolerance \in Nat /\ ts \in Nat
  BY <1>1 DEF WireInv, SoundVerifier, SoundSignature
<1>3. clock - ts <= v.tolerance /\ ts - clock <= v.tolerance
  BY DEF SignedInTime, Within
<1>4. clock \in (ts - v.tolerance)..(ts + v.tolerance)
  BY <1>2, <1>3
<1>. QED BY <1>1, <1>4 DEF Authentic, Fresh

\* And so is what one without a timestamp lets through.
LEMMA GenericHmacIsAuthentic ==
  ASSUME WireInv, phase = "serving", NEW v \in verifier, NEW request,
         v.type \notin TimedTypes, request.items = wire.items, VerifyGenericHmac(v, request)
  PROVE  Authentic(v, request)
<1>. DEFINE items == wire.items
<1>1. /\ items # <<>> /\ Head(items).tag = "v1"
      /\ Head(items).sig = Signature(v.key, 0, request.body)
  BY DEF VerifyGenericHmac
<1>2. Len(items) \in Nat /\ DOMAIN items = 1..Len(items)
  BY DEF WireInv
<1>3. Head(items) = items[1]
  OBVIOUS
<1>4. Len(items) # 0
  BY <1>1, <1>2
<1>5. 1 \in DOMAIN items
  BY <1>2, <1>4
<1>6. Signature(v.key, 0, request.body) \in Signatures(items)
  BY <1>1, <1>3, <1>5 DEF Signatures
<1>7. PICK s \in signed : s.body = request.body
  BY <1>6, OwnSignature
<1>. QED BY <1>7 DEF Authentic, Fresh

\* So whatever is verified, in any scheme, is authentic.
LEMMA VerifiedIsAuthentic ==
  ASSUME WireInv, phase = "serving", NEW v \in verifier, NEW request,
         request.items = wire.items, Verify(v, request, clock)
  PROVE  Authentic(v, request)
<1>1. v.type \in KnownTypes
  BY DEF WireInv, SoundVerifier
<1>2. CASE v.type \in TimedTypes
  <2>1. \E ts : SignedInTime(v, request, clock, ts)
    BY <1>2 DEF TimedTypes, Verify, VerifyStripe, VerifyTripleACrypto, VerifyWalapay
  <2>. QED BY <2>1, SignedInTimeIsAuthentic
<1>3. CASE v.type \notin TimedTypes
  <2>1. VerifyGenericHmac(v, request)
    BY <1>1, <1>3 DEF TimedTypes, KnownTypes, Verify, VerifyAdyen, VerifyBvnk, VerifyTripleAFiat
  <2>. QED BY <1>3, <2>1, GenericHmacIsAuthentic
<1>. QED BY <1>2, <1>3

\* What the provider sends is verified.
LEMMA HonestIsVerified ==
  ASSUME WireInv, phase = "serving", NEW v \in verifier, NEW request,
         request.readable, Honest(v, request)
  PROVE  Verify(v, request, clock)
<1>. DEFINE items == request.items
<1>1. PICK s \in signed : /\ s.body = request.body /\ Fresh(v, s)
                          /\ v.type = "stripe" => s.body \notin NonUtf8
                          /\ items \in AsSent(v, s)
  BY DEF Honest
<1>. DEFINE own == [tag |-> "v1", sig |-> s]
            other == [tag |-> "v1", sig |-> Signature("other", 0, s.body)]
            time == [tag |-> "t", at |-> s.ts]
<1>2. /\ v.type \in KnownTypes /\ v.key = "own" /\ v.tolerance \in Nat /\ clock \in Nat
      /\ s.ts \in Nat /\ s = Signature("own", s.ts, s.body)
      /\ v.type \notin TimedTypes => s.ts = 0
  BY <1>1 DEF WireInv, SoundVerifier, SoundSignature
<1>3. s = Signature(v.key, s.ts, request.body)
  BY <1>1, <1>2
<1>4. CASE v.type \in TimedTypes
  <2>1. items \in {<<time, own>>, <<time, other, own>>, <<time, own, other>>}
    BY <1>1, <1>4 DEF AsSent
  <2>2. Timestamps(items) = {1} /\ items[1].at = s.ts
    <3>1. CASE items = <<time, own>>
      BY <3>1 DEF Timestamps
    <3>2. CASE items = <<time, other, own>>
      BY <3>2 DEF Timestamps
    <3>3. CASE items = <<time, own, other>>
      BY <3>3 DEF Timestamps
    <3>. QED BY <2>1, <3>1, <3>2, <3>3
  <2>3. s \in Signatures(items)
    <3>1. \E i \in DOMAIN items : items[i] = own
      BY <2>1
    <3>2. own.tag = "v1" /\ own.sig = s
      OBVIOUS
    <3>. HIDE DEF own
    <3>. QED BY <3>1, <3>2 DEF Signatures
  <2>4. Within(clock, s.ts, v.tolerance)
    BY <1>1, <1>2, <1>4 DEF Fresh, Within
  <2>5. SignedInTime(v, request, clock, s.ts)
    BY <1>2, <1>3, <2>3, <2>4, VerifiersAssumption DEF SignedInTime
  <2>6. \E i \in Timestamps(items) :
          /\ \A j \in Timestamps(items) : j <= i /\ i <= j
          /\ SignedInTime(v, request, clock, items[i].at)
    BY <2>2, <2>5
  <2>7. v.type = "stripe" => request.body \notin NonUtf8
    BY <1>1
  <2>. HIDE DEF items
  <2>8. /\ v.type = "stripe" => VerifyStripe(v, request, clock)
        /\ VerifyTripleACrypto(v, request, clock) /\ VerifyWalapay(v, request, clock)
    BY <2>6, <2>7 DEF VerifyStripe, VerifyTripleACrypto, VerifyWalapay, items
  <2>. QED BY <1>4, <2>8 DEF Verify, TimedTypes
<1>5. CASE v.type \notin TimedTypes
  <2>1. items = <<own>>
    BY <1>1, <1>5 DEF AsSent
  <2>2. items # <<>> /\ Head(items) = own
    BY <2>1
  <2>3. own.tag = "v1" /\ own.sig = Signature(v.key, 0, request.body)
    BY <1>2, <1>3, <1>5
  <2>4. VerifyGenericHmac(v, request)
    BY <2>2, <2>3 DEF VerifyGenericHmac
  <2>. QED BY <1>2, <1>5, <2>4
           DEF Verify, KnownTypes, TimedTypes, VerifyAdyen, VerifyBvnk, VerifyTripleAFiat
<1>. QED BY <1>4, <1>5

\* A verdict is right when it is given, and kept.
LEMMA VerdictInductive ==
  ASSUME WireInv, VerdictIsRight, [Next]_vars
  PROVE  VerdictIsRight'
<1>0. ~NoVerdict.honest /\ NoVerdict.status = "none"
  BY DEF NoVerdict
<1>1. ASSUME NEW body \in Body, NEW readable \in BOOLEAN, Deliver(body, readable)
      PROVE  VerdictIsRight'
  <2>1. CASE verifier = {}
    <3>1. verdict' = [NoVerdict EXCEPT !.status = "skipped"]
      BY <1>1, <2>1 DEF Deliver
    <3>2. ~verdict'.honest /\ verdict'.status = "skipped"
      BY <3>1 DEF NoVerdict
    <3>. QED BY <3>2 DEF VerdictIsRight
  <2>2. CASE verifier # {}
    <3>. DEFINE request == [items |-> wire.items, body |-> body, readable |-> readable]
                v == CHOOSE x \in verifier : TRUE
    <3>1. v \in verifier
      BY <2>2
    <3>2. /\ phase = "serving"
          /\ verdict' = [status |-> IF Verify(v, request, clock) THEN "verified" ELSE "failed",
                         authentic |-> Authentic(v, request),
                         honest |-> Honest(v, request) /\ readable]
      BY <1>1, <2>2 DEF Deliver
    <3>3. request.items = wire.items /\ request.readable = readable
      OBVIOUS
    <3>. HIDE DEF v, request
    <3>4. Verify(v, request, clock) => Authentic(v, request)
      BY <3>1, <3>2, <3>3, VerifiedIsAuthentic
    <3>5. Honest(v, request) /\ readable => Verify(v, request, clock)
      BY <3>1, <3>2, <3>3, HonestIsVerified
    <3>6. /\ verdict'.status = (IF Verify(v, request, clock) THEN "verified" ELSE "failed")
          /\ verdict'.authentic = Authentic(v, request)
          /\ verdict'.honest = (Honest(v, request) /\ readable)
      BY <3>2
    <3>. QED BY <3>4, <3>5, <3>6 DEF VerdictIsRight
  <2>. QED BY <2>1, <2>2
<1>2. CASE verdict' \in {verdict, NoVerdict}
  BY <1>0, <1>2 DEF VerdictIsRight
<1>. QED
  BY <1>1, <1>2 DEF Next, ParseAndNormalize, CheckAndConnect, BuildPipeline, SpawnWorker, Listen,
                    Tick, Sign, AddItem, Schedule, serveVars, vars

(***************************************************************************)
(* Whatever arrives, in every scheme and at every time: what is verified   *)
(* was signed by the provider with this body and is fresh, and what the    *)
(* provider sends is verified.                                             *)
(***************************************************************************)
THEOREM VerdictIsRightHolds == Spec => []VerdictIsRight
<1>1. Init => BootInv /\ WireInv /\ VerdictIsRight
  <2>1. Init => BootInv
    BY DEF Init, BootInv
  <2>2. NoRequest.items = <<>> /\ "items" \in DOMAIN NoRequest
    BY DEF NoRequest
  <2>3. Init => WireInv
    BY <2>2 DEF Init, WireInv
  <2>4. Init => VerdictIsRight
    BY DEF Init, VerdictIsRight, NoVerdict
  <2>. QED BY <2>1, <2>3, <2>4
<1>2. BootInv /\ WireInv /\ VerdictIsRight /\ [Next]_vars => (BootInv /\ WireInv /\ VerdictIsRight)'
  BY BootInductive, WireInductive, VerdictInductive
<1>. QED
  BY <1>1, <1>2, PTL DEF Spec
=============================================================================
