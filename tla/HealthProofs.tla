---------------------------- MODULE HealthProofs ----------------------------
(***************************************************************************)
(* Theorems about Health and Adapters, for any events, kinds of adapter,   *)
(* capacity, threshold, probes and faults.                                 *)
(*                                                                         *)
(* Every step of the worker and of the world is one of the steps of an     *)
(* adapter (AdapterStep), so what is acknowledged and how often it was     *)
(* sent is settled without the worker.  The health part needs that the     *)
(* snapshot counts the failures of the current streak as long as the       *)
(* worker has not been reported dead (Snapshot).                           *)
(***************************************************************************)
EXTENDS Health, TLAPS, FiniteSetTheorems, SequenceTheorems

-----------------------------------------------------------------------------
\* A call is settled, forgotten or cut off; nothing else of the adapter changes but the faults.
CallSettles ==
  /\ call' \in [Event -> {"none", "sending", "landed", "ok", "err", "marked_ok", "marked_err"}]
  /\ \A e \in Event : call'[e] = call[e] \/ call'[e] \in {"none", "marked_ok", "marked_err"}
  /\ faults' \in 0..MaxFaults
  /\ UNCHANGED <<kind, calls, resent, broker, acked>>

AdapterStep ==
  \/ \E e \in Event : EmitCall(e) \/ Resend(e) \/ EmitStep(e) \/ Forget(e)
  \/ Flush
  \/ LoseBuffer
  \/ CallSettles

\* The steps of Health, seen from the adapter.
LEMMA AdapterView ==
  ASSUME AdaptersTypeOK, [HealthNext]_vars
  PROVE  AdapterStep
<1>. USE DEF AdaptersTypeOK
<1>1. CASE UNCHANGED adapterVars
  BY <1>1 DEF AdapterStep, CallSettles, adapterVars
<1>2. CASE ClaimError
  BY <1>2, AdaptersAssumption DEF ClaimError, AdapterStep, CallSettles
<1>3. ASSUME NEW e \in Event, Dispatch(e)
      PROVE  AdapterStep
  BY <1>3 DEF Dispatch, AdapterStep
<1>4. CASE Elsewhere
  BY <1>4 DEF Elsewhere, BrokerStep, AdapterStep, EmitStep
<1>5. ASSUME NEW e \in Event, Mark(e)
      PROVE  AdapterStep
  BY <1>5 DEF Mark, Returns, AdapterStep, CallSettles
<1>6. ASSUME NEW e \in Event, DispatchDone(e)
      PROVE  AdapterStep
  BY <1>6 DEF DispatchDone, Returns, AdapterStep, CallSettles
<1>7. CASE Panic
  BY <1>7, AdaptersAssumption DEF Panic, AdapterStep, CallSettles
<1>. QED
  BY <1>1, <1>2, <1>3, <1>4, <1>5, <1>6, <1>7
  DEF HealthNext, WorkerStep, ClaimBatch, RefreshGauges, WindowEnds, Supervise, Ping, Answer,
      ListEmitters, ProbeDone, vars

-----------------------------------------------------------------------------
\* A confirming adapter that waits has its request in the network.
InFlight ==
  \A e \in Event : kind \in Confirming /\ call[e] = "sending" => flying[e] > 0

\* What has arrived, or is remembered, is stored; only buffering adapters buffer.
Arrived ==
  /\ \A e \in Event : call[e] = "landed" \/ e \in remembered => copies[e] > 0
  /\ kind \notin Buffering => buffer = <<>>

AdapterInv == AdaptersTypeOK /\ InFlight /\ Arrived

\* An idle adapter with nothing in flight or in its buffer satisfies the
\* invariant.
LEMMA AdapterInitial == AdaptersInit => AdapterInv
BY AdaptersAssumption
DEF AdaptersInit, AdapterInv, AdaptersTypeOK, InFlight, Arrived

\* Where event e is in a buffer s.
Places(s, e) == {i \in 1..Len(s) : s[i] = e}

\* What appending to a buffer, and taking from it, does.
LEMMA AppendFacts ==
  ASSUME NEW s \in Seq(Event), NEW e \in Event
  PROVE  /\ DOMAIN s = 1..Len(s) /\ Len(s) \in Nat
         /\ Append(s, e) \in Seq(Event)
         /\ Len(Append(s, e)) = Len(s) + 1
         /\ DOMAIN Append(s, e) = 1..(Len(s) + 1)
         /\ \A i \in 1..Len(s) : Append(s, e)[i] = s[i]
         /\ Append(s, e)[Len(s) + 1] = e
<1>1. DOMAIN s = 1..Len(s) /\ Len(s) \in Nat
  BY LenProperties
<1>2. Append(s, e) \in Seq(Event) /\ Len(Append(s, e)) = Len(s) + 1
  BY AppendProperties
<1>3. DOMAIN Append(s, e) = 1..(Len(s) + 1)
  BY <1>2, LenProperties
<1>. QED BY <1>1, <1>2, <1>3, AppendProperties

\* Taking the head of a buffer moves every other event one place forward.
LEMMA TailFacts ==
  ASSUME NEW s \in Seq(Event), s # <<>>
  PROVE  /\ DOMAIN s = 1..Len(s) /\ Len(s) \in Nat /\ Len(s) >= 1 /\ s[1] = Head(s) /\ Head(s) \in Event
         /\ Tail(s) \in Seq(Event)
         /\ Len(Tail(s)) = Len(s) - 1
         /\ DOMAIN Tail(s) = 1..(Len(s) - 1)
         /\ \A i \in 2..Len(s) : Tail(s)[i - 1] = s[i]
<1>1. DOMAIN s = 1..Len(s) /\ Len(s) \in Nat
  BY LenProperties
<1>2. Len(s) >= 1 /\ s[1] = Head(s)
  BY <1>1, EmptySeq
<1>3. /\ Tail(s) \in Seq(Event) /\ Len(Tail(s)) = Len(s) - 1 /\ Head(s) \in Event
      /\ \A i \in 1..Len(Tail(s)) : Tail(s)[i] = s[i + 1]
  BY HeadTailProperties
<1>4. DOMAIN Tail(s) = 1..(Len(s) - 1)
  BY <1>3, LenProperties
<1>5. ASSUME NEW i \in 2..Len(s)
      PROVE  Tail(s)[i - 1] = s[i]
  <2>1. i - 1 \in 1..Len(Tail(s)) /\ (i - 1) + 1 = i
    BY <1>1, <1>3
  <2>. QED BY <1>3, <2>1
<1>. QED BY <1>1, <1>2, <1>3, <1>4, <1>5

\* How often an event is in a buffer after either.
LEMMA PlacesAppend ==
  ASSUME NEW s \in Seq(Event), NEW e \in Event, NEW f \in Event
  PROVE  /\ Cardinality(Places(s, f)) \in Nat
         /\ Cardinality(Places(Append(s, e), f))
              = Cardinality(Places(s, f)) + (IF e = f THEN 1 ELSE 0)
<1>1. IsFiniteSet(Places(s, f)) /\ Cardinality(Places(s, f)) \in Nat
  <2>1. IsFiniteSet(1..Len(s)) /\ Places(s, f) \subseteq 1..Len(s)
    BY AppendFacts, FS_Interval DEF Places
  <2>. QED BY <2>1, FS_Subset, FS_CardinalityType
<1>2. CASE e = f
  <2>1. Places(Append(s, e), f) = Places(s, f) \cup {Len(s) + 1} /\ Len(s) + 1 \notin Places(s, f)
    BY <1>2, AppendFacts DEF Places
  <2>. QED BY <1>1, <1>2, <2>1, FS_AddElement
<1>3. CASE e # f
  <2>1. Places(Append(s, e), f) = Places(s, f)
    BY <1>3, AppendFacts DEF Places
  <2>. QED BY <1>1, <1>3, <2>1
<1>. QED BY <1>1, <1>2, <1>3

\* Taking the head of a buffer removes one place of that event and none of
\* another.
LEMMA PlacesTail ==
  ASSUME NEW s \in Seq(Event), s # <<>>, NEW f \in Event
  PROVE  Cardinality(Places(s, f)) = Cardinality(Places(Tail(s), f)) + (IF f = Head(s) THEN 1 ELSE 0)
<1>. DEFINE Later == {i \in 2..Len(s) : s[i] = f}
            g == [i \in Later |-> i - 1]
<1>1. IsFiniteSet(Later) /\ Cardinality(Later) \in Nat
  <2>1. IsFiniteSet(2..Len(s)) /\ Later \subseteq 2..Len(s)
    BY TailFacts, FS_Interval
  <2>. QED BY <2>1, FS_Subset, FS_CardinalityType
<1>2. Cardinality(Places(s, f)) = Cardinality(Later) + (IF f = Head(s) THEN 1 ELSE 0)
  <2>1. CASE f = Head(s)
    <3>1. Places(s, f) = Later \cup {1} /\ 1 \notin Later
      BY <2>1, TailFacts DEF Places
    <3>. QED BY <1>1, <2>1, <3>1, FS_AddElement
  <2>2. CASE f # Head(s)
    <3>1. Places(s, f) = Later
      BY <2>2, TailFacts DEF Places
    <3>. QED BY <1>1, <2>2, <3>1
  <2>. QED BY <2>1, <2>2
<1>3. Cardinality(Places(Tail(s), f)) = Cardinality(Later)
  <2>1. g \in [Later -> Places(Tail(s), f)]
    BY TailFacts DEF Places
  <2>2. \A i, j \in Later : g[i] = g[j] => i = j
    BY TailFacts
  <2>3. \A k \in Places(Tail(s), f) : \E i \in Later : g[i] = k
    <3>. SUFFICES ASSUME NEW k \in Places(Tail(s), f)
                  PROVE  k + 1 \in Later /\ g[k + 1] = k
      OBVIOUS
    <3>1. k \in 1..(Len(s) - 1) /\ Tail(s)[k] = f
      BY TailFacts DEF Places
    <3>2. k + 1 \in 2..Len(s) /\ (k + 1) - 1 = k
      BY <3>1, TailFacts
    <3>3. s[k + 1] = f
      BY <3>1, <3>2, TailFacts
    <3>. QED BY <3>2, <3>3
  <2>4. g \in Bijection(Later, Places(Tail(s), f))
    <3>. HIDE DEF g, Later
    <3>. QED BY <2>1, <2>2, <2>3 DEF Bijection, Injection, Surjection, IsInjective
  <2>5. ExistsBijection(Later, Places(Tail(s), f))
    BY <2>4, Zenon DEF ExistsBijection
  <2>. QED BY <1>1, <2>5, FS_Bijection
<1>. QED BY <1>1, <1>2, <1>3

\* The place of what follows the head, after the head is taken.
LEMMA IndexMoves ==
  ASSUME NEW n \in Nat, NEW i \in 1..n, i # 1
  PROVE  i \in 2..n /\ i - 1 \in 1..(n - 1)
OBVIOUS

\* Counting up and down.
LEMMA BumpFacts ==
  ASSUME NEW f \in [Event -> Nat], NEW e \in Event
  PROVE  /\ Bump(f, e) \in [Event -> Nat]
         /\ Bump(f, e)[e] = f[e] + 1
         /\ Bump(f, e)[e] > 0
         /\ \A x \in Event : x # e => Bump(f, e)[x] = f[x]
BY DEF Bump

\* Lower changes the count of one event, by one.
LEMMA LowerFacts ==
  ASSUME NEW f \in [Event -> Nat], NEW e \in Event, f[e] > 0
  PROVE  /\ Lower(f, e) \in [Event -> Nat]
         /\ Lower(f, e)[e] = f[e] - 1
         /\ \A x \in Event : x # e => Lower(f, e)[x] = f[x]
BY DEF Lower

\* A broker that stores an event has it, and has at most one copy of it more
\* than before.
LEMMA StoreFacts ==
  ASSUME AdapterInv, NEW e \in Event, Store(e)
  PROVE  /\ copies' \in [Event -> Nat] /\ remembered' \subseteq Event
         /\ copies'[e] > 0 /\ copies'[e] <= copies[e] + 1
         /\ \A x \in Event \ {e} : copies'[x] = copies[x]
         /\ remembered' \subseteq remembered \cup {e}
<1>. USE DEF AdapterInv, AdaptersTypeOK
<1>1. copies[e] \in Nat
  OBVIOUS
<1>2. CASE kind = "sqs_fifo" /\ e \in remembered
  <2>1. copies' = copies /\ remembered' = remembered \cup {e}
    BY <1>2 DEF Store
  <2>. QED BY <1>1, <1>2, <2>1 DEF Arrived
<1>3. CASE ~(kind = "sqs_fifo" /\ e \in remembered)
  <2>1. copies' = Bump(copies, e)
    BY <1>3 DEF Store
  <2>2. remembered' = remembered \/ remembered' = remembered \cup {e}
    BY DEF Store
  <2>3. /\ copies' \in [Event -> Nat] /\ copies'[e] = copies[e] + 1
        /\ \A x \in Event \ {e} : copies'[x] = copies[x]
    BY <2>1, BumpFacts
  <2>. QED BY <1>1, <2>2, <2>3
<1>. QED BY <1>2, <1>3

\* Every step of an adapter, its network and its broker keeps the invariant.
LEMMA AdapterInductive ==
  ASSUME AdapterInv, AdapterStep
  PROVE  AdapterInv'
<1>. USE DEF Returns
<1>t. /\ calls \in [Event -> Nat] /\ resent \in [Event -> Nat] /\ flying \in [Event -> Nat]
      /\ copies \in [Event -> Nat] /\ forgotten \in [Event -> Nat] /\ buffer \in Seq(Event)
  BY DEF AdapterInv, AdaptersTypeOK
<1>1. ASSUME NEW e \in Event, EmitCall(e)
      PROVE  AdapterInv'
  <2>1. calls' \in [Event -> Nat] /\ flying' \in [Event -> Nat]
    BY <1>t, <1>1, BumpFacts DEF EmitCall
  <2>2. /\ kind \in Confirming => flying'[e] > 0
        /\ \A x \in Event \ {e} : flying'[x] = flying[x]
    BY <1>t, <1>1, BumpFacts DEF EmitCall
  <2>3. InFlight'
    BY <1>1, <2>1, <2>2 DEF EmitCall, InFlight, AdapterInv, AdaptersTypeOK
  <2>4. Arrived'
    BY <1>1 DEF EmitCall, Arrived, AdapterInv, AdaptersTypeOK
  <2>. QED BY <1>1, <2>1, <2>3, <2>4 DEF EmitCall, AdapterInv, AdaptersTypeOK
<1>1r. ASSUME NEW e \in Event, Resend(e)
       PROVE  AdapterInv'
  <2>1. resent' \in [Event -> Nat] /\ flying' \in [Event -> Nat]
    BY <1>t, <1>1r, BumpFacts DEF Resend
  <2>2. flying'[e] > 0 /\ \A x \in Event \ {e} : flying'[x] = flying[x]
    BY <1>t, <1>1r, BumpFacts DEF Resend
  <2>3. InFlight'
    BY <1>1r, <2>1, <2>2 DEF Resend, InFlight, AdapterInv, AdaptersTypeOK
  <2>4. Arrived'
    BY <1>1r DEF Resend, Arrived, AdapterInv, AdaptersTypeOK
  <2>5. call' \in [Event -> {"none", "sending", "landed", "ok", "err", "marked_ok", "marked_err"}]
    BY <1>1r DEF Resend, AdapterInv, AdaptersTypeOK
  <2>6. faults' \in 0..MaxFaults
    BY AdaptersAssumption, <1>1r DEF Resend, AdapterInv, AdaptersTypeOK
  <2>. QED BY <1>1r, <2>1, <2>3, <2>4, <2>5, <2>6 DEF Resend, AdapterInv, AdaptersTypeOK
<1>2. ASSUME NEW e \in Event, Land(e)
      PROVE  AdapterInv'
  <2>1. flying' \in [Event -> Nat] /\ \A x \in Event \ {e} : flying'[x] = flying[x]
    BY <1>t, <1>2, LowerFacts DEF Land
  <2>2. InFlight'
    BY <1>2, <2>1 DEF Land, InFlight, AdapterInv, AdaptersTypeOK
  <2>3. Arrived'
    BY <1>2, StoreFacts DEF Land, Arrived, AdapterInv, AdaptersTypeOK
  <2>. QED BY <1>2, <2>1, <2>2, <2>3, StoreFacts DEF Land, AdapterInv, AdaptersTypeOK
<1>3. ASSUME NEW e \in Event, LandLate(e)
      PROVE  AdapterInv'
  <2>1. flying[e] > 0 /\ (call[e] = "sending" => flying[e] > 1)
    BY <1>3 DEF LandLate, Abandoned, AdapterInv, AdaptersTypeOK
  <2>2. flying' \in [Event -> Nat] /\ flying'[e] = flying[e] - 1 /\ \A x \in Event \ {e} : flying'[x] = flying[x]
    BY <1>t, <1>3, <2>1, LowerFacts DEF LandLate
  <2>3. InFlight'
    <3>0. flying[e] \in Nat
      BY <1>t
    <3>1. call[e] = "sending" => flying'[e] > 0
      BY <2>1, <2>2, <3>0
    <3>2. kind' = kind /\ call' = call /\ InFlight
      BY <1>3 DEF LandLate, AdapterInv
    <3>3. ASSUME NEW x \in Event, kind \in Confirming, call[x] = "sending"
          PROVE  flying'[x] > 0
      <4>1. CASE x = e
        BY <3>1, <3>3, <4>1
      <4>2. CASE x # e
        <5>1. flying'[x] = flying[x] /\ flying[x] > 0
          BY <2>2, <3>2, <3>3, <4>2 DEF InFlight
        <5>. QED BY <5>1
      <4>. QED BY <4>1, <4>2
    <3>. QED BY <3>2, <3>3 DEF InFlight
  <2>4. Arrived'
    BY <1>3, StoreFacts DEF LandLate, Arrived, AdapterInv, AdaptersTypeOK
  <2>5. copies' \in [Event -> Nat] /\ remembered' \subseteq Event
    BY <1>3, StoreFacts DEF LandLate, AdapterInv, AdaptersTypeOK
  <2>. QED BY <1>3, <2>2, <2>3, <2>4, <2>5 DEF LandLate, AdapterInv, AdaptersTypeOK
<1>4. ASSUME NEW e \in Event, Confirm(e)
      PROVE  AdapterInv'
  BY <1>4 DEF Confirm, broker, InFlight, Arrived, AdapterInv, AdaptersTypeOK
<1>5. ASSUME NEW e \in Event, Refused(e)
      PROVE  AdapterInv'
  <2>1. flying[e] > 0
    BY <1>5 DEF Refused, InFlight, AdapterInv, AdaptersTypeOK
  <2>2. flying' \in [Event -> Nat] /\ \A x \in Event \ {e} : flying'[x] = flying[x]
    BY <1>t, <1>5, <2>1, LowerFacts DEF Refused
  <2>3. InFlight' /\ Arrived'
    BY <1>5, <2>2 DEF Refused, InFlight, Arrived, AdapterInv, AdaptersTypeOK
  <2>. QED BY <1>5, <2>2, <2>3 DEF Refused, AdapterInv, AdaptersTypeOK
<1>6. ASSUME NEW e \in Event, TimedOut(e)
      PROVE  AdapterInv'
  BY <1>6 DEF TimedOut, broker, InFlight, Arrived, AdapterInv, AdaptersTypeOK
<1>7. ASSUME NEW e \in Event, Buffer(e)
      PROVE  AdapterInv'
  BY <1>7 DEF Buffer, InFlight, Arrived, AdapterInv, AdaptersTypeOK
<1>8. ASSUME NEW e \in Event, Closed(e)
      PROVE  AdapterInv'
  BY AdaptersAssumption, <1>8 DEF Closed, broker, InFlight, Arrived, AdapterInv, AdaptersTypeOK
<1>9. ASSUME NEW e \in Event, Forget(e)
      PROVE  AdapterInv'
  BY <1>9, BumpFacts DEF Forget, InFlight, Arrived, AdapterInv, AdaptersTypeOK
<1>10. CASE Flush
  <2>1. Head(buffer) \in Event /\ Tail(buffer) \in Seq(Event)
    BY <1>10 DEF Flush, AdapterInv, AdaptersTypeOK
  <2>2. /\ copies' \in [Event -> Nat] /\ copies'[Head(buffer)] > 0
        /\ \A x \in Event \ {Head(buffer)} : copies'[x] = copies[x]
    BY <1>t, <1>10, <2>1, BumpFacts DEF Flush
  <2>3. InFlight' /\ Arrived'
    BY <1>10, <2>2 DEF Flush, InFlight, Arrived, AdapterInv, AdaptersTypeOK
  <2>. QED BY <1>10, <2>1, <2>2, <2>3 DEF Flush, AdapterInv, AdaptersTypeOK
<1>11. CASE LoseBuffer
  <2>1. Buffered \subseteq Event
    BY DEF Buffered, AdapterInv, AdaptersTypeOK
  <2>2. UNCHANGED <<kind, call, calls, resent, flying, copies, remembered, forgotten, acked>>
    BY <1>11 DEF LoseBuffer
  <2>3. faults' \in 0..MaxFaults
    BY AdaptersAssumption, <1>11 DEF LoseBuffer, AdapterInv, AdaptersTypeOK
  <2>4. lost' \subseteq Event
    BY <1>11, <2>1 DEF LoseBuffer, AdapterInv, AdaptersTypeOK
  <2>5. buffer' = <<>>
    BY <1>11 DEF LoseBuffer
  <2>6. buffer' \in Seq(Event)
    BY <2>5
  <2>7. AdaptersTypeOK'
    BY <2>2, <2>3, <2>4, <2>6 DEF AdapterInv, AdaptersTypeOK
  <2>8. InFlight'
    BY <2>2 DEF InFlight, AdapterInv
  <2>9. Arrived'
    BY <2>2, <2>5 DEF Arrived, AdapterInv
  <2>. QED BY <2>7, <2>8, <2>9 DEF AdapterInv
<1>12. CASE CallSettles
  BY <1>12 DEF CallSettles, broker, InFlight, Arrived, AdapterInv, AdaptersTypeOK
<1>. QED
  BY <1>1, <1>1r, <1>2, <1>3, <1>4, <1>5, <1>6, <1>7, <1>8, <1>9, <1>10, <1>11, <1>12
  DEF AdapterStep, EmitStep

-----------------------------------------------------------------------------
\* An event that was acknowledged is never taken back, and is acknowledged
\* only when it is held.
LEMMA AckedInductive ==
  ASSUME AdapterInv, AckedIsDownstream, AdapterStep
  PROVE  AckedIsDownstream'
<1>. USE DEF AdapterInv, AdaptersTypeOK, AckedIsDownstream
<1>1. ASSUME UNCHANGED <<kind, acked, buffer, lost>>,
             copies' \in [Event -> Nat], \A x \in Event : copies[x] > 0 => copies'[x] > 0
      PROVE  AckedIsDownstream'
  BY <1>1 DEF Buffered
<1>2. ASSUME NEW e \in Event, Land(e) \/ LandLate(e)
      PROVE  AckedIsDownstream'
  <2>1. copies' \in [Event -> Nat] /\ \A x \in Event : copies[x] > 0 => copies'[x] > 0
    BY <1>2, StoreFacts DEF Land, LandLate
  <2>. QED BY <1>1, <1>2, <2>1 DEF Land, LandLate
<1>3. ASSUME NEW e \in Event, Confirm(e)
      PROVE  AckedIsDownstream'
  BY <1>3 DEF Confirm, broker, Arrived, Buffered
<1>4. ASSUME NEW e \in Event, Buffer(e)
      PROVE  AckedIsDownstream'
  <2>. DEFINE n == Len(buffer)
  <2>1. /\ n \in Nat /\ DOMAIN buffer = 1..n /\ DOMAIN buffer' = 1..(n + 1)
        /\ buffer'[n + 1] = e /\ \A i \in 1..n : buffer'[i] = buffer[i]
    BY <1>4, AppendFacts, Zenon DEF Buffer
  <2>2. Buffered \cup {e} \subseteq Buffered'
    <3>. HIDE DEF n
    <3>1. n + 1 \in DOMAIN buffer' /\ \A i \in DOMAIN buffer : i \in DOMAIN buffer'
      BY <2>1
    <3>. QED BY <2>1, <3>1, Zenon DEF Buffered
  <2>. QED BY <1>4, <2>2 DEF Buffer
<1>5. CASE Flush
  <2>1. Head(buffer) \in Event
    BY <1>5 DEF Flush
  <2>2. Buffered \subseteq Buffered' \cup {Head(buffer)}
    <3>. SUFFICES ASSUME NEW i \in DOMAIN buffer, buffer[i] # Head(buffer)
                  PROVE  buffer[i] \in Buffered'
      BY DEF Buffered
    <3>. DEFINE n == Len(buffer)
    <3>0. /\ n \in Nat /\ DOMAIN buffer = 1..n /\ DOMAIN Tail(buffer) = 1..(n - 1)
          /\ buffer[1] = Head(buffer) /\ \A j \in 2..n : Tail(buffer)[j - 1] = buffer[j]
      BY <1>5, TailFacts, Zenon DEF Flush
    <3>1. i - 1 \in DOMAIN Tail(buffer) /\ Tail(buffer)[i - 1] = buffer[i]
      <4>. HIDE DEF n
      <4>1. n \in Nat /\ i \in 1..n /\ i # 1
        BY <3>0, Zenon
      <4>2. i \in 2..n /\ i - 1 \in 1..(n - 1)
        BY <4>1, IndexMoves, Zenon
      <4>. QED BY <3>0, <4>2, Zenon
    <3>. QED BY <1>5, <3>1 DEF Flush, Buffered
  <2>3. copies'[Head(buffer)] > 0 /\ \A x \in Event \ {Head(buffer)} : copies'[x] = copies[x]
    BY <1>5, <2>1, BumpFacts DEF Flush
  <2>. QED BY <1>5, <2>2, <2>3 DEF Flush
<1>6. CASE LoseBuffer
  BY <1>6 DEF LoseBuffer
<1>7. CASE UNCHANGED <<kind, acked, copies, buffer, lost>>
  BY <1>7 DEF Buffered
<1>. QED
  BY <1>2, <1>3, <1>4, <1>5, <1>6, <1>7
  DEF AdapterStep, EmitStep, EmitCall, Resend, Refused, TimedOut, Closed, Forget, CallSettles, broker

(***************************************************************************)
(* Steps of the specification, as the adapter's invariants need them.      *)
(***************************************************************************)
LEMMA AdapterInvariant == HealthSpec => []AdapterInv
<1>1. HealthInit => AdapterInv
  BY AdapterInitial DEF HealthInit
<1>2. AdapterInv /\ [HealthNext]_vars => AdapterInv'
  BY AdapterView, AdapterInductive DEF AdapterInv
<1>. QED
  BY <1>1, <1>2, PTL DEF HealthSpec

(***************************************************************************)
(* What Ok of an emit promises holds for every kind of adapter, every      *)
(* capacity and any number of events, timeouts and lost buffers.           *)
(***************************************************************************)
THEOREM AckedIsDownstreamHolds == HealthSpec => []AckedIsDownstream
<1>1. HealthInit => AckedIsDownstream
  BY DEF HealthInit, AdaptersInit, AckedIsDownstream
<1>2. AdapterInv /\ AckedIsDownstream /\ [HealthNext]_vars => AckedIsDownstream'
  BY AdapterView, AckedInductive DEF AdapterInv
<1>. QED
  BY <1>1, <1>2, AdapterInvariant, PTL DEF HealthSpec

-----------------------------------------------------------------------------
\* A call that has not given its event to the buffer yet.
Asked(e) == IF kind \in Buffering /\ call[e] = "sending" THEN 1 ELSE 0

\* How often the event left for the broker: the emits, and what was sent again.
Sent(e) == calls[e] + resent[e]

\* Each of them accounts for one copy, request, place in the buffer, or none.
Counted ==
  \A e \in Event :
    copies[e] + flying[e] + Cardinality(Places(buffer, e)) + Asked(e) <= Sent(e)

\* A FIFO queue has one copy for every id it forgot, and one for the id it has.
Deduplicated ==
  kind = "sqs_fifo" =>
    \A e \in Event : copies[e] <= forgotten[e] + (IF e \in remembered THEN 1 ELSE 0)

\* The numbers of Counted.
LEMMA CountTypes ==
  ASSUME AdapterInv, NEW e \in Event
  PROVE  /\ copies[e] \in Nat /\ flying[e] \in Nat /\ Sent(e) \in Nat
         /\ Cardinality(Places(buffer, e)) \in Nat /\ Asked(e) \in {0, 1} /\ Asked(e) \in Nat
<1>1. Cardinality(Places(buffer, e)) \in Nat
  BY PlacesAppend DEF AdapterInv, AdaptersTypeOK
<1>2. Asked(e) \in {0, 1} /\ Asked(e) \in Nat
  BY DEF Asked
<1>. QED
  BY <1>1, <1>2 DEF AdapterInv, AdaptersTypeOK, Sent

\* A copy, a request in flight, a place in the buffer: each comes from an
\* emit, or a request sent again, of its own.
LEMMA CountedInductive ==
  ASSUME AdapterInv, Counted, AdapterStep
  PROVE  Counted'
<1>t. /\ copies \in [Event -> Nat] /\ flying \in [Event -> Nat] /\ calls \in [Event -> Nat]
      /\ resent \in [Event -> Nat] /\ DOMAIN call = Event /\ buffer \in Seq(Event)
  BY DEF AdapterInv, AdaptersTypeOK
<1>. SUFFICES ASSUME NEW x \in Event
              PROVE  copies'[x] + flying'[x] + Cardinality(Places(buffer', x)) + Asked(x)' <= Sent(x)'
  BY DEF Counted
<1>0. /\ copies[x] \in Nat /\ flying[x] \in Nat /\ Sent(x) \in Nat
      /\ Cardinality(Places(buffer, x)) \in Nat /\ Asked(x) \in {0, 1} /\ Asked(x) \in Nat
      /\ copies[x] + flying[x] + Cardinality(Places(buffer, x)) + Asked(x) <= Sent(x)
  BY CountTypes DEF Counted
<1>. DEFINE Kept == copies'[x] + flying'[x] + Cardinality(Places(buffer', x)) + Asked(x)' <= Sent(x)'
<1>1. ASSUME NEW e \in Event, EmitCall(e)
      PROVE  Kept
  <2>1. CASE x = e
    <3>0. calls'[x] = calls[x] + 1 /\ resent' = resent
      BY <1>t, <1>1, <2>1, BumpFacts DEF EmitCall
    <3>1. Sent(x)' = Sent(x) + 1 /\ copies' = copies /\ buffer' = buffer /\ Asked(x) = 0
      BY <1>t, <1>1, <2>1, <3>0 DEF EmitCall, Asked, Sent
    <3>2. \/ kind \in Confirming /\ flying'[x] = flying[x] + 1 /\ Asked(x)' = 0
          \/ kind \notin Confirming /\ flying' = flying /\ Asked(x)' \in {0, 1}
      <4>1. call'[x] = "sending" /\ kind' = kind
        BY <1>t, <1>1, <2>1 DEF EmitCall, Returns
      <4>2. CASE kind \in Confirming
        <5>1. flying' = Bump(flying, e)
          BY <1>1, <4>2 DEF EmitCall
        <5>2. flying'[x] = flying[x] + 1
          BY <1>t, <2>1, <5>1, BumpFacts
        <5>3. Asked(x)' = 0
          BY <4>1, <4>2 DEF Asked, Confirming, Buffering
        <5>. QED BY <4>2, <5>2, <5>3
      <4>3. CASE kind \notin Confirming
        <5>1. flying' = flying
          BY <1>1, <4>3 DEF EmitCall
        <5>2. Asked(x)' \in {0, 1}
          BY DEF Asked
        <5>. QED BY <4>3, <5>1, <5>2
      <4>. QED BY <4>2, <4>3
    <3>. QED BY <1>0, <3>1, <3>2
  <2>2. CASE x # e
    <3>1. Sent(x)' = Sent(x) /\ flying'[x] = flying[x]
      BY <1>t, <1>1, <2>2 DEF EmitCall, Bump, Sent
    <3>2. call'[x] = call[x] /\ UNCHANGED <<kind, copies, buffer>>
      BY <1>t, <1>1, <2>2 DEF EmitCall, Returns
    <3>3. Asked(x)' = Asked(x)
      BY <1>t, <3>2 DEF Asked
    <3>. QED BY <1>0, <3>1, <3>2, <3>3
  <2>. QED BY <2>1, <2>2
<1>1r. ASSUME NEW e \in Event, Resend(e)
       PROVE  Kept
  <2>1. /\ UNCHANGED <<kind, calls, copies, buffer>> /\ kind \notin Buffering
        /\ flying' = Bump(flying, e) /\ resent' = Bump(resent, e)
    BY <1>1r DEF Resend, Resending, Buffering
  <2>2. Asked(x)' = 0 /\ Asked(x) = 0
    BY <2>1 DEF Asked
  <2>3. CASE x = e
    <3>1. flying'[x] = flying[x] + 1 /\ resent'[x] = resent[x] + 1
      <4>1. Bump(flying, e)[e] = flying[e] + 1 /\ Bump(resent, e)[e] = resent[e] + 1
        BY <1>t DEF Bump
      <4>. QED BY <2>1, <2>3, <4>1
    <3>2. Sent(x)' = Sent(x) + 1
      BY <1>t, <2>1, <3>1 DEF Sent
    <3>. QED BY <1>0, <2>1, <2>2, <3>1, <3>2
  <2>4. CASE x # e
    <3>1. flying'[x] = flying[x] /\ Sent(x)' = Sent(x)
      BY <1>t, <2>1, <2>4 DEF Bump, Sent
    <3>. QED BY <1>0, <2>1, <2>2, <3>1
  <2>. QED BY <2>3, <2>4
<1>2. ASSUME NEW e \in Event, Land(e) \/ LandLate(e)
      PROVE  Kept
  <2>1. flying[e] > 0 /\ flying' = Lower(flying, e)
    BY <1>t, <1>2 DEF Land, LandLate, Abandoned
  <2>2. /\ copies'[e] \in Nat /\ copies'[e] <= copies[e] + 1
        /\ \A y \in Event \ {e} : copies'[y] = copies[y]
    <3>1. Store(e) \/ copies' = copies
      BY <1>t, <1>2 DEF Land, LandLate
    <3>2. copies[e] \in Nat
      BY <1>t
    <3>3. CASE Store(e)
      BY <3>3, StoreFacts
    <3>4. CASE copies' = copies
      BY <3>2, <3>4
    <3>. QED BY <3>1, <3>3, <3>4
  <2>3. Asked(x)' \in {0, Asked(x)} /\ Sent(x)' = Sent(x) /\ buffer' = buffer
    BY <1>t, <1>2 DEF Land, LandLate, Asked, Returns, Sent
  <2>4. CASE x = e
    <3>1. flying'[x] = flying[x] - 1
      BY <1>t, <2>1, <2>4, LowerFacts
    <3>2. copies'[x] \in Nat /\ copies'[x] <= copies[x] + 1
      BY <2>2, <2>4
    <3>3. Asked(x)' \in Nat /\ Asked(x)' <= Asked(x)
      BY <1>0, <2>3
    <3>4. Sent(x)' = Sent(x) /\ Cardinality(Places(buffer', x)) = Cardinality(Places(buffer, x))
      BY <2>3
    <3>. QED BY <1>0, <3>1, <3>2, <3>3, <3>4
  <2>5. CASE x # e
    <3>1. flying'[x] = flying[x] /\ copies'[x] = copies[x]
      BY <1>t, <2>1, <2>2, <2>5 DEF Lower
    <3>. QED BY <1>0, <2>3, <3>1
  <2>. QED BY <2>4, <2>5
<1>3. ASSUME NEW e \in Event, Refused(e)
      PROVE  Kept
  <2>1. flying[e] > 0 /\ flying' = Lower(flying, e)
    BY <1>t, <1>3 DEF Refused, InFlight, AdapterInv
  <2>2. flying'[x] \in Nat /\ flying'[x] <= flying[x]
    <3>1. CASE x = e
      <4>1. flying'[x] = flying[x] - 1
        BY <1>t, <2>1, <3>1, LowerFacts
      <4>. QED BY <1>0, <2>1, <3>1, <4>1
    <3>2. CASE x # e
      <4>1. flying'[x] = flying[x]
        BY <1>t, <2>1, <3>2 DEF Lower
      <4>. QED BY <1>0, <4>1
    <3>. QED BY <3>1, <3>2
  <2>3. /\ UNCHANGED <<kind, calls, resent, copies, buffer>>
        /\ call'[x] = call[x] \/ call'[x] = "err"
    <3>1. call' = call \/ call' = [call EXCEPT ![e] = "err"]
      BY <1>3 DEF Refused, Returns
    <3>2. call'[x] = call[x] \/ call'[x] = "err"
      BY <1>t, <3>1
    <3>3. UNCHANGED <<kind, calls, resent, copies, buffer>>
      BY <1>3 DEF Refused
    <3>. QED BY <3>2, <3>3
  <2>4. Asked(x)' \in Nat /\ Asked(x)' <= Asked(x)
    BY <1>t, <2>3 DEF Asked
  <2>5. /\ copies'[x] = copies[x] /\ Sent(x)' = Sent(x)
        /\ Cardinality(Places(buffer', x)) = Cardinality(Places(buffer, x))
    BY <2>3 DEF Sent
  <2>. QED BY <1>0, <2>2, <2>4, <2>5
<1>4. ASSUME NEW e \in Event, Confirm(e) \/ TimedOut(e) \/ Closed(e)
      PROVE  Kept
  <2>1. Asked(x)' \in {0, Asked(x)}
    BY <1>t, <1>4 DEF Confirm, TimedOut, Closed, Asked, Returns
  <2>2. UNCHANGED <<copies, flying, buffer>> /\ Sent(x)' = Sent(x)
    BY <1>t, <1>4 DEF Confirm, TimedOut, Closed, broker, Sent
  <2>. QED BY <1>0, <2>1, <2>2
<1>5. ASSUME NEW e \in Event, Buffer(e)
      PROVE  Kept
  <2>1. UNCHANGED <<copies, flying>> /\ Sent(x)' = Sent(x) /\ buffer' = Append(buffer, e)
    BY <1>t, <1>5 DEF Buffer, Sent
  <2>2. Cardinality(Places(buffer', x)) = Cardinality(Places(buffer, x)) + (IF e = x THEN 1 ELSE 0)
    BY <1>t, <2>1, PlacesAppend
  <2>3. Asked(x) = (IF e = x THEN 1 ELSE 0) + Asked(x)'
    <3>1. CASE x = e
      BY <1>t, <1>5, <3>1 DEF Buffer, Asked, Returns
    <3>2. CASE x # e
      <4>1. Asked(x)' = Asked(x)
        BY <1>t, <1>5, <3>2 DEF Buffer, Asked, Returns
      <4>. QED BY <1>0, <3>2, <4>1
    <3>. QED BY <3>1, <3>2
  <2>4. Asked(x)' \in {0, 1}
    BY <1>t DEF Asked
  <2>. QED BY <1>0, <2>1, <2>2, <2>3, <2>4
<1>6. ASSUME NEW e \in Event, Forget(e)
      PROVE  Kept
  <2>1. Asked(x)' = Asked(x) /\ Sent(x)' = Sent(x) /\ UNCHANGED <<copies, flying, buffer>>
    BY <1>t, <1>6 DEF Forget, Asked, Sent
  <2>. QED BY <1>0, <2>1
<1>7. CASE Flush
  <2>1. UNCHANGED flying /\ Sent(x)' = Sent(x) /\ Asked(x)' = Asked(x) /\ buffer' = Tail(buffer)
    BY <1>t, <1>7 DEF Flush, Asked, Sent
  <2>2. Cardinality(Places(buffer, x)) = Cardinality(Places(buffer', x)) + (IF x = Head(buffer) THEN 1 ELSE 0)
    BY <1>t, <1>7, <2>1, PlacesTail DEF Flush
  <2>3. copies'[x] = copies[x] + (IF x = Head(buffer) THEN 1 ELSE 0)
    <3>1. Head(buffer) \in Event /\ copies' = Bump(copies, Head(buffer))
      BY <1>t, <1>7, TailFacts DEF Flush
    <3>2. CASE x = Head(buffer)
      BY <1>t, <3>1, <3>2, BumpFacts
    <3>3. CASE x # Head(buffer)
      <4>1. copies'[x] = copies[x]
        BY <1>t, <3>1, <3>3 DEF Bump
      <4>. QED BY <1>0, <3>3, <4>1
    <3>. QED BY <3>2, <3>3
  <2>4. Cardinality(Places(buffer', x)) \in Nat
    <3>1. buffer' \in Seq(Event)
      BY <1>t, <1>7, <2>1, TailFacts DEF Flush
    <3>. QED BY <3>1, PlacesAppend
  <2>. QED BY <1>0, <2>1, <2>2, <2>3, <2>4
<1>8. CASE LoseBuffer
  <2>1. UNCHANGED <<flying, copies>> /\ Sent(x)' = Sent(x) /\ Asked(x)' = Asked(x) /\ buffer' = <<>>
    BY <1>t, <1>8 DEF LoseBuffer, Asked, Sent
  <2>2. Cardinality(Places(buffer', x)) = 0
    <3>1. Places(buffer', x) = {}
      BY <1>t, <2>1 DEF Places
    <3>. QED BY <3>1, FS_EmptySet
  <2>. QED BY <1>0, <2>1, <2>2
<1>9. CASE CallSettles
  <2>1. Asked(x)' \in {0, Asked(x)} /\ Sent(x)' = Sent(x) /\ UNCHANGED <<copies, flying, buffer>>
    BY <1>t, <1>9 DEF CallSettles, broker, Asked, Sent
  <2>. QED BY <1>0, <2>1
<1>. QED
  BY <1>t, <1>1, <1>1r, <1>2, <1>3, <1>4, <1>5, <1>6, <1>7, <1>8, <1>9 DEF AdapterStep, EmitStep

\* A FIFO queue stores an event again only after it has forgotten the id.
LEMMA DeduplicatedInductive ==
  ASSUME AdapterInv, Deduplicated, AdapterStep
  PROVE  Deduplicated'
<1>t. /\ copies \in [Event -> Nat] /\ forgotten \in [Event -> Nat] /\ buffer \in Seq(Event)
      /\ remembered \subseteq Event
  BY DEF AdapterInv, AdaptersTypeOK
<1>. SUFFICES ASSUME kind' = "sqs_fifo", NEW x \in Event
              PROVE  copies'[x] <= forgotten'[x] + (IF x \in remembered' THEN 1 ELSE 0)
  BY DEF Deduplicated
<1>k. kind = "sqs_fifo"
  BY DEF AdapterStep, EmitStep, EmitCall, Resend, Land, LandLate, Confirm, Refused, TimedOut, Buffer, Closed,
         Forget, Flush, LoseBuffer, CallSettles
<1>0. /\ copies[x] \in Nat /\ forgotten[x] \in Nat
      /\ copies[x] <= forgotten[x] + (IF x \in remembered THEN 1 ELSE 0)
  BY <1>k, <1>t DEF Deduplicated
<1>. DEFINE Kept == copies'[x] <= forgotten'[x] + (IF x \in remembered' THEN 1 ELSE 0)
<1>1. CASE UNCHANGED <<copies, forgotten, remembered>>
  BY <1>0, <1>1
<1>2. ASSUME NEW e \in Event, Land(e) \/ LandLate(e), Store(e)
      PROVE  Kept
  <2>1. /\ forgotten' = forgotten /\ remembered' = remembered \cup {e}
        /\ copies' = IF e \in remembered THEN copies ELSE Bump(copies, e)
    BY <1>k, <1>2 DEF Land, LandLate, Store
  <2>2. CASE e \in remembered \/ x # e
    <3>1. copies'[x] = copies[x] /\ (x \in remembered' <=> x \in remembered)
      BY <1>t, <2>1, <2>2 DEF Bump
    <3>. QED BY <1>0, <2>1, <3>1
  <2>3. CASE e \notin remembered /\ x = e
    <3>1. copies'[x] = copies[x] + 1 /\ x \in remembered' /\ x \notin remembered
      BY <1>t, <2>1, <2>3 DEF Bump
    <3>. QED BY <1>0, <2>1, <3>1
  <2>. QED BY <2>2, <2>3
<1>3. ASSUME NEW e \in Event, Forget(e)
      PROVE  Kept
  <2>1. copies' = copies /\ e \in remembered /\ remembered' = remembered \ {e} /\ forgotten' = Bump(forgotten, e)
    BY <1>3 DEF Forget
  <2>2. CASE x = e
    <3>1. forgotten'[x] = forgotten[x] + 1
      BY <1>t, <2>1, <2>2 DEF Bump
    <3>. QED BY <1>0, <2>1, <2>2, <3>1
  <2>3. CASE x # e
    <3>1. forgotten'[x] = forgotten[x]
      BY <1>t, <2>1, <2>3 DEF Bump
    <3>. QED BY <1>0, <2>1, <2>3, <3>1
  <2>. QED BY <2>2, <2>3
<1>4. CASE Flush
  BY <1>k, <1>4 DEF Flush, AdapterInv, Arrived, Buffering
<1>. QED
  BY <1>1, <1>2, <1>3, <1>4
  DEF AdapterStep, EmitStep, EmitCall, Resend, Land, LandLate, Confirm, Refused, TimedOut, Buffer, Closed,
      LoseBuffer, CallSettles, broker

(***************************************************************************)
(* Duplicates are bounded by the emits and by what the client libraries    *)
(* send again, and in a FIFO queue by the ids it forgot, whatever times    *)
(* out, arrives late and is retried.                                       *)
(***************************************************************************)
THEOREM CopiesBoundedHolds == HealthSpec => []CopiesBounded
<1>1. HealthInit => Counted /\ Deduplicated
  <2>. SUFFICES ASSUME HealthInit, NEW e \in Event
                PROVE  /\ copies[e] + flying[e] + Cardinality(Places(buffer, e)) + Asked(e) <= Sent(e)
                       /\ copies[e] <= forgotten[e] + (IF e \in remembered THEN 1 ELSE 0)
    BY DEF Counted, Deduplicated
  <2>1. copies[e] = 0 /\ flying[e] = 0 /\ Sent(e) = 0 /\ forgotten[e] = 0 /\ e \notin remembered /\ Asked(e) = 0
    BY DEF HealthInit, AdaptersInit, Asked, Sent
  <2>2. Places(buffer, e) = {}
    BY DEF HealthInit, AdaptersInit, Places
  <2>. QED BY <2>1, <2>2, FS_EmptySet
<1>2. AdapterInv /\ Counted /\ Deduplicated /\ [HealthNext]_vars => (Counted /\ Deduplicated)'
  BY AdapterView, CountedInductive, DeduplicatedInductive DEF AdapterInv
<1>3. AdapterInv /\ Counted /\ Deduplicated => CopiesBounded
  <2>. SUFFICES ASSUME AdapterInv, Counted, Deduplicated, NEW e \in Event
                PROVE  /\ copies[e] + flying[e] <= calls[e] + resent[e]
                       /\ kind = "sqs_fifo" => copies[e] <= 1 + forgotten[e]
    BY DEF CopiesBounded
  <2>1. copies[e] + flying[e] <= Sent(e)
    BY CountTypes DEF Counted
  <2>2. forgotten[e] \in Nat /\ copies[e] \in Nat
    BY DEF AdapterInv, AdaptersTypeOK
  <2>3. kind = "sqs_fifo" => copies[e] <= 1 + forgotten[e]
    BY <2>2 DEF Deduplicated
  <2>. QED BY <2>1, <2>3 DEF Sent
<1>. QED
  BY <1>1, <1>2, <1>3, AdapterInvariant, PTL DEF HealthSpec

-----------------------------------------------------------------------------
(***************************************************************************)
(* The snapshot.                                                           *)
(***************************************************************************)
WorkerTypeOK ==
  /\ worker \in {"sleep", "batch", "gauges", "panicked", "reported"}
  /\ batch \subseteq Event
  /\ health \in [consecutive_failures : Nat, status : Status]
  /\ recent \in BOOLEAN
  /\ streak \in Nat
  /\ DOMAIN probe = Probe

Snapshot ==
  IF worker = "reported" THEN health.status = "unhealthy"
  ELSE /\ health.consecutive_failures = streak
       /\ health.status = "unhealthy" <=> streak >= Threshold

HealthInv == WorkerTypeOK /\ Snapshot /\ HealthyIsQuiet

\* What derive_status answers, from the streak and the last failure.
LEMMA StatusFacts ==
  ASSUME NEW n \in Nat, NEW r \in BOOLEAN
  PROVE  /\ DeriveStatus(n, r) \in Status
         /\ DeriveStatus(n, r) = "unhealthy" <=> n >= Threshold
         /\ DeriveStatus(n, r) = "healthy" => ~r /\ n < Threshold
BY HealthAssumption DEF DeriveStatus, Status

\* Every step of the worker, its supervisor, the clock and the probes keeps
\* the snapshot true.
LEMMA HealthInductive ==
  ASSUME HealthInv, [HealthNext]_vars
  PROVE  HealthInv'
<1>. USE DEF HealthInv
<1>1. ASSUME NEW B \in SUBSET Event, ClaimBatch(B)
      PROVE  HealthInv'
  BY <1>1 DEF ClaimBatch, WorkerTypeOK, Snapshot, HealthyIsQuiet
<1>2. ASSUME UNCHANGED healthVars
      PROVE  HealthInv'
  BY <1>2 DEF healthVars, WorkerTypeOK, Snapshot, HealthyIsQuiet
<1>3. ASSUME NEW e \in Event, DispatchDone(e)
      PROVE  HealthInv'
  <2>. DEFINE n == streak'
  <2>1. /\ n \in Nat /\ recent' \in BOOLEAN
        /\ health' = [consecutive_failures |-> n, status |-> DeriveStatus(n, recent')]
    <3>1. health.consecutive_failures = streak /\ streak \in Nat /\ recent \in BOOLEAN
      BY <1>3 DEF DispatchDone, WorkerTypeOK, Snapshot
    <3>2. CASE call[e] = "marked_ok"
      BY <1>3, <3>1, <3>2 DEF DispatchDone, UpdateHealth
    <3>3. CASE call[e] # "marked_ok"
      BY <1>3, <3>1, <3>3 DEF DispatchDone, UpdateHealth
    <3>. QED BY <3>2, <3>3
  <2>2. /\ health'.status = DeriveStatus(n, recent') /\ health'.consecutive_failures = n
        /\ worker' \in {"gauges", "batch"} /\ batch' \subseteq Event /\ probe' = probe
    BY <1>3, <2>1 DEF DispatchDone, WorkerTypeOK
  <2>. HIDE DEF n
  <2>3. WorkerTypeOK'
    BY <2>1, <2>2, StatusFacts DEF WorkerTypeOK, n
  <2>4. Snapshot'
    BY <2>1, <2>2, StatusFacts DEF Snapshot, n
  <2>5. HealthyIsQuiet'
    BY <2>1, <2>2, StatusFacts DEF HealthyIsQuiet, n
  <2>. QED BY <2>3, <2>4, <2>5
<1>4. CASE RefreshGauges
  <2>1. /\ health' = [health EXCEPT !.status = DeriveStatus(streak, recent)]
        /\ worker' = "sleep" /\ UNCHANGED <<batch, recent, streak, probe>>
    BY <1>4 DEF RefreshGauges, Snapshot
  <2>2. health'.status = DeriveStatus(streak, recent) /\ health'.consecutive_failures = streak
    BY <1>4, <2>1 DEF RefreshGauges, WorkerTypeOK, Snapshot
  <2>3. streak \in Nat /\ recent \in BOOLEAN
    BY DEF WorkerTypeOK
  <2>4. WorkerTypeOK'
    BY <2>1, <2>3, StatusFacts DEF WorkerTypeOK
  <2>5. Snapshot' /\ HealthyIsQuiet'
    BY <2>1, <2>2, <2>3, StatusFacts DEF Snapshot, HealthyIsQuiet
  <2>. QED BY <2>4, <2>5
<1>5. CASE WindowEnds
  BY <1>5 DEF WindowEnds, WorkerTypeOK, Snapshot, HealthyIsQuiet
<1>6. CASE Panic
  BY <1>6 DEF Panic, WorkerTypeOK, Snapshot, HealthyIsQuiet
<1>7. CASE Supervise
  BY <1>7 DEF Supervise, WorkerTypeOK, Snapshot, HealthyIsQuiet, Status
<1>8. ASSUME NEW p \in Probe, Ping(p) \/ Answer(p) \/ ListEmitters(p) \/ ProbeDone(p)
      PROVE  HealthInv'
  <2>1. UNCHANGED <<worker, batch, health, recent, streak>> /\ DOMAIN probe' = DOMAIN probe
    BY <1>8 DEF Ping, Answer, ListEmitters, ProbeDone
  <2>. QED BY <2>1 DEF WorkerTypeOK, Snapshot, HealthyIsQuiet
<1>. QED
  BY <1>1, <1>2, <1>3, <1>4, <1>5, <1>6, <1>7, <1>8
  DEF HealthNext, WorkerStep, ClaimError, Dispatch, Elsewhere, Mark, vars, healthVars

\* So the snapshot is true in every reachable state.
LEMMA HealthInvariant == HealthSpec => []HealthInv
<1>1. HealthInit => HealthInv
  <2>. SUFFICES ASSUME HealthInit
                PROVE  HealthInv
    OBVIOUS
  <2>1. WorkerTypeOK
    BY DEF HealthInit, WorkerTypeOK, Status
  <2>2. health.status = "healthy" /\ health.consecutive_failures = 0 /\ streak = 0 /\ worker = "sleep" /\ ~recent
    BY DEF HealthInit
  <2>3. 0 < Threshold /\ ~(0 >= Threshold)
    BY HealthAssumption
  <2>. QED BY <2>1, <2>2, <2>3 DEF HealthInv, Snapshot, HealthyIsQuiet
<1>. QED
  BY <1>1, HealthInductive, PTL DEF HealthSpec

(***************************************************************************)
(* The worker, its adapter and its snapshot keep their types.              *)
(***************************************************************************)
THEOREM HealthTypeCorrect == HealthSpec => []HealthTypeOK
<1>1. AdapterInv /\ HealthInv => HealthTypeOK
  BY DEF AdapterInv, HealthInv, WorkerTypeOK, HealthTypeOK
<1>. QED
  BY <1>1, AdapterInvariant, HealthInvariant, PTL

(***************************************************************************)
(* A worker shown as healthy is alive and has failed nothing for 60 s.     *)
(***************************************************************************)
THEOREM HealthyIsQuietHolds == HealthSpec => []HealthyIsQuiet
<1>1. HealthInv => HealthyIsQuiet
  BY DEF HealthInv
<1>. QED
  BY <1>1, HealthInvariant, PTL

\* The snapshot is unhealthy exactly in an outage.
LEMMA SnapshotIsTrue ==
  ASSUME HealthInv, NEW missing \in BOOLEAN
  PROVE  "unhealthy" \in Snapshots(missing) <=> missing \/ worker = "reported" \/ streak >= Threshold
BY DEF HealthInv, Snapshot, Snapshots, WorkerTypeOK

\* compute_overall_status is unhealthy if and only if one of its inputs is.
LEMMA OverallFacts ==
  ASSUME NEW db, NEW statuses
  PROVE  ComputeOverallStatus(db, statuses) = "unhealthy" <=> db = "unhealthy" \/ "unhealthy" \in statuses
BY DEF ComputeOverallStatus

\* What a probe remembers of the ping.
ProbeFields == \A p \in Probe : probe[p].pc = "pinged" => probe[p].missing \in BOOLEAN

\* A probe answers from the snapshot as it is when it reads it.
LEMMA ReadyzInductive ==
  ASSUME HealthInv, ProbeFields, ReadyzIsTruthful, [HealthNext]_vars
  PROVE  ProbeFields' /\ ReadyzIsTruthful'
<1>. USE DEF ProbeFields, ReadyzIsTruthful
<1>0. DOMAIN probe = Probe
  BY DEF HealthInv, WorkerTypeOK
<1>1. CASE UNCHANGED probe
  BY <1>1
<1>2. ASSUME NEW p \in Probe, Ping(p)
      PROVE  ProbeFields' /\ ReadyzIsTruthful'
  <2>1. PICK db \in {"healthy", "unhealthy"}, missing \in BOOLEAN :
          probe' = [probe EXCEPT ![p] = [pc |-> "pinged", db |-> db, missing |-> missing]]
    BY <1>2 DEF Ping
  <2>2. probe'[p].pc = "pinged" /\ probe'[p].missing \in BOOLEAN
    BY <1>0, <2>1
  <2>3. \A q \in Probe : q # p => probe'[q] = probe[q]
    BY <1>0, <2>1
  <2>. QED BY <2>2, <2>3
<1>3. ASSUME NEW p \in Probe, Answer(p)
      PROVE  ProbeFields' /\ ReadyzIsTruthful'
  <2>. DEFINE overall == ComputeOverallStatus(probe[p].db, Snapshots(probe[p].missing))
  <2>1. overall = "unhealthy" <=> Outage(probe[p].db, probe[p].missing)
    <3>1. probe[p].missing \in BOOLEAN
      BY <1>3 DEF Answer
    <3>. QED BY <3>1, OverallFacts, SnapshotIsTrue DEF Outage
  <2>2. /\ probe'[p].pc = "answered"
        /\ probe'[p].code = IF overall = "unhealthy" THEN 503 ELSE 200
        /\ probe'[p].outage = Outage(probe[p].db, probe[p].missing)
    BY <1>0, <1>3 DEF Answer
  <2>3. \A q \in Probe : q # p => probe'[q] = probe[q]
    BY <1>0, <1>3 DEF Answer
  <2>. HIDE DEF overall
  <2>. QED BY <2>1, <2>2, <2>3
<1>4. ASSUME NEW p \in Probe, ListEmitters(p)
      PROVE  ProbeFields' /\ ReadyzIsTruthful'
  <2>1. PICK missing \in BOOLEAN :
          probe' = [probe EXCEPT ![p] = [pc |-> "listed", statuses |-> Snapshots(missing),
                                         outage |-> Outage("healthy", missing)]]
    BY <1>4 DEF ListEmitters
  <2>2. "unhealthy" \in Snapshots(missing) <=> Outage("healthy", missing)
    BY SnapshotIsTrue DEF Outage
  <2>3. /\ probe'[p].pc = "listed" /\ probe'[p].statuses = Snapshots(missing)
        /\ probe'[p].outage = Outage("healthy", missing)
    BY <1>0, <2>1
  <2>4. \A q \in Probe : q # p => probe'[q] = probe[q]
    BY <1>0, <2>1
  <2>. QED BY <2>2, <2>3, <2>4
<1>5. ASSUME NEW p \in Probe, ProbeDone(p)
      PROVE  ProbeFields' /\ ReadyzIsTruthful'
  <2>1. probe'[p].pc = "idle" /\ \A q \in Probe : q # p => probe'[q] = probe[q]
    BY <1>0, <1>5 DEF ProbeDone, NoProbe
  <2>. QED BY <2>1
<1>. QED
  BY <1>1, <1>2, <1>3, <1>4, <1>5
  DEF HealthNext, WorkerStep, ClaimBatch, ClaimError, Dispatch, Elsewhere, Mark, DispatchDone, RefreshGauges,
      WindowEnds, Panic, Supervise, vars, healthVars

(***************************************************************************)
(* /readyz answers 503, and /api/emitters shows an emitter as unhealthy,   *)
(* exactly in an outage, for every threshold and any number of requests.   *)
(***************************************************************************)
THEOREM ReadyzIsTruthfulHolds == HealthSpec => []ReadyzIsTruthful
<1>1. HealthInit => ProbeFields /\ ReadyzIsTruthful
  BY DEF HealthInit, NoProbe, ProbeFields, ReadyzIsTruthful
<1>2. HealthInv /\ ProbeFields /\ ReadyzIsTruthful /\ [HealthNext]_vars => (ProbeFields /\ ReadyzIsTruthful)'
  BY ReadyzInductive
<1>. QED
  BY <1>1, <1>2, HealthInvariant, PTL DEF HealthSpec
=============================================================================
