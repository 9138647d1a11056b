----------------------------- MODULE IngestProofs -----------------------------
(***************************************************************************)
(* Proofs about Ingest, for any processes, requests, keys and emitters, any*)
(* cache capacity and pool size, and any number of faults.                 *)
(***************************************************************************)
EXTENDS Ingest, SequenceTheorems, FiniteSetTheorems, TLAPS

(***************************************************************************)
(* The inductive invariant.  TriesInv: a webhook is sent again only after  *)
(* a fault.  StageInv: what the pipeline knows at each stage.  LockInv: a  *)
(* transaction that has inserted its receipt holds the key alone, and no   *)
(* receipt of the key is stored.                                           *)
(***************************************************************************)
TriesInv ==
  \A r \in Request :
    /\ tries[r] + faults <= MaxFaults + 1
    /\ pc[r] \in {"idle", "error"} => tries[r] + faults <= MaxFaults
    /\ InFlight(r) => tries[r] > 0

StageInv ==
  \A r \in Request :
    /\ InFlight(r) /\ pc[r] # "verify" => r \notin Forged
    /\ pc[r] = "existing" => SameKey(r) # {}
    /\ pc[r] = "commit" => fanned[r] = Emitter
    /\ pc[r] = "record" => Id(r) \in receipts

LockInv ==
  \A r \in Request :
    Locks(r) => /\ SameKey(r) = {}
                /\ \A q \in Request : Locks(q) /\ KeyOf[q] = KeyOf[r] => q = r

IngestInv ==
  /\ TypeOK
  /\ TriesInv
  /\ StageInv
  /\ LockInv
  /\ StoredOnce
  /\ FanOutAtomic
  /\ AckedIsDurable

\* The empty tables, and no webhook sent yet, satisfy the invariant.
LEMMA IngestInvInit == Init => IngestInv
  <1> SUFFICES ASSUME Init PROVE IngestInv
    OBVIOUS
  <1> USE IngestAssumption DEF Init
  <1>1. TypeOK
    BY DEF TypeOK
  <1>2. TriesInv
    BY DEF TriesInv, InFlight, Stage
  <1>3. StageInv
    BY DEF StageInv, InFlight, Stage
  <1>4. LockInv
    BY DEF LockInv, Locks
  <1>5. StoredOnce /\ FanOutAtomic /\ AckedIsDurable
    BY DEF StoredOnce, FanOutAtomic, AckedIsDurable
  <1> QED
    BY <1>1, <1>2, <1>3, <1>4, <1>5 DEF IngestInv

\* Every step of a handler, a provider or the environment keeps the variables
\* in their types.
LEMMA IngestTypeStep ==
  ASSUME TypeOK, TriesInv, StageInv, [Next]_vars
  PROVE  TypeOK'
  <1> USE IngestAssumption
  <1>1. ASSUME NEW r \in Request, NEW p \in Process, Send(r, p)
        PROVE  TypeOK'
    <2>1. tries[r] + faults <= MaxFaults
      BY <1>1 DEF Send, TriesInv
    <2>2. tries[r] \in 0 .. MaxFaults + 1 /\ faults \in 0..MaxFaults
      BY DEF TypeOK
    <2>3. tries[r] + 1 \in 0 .. MaxFaults + 1
      BY <2>1, <2>2
    <2>4. tries' \in [Request -> 0 .. MaxFaults + 1]
      BY <1>1, <2>3 DEF Send, TypeOK
    <2>5. host' \in [Request -> Process]
      BY <1>1 DEF Send, TypeOK
    <2>6. pc' \in [Request -> Stage \cup Answer \cup {"idle"}]
      BY <1>1 DEF Send, Goto, Stage, TypeOK
    <2>7. UNCHANGED <<receipts, deliveries, fanned, map, order, learnt, acks, faults>>
      BY <1>1 DEF Send, tables, cache
    <2> QED
      BY <2>4, <2>5, <2>6, <2>7 DEF TypeOK
  <1>2. ASSUME NEW r \in Request, Verify(r) \/ CheckFast(r) \/ CheckStorage(r) \/ Begin(r)
        PROVE  TypeOK'
    BY <1>2 DEF TypeOK, Verify, CheckFast, CheckStorage, Begin, Goto, Stage, Answer, tables, cache
  <1>3. ASSUME NEW r \in Request, InsertReceipt(r)
        PROVE  TypeOK'
    BY <1>3 DEF TypeOK, InsertReceipt, Goto, Stage, tables, cache
  <1>4. ASSUME NEW r \in Request, FetchExisting(r)
        PROVE  TypeOK'
    <2>1. \A i \in SameKey(r) : <<r, i>> \in Request \X ReceiptId
      BY DEF SameKey, TypeOK
    <2>2. acks' \subseteq Request \X ReceiptId
      <3>1. CASE acks' = acks
        BY <3>1 DEF TypeOK
      <3>2. CASE \E i \in SameKey(r) : acks' = acks \cup {<<r, i>>}
        <4>1. PICK i \in SameKey(r) : acks' = acks \cup {<<r, i>>}
          BY <3>2
        <4>2. <<r, i>> \in Request \X ReceiptId
          BY <2>1
        <4>3. acks \subseteq Request \X ReceiptId
          BY DEF TypeOK
        <4> QED BY <4>1, <4>2, <4>3, Zenon
      <3> QED BY <1>4, <3>1, <3>2 DEF FetchExisting
    <2>3. pc' \in [Request -> Stage \cup Answer \cup {"idle"}]
      BY <1>4 DEF FetchExisting, Goto, TypeOK, Answer
    <2> QED
      BY <1>4, <2>2, <2>3 DEF TypeOK, FetchExisting, tables, cache
  <1>5. ASSUME NEW r \in Request, NEW e \in Emitter, InsertDelivery(r, e)
        PROVE  TypeOK'
    BY <1>5 DEF TypeOK, InsertDelivery, tables, cache
  <1>6. ASSUME NEW r \in Request, FanOutDone(r)
        PROVE  TypeOK'
    BY <1>6 DEF TypeOK, FanOutDone, Goto, Stage, tables, cache
  <1>7. ASSUME NEW r \in Request, pc[r] = "commit"
        PROVE  Id(r) \in ReceiptId
    <2>1. tries[r] \in 0 .. MaxFaults + 1 /\ tries[r] > 0
      BY <1>7 DEF TypeOK, TriesInv, InFlight, Stage
    <2> QED
      BY <2>1 DEF Id, ReceiptId
  <1>8. ASSUME NEW r \in Request, Commit(r) \/ CommitUnknown(r)
        PROVE  TypeOK'
    <2>1. Id(r) \in ReceiptId
      BY <1>7, <1>8 DEF Commit, CommitUnknown
    <2>2. Publish(r)
      BY <1>8 DEF Commit, CommitUnknown
    <2>3. receipts' \subseteq ReceiptId
      BY <2>1, <2>2 DEF TypeOK, Publish
    <2>4. deliveries' \subseteq ReceiptId \X Emitter
      <3>1. fanned[r] \subseteq Emitter
        BY DEF TypeOK
      <3>2. {Id(r)} \X fanned[r] \subseteq ReceiptId \X Emitter
        BY <2>1, <3>1
      <3> QED
        BY <2>2, <3>2 DEF TypeOK, Publish
    <2>5. faults' \in 0 .. MaxFaults
      BY <1>8 DEF TypeOK, Commit, CommitUnknown, Fault
    <2> QED
      BY <1>8, <2>3, <2>4, <2>5 DEF TypeOK, Commit, CommitUnknown, Goto, Stage, Answer, cache
  <1>9. ASSUME NEW r \in Request, Record(r)
        PROVE  TypeOK'
    <2> DEFINE p == host[r]
               k == KeyOf[r]
    <2>1. p \in Process /\ k \in Key /\ Id(r) \in receipts /\ pc[r] = "record"
      BY <1>9 DEF TypeOK, Record, StageInv
    <2>2. map' \in [Process -> SUBSET Key]
      <3>1. map[p] \subseteq Key
        BY <2>1 DEF TypeOK
      <3>2. PICK S \in SUBSET Key : map' = [map EXCEPT ![p] = S]
        <4>1. CASE k \in map[p]
          BY <1>9, <2>1, <3>1, <4>1 DEF Record, Remember, TypeOK
        <4>2. CASE k \notin map[p]
          <5> DEFINE full == Cardinality(map[p]) >= Capacity /\ order[p] # <<>>
                     S == (IF full THEN map[p] \ {Head(order[p])} ELSE map[p]) \cup {k}
          <5>1. S \in SUBSET Key
            BY <2>1, <3>1
          <5>2. map' = [map EXCEPT ![p] = S]
            BY <1>9, <4>2 DEF Record, Remember
          <5> QED
            BY <5>1, <5>2
        <4> QED
          BY <4>1, <4>2
      <3> QED
        BY <3>2 DEF TypeOK
    <2>3. order' \in [Process -> Seq(Key)]
      <3>1. CASE k \in map[p]
        BY <1>9, <3>1 DEF TypeOK, Record, Remember
      <3>2. CASE k \notin map[p]
        <4>1. order[p] \in Seq(Key)
          BY <2>1 DEF TypeOK
        <4>2. order[p] # <<>> => Tail(order[p]) \in Seq(Key)
          BY <4>1
        <4>3. \A s \in Seq(Key) : Append(s, k) \in Seq(Key)
          BY <2>1
        <4> DEFINE full == Cardinality(map[p]) >= Capacity /\ order[p] # <<>>
                   s == Append(IF full THEN Tail(order[p]) ELSE order[p], k)
        <4>4. s \in Seq(Key)
          BY <4>1, <4>2, <4>3
        <4>5. order' = [order EXCEPT ![p] = s]
          BY <1>9, <3>2 DEF Record, Remember
        <4> HIDE DEF s
        <4> QED
          BY <2>1, <4>4, <4>5 DEF TypeOK
      <3> QED
        BY <3>1, <3>2
    <2>4. learnt' \in [Process -> Seq(Key)]
      <3>1. learnt \in [Process -> Seq(Key)]
        BY DEF TypeOK
      <3>2. Append(learnt[p], k) \in Seq(Key)
        BY <2>1, <3>1
      <3> QED
        BY <1>9, <2>1, <3>1, <3>2 DEF Record
    <2> QED
      BY <1>9, <2>1, <2>2, <2>3, <2>4 DEF TypeOK, Record, Goto, Answer, tables
  <1>10. ASSUME NEW r \in Request, StatementFails(r) \/ Cancel(r) \/ AnswerLost(r)
         PROVE  TypeOK'
    <2>1. faults' \in 0 .. MaxFaults
      BY <1>10 DEF TypeOK, StatementFails, Cancel, AnswerLost, Fault
    <2>2. pc' \in [Request -> Stage \cup Answer \cup {"idle"}]
      BY <1>10 DEF TypeOK, StatementFails, Cancel, AnswerLost, Goto, Answer
    <2> QED
      BY <1>10, <2>1, <2>2 DEF TypeOK, StatementFails, Cancel, AnswerLost, tables, cache
  <1>11. ASSUME NEW p \in Process, Crash(p)
         PROVE  TypeOK'
    BY <1>11 DEF TypeOK, Crash, Fault, tables
  <1>12. CASE UNCHANGED vars
    BY <1>12 DEF TypeOK, vars
  <1> QED
    BY <1>1, <1>2, <1>3, <1>4, <1>5, <1>6, <1>8, <1>9, <1>10, <1>11, <1>12
    DEF Next, Handle, Fail

\* What a step that commits nothing leaves alone.
LEMMA TablesUnchanged ==
  ASSUME UNCHANGED tables
  PROVE  /\ StoredOnce => StoredOnce'
         /\ FanOutAtomic => FanOutAtomic'
         /\ AckedIsDurable /\ UNCHANGED acks => AckedIsDurable'
         /\ \A r : SameKey(r)' = SameKey(r)
  BY DEF tables, StoredOnce, FanOutAtomic, AckedIsDurable, SameKey, KeyOfId

\* A step of one request that does not commit: it keeps the invariant if what
\* the new stage requires of the request holds.
LEMMA StageChange ==
  ASSUME IngestInv, TypeOK', AckedIsDurable',
         NEW r \in Request, NEW s \in (Stage \ {"record"}) \cup Answer \cup {"idle"},
         Goto(r, s), UNCHANGED tables,
         \A q \in Request : q # r => tries'[q] = tries[q] /\ fanned'[q] = fanned[q],
         faults' <= faults,
         s \in Stage => tries'[r] > 0,
         tries'[r] + faults' <= MaxFaults + 1,
         s \in {"idle", "error"} => tries'[r] + faults' <= MaxFaults,
         s \in Stage \ {"verify"} => r \notin Forged,
         s \in {"fanout", "commit"} =>
           /\ SameKey(r) = {}
           /\ \A q \in Request : Locks(q) /\ KeyOf[q] = KeyOf[r] => q = r,
         s = "commit" => fanned'[r] = Emitter,
         s = "existing" => SameKey(r) # {}
  PROVE  IngestInv'
  <1> USE IngestAssumption DEF IngestInv
  <1>1. pc \in [Request -> Stage \cup Answer \cup {"idle"}] /\ pc' = [pc EXCEPT ![r] = s]
    BY DEF TypeOK, Goto
  <1>2. /\ tries \in [Request -> 0 .. MaxFaults + 1] /\ tries' \in [Request -> 0 .. MaxFaults + 1]
        /\ faults \in 0 .. MaxFaults /\ faults' \in 0 .. MaxFaults
    BY DEF TypeOK
  <1>3. TriesInv'
    <2> SUFFICES ASSUME NEW q \in Request
                 PROVE  /\ tries'[q] + faults' <= MaxFaults + 1
                        /\ pc'[q] \in {"idle", "error"} => tries'[q] + faults' <= MaxFaults
                        /\ pc'[q] \in Stage => tries'[q] > 0
      BY DEF TriesInv, InFlight
    <2>1. CASE q = r
      BY <1>1, <2>1
    <2>2. CASE q # r
      <3>1. pc'[q] = pc[q] /\ tries'[q] = tries[q]
        BY <1>1, <2>2
      <3>2. /\ tries[q] + faults <= MaxFaults + 1
            /\ pc[q] \in {"idle", "error"} => tries[q] + faults <= MaxFaults
            /\ pc[q] \in Stage => tries[q] > 0
        BY DEF TriesInv, InFlight
      <3>3. tries[q] \in Nat /\ faults \in Nat /\ faults' \in Nat /\ MaxFaults \in Nat
        BY <1>2
      <3> QED
        BY <3>1, <3>2, <3>3
    <2> QED
      BY <2>1, <2>2
  <1>4. StageInv'
    <2> SUFFICES ASSUME NEW q \in Request
                 PROVE  /\ pc'[q] \in Stage /\ pc'[q] # "verify" => q \notin Forged
                        /\ pc'[q] = "existing" => SameKey(q) # {}
                        /\ pc'[q] = "commit" => fanned'[q] = Emitter
                        /\ pc'[q] = "record" => <<q, tries'[q]>> \in receipts
      BY TablesUnchanged DEF StageInv, InFlight, Id, tables
    <2>1. CASE q = r
      BY <1>1, <2>1 DEF Answer
    <2>2. CASE q # r
      BY <1>1, <2>2 DEF StageInv, InFlight, Id
    <2> QED
      BY <2>1, <2>2
  <1>5. LockInv'
    BY <1>1, TablesUnchanged DEF LockInv, Locks
  <1> QED
    BY <1>3, <1>4, <1>5, TablesUnchanged

\* The commit of a transaction, confirmed or not: the one step that writes the
\* tables.
LEMMA CommitStep ==
  ASSUME IngestInv, TypeOK', NEW r \in Request, Commit(r) \/ CommitUnknown(r)
  PROVE  IngestInv'
  <1> USE IngestAssumption DEF IngestInv
  <1>0. pc \in [Request -> Stage \cup Answer \cup {"idle"}]
    BY DEF TypeOK
  <1>1. PICK s \in {"record", "error"} :
          /\ pc[r] = "commit" /\ Publish(r)
          /\ pc' = [pc EXCEPT ![r] = s]
          /\ faults' = IF s = "record" THEN faults ELSE faults - 1
          /\ UNCHANGED <<host, tries, fanned, acks>>
    <2>1. CASE Commit(r)
      BY <2>1 DEF Commit, Goto
    <2>2. CASE CommitUnknown(r)
      BY <2>2 DEF CommitUnknown, Goto, Fault
    <2> QED
      BY <2>1, <2>2
  <1>2. /\ Locks(r) /\ SameKey(r) = {} /\ fanned[r] = Emitter /\ r \notin Forged
        /\ Id(r) = <<r, tries[r]>> /\ KeyOfId(Id(r)) = KeyOf[r]
    BY <1>1 DEF LockInv, StageInv, Locks, InFlight, Stage, Id, KeyOfId
  <1>3. receipts' = receipts \cup {Id(r)} /\ deliveries' = deliveries \cup ({Id(r)} \X Emitter)
    BY <1>1, <1>2 DEF Publish
  <1>4. TriesInv'
    <2>1. /\ tries \in [Request -> 0 .. MaxFaults + 1]
          /\ faults \in 0 .. MaxFaults /\ faults' \in 0 .. MaxFaults
      BY DEF TypeOK
    <2>2. tries[r] > 0
      BY <1>1 DEF TriesInv, InFlight, Stage
    <2> QED
      <3> SUFFICES ASSUME NEW q \in Request
                   PROVE  /\ tries[q] + faults' <= MaxFaults + 1
                          /\ pc'[q] \in {"idle", "error"} => tries[q] + faults' <= MaxFaults
                          /\ pc'[q] \in Stage => tries[q] > 0
        BY <1>1 DEF TriesInv, InFlight
      <3>1. /\ tries[q] + faults <= MaxFaults + 1
            /\ pc[q] \in {"idle", "error"} => tries[q] + faults <= MaxFaults
            /\ pc[q] \in Stage => tries[q] > 0
        BY DEF TriesInv, InFlight
      <3>2. tries[q] \in Nat /\ faults \in Nat /\ faults' \in Nat /\ MaxFaults \in Nat
        BY <2>1
      <3>3. CASE q = r
        BY <1>0, <1>1, <2>2, <3>1, <3>2, <3>3
      <3>4. CASE q # r
        BY <1>0, <1>1, <3>1, <3>2, <3>4
      <3> QED
        BY <3>3, <3>4
  <1>5. pc'[r] = s /\ \A q \in Request : q # r => pc'[q] = pc[q]
    BY <1>0, <1>1
  <1>6. \A q \in Request : SameKey(q) \subseteq SameKey(q)'
    BY <1>3 DEF SameKey, KeyOfId
  <1>7. StageInv'
    BY <1>1, <1>2, <1>3, <1>5, <1>6 DEF StageInv, InFlight, Stage, Id
  <1>8. LockInv'
    <2> SUFFICES ASSUME NEW q \in Request, Locks(q)'
                 PROVE  /\ SameKey(q)' = {}
                        /\ \A u \in Request : Locks(u)' /\ KeyOf[u] = KeyOf[q] => u = q
      BY DEF LockInv
    <2>1. q # r /\ Locks(q)
      BY <1>1, <1>5 DEF Locks
    <2>2. KeyOf[q] # KeyOf[r]
      BY <1>2, <2>1 DEF LockInv
    <2>3. SameKey(q)' = {}
      BY <1>2, <1>3, <2>1, <2>2 DEF LockInv, SameKey, KeyOfId
    <2>4. \A u \in Request : Locks(u)' => Locks(u)
      BY <1>1, <1>5 DEF Locks
    <2> QED
      BY <2>1, <2>3, <2>4 DEF LockInv
  <1>9. StoredOnce'
    BY <1>2, <1>3 DEF StoredOnce, SameKey, KeyOfId
  <1>10. FanOutAtomic'
    BY <1>3 DEF FanOutAtomic
  <1>11. AckedIsDurable'
    BY <1>1, <1>3 DEF AckedIsDurable, KeyOfId
  <1> QED
    BY <1>4, <1>7, <1>8, <1>9, <1>10, <1>11

\* Every step keeps the invariant.
LEMMA IngestInvStep == IngestInv /\ [Next]_vars => IngestInv'
  <1> SUFFICES ASSUME IngestInv, [Next]_vars PROVE IngestInv'
    OBVIOUS
  <1> USE IngestAssumption
  <1>0. TypeOK'
    BY IngestTypeStep DEF IngestInv
  <1>a. /\ pc \in [Request -> Stage \cup Answer \cup {"idle"}]
        /\ tries \in [Request -> 0 .. MaxFaults + 1]
        /\ faults \in 0 .. MaxFaults
    BY DEF IngestInv, TypeOK
  <1>b. \A r \in Request : /\ tries[r] + faults <= MaxFaults + 1
                           /\ pc[r] \in {"idle", "error"} => tries[r] + faults <= MaxFaults
                           /\ pc[r] \in Stage => tries[r] > 0
    BY DEF IngestInv, TriesInv, InFlight
  <1>c. \A r \in Request : pc[r] \in Stage \ {"verify"} => r \notin Forged
    BY DEF IngestInv, StageInv, InFlight
  <1>d. UNCHANGED <<tables, acks>> => AckedIsDurable'
    BY TablesUnchanged DEF IngestInv
  <1>1. ASSUME NEW r \in Request, NEW p \in Process, Send(r, p)
        PROVE  IngestInv'
    <2>1. /\ Goto(r, "verify") /\ UNCHANGED <<tables, fanned, acks, faults>>
          /\ tries' = [tries EXCEPT ![r] = @ + 1] /\ tries[r] + faults <= MaxFaults
      BY <1>1, <1>b DEF Send
    <2>2. tries'[r] = tries[r] + 1 /\ \A q \in Request : q # r => tries'[q] = tries[q]
      BY <1>a, <2>1
    <2> QED
      BY <1>0, <1>a, <1>d, <2>1, <2>2, StageChange DEF Stage
  <1>2. ASSUME NEW r \in Request, Verify(r) \/ CheckFast(r) \/ CheckStorage(r) \/ Begin(r)
        PROVE  IngestInv'
    <2>1. PICK s \in {"verification_failed", "check", "begin", "lookup", "insert"} :
            /\ Goto(r, s)
            /\ s # "verification_failed" => r \notin Forged
      BY <1>2, <1>c DEF Verify, CheckFast, CheckStorage, Begin, Stage
    <2>2. pc[r] \in Stage /\ UNCHANGED <<tables, tries, fanned, acks, faults>>
      BY <1>2 DEF Verify, CheckFast, CheckStorage, Begin, Stage
    <2> QED
      BY <1>0, <1>a, <1>b, <1>d, <2>1, <2>2, StageChange DEF Stage, Answer
  <1>3. ASSUME NEW r \in Request, InsertReceipt(r)
        PROVE  IngestInv'
    <2>1. /\ pc[r] = "insert" /\ UNCHANGED <<tables, tries, acks, faults>>
          /\ \A q \in Request : KeyOf[q] = KeyOf[r] => ~Locks(q)
          /\ \A q \in Request : q # r => fanned'[q] = fanned[q]
      BY <1>3 DEF InsertReceipt, IngestInv, TypeOK
    <2>2. CASE SameKey(r) = {}
      <3>1. Goto(r, "fanout")
        BY <1>3, <2>2 DEF InsertReceipt
      <3> QED
        BY <1>0, <1>a, <1>b, <1>c, <1>d, <2>1, <2>2, <3>1, StageChange DEF Stage
    <2>3. CASE SameKey(r) # {}
      <3>1. Goto(r, "existing")
        BY <1>3, <2>3 DEF InsertReceipt
      <3> QED
        BY <1>0, <1>a, <1>b, <1>c, <1>d, <2>1, <2>3, <3>1, StageChange DEF Stage
    <2> QED
      BY <2>2, <2>3
  <1>4. ASSUME NEW r \in Request, FetchExisting(r)
        PROVE  IngestInv'
    <2>1. /\ pc[r] = "existing" /\ UNCHANGED <<tables, tries, fanned, faults>>
          /\ SameKey(r) # {}
      BY <1>4 DEF FetchExisting, IngestInv, StageInv
    <2>2. Goto(r, "duplicate")
      BY <1>4, <2>1 DEF FetchExisting
    <2>3. PICK i \in SameKey(r) : acks' = acks \cup {<<r, i>>}
      BY <1>4, <2>1 DEF FetchExisting
    <2>4. i \in receipts /\ KeyOfId(i) = KeyOf[r] /\ \A e \in Emitter : <<i, e>> \in deliveries
      BY <2>3 DEF SameKey, IngestInv, FanOutAtomic
    <2>5. AckedIsDurable'
      BY <2>1, <2>3, <2>4 DEF AckedIsDurable, IngestInv, KeyOfId, tables
    <2> QED
      BY <1>0, <1>a, <1>b, <2>1, <2>2, <2>5, StageChange DEF Stage, Answer
  <1>5. ASSUME NEW r \in Request, NEW e \in Emitter, InsertDelivery(r, e)
        PROVE  IngestInv'
    <2>1. /\ pc[r] = "fanout" /\ Goto(r, "fanout") /\ Locks(r)
          /\ UNCHANGED <<tables, tries, acks, faults>>
          /\ \A q \in Request : q # r => fanned'[q] = fanned[q]
      BY <1>5, <1>a DEF InsertDelivery, Goto, Locks, IngestInv, TypeOK
    <2>2. SameKey(r) = {} /\ \A q \in Request : Locks(q) /\ KeyOf[q] = KeyOf[r] => q = r
      BY <2>1 DEF IngestInv, LockInv
    <2> QED
      BY <1>0, <1>a, <1>b, <1>c, <1>d, <2>1, <2>2, StageChange DEF Stage
  <1>6. ASSUME NEW r \in Request, FanOutDone(r)
        PROVE  IngestInv'
    <2>1. /\ pc[r] = "fanout" /\ Goto(r, "commit") /\ Locks(r) /\ fanned[r] = Emitter
          /\ UNCHANGED <<tables, tries, fanned, acks, faults>>
      BY <1>6 DEF FanOutDone, Locks
    <2>2. SameKey(r) = {} /\ \A q \in Request : Locks(q) /\ KeyOf[q] = KeyOf[r] => q = r
      BY <2>1 DEF IngestInv, LockInv
    <2> QED
      BY <1>0, <1>a, <1>b, <1>c, <1>d, <2>1, <2>2, StageChange DEF Stage
  <1>7. ASSUME NEW r \in Request, Commit(r) \/ CommitUnknown(r)
        PROVE  IngestInv'
    BY <1>0, <1>7, CommitStep
  <1>8. ASSUME NEW r \in Request, Record(r)
        PROVE  IngestInv'
    <2>1. /\ pc[r] = "record" /\ Goto(r, "accepted")
          /\ acks' = acks \cup {<<r, Id(r)>>}
          /\ UNCHANGED <<tables, tries, fanned, faults>>
      BY <1>8 DEF Record
    <2>2. Id(r) \in receipts /\ \A e \in Emitter : <<Id(r), e>> \in deliveries
      BY <2>1 DEF IngestInv, StageInv, FanOutAtomic
    <2>3. KeyOfId(Id(r)) = KeyOf[r]
      BY DEF KeyOfId, Id
    <2>4. AckedIsDurable'
      BY <2>1, <2>2, <2>3 DEF AckedIsDurable, IngestInv, KeyOfId, tables
    <2> QED
      BY <1>0, <1>a, <1>b, <2>1, <2>4, StageChange DEF Stage, Answer
  <1>9. ASSUME NEW r \in Request, StatementFails(r) \/ Cancel(r) \/ AnswerLost(r)
        PROVE  IngestInv'
    <2>1. PICK s \in {"error", "idle"} : Goto(r, s)
      BY <1>9 DEF StatementFails, Cancel, AnswerLost
    <2>2. faults' = faults - 1 /\ UNCHANGED <<tables, tries, fanned, acks>>
      BY <1>9 DEF StatementFails, Cancel, AnswerLost, Fault
    <2> QED
      BY <1>0, <1>a, <1>b, <1>d, <2>1, <2>2, StageChange DEF Stage, Answer
  <1>10. ASSUME NEW p \in Process, Crash(p)
         PROVE  IngestInv'
    <2>1. /\ faults' = faults - 1 /\ UNCHANGED <<tables, tries, fanned, acks>>
          /\ pc' \in [Request -> Stage \cup Answer \cup {"idle"}]
          /\ \A r \in Request : pc'[r] = pc[r] \/ pc'[r] = "idle"
          /\ \A r \in Request : pc'[r] \in {"idle", "error"} =>
               pc[r] \in {"idle", "error"} \cup Stage
      BY <1>10, <1>a DEF Crash, Fault, InFlight
    <2>2. TriesInv'
      BY <1>a, <1>b, <2>1 DEF TriesInv, InFlight, Stage
    <2>3. StageInv'
      BY <2>1, TablesUnchanged DEF IngestInv, StageInv, InFlight, Stage, Id, tables
    <2>4. LockInv'
      BY <2>1, TablesUnchanged DEF IngestInv, LockInv, Locks
    <2> QED
      BY <1>0, <1>d, <2>1, <2>2, <2>3, <2>4, TablesUnchanged DEF IngestInv
  <1>11. CASE UNCHANGED vars
    <2>1. UNCHANGED <<tables, tries, fanned, acks, pc, faults>>
      BY <1>11 DEF vars, tables
    <2>2. TriesInv' /\ StageInv' /\ LockInv'
      BY <2>1, TablesUnchanged DEF IngestInv, TriesInv, StageInv, LockInv, InFlight, Locks, Id, tables
    <2> QED
      BY <1>0, <1>d, <2>1, <2>2, TablesUnchanged DEF IngestInv
  <1> QED
    BY <1>1, <1>2, <1>3, <1>4, <1>5, <1>6, <1>7, <1>8, <1>9, <1>10, <1>11
    DEF Next, Handle, Fail

\* The variables of the ingest path keep their types; in particular the tries
\* of a webhook stay within one more than the faults.
THEOREM IngestTypeCorrect == Spec => []TypeOK
  <1>1. IngestInv => TypeOK
    BY DEF IngestInv
  <1> QED
    BY <1>1, IngestInvInit, IngestInvStep, PTL DEF Spec

\* A 200 is given only for a receipt that is committed with its whole fan-out,
\* whatever is cancelled, fails or crashes and however the requests for one
\* event interleave.
THEOREM AckedIsDurableHolds == Spec => []AckedIsDurable
  <1>1. IngestInv => AckedIsDurable
    BY DEF IngestInv
  <1> QED
    BY <1>1, IngestInvInit, IngestInvStep, PTL DEF Spec

\* The unique index on dedupe_key, and the verifier, let one receipt of an
\* event into the table.
THEOREM StoredOnceHolds == Spec => []StoredOnce
  <1>1. IngestInv => StoredOnce
    BY DEF IngestInv
  <1> QED
    BY <1>1, IngestInvInit, IngestInvStep, PTL DEF Spec

\* The queue holds exactly the fan-out of the receipts stored.
THEOREM FanOutAtomicHolds == Spec => []FanOutAtomic
  <1>1. IngestInv => FanOutAtomic
    BY DEF IngestInv
  <1> QED
    BY <1>1, IngestInvInit, IngestInvStep, PTL DEF Spec

\* The ingest path implements the inbox: a commit is a Store, a 200 is a Tell,
\* every other step is invisible.
THEOREM RefinesInbox == Spec => ImplementsInbox
  <1>1. Init => I!Init
    BY DEF Init, I!Init
  <1>2. IngestInv /\ [Next]_vars => [I!Next]_I!vars
    <2> SUFFICES ASSUME IngestInv, Next
                 PROVE  I!Next \/ UNCHANGED <<receipts, deliveries, acks>>
      BY DEF vars, I!vars
    <2>1. ASSUME NEW r \in Request, Commit(r) \/ CommitUnknown(r)
          PROVE  I!Next
      <3>1. /\ pc[r] = "commit" /\ Publish(r) /\ UNCHANGED acks
        BY <2>1 DEF Commit, CommitUnknown
      <3>2. /\ SameKey(r) = {} /\ fanned[r] = Emitter /\ r \notin Forged
            /\ tries[r] \in 1 .. MaxFaults + 1
        BY <3>1, IngestAssumption
        DEF IngestInv, TypeOK, TriesInv, LockInv, StageInv, Locks, InFlight, Stage
      <3>3. Id(r) \in ReceiptId /\ Id(r)[1] = r
        BY <3>2 DEF Id, ReceiptId
      <3>4. \A j \in receipts : KeyOfId(j) # KeyOfId(Id(r))
        BY <3>2, <3>3 DEF SameKey, KeyOfId
      <3>5. I!Store(Id(r))
        BY <3>1, <3>2, <3>3, <3>4 DEF I!Store, Publish
      <3> QED
        BY <3>3, <3>5 DEF I!Next
    <2>2. ASSUME NEW r \in Request, FetchExisting(r)
          PROVE  I!Next \/ UNCHANGED <<receipts, deliveries, acks>>
      <3>1. UNCHANGED <<receipts, deliveries>>
        BY <2>2 DEF FetchExisting, tables
      <3>2. CASE UNCHANGED acks
        BY <3>1, <3>2
      <3>3. CASE \E i \in SameKey(r) : acks' = acks \cup {<<r, i>>}
        <4>1. PICK i \in SameKey(r) : acks' = acks \cup {<<r, i>>}
          BY <3>3
        <4>2. i \in ReceiptId /\ i \in receipts /\ KeyOfId(i) = KeyOfRequest(r)
          BY <4>1 DEF SameKey, IngestInv, TypeOK, KeyOfRequest
        <4>3. I!Tell(r, i)
          BY <3>1, <4>1, <4>2 DEF I!Tell
        <4> QED
          BY <4>2, <4>3 DEF I!Next
      <3> QED
        BY <2>2, <3>2, <3>3 DEF FetchExisting
    <2>3. ASSUME NEW r \in Request, Record(r)
          PROVE  I!Next
      <3>1. UNCHANGED <<receipts, deliveries>> /\ acks' = acks \cup {<<r, Id(r)>>}
        BY <2>3 DEF Record, tables
      <3>2. Id(r) \in receipts /\ Id(r) \in ReceiptId
        BY <2>3 DEF Record, IngestInv, StageInv, TypeOK
      <3>3. KeyOfId(Id(r)) = KeyOfRequest(r)
        BY DEF KeyOfId, Id, KeyOfRequest
      <3>4. I!Tell(r, Id(r))
        BY <3>1, <3>2, <3>3 DEF I!Tell
      <3> QED
        BY <3>2, <3>4 DEF I!Next
    <2>4. ASSUME NEW r \in Request,
                 \/ Verify(r) \/ CheckFast(r) \/ CheckStorage(r) \/ Begin(r)
                 \/ InsertReceipt(r) \/ FanOutDone(r)
                 \/ StatementFails(r) \/ Cancel(r) \/ AnswerLost(r)
                 \/ \E e \in Emitter : InsertDelivery(r, e)
                 \/ \E p \in Process : Send(r, p)
          PROVE  UNCHANGED <<receipts, deliveries, acks>>
      BY <2>4 DEF Verify, CheckFast, CheckStorage, Begin, InsertReceipt, FanOutDone,
           StatementFails, Cancel, AnswerLost, InsertDelivery, Send, tables
    <2>5. ASSUME NEW p \in Process, Crash(p)
          PROVE  UNCHANGED <<receipts, deliveries, acks>>
      BY <2>5 DEF Crash, tables
    <2> QED
      BY <2>1, <2>2, <2>3, <2>4, <2>5 DEF Next, Handle, Fail
  <1> QED
    BY <1>1, <1>2, IngestInvInit, IngestInvStep, PTL DEF Spec, ImplementsInbox, I!Spec

-----------------------------------------------------------------------------
(***************************************************************************)
(* The advisory cache.                                                     *)
(***************************************************************************)
Elements(s) == {s[n] : n \in DOMAIN s}
Distinct(s) == \A m, n \in DOMAIN s : s[m] = s[n] => m = n

\* A deque without repetitions has as many entries as the map has keys.
LEMMA DistinctLength ==
  ASSUME NEW s \in Seq(Key), Distinct(s)
  PROVE  Cardinality(Elements(s)) = Len(s)
  <1>1. s \in [1 .. Len(s) -> Elements(s)] /\ Len(s) \in Nat
    BY DEF Elements
  <1>2. s \in Bijection(1 .. Len(s), Elements(s))
    BY <1>1 DEF Bijection, Injection, Surjection, IsInjective, Elements, Distinct
  <1>3. ExistsBijection(1 .. Len(s), Elements(s))
    BY <1>2 DEF ExistsBijection
  <1> QED
    BY <1>1, <1>3, FS_CountingElements

\* Popping the oldest key removes it, and only it.
LEMMA EvictOldest ==
  ASSUME NEW s \in Seq(Key), Distinct(s), s # <<>>
  PROVE  /\ Tail(s) \in Seq(Key) /\ Distinct(Tail(s))
         /\ Elements(Tail(s)) = Elements(s) \ {Head(s)}
         /\ Len(Tail(s)) = Len(s) - 1
  <1>1. /\ Tail(s) \in Seq(Key) /\ Len(Tail(s)) = Len(s) - 1
        /\ \A i \in 1 .. Len(Tail(s)) : Tail(s)[i] = s[i + 1]
    BY HeadTailProperties
  <1>2. Len(s) \in Nat \ {0} /\ Head(s) = s[1] /\ DOMAIN s = 1 .. Len(s)
    BY EmptySeq
  <1>3. DOMAIN Tail(s) = 1 .. Len(s) - 1
    BY <1>1
  <1>4. Distinct(Tail(s))
    BY <1>1, <1>2, <1>3 DEF Distinct
  <1>5. ASSUME NEW x \in Elements(s), x # Head(s)
        PROVE  x \in Elements(Tail(s))
    <2>1. PICK n \in DOMAIN s : x = s[n]
      BY DEF Elements
    <2>2. n # 1 /\ n - 1 \in DOMAIN Tail(s)
      BY <1>2, <1>3, <1>5, <2>1
    <2>3. Tail(s)[n - 1] = x
      BY <1>1, <1>2, <1>3, <2>1, <2>2
    <2> QED
      BY <2>2, <2>3 DEF Elements
  <1>6. ASSUME NEW x \in Elements(Tail(s))
        PROVE  x \in Elements(s) /\ x # Head(s)
    <2>1. PICK n \in DOMAIN Tail(s) : x = Tail(s)[n]
      BY DEF Elements
    <2>2. n + 1 \in DOMAIN s /\ x = s[n + 1] /\ n + 1 # 1 /\ 1 \in DOMAIN s
      BY <1>1, <1>2, <1>3, <2>1
    <2> QED
      BY <1>2, <2>2 DEF Elements, Distinct
  <1> QED
    BY <1>1, <1>4, <1>5, <1>6

\* Pushing a new key adds it, and only it.
LEMMA PushNewest ==
  ASSUME NEW s \in Seq(Key), Distinct(s), NEW k \in Key, k \notin Elements(s)
  PROVE  /\ Distinct(Append(s, k))
         /\ Elements(Append(s, k)) = Elements(s) \cup {k}
         /\ Len(Append(s, k)) = Len(s) + 1
  <1> DEFINE t == Append(s, k)
  <1>1. /\ t \in Seq(Key) /\ Len(t) = Len(s) + 1
        /\ \A i \in 1 .. Len(s) : t[i] = s[i]
        /\ t[Len(s) + 1] = k
    BY AppendProperties
  <1>2. Len(s) \in Nat /\ DOMAIN s = 1 .. Len(s) /\ DOMAIN t = 1 .. Len(s) + 1
    BY <1>1
  <1> HIDE DEF t
  <1>3. ASSUME NEW n \in DOMAIN t
        PROVE  \/ n \in DOMAIN s /\ t[n] = s[n]
               \/ n = Len(s) + 1 /\ t[n] = k
    <2>1. n \in 1 .. Len(s) \/ n = Len(s) + 1
      BY <1>2
    <2> QED
      BY <1>1, <1>2, <2>1
  <1>4. Distinct(t)
    <2> SUFFICES ASSUME NEW m \in DOMAIN t, NEW n \in DOMAIN t, t[m] = t[n]
                 PROVE  m = n
      BY DEF Distinct
    <2>1. \A i \in DOMAIN s : s[i] # k
      BY DEF Elements
    <2> QED
      BY <1>3, <2>1 DEF Distinct
  <1>5. Elements(t) = Elements(s) \cup {k}
    <2>1. \A n \in DOMAIN s : n \in DOMAIN t /\ t[n] = s[n]
      BY <1>1, <1>2
    <2>2. Len(s) + 1 \in DOMAIN t
      BY <1>2
    <2> QED
      BY <1>1, <1>3, <2>1, <2>2 DEF Elements
  <1> QED
    BY <1>1, <1>4, <1>5 DEF t

\* How many of the keys it was given a cache knows.
Known(l) == IF Len(l) < Capacity THEN Len(l) ELSE Capacity

\* The deque holds the last keys the cache was given.
IsRecent(s, l) ==
  /\ Len(s) = Known(l)
  /\ \A n \in 1 .. Known(l) : s[n] = l[Len(l) - Known(l) + n]

\* A deque that is not full grows by the new key.
LEMMA RecentGrows ==
  ASSUME NEW s \in Seq(Key), NEW l \in Seq(Key), NEW k \in Key,
         IsRecent(s, l), Len(s) < Capacity
  PROVE  IsRecent(Append(s, k), Append(l, k))
  <1> DEFINE t == Append(s, k)
             u == Append(l, k)
  <1>1. Capacity \in Nat /\ Len(s) \in Nat /\ Len(l) \in Nat
    BY IngestAssumption
  <1>2. Len(s) = Len(l) /\ Known(l) = Len(l)
    BY <1>1 DEF IsRecent, Known
  <1>3. /\ Len(t) = Len(s) + 1 /\ t[Len(s) + 1] = k
        /\ \A n \in 1 .. Len(s) : t[n] = s[n]
    BY AppendProperties
  <1>4. /\ Len(u) = Len(l) + 1 /\ u[Len(l) + 1] = k
        /\ \A n \in 1 .. Len(l) : u[n] = l[n]
    BY AppendProperties
  <1> HIDE DEF t, u
  <1>5. Known(u) = Len(l) + 1
    BY <1>1, <1>2, <1>4 DEF Known
  <1>6. ASSUME NEW n \in 1 .. Len(l) + 1
        PROVE  t[n] = u[n]
    <2>1. CASE n = Len(l) + 1
      BY <1>2, <1>3, <1>4, <2>1
    <2>2. CASE n \in 1 .. Len(l)
      <3>1. s[n] = l[n]
        <4>1. s[n] = l[Len(l) - Len(l) + n]
          BY <1>2, <2>2 DEF IsRecent
        <4> QED
          BY <1>1, <2>2, <4>1
      <3> QED
        BY <1>2, <1>3, <1>4, <2>2, <3>1
    <2> QED
      BY <1>1, <2>1, <2>2
  <1>7. ASSUME NEW n \in 1 .. Known(u)
        PROVE  t[n] = u[Len(u) - Known(u) + n]
    <2>1. Len(u) - Known(u) + n = n
      BY <1>1, <1>4, <1>5
    <2> QED
      BY <1>5, <1>6, <2>1
  <1> QED
    BY <1>2, <1>3, <1>5, <1>7 DEF IsRecent, t, u

\* A full deque exchanges the oldest key for the new one.
LEMMA RecentShifts ==
  ASSUME NEW s \in Seq(Key), NEW l \in Seq(Key), NEW k \in Key,
         IsRecent(s, l), Len(s) >= Capacity
  PROVE  IsRecent(Append(Tail(s), k), Append(l, k))
  <1> DEFINE v == Tail(s)
             t == Append(v, k)
             u == Append(l, k)
  <1>1. Capacity \in Nat \ {0} /\ Len(s) \in Nat /\ Len(l) \in Nat
    BY IngestAssumption
  <1>2. Len(s) = Capacity /\ Known(l) = Capacity /\ Len(l) >= Capacity
    BY <1>1 DEF IsRecent, Known
  <1>3. s # <<>>
    BY <1>1, <1>2, EmptySeq
  <1>4. /\ v \in Seq(Key) /\ Len(v) = Len(s) - 1
        /\ \A n \in 1 .. Len(v) : v[n] = s[n + 1]
    BY <1>3, HeadTailProperties
  <1> HIDE DEF v
  <1>5. /\ Len(t) = Len(v) + 1 /\ t[Len(v) + 1] = k
        /\ \A n \in 1 .. Len(v) : t[n] = v[n]
    BY <1>4, AppendProperties
  <1>6. /\ Len(u) = Len(l) + 1 /\ u[Len(l) + 1] = k
        /\ \A n \in 1 .. Len(l) : u[n] = l[n]
    BY AppendProperties
  <1> HIDE DEF t, u
  <1>7. Known(u) = Capacity
    BY <1>1, <1>2, <1>6 DEF Known
  <1>8. ASSUME NEW n \in 1 .. Capacity
        PROVE  t[n] = u[Len(l) + 1 - Capacity + n]
    <2>1. CASE n = Capacity
      <3>1. Len(l) + 1 - Capacity + n = Len(l) + 1 /\ Len(v) + 1 = n
        BY <1>1, <1>2, <1>4, <2>1
      <3> QED
        BY <1>5, <1>6, <3>1
    <2>2. CASE n # Capacity
      <3>1. /\ n \in 1 .. Len(v) /\ n + 1 \in 1 .. Capacity
            /\ Len(l) - Capacity + (n + 1) \in 1 .. Len(l)
            /\ Len(l) + 1 - Capacity + n = Len(l) - Capacity + (n + 1)
        BY <1>1, <1>2, <1>4, <2>2
      <3>2. s[n + 1] = l[Len(l) - Capacity + (n + 1)]
        BY <1>2, <3>1 DEF IsRecent
      <3> QED
        BY <1>4, <1>5, <1>6, <3>1, <3>2
    <2> QED
      BY <2>1, <2>2
  <1>9. Len(t) = Known(u)
    BY <1>1, <1>2, <1>4, <1>5, <1>7
  <1>10. ASSUME NEW n \in 1 .. Known(u)
         PROVE  t[n] = u[Len(u) - Known(u) + n]
    <2>1. Len(u) - Known(u) + n = Len(l) + 1 - Capacity + n
      BY <1>1, <1>6, <1>7
    <2> QED
      BY <1>7, <1>8, <2>1
  <1>11. IsRecent(t, u)
    BY <1>9, <1>10 DEF IsRecent
  <1> QED
    BY <1>11 DEF t, u, v

\* What CacheCoherent says of one process.
Coherent(p) ==
  /\ IsRecent(order[p], learnt[p])
  /\ map[p] = Elements(order[p])
  /\ Distinct(order[p])
  /\ \A k \in map[p] : \E i \in receipts : KeyOfId(i) = k

\* record() of the key of a stored receipt keeps map and deque in step, and the
\* deque at the last keys given.
LEMMA RememberStep ==
  ASSUME NEW p \in Process, NEW k \in Key, TypeOK, Coherent(p), Remember(p, k),
         learnt' = IF k \in map[p] THEN learnt
                   ELSE [learnt EXCEPT ![p] = Append(@, k)],
         receipts \subseteq receipts', \E i \in receipts : KeyOfId(i) = k
  PROVE  Coherent(p)'
  <1> USE IngestAssumption
  <1>1. /\ order[p] \in Seq(Key) /\ Distinct(order[p]) /\ map[p] = Elements(order[p])
        /\ learnt[p] \in Seq(Key) /\ IsRecent(order[p], learnt[p])
    BY DEF TypeOK, Coherent
  <1>2. /\ map \in [Process -> SUBSET Key] /\ order \in [Process -> Seq(Key)]
        /\ learnt \in [Process -> Seq(Key)]
    BY DEF TypeOK
  <1>3. CASE k \in map[p]
    <2>1. map' = map /\ order' = order /\ learnt' = learnt
      BY <1>3 DEF Remember
    <2> QED
      BY <2>1 DEF Coherent, KeyOfId
  <1>4. CASE k \notin map[p]
    <2> DEFINE full == Cardinality(map[p]) >= Capacity /\ order[p] # <<>>
               s == IF full THEN Tail(order[p]) ELSE order[p]
               S == IF full THEN map[p] \ {Head(order[p])} ELSE map[p]
    <2>1. Cardinality(map[p]) = Len(order[p]) /\ Len(order[p]) \in Nat
      BY <1>1, DistinctLength
    <2>2. s \in Seq(Key) /\ Distinct(s) /\ S = Elements(s) /\ S \subseteq map[p]
      BY <1>1, EvictOldest
    <2>3. IsRecent(Append(s, k), Append(learnt[p], k))
      <3>1. CASE full
        BY <1>1, <2>1, <3>1, RecentShifts
      <3>2. CASE ~full
        <4>1. Len(order[p]) < Capacity
          <5>1. CASE order[p] = <<>>
            BY <5>1
          <5>2. CASE order[p] # <<>>
            BY <2>1, <3>2, <5>2
          <5> QED
            BY <5>1, <5>2
        <4> QED
          BY <1>1, <3>2, <4>1, RecentGrows
      <3> QED
        BY <3>1, <3>2
    <2>4. /\ map' = [map EXCEPT ![p] = S \cup {k}] /\ order' = [order EXCEPT ![p] = Append(s, k)]
          /\ learnt' = [learnt EXCEPT ![p] = Append(learnt[p], k)]
      BY <1>4 DEF Remember
    <2> HIDE DEF s, S
    <2>5. /\ map'[p] = S \cup {k} /\ order'[p] = Append(s, k)
          /\ learnt'[p] = Append(learnt[p], k)
      BY <1>2, <2>4
    <2>6. k \notin Elements(s)
      BY <1>4, <2>2
    <2>7. Distinct(order'[p]) /\ map'[p] = Elements(order'[p])
      BY <2>2, <2>5, <2>6, PushNewest
    <2>8. \A x \in map'[p] : \E i \in receipts' : KeyOfId(i) = x
      BY <2>2, <2>5 DEF Coherent
    <2>9. IsRecent(order'[p], learnt'[p])
      BY <2>3, <2>5
    <2> QED
      BY <2>7, <2>8, <2>9 DEF Coherent, Elements, Distinct, KeyOfId, IsRecent, Known
  <1> QED
    BY <1>3, <1>4

\* The cache of every process stays coherent through concurrent requests,
\* evictions and crashes, for every capacity.
THEOREM CacheCoherentHolds == Spec => []CacheCoherent
  <1> DEFINE Inv == \A p \in Process : Coherent(p)
  <1>1. Init => Inv
    BY IngestAssumption DEF Init, Coherent, Elements, Distinct, IsRecent, Known
  <1>2. Inv /\ IngestInv /\ [Next]_vars => Inv'
    <2> SUFFICES ASSUME Inv, IngestInv, [Next]_vars, NEW p \in Process
                 PROVE  Coherent(p)'
      OBVIOUS
    <2>0. receipts \subseteq receipts'
      BY DEF Next, Handle, Fail, Send, Verify, CheckFast, CheckStorage, Begin, InsertReceipt,
         FetchExisting, InsertDelivery, FanOutDone, Commit, Record, StatementFails,
         CommitUnknown, Cancel, AnswerLost, Crash, Publish, tables, vars
    <2>1. CASE map'[p] = map[p] /\ order'[p] = order[p] /\ learnt'[p] = learnt[p]
      BY <2>0, <2>1 DEF Coherent, Elements, Distinct, KeyOfId, IsRecent, Known
    <2>2. ASSUME NEW q \in Process, Crash(q)
          PROVE  Coherent(p)'
      <3>1. CASE p = q
        <4>1. map'[p] = {} /\ order'[p] = <<>> /\ learnt'[p] = <<>>
          BY <2>2, <3>1 DEF Crash, IngestInv, TypeOK
        <4> QED
          BY <4>1, IngestAssumption DEF Coherent, Elements, Distinct, IsRecent, Known
      <3>2. CASE p # q
        BY <2>1, <2>2, <3>2 DEF Crash, IngestInv, TypeOK
      <3> QED
        BY <3>1, <3>2
    <2>3. ASSUME NEW r \in Request, Record(r)
          PROVE  Coherent(p)'
      <3>1. /\ Remember(host[r], KeyOf[r]) /\ host[r] \in Process /\ KeyOf[r] \in Key
            /\ learnt' = IF KeyOf[r] \in map[host[r]] THEN learnt
                         ELSE [learnt EXCEPT ![host[r]] = Append(@, KeyOf[r])]
        BY <2>3, IngestAssumption DEF Record, IngestInv, TypeOK
      <3>2. Id(r) \in receipts /\ KeyOfId(Id(r)) = KeyOf[r]
        BY <2>3 DEF Record, IngestInv, StageInv, KeyOfId, Id
      <3>3. CASE p = host[r]
        BY <2>0, <3>1, <3>2, <3>3, RememberStep DEF IngestInv
      <3>4. CASE p # host[r]
        BY <2>1, <3>1, <3>4 DEF Remember, IngestInv, TypeOK
      <3> QED
        BY <3>3, <3>4
    <2>4. \/ UNCHANGED cache
          \/ \E q \in Process : Crash(q)
          \/ \E r \in Request : Record(r)
      BY DEF Next, Handle, Fail, Send, Verify, CheckFast, CheckStorage, Begin, InsertReceipt,
         FetchExisting, InsertDelivery, FanOutDone, Commit, StatementFails,
         CommitUnknown, Cancel, AnswerLost, cache, vars
    <2> QED
      BY <2>1, <2>2, <2>3, <2>4 DEF cache
  <1>3. Inv => CacheCoherent
    BY DEF Coherent, CacheCoherent, Elements, Distinct, IsRecent, Known
  <1> QED
    BY <1>1, <1>2, <1>3, IngestInvInit, IngestInvStep, PTL DEF Spec
=============================================================================
