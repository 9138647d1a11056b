-------------------------- MODULE LegacyRetryProofs --------------------------
(***************************************************************************)
(* Theorems about LegacyRetry, for any receipts, workers, operators, batch *)
(* limit, resets and failing statements.                                   *)
(*                                                                         *)
(* The argument has three parts.  What a reader has read and not handled   *)
(* is a set of receipts, of which it takes the oldest (Next1Member).  A    *)
(* receipt that is emitted while somebody still holds it from a query is   *)
(* marked late for him (LateInv), so only late readers reopen it.  And the *)
(* count of a receipt, together with the workers that hold it and may      *)
(* still add one each, never exceeds max_attempts - 1 plus the workers     *)
(* (Overshoot): a query hands out only receipts below max_attempts.        *)
(***************************************************************************)
EXTENDS LegacyRetry, TLAPS, FiniteSetTheorems, WellFoundedInduction

\* The workers that hold receipt r from a query.
Readers(r) == {w \in RetryWorker : r \in batch[w]}

LateInv ==
  \A a \in Actor, r \in Receipt :
    r \in batch[a] /\ processing_state[r] = "emitted" => r \in late[a]

Overshoot ==
  \A r \in Receipt :
    emit_count[r] + Cardinality(Readers(r)) <= MaxAttempts - 1 + Cardinality(RetryWorker)

-----------------------------------------------------------------------------
\* The natural numbers are well-ordered: the next receipt of a batch is its oldest.
LEMMA Next1Member ==
  ASSUME NEW S, S \subseteq Nat, S # {}
  PROVE  Next1(S) \in S
<1>. DEFINE Less == {p \in Nat \X Nat : p[1] < p[2]}
<1>1. IsWellFoundedOn(Less, Nat)
  BY NatLessThanWellFounded, Zenon DEF OpToRel
<1>2. PICK x \in S : \A y \in S : ~ (<<y, x>> \in Less)
  <2>. HIDE DEF Less
  <2>. QED BY <1>1, WFMin
<1>3. ASSUME NEW y \in S
      PROVE  x <= y
  <2>1. <<y, x>> \in Nat \X Nat /\ <<y, x>>[1] = y /\ <<y, x>>[2] = x
    OBVIOUS
  <2>2. ~ (y < x)
    BY <1>2, <2>1, Zenon
  <2>. QED BY <2>2
<1>. QED
  BY <1>3 DEF Next1

\* What a query may hand out.
LEMMA OldestSubset ==
  ASSUME NEW S
  PROVE  Oldest(S) \subseteq S
BY DEF Oldest

-----------------------------------------------------------------------------
\* The columns and the memories of the readers keep their types.
LEMMA LegacyTypeInductive ==
  ASSUME LegacyTypeOK, [LegacyNext]_retryVars
  PROVE  LegacyTypeOK'
<1>. USE LegacyRetryAssumption DEF LegacyTypeOK, Actor
<1>0. \A a \in Actor : batch[a] # {} => Next1(batch[a]) \in Receipt
  BY Next1Member
<1>1. CASE UNCHANGED retryVars
  BY <1>1 DEF retryVars
<1>2. ASSUME NEW w \in RetryWorker, QueryForRetry(w)
      PROVE  LegacyTypeOK'
  <2>1. Oldest({r \in Receipt : IsFindable(r)}) \subseteq Receipt
    BY OldestSubset
  <2>. QED BY <1>2, <2>1 DEF QueryForRetry, receiptColumns
<1>3. ASSUME NEW w \in RetryWorker, RetryEmit(w)
      PROVE  LegacyTypeOK'
  BY <1>3 DEF RetryEmit, receiptColumns
<1>4. ASSUME NEW w \in RetryWorker, UpdateStateEmitted(w)
      PROVE  LegacyTypeOK'
  <2>. DEFINE r == Next1(batch[w])
  <2>1. r \in Receipt
    BY <1>0, <1>4 DEF UpdateStateEmitted
  <2>2. processing_state' \in [Receipt -> ProcessingState]
    BY <1>4 DEF UpdateStateEmitted, ProcessingState
  <2>3. late' \in [Actor -> SUBSET Receipt]
    BY <1>4, <2>1 DEF UpdateStateEmitted
  <2>. QED BY <1>4, <2>2, <2>3 DEF UpdateStateEmitted, RetryDone
<1>5. ASSUME NEW w \in RetryWorker, RetryFailed(w)
      PROVE  LegacyTypeOK'
  <2>. DEFINE r == Next1(batch[w])
  <2>1. r \in Receipt /\ emit_count[r] \in Nat
    BY <1>0, <1>5 DEF RetryFailed
  <2>2. /\ RetryNextState(emit_count[r])[1] \in Nat
        /\ RetryNextState(emit_count[r])[2] \in ProcessingState
    BY <2>1 DEF RetryNextState, ProcessingState
  <2>. QED BY <1>5, <2>2 DEF RetryFailed, RetryDone
<1>6. ASSUME NEW w \in RetryWorker, RecordFails(w)
      PROVE  LegacyTypeOK'
  BY <1>6 DEF RecordFails, receiptColumns
<1>7. ASSUME NEW o \in Operator, NEW R \in SUBSET Receipt, ReplayFailed(o, R)
      PROVE  LegacyTypeOK'
  <2>1. Oldest(QueryFailedSince(R)) \subseteq Receipt
    BY OldestSubset DEF QueryFailedSince
  <2>. QED BY <1>7, <2>1 DEF ReplayFailed, receiptColumns
<1>8. ASSUME NEW o \in Operator, ResetForRetry(o)
      PROVE  LegacyTypeOK'
  BY <1>8 DEF ResetForRetry, ResetState, RetryDone, ProcessingState
<1>9. ASSUME NEW o \in Operator, ResetFails(o)
      PROVE  LegacyTypeOK'
  BY <1>9 DEF ResetFails, receiptColumns
<1>. QED
  BY <1>1, <1>2, <1>3, <1>4, <1>5, <1>6, <1>7, <1>8, <1>9
  DEF LegacyNext, RetryWorkerStep, OperatorStep

\* The columns of an old database have their types.
LEMMA LegacyTypeInitial == LegacyInit => LegacyTypeOK
BY LegacyRetryAssumption DEF LegacyInit, LegacyTypeOK

(***************************************************************************)
(* The columns the RetryWorker and `replay failed` write, and what they    *)
(* remember of what they read, keep their types.                           *)
(***************************************************************************)
THEOREM LegacyTypeCorrect == LegacySpec => []LegacyTypeOK
BY LegacyTypeInitial, LegacyTypeInductive, PTL DEF LegacySpec

-----------------------------------------------------------------------------
\* Count and state of a receipt are written in one statement, so no step
\* parts them.
LEMMA NeverStuckInductive ==
  ASSUME LegacyTypeOK, NeverStuck, [LegacyNext]_retryVars
  PROVE  NeverStuck'
<1>. USE LegacyRetryAssumption DEF LegacyTypeOK, NeverStuck
<1>0. \A a \in Actor : batch[a] # {} => Next1(batch[a]) \in Receipt
  BY Next1Member
<1>1. CASE UNCHANGED receiptColumns
  BY <1>1 DEF receiptColumns
<1>2. ASSUME NEW w \in RetryWorker, UpdateStateEmitted(w)
      PROVE  NeverStuck'
  BY <1>2 DEF UpdateStateEmitted
<1>3. ASSUME NEW w \in RetryWorker, RetryFailed(w)
      PROVE  NeverStuck'
  <2>. DEFINE r == Next1(batch[w])
  <2>1. r \in Receipt /\ emit_count[r] \in Nat
    BY <1>0, <1>3 DEF RetryFailed, Actor
  <2>2. emit_count'[r] = emit_count[r] + 1
    BY <1>3, <2>1 DEF RetryFailed, RetryNextState
  <2>3. processing_state'[r] = IF emit_count[r] + 1 >= MaxAttempts THEN "dead_lettered" ELSE "emit_failed"
    BY <1>3, <2>1 DEF RetryFailed, RetryNextState
  <2>4. \A q \in Receipt \ {r} : emit_count'[q] = emit_count[q] /\ processing_state'[q] = processing_state[q]
    BY <1>3 DEF RetryFailed
  <2>. QED BY <2>1, <2>2, <2>3, <2>4
<1>4. ASSUME NEW o \in Operator, ResetForRetry(o)
      PROVE  NeverStuck'
  BY <1>4 DEF ResetForRetry, ResetState
<1>. QED
  BY <1>1, <1>2, <1>3, <1>4
  DEF LegacyNext, RetryWorkerStep, OperatorStep, QueryForRetry, RetryEmit, RecordFails,
      ReplayFailed, ResetFails, retryVars, receiptColumns

(***************************************************************************)
(* No interleaving of late retry_failed, update_state and reset_for_retry  *)
(* leaves a receipt in emit_failed that query_for_retry does not find.     *)
(***************************************************************************)
THEOREM NeverStuckHolds == LegacySpec => []NeverStuck
<1>1. LegacyInit => NeverStuck
  BY LegacyRetryAssumption DEF LegacyInit, NeverStuck
<1>. QED
  BY <1>1, LegacyTypeCorrect, NeverStuckInductive, PTL DEF LegacySpec

-----------------------------------------------------------------------------
\* Marking a receipt emitted makes everybody else who holds it late.
LEMMA LateInductive ==
  ASSUME LegacyTypeOK, LateInv, [LegacyNext]_retryVars
  PROVE  LateInv'
<1>. USE LegacyRetryAssumption DEF LegacyTypeOK, LateInv, Actor
<1>0. \A a \in Actor : batch[a] # {} => Next1(batch[a]) \in Receipt
  BY Next1Member
<1>1. CASE UNCHANGED retryVars
  BY <1>1 DEF retryVars
<1>2. ASSUME NEW w \in RetryWorker, QueryForRetry(w)
      PROVE  LateInv'
  <2>1. \A r \in Oldest({q \in Receipt : IsFindable(q)}) : processing_state[r] # "emitted"
    BY OldestSubset DEF IsFindable
  <2>. QED BY <1>2, <2>1 DEF QueryForRetry, receiptColumns
<1>3. ASSUME NEW w \in RetryWorker, RetryEmit(w)
      PROVE  LateInv'
  BY <1>3 DEF RetryEmit, receiptColumns
<1>4. ASSUME NEW w \in RetryWorker, UpdateStateEmitted(w)
      PROVE  LateInv'
  <2>. SUFFICES ASSUME NEW a \in Actor, NEW q \in Receipt, q \in batch'[a], processing_state'[q] = "emitted"
                PROVE  q \in late'[a]
    OBVIOUS
  <2>1. q \in batch[a]
    BY <1>4 DEF UpdateStateEmitted, RetryDone
  <2>2. CASE q = Next1(batch[w])
    BY <1>4, <2>1, <2>2 DEF UpdateStateEmitted, RetryDone
  <2>3. CASE q # Next1(batch[w])
    BY <1>4, <2>1, <2>3 DEF UpdateStateEmitted
  <2>. QED BY <2>2, <2>3
<1>5. ASSUME NEW w \in RetryWorker, RetryFailed(w)
      PROVE  LateInv'
  BY <1>0, <1>5 DEF RetryFailed, RetryNextState, RetryDone
<1>6. ASSUME NEW w \in RetryWorker, RecordFails(w)
      PROVE  LateInv'
  BY <1>6 DEF RecordFails, receiptColumns
<1>7. ASSUME NEW o \in Operator, NEW R \in SUBSET Receipt, ReplayFailed(o, R)
      PROVE  LateInv'
  <2>1. \A r \in Oldest(QueryFailedSince(R)) : processing_state[r] # "emitted"
    BY OldestSubset DEF QueryFailedSince, Failed
  <2>. QED BY <1>7, <2>1 DEF ReplayFailed, receiptColumns
<1>8. ASSUME NEW o \in Operator, ResetForRetry(o)
      PROVE  LateInv'
  BY <1>0, <1>8 DEF ResetForRetry, ResetState, RetryDone
<1>9. ASSUME NEW o \in Operator, ResetFails(o)
      PROVE  LateInv'
  BY <1>9 DEF ResetFails, receiptColumns
<1>. QED
  BY <1>1, <1>2, <1>3, <1>4, <1>5, <1>6, <1>7, <1>8, <1>9
  DEF LegacyNext, RetryWorkerStep, OperatorStep

\* A step that reopens an emitted receipt is the write of a late reader.
LEMMA ReopenedByLate ==
  ASSUME LegacyTypeOK, LateInv, [LegacyNext]_retryVars, NEW r \in Receipt,
         processing_state[r] = "emitted", processing_state'[r] \in Failed
  PROVE  \E a \in Actor : r \in late[a] /\ r \in batch[a] /\ r \notin batch'[a]
<1>. USE LegacyRetryAssumption DEF LegacyTypeOK, Actor
<1>1. \A a \in Actor : batch[a] # {} => Next1(batch[a]) \in batch[a]
  BY Next1Member
<1>2. ASSUME NEW w \in RetryWorker, RetryFailed(w)
      PROVE  r \in late[w] /\ r \in batch[w] /\ r \notin batch'[w]
  <2>1. r = Next1(batch[w])
    BY <1>2 DEF RetryFailed, Failed
  <2>2. r \in batch[w] /\ r \notin batch'[w]
    BY <1>1, <1>2, <2>1 DEF RetryFailed, RetryDone
  <2>. QED BY <2>2 DEF LateInv
<1>3. ASSUME NEW o \in Operator, ResetForRetry(o)
      PROVE  r \in late[o] /\ r \in batch[o] /\ r \notin batch'[o]
  <2>1. r = Next1(batch[o])
    BY <1>3 DEF ResetForRetry, Failed
  <2>2. r \in batch[o] /\ r \notin batch'[o]
    BY <1>1, <1>3, <2>1 DEF ResetForRetry, RetryDone
  <2>. QED BY <2>2 DEF LateInv
<1>4. ASSUME NEW w \in RetryWorker, UpdateStateEmitted(w)
      PROVE  FALSE
  BY <1>4 DEF UpdateStateEmitted, Failed
<1>5. CASE UNCHANGED receiptColumns
  BY <1>5 DEF receiptColumns, Failed
<1>. QED
  BY <1>2, <1>3, <1>4, <1>5
  DEF LegacyNext, RetryWorkerStep, OperatorStep, QueryForRetry, RetryEmit, RecordFails,
      ReplayFailed, ResetFails, retryVars, receiptColumns

(***************************************************************************)
(* An emitted receipt is reopened only by one who read it as failed before *)
(* it was marked emitted.                                                  *)
(***************************************************************************)
THEOREM OnlyStaleReadersReopenHolds == LegacySpec => OnlyStaleReadersReopen
<1>1. LegacyInit => LateInv
  BY DEF LegacyInit, LateInv
<1>2. LegacySpec => []LateInv
  BY <1>1, LegacyTypeCorrect, LateInductive, PTL DEF LegacySpec
<1>3. LegacyTypeOK /\ LateInv /\ [LegacyNext]_retryVars
        => [\A r \in Receipt :
              processing_state[r] = "emitted" /\ processing_state'[r] \in Failed
                => \E a \in Actor : r \in late[a] /\ r \in batch[a] /\ r \notin batch'[a]]_retryVars
  BY ReopenedByLate
<1>. QED
  BY <1>2, <1>3, LegacyTypeCorrect, PTL DEF LegacySpec, OnlyStaleReadersReopen

-----------------------------------------------------------------------------
\* The workers that hold a receipt are finitely many.
LEMMA ReadersBounded ==
  ASSUME NEW r
  PROVE  /\ IsFiniteSet(Readers(r))
         /\ Cardinality(Readers(r)) \in Nat
         /\ Cardinality(RetryWorker) \in Nat
         /\ Cardinality(Readers(r)) <= Cardinality(RetryWorker)
BY LegacyRetryAssumption, FS_Subset, FS_CardinalityType DEF Readers

\* With fewer readers and no higher count the bound is kept.
LEMMA FewerReaders ==
  ASSUME LegacyTypeOK, Overshoot, NEW r \in Receipt,
         \A w \in RetryWorker : r \in batch'[w] => r \in batch[w],
         emit_count'[r] = emit_count[r]
  PROVE  emit_count'[r] + Cardinality(Readers(r)') <= MaxAttempts - 1 + Cardinality(RetryWorker)
<1>1. Readers(r)' \subseteq Readers(r)
  BY DEF Readers
<1>2. IsFiniteSet(Readers(r)) /\ Cardinality(Readers(r)) \in Nat /\ Cardinality(RetryWorker) \in Nat
  BY ReadersBounded
<1>3. Cardinality(Readers(r)') <= Cardinality(Readers(r)) /\ Cardinality(Readers(r)') \in Nat
  BY <1>1, <1>2, FS_Subset, FS_CardinalityType
<1>4. emit_count[r] \in Nat /\ MaxAttempts \in Nat
  BY LegacyRetryAssumption DEF LegacyTypeOK
<1>. QED
  BY <1>2, <1>3, <1>4 DEF Overshoot

\* A count below max_attempts is within the bound, whoever reads it.
LEMMA FreshCount ==
  ASSUME NEW r \in Receipt, emit_count'[r] \in Nat, emit_count'[r] < MaxAttempts
  PROVE  emit_count'[r] + Cardinality(Readers(r)') <= MaxAttempts - 1 + Cardinality(RetryWorker)
<1>1. Readers(r)' \subseteq RetryWorker
  BY DEF Readers
<1>2. /\ Cardinality(Readers(r)') \in Nat /\ Cardinality(RetryWorker) \in Nat
      /\ Cardinality(Readers(r)') <= Cardinality(RetryWorker)
  BY <1>1, LegacyRetryAssumption, FS_Subset, FS_CardinalityType
<1>. QED
  BY <1>2, LegacyRetryAssumption

\* A worker that adds to a count lets go of the receipt with it.
LEMMA OvershootInductive ==
  ASSUME LegacyTypeOK, Overshoot, [LegacyNext]_retryVars
  PROVE  Overshoot'
<1>. USE LegacyRetryAssumption DEF LegacyTypeOK, Actor
<1>. SUFFICES ASSUME NEW r \in Receipt
              PROVE  emit_count'[r] + Cardinality(Readers(r)')
                       <= MaxAttempts - 1 + Cardinality(RetryWorker)
  BY DEF Overshoot
<1>0. \A a \in Actor : batch[a] # {} => Next1(batch[a]) \in batch[a]
  BY Next1Member
<1>1. CASE UNCHANGED <<emit_count, batch>>
  BY <1>1, FewerReaders
<1>2. ASSUME NEW w \in RetryWorker, QueryForRetry(w)
      PROVE  emit_count'[r] + Cardinality(Readers(r)') <= MaxAttempts - 1 + Cardinality(RetryWorker)
  <2>1. CASE IsFindable(r)
    BY <1>2, <2>1, FreshCount DEF QueryForRetry, IsFindable, receiptColumns
  <2>2. CASE ~IsFindable(r)
    <3>1. r \notin Oldest({q \in Receipt : IsFindable(q)})
      BY <2>2, OldestSubset
    <3>. QED BY <1>2, <3>1, FewerReaders DEF QueryForRetry, receiptColumns
  <2>. QED BY <2>1, <2>2
<1>3. ASSUME NEW w \in RetryWorker, UpdateStateEmitted(w)
      PROVE  emit_count'[r] + Cardinality(Readers(r)') <= MaxAttempts - 1 + Cardinality(RetryWorker)
  BY <1>3, FewerReaders DEF UpdateStateEmitted, RetryDone
<1>4. ASSUME NEW w \in RetryWorker, RetryFailed(w)
      PROVE  emit_count'[r] + Cardinality(Readers(r)') <= MaxAttempts - 1 + Cardinality(RetryWorker)
  <2>1. CASE r = Next1(batch[w])
    <3>1. w \in Readers(r) /\ Readers(r)' = Readers(r) \ {w}
      BY <1>0, <1>4, <2>1 DEF RetryFailed, RetryDone, Readers
    <3>2. Cardinality(Readers(r)') = Cardinality(Readers(r)) - 1
      <4>1. IsFiniteSet(Readers(r))
        BY ReadersBounded
      <4>2. Cardinality(Readers(r) \ {w}) = Cardinality(Readers(r)) - 1
        BY <3>1, <4>1, FS_RemoveElement, Zenon
      <4>. QED BY <3>1, <4>2
    <3>3. emit_count'[r] = emit_count[r] + 1
      BY <1>4, <2>1 DEF RetryFailed, RetryNextState
    <3>4. Cardinality(Readers(r)) \in Nat /\ emit_count[r] \in Nat /\ Cardinality(RetryWorker) \in Nat
      BY ReadersBounded
    <3>. QED BY <3>2, <3>3, <3>4 DEF Overshoot
  <2>2. CASE r # Next1(batch[w])
    BY <1>4, <2>2, FewerReaders DEF RetryFailed, RetryDone
  <2>. QED BY <2>1, <2>2
<1>5. ASSUME NEW w \in RetryWorker, RecordFails(w)
      PROVE  emit_count'[r] + Cardinality(Readers(r)') <= MaxAttempts - 1 + Cardinality(RetryWorker)
  BY <1>5, FewerReaders DEF RecordFails, receiptColumns
<1>6. ASSUME NEW o \in Operator, NEW R \in SUBSET Receipt, ReplayFailed(o, R)
      PROVE  emit_count'[r] + Cardinality(Readers(r)') <= MaxAttempts - 1 + Cardinality(RetryWorker)
  BY <1>6, FewerReaders DEF ReplayFailed, receiptColumns
<1>7. ASSUME NEW o \in Operator, ResetForRetry(o)
      PROVE  emit_count'[r] + Cardinality(Readers(r)') <= MaxAttempts - 1 + Cardinality(RetryWorker)
  <2>1. CASE r = Next1(batch[o])
    BY <1>7, <2>1, FreshCount DEF ResetForRetry, ResetState
  <2>2. CASE r # Next1(batch[o])
    BY <1>7, <2>2, FewerReaders DEF ResetForRetry, RetryDone
  <2>. QED BY <2>1, <2>2
<1>8. ASSUME NEW o \in Operator, ResetFails(o)
      PROVE  emit_count'[r] + Cardinality(Readers(r)') <= MaxAttempts - 1 + Cardinality(RetryWorker)
  BY <1>8, FewerReaders DEF ResetFails, receiptColumns
<1>. QED
  BY <1>1, <1>2, <1>3, <1>4, <1>5, <1>6, <1>7, <1>8
  DEF LegacyNext, RetryWorkerStep, OperatorStep, RetryEmit, retryVars, receiptColumns

(***************************************************************************)
(* Where workers run, any number of them overshoot max_attempts together   *)
(* by less than their number, however their retry_failed race.             *)
(***************************************************************************)
THEOREM RetriesBoundedHolds ==
  ASSUME RetryWorker # {}
  PROVE  LegacySpec => []RetriesBounded
<1>1. LegacyInit => Overshoot
  <2>. SUFFICES ASSUME LegacyInit, NEW r \in Receipt
                PROVE  emit_count[r] + Cardinality(Readers(r)) <= MaxAttempts - 1 + Cardinality(RetryWorker)
    BY DEF Overshoot
  <2>1. Readers(r) = {}
    BY DEF LegacyInit, Readers, Actor
  <2>2. Cardinality(RetryWorker) \in Nat /\ Cardinality(RetryWorker) # 0
    BY LegacyRetryAssumption, FS_CardinalityType, FS_EmptySet
  <2>3. emit_count[r] \in 0..MaxAttempts
    BY DEF LegacyInit
  <2>. QED BY <2>1, <2>2, <2>3, FS_EmptySet, LegacyRetryAssumption
<1>2. LegacyTypeOK /\ Overshoot => RetriesBounded
  <2>. SUFFICES ASSUME LegacyTypeOK, Overshoot, NEW r \in Receipt
                PROVE  emit_count[r] < MaxAttempts + Cardinality(RetryWorker)
    BY DEF RetriesBounded
  <2>1. Cardinality(Readers(r)) \in Nat /\ Cardinality(RetryWorker) \in Nat
    BY ReadersBounded
  <2>2. emit_count[r] \in Nat /\ MaxAttempts \in Nat
    BY LegacyRetryAssumption DEF LegacyTypeOK
  <2>. QED BY <2>1, <2>2 DEF Overshoot
<1>. QED
  BY <1>1, <1>2, LegacyTypeCorrect, OvershootInductive, PTL DEF LegacySpec
=============================================================================
