---------------------------- MODULE ReceiptsProofs ----------------------------
(***************************************************************************)
(* Theorems about Receipts, for any receipts, configurations, clients and  *)
(* viewers.                                                                *)
(*                                                                         *)
(* The argument rests on how the rows evolve (Kept): they are only         *)
(* appended to, and of a row only the state of an open one changes.  What  *)
(* an operation remembers of the rows therefore stays true while it waits  *)
(* (OpOK, OpKept): the emitters it decided on are served by the server it  *)
(* runs in or were in the file it read, the dead letters it listed are     *)
(* still dead, and a receipt that had no open row when its column was read *)
(* was shown by that column.  The youngest row of an emitter exists        *)
(* because a finite set of numbers has a greatest one (Greatest).          *)
(***************************************************************************)
EXTENDS Receipts, LegacyRetryProofs, SequenceTheorems

\* The rows t: an immutable one is never in flight.
RowsOK(t) ==
  /\ t \in Seq(Row) /\ Len(t) <= MaxRows
  /\ \A i \in 1..Len(t) : t[i].immutable => t[i].state # "in_flight"

\* What no operation does to the rows: from t to u.
Kept(t, u) ==
  /\ Len(t) <= Len(u)
  /\ \A i \in 1..Len(t) :
       /\ u[i].receipt = t[i].receipt /\ u[i].emitter = t[i].emitter
       /\ u[i].immutable = t[i].immutable
       /\ t[i].immutable \/ t[i].state \in {"emitted", "dead_lettered"} => u[i] = t[i]

\* What a request remembers of the receipts it still has to show.
ViewOK(o, t) ==
  /\ o.todo \subseteq Receipt
  /\ \A r \in o.todo : MutableRows(t, r) = {} => o.before[r] = o.columns[r]
  /\ \A item \in o.items : item.shown \in item.was

\* What an operation remembers, while the server runs with the emitters K.
OpOK(o, t, K) ==
  /\ o.pc \in {"idle", "insert", "replay_id", "dlq_retry", "view", "dlq"}
  /\ o.pc = "insert" => /\ o.receipt \in Receipt
                        /\ o.names \subseteq Emitter /\ IsFiniteSet(o.names)
                        /\ \/ o.via = "admin" /\ o.names \subseteq K
                           \/ o.via = "cli" /\ o.names \subseteq o.file
  /\ o.pc \in {"replay_id", "dlq_retry"} => o.file \subseteq Emitter /\ IsFiniteSet(o.file)
  /\ o.pc = "view" => ViewOK(o, t)
  /\ o.pc = "dlq" => \A i \in o.listed : i \in 1..Len(t) /\ t[i].state = "dead_lettered"

ReceiptsInv ==
  /\ LegacyTypeOK
  /\ stored \subseteq Receipt
  /\ RowsOK(rows)
  /\ config \in Configs /\ emitters \in Configs
  /\ DOMAIN op = Client \cup Viewer
  /\ \A c \in Client \cup Viewer : OpOK(op[c], rows, emitters)

-----------------------------------------------------------------------------
\* The greatest member is the one that the fewest members exceed.
LEMMA Greatest ==
  ASSUME NEW S, S \subseteq Nat, IsFiniteSet(S), S # {}
  PROVE  \E m \in S : \A q \in S : q <= m
<1>. DEFINE Above(m) == {q \in S : m < q}
            T == {Cardinality(Above(m)) : m \in S}
            Less == {p \in Nat \X Nat : p[1] < p[2]}
<1>1. \A m \in S : IsFiniteSet(Above(m)) /\ Cardinality(Above(m)) \in Nat
  BY FS_Subset, FS_CardinalityType
<1>2. T \subseteq Nat /\ T # {}
  BY <1>1
<1>3. IsWellFoundedOn(Less, Nat)
  BY NatLessThanWellFounded, Zenon DEF OpToRel
<1>4. PICK x \in T : \A y \in T : ~ (<<y, x>> \in Less)
  <2>. HIDE DEF Less, T
  <2>. QED BY <1>2, <1>3, WFMin
<1>5. PICK m \in S : x = Cardinality(Above(m))
  BY <1>4
<1>6. ASSUME NEW q \in S, m < q
      PROVE  FALSE
  <2>0. m \in Nat /\ q \in Nat /\ \A z \in S : z \in Nat
    OBVIOUS
  <2>1. Above(q) \subseteq Above(m) /\ q \in Above(m) /\ q \notin Above(q)
    <3>1. \A z \in S : q < z => m < z
      BY <1>6, <2>0
    <3>2. ~ (q < q)
      BY <2>0
    <3>. QED BY <1>6, <3>1, <3>2, Zenon
  <2>2. Above(q) # Above(m)
    BY <2>1
  <2>3. Cardinality(Above(q)) < Cardinality(Above(m))
    <3>. HIDE DEF Above
    <3>1. Above(q) \in SUBSET Above(m)
      BY <2>1
    <3>2. /\ Cardinality(Above(q)) <= Cardinality(Above(m))
          /\ Cardinality(Above(m)) = Cardinality(Above(q)) => Above(m) = Above(q)
      BY <1>1, <3>1, FS_Subset
    <3>3. Cardinality(Above(q)) # Cardinality(Above(m))
      BY <2>2, <3>2
    <3>. QED BY <1>1, <3>2, <3>3
  <2>4. Cardinality(Above(q)) \in T
    OBVIOUS
  <2>5. Cardinality(Above(q)) \in Nat /\ x \in Nat
    BY <1>1, <1>5
  <2>. HIDE DEF Above, T
  <2>6. <<Cardinality(Above(q)), x>> \in Less
    BY <1>5, <2>3, <2>5
  <2>. QED BY <1>4, <2>4, <2>6
<1>7. \A q \in S : q <= m
  BY <1>6
<1>. QED BY <1>7

-----------------------------------------------------------------------------
\* Rows that do not change are kept.
LEMMA KeptReflexive ==
  ASSUME NEW t \in Seq(Row)
  PROVE  Kept(t, t)
<1>1. Len(t) \in Nat
  BY LenProperties
<1>. QED
  BY <1>1 DEF Kept

\* insert_replays, store_with_deliveries: appending the rows for E.
LEMMA AppendedRows ==
  ASSUME NEW t, RowsOK(t), NEW r \in Receipt, NEW E, E \subseteq Emitter, IsFiniteSet(E),
         Len(t) + Cardinality(E) <= MaxRows, NEW new \in Appended(r, E)
  PROVE  /\ RowsOK(t \o new) /\ Kept(t, t \o new)
         /\ \A i \in DOMAIN (t \o new) \ DOMAIN t : (t \o new)[i].emitter \in E
<1>. DEFINE n == Cardinality(E)
<1>1. n \in Nat
  BY FS_CardinalityType
<1>2. PICK order \in [1..n -> E] : new = [i \in 1..n |-> NewRow(r, order[i])]
  BY DEF Appended
<1>3. ASSUME NEW i \in 1..n
      PROVE  /\ new[i] \in Row /\ ~new[i].immutable /\ new[i].emitter \in E
  BY <1>2, <1>3 DEF NewRow, Row, DeliveryState
<1>4. new \in Seq(Row) /\ Len(new) = n
  <2>1. new \in [1..n -> Row]
    BY <1>2, <1>3
  <2>2. new \in Seq(Row)
    BY <1>1, <2>1, SeqDef
  <2>. QED BY <1>1, <2>1, <2>2, LenProperties
<1>5. t \in Seq(Row) /\ Len(t) \in Nat
  BY LenProperties DEF RowsOK
<1>. DEFINE u == t \o new
<1>6. /\ u \in Seq(Row) /\ Len(u) = Len(t) + n
      /\ \A i \in 1..(Len(t) + n) : u[i] = IF i <= Len(t) THEN t[i] ELSE new[i - Len(t)]
  BY <1>4, <1>5, ConcatProperties
<1>. HIDE DEF n, u
<1>7. \A i \in 1..Len(t) : u[i] = t[i]
  BY <1>1, <1>5, <1>6
<1>8. ASSUME NEW i \in 1..Len(u), i > Len(t)
      PROVE  ~u[i].immutable /\ u[i].emitter \in E
  <2>1. i - Len(t) \in 1..n /\ u[i] = new[i - Len(t)]
    BY <1>1, <1>5, <1>6, <1>8
  <2>. QED BY <1>3, <2>1
<1>9. \A i \in 1..Len(u) : i \in 1..Len(t) \/ i > Len(t)
  BY <1>1, <1>5, <1>6
<1>10. Len(u) <= MaxRows /\ Len(t) <= Len(u)
  BY <1>1, <1>5, <1>6 DEF n
<1>11. RowsOK(u)
  BY <1>6, <1>7, <1>8, <1>9, <1>10 DEF RowsOK
<1>12. Kept(t, u)
  BY <1>7, <1>10 DEF Kept
<1>13. \A i \in DOMAIN u \ DOMAIN t : u[i].emitter \in E
  BY <1>5, <1>6, <1>8, <1>9, LenProperties
<1>. QED BY <1>11, <1>12, <1>13 DEF u

\* A claim, or the outcome of a dispatch: an open row gets another state.
LEMMA UpdatedRow ==
  ASSUME NEW t, RowsOK(t), NEW i \in 1..Len(t), NEW s \in DeliveryState,
         t[i].immutable = FALSE, t[i].state \notin {"emitted", "dead_lettered"}
  PROVE  RowsOK([t EXCEPT ![i].state = s]) /\ Kept(t, [t EXCEPT ![i].state = s])
<1>. DEFINE x == [t[i] EXCEPT !.state = s]
            u == [t EXCEPT ![i] = x]
<1>1. t \in Seq(Row) /\ Len(t) \in Nat /\ t[i] \in Row
  BY LenProperties, ElementOfSeq DEF RowsOK
<1>2. /\ x \in Row /\ x.receipt = t[i].receipt /\ x.emitter = t[i].emitter
      /\ x.immutable = t[i].immutable
  BY <1>1 DEF Row
<1>3. [t EXCEPT ![i].state = s] = u
  OBVIOUS
<1>. HIDE DEF x
<1>4. /\ u \in Seq(Row) /\ Len(u) = Len(t)
      /\ \A j \in 1..Len(t) : u[j] = IF j = i THEN x ELSE t[j]
  BY <1>1, <1>2, ExceptSeq
<1>. HIDE DEF u
<1>5. RowsOK(u)
  BY <1>1, <1>2, <1>4 DEF RowsOK
<1>6. Kept(t, u)
  BY <1>1, <1>2, <1>4 DEF Kept
<1>. QED BY <1>3, <1>5, <1>6

\* What an operation remembers stays true while others write.
LEMMA OpKept ==
  ASSUME NEW t \in Seq(Row), NEW u \in Seq(Row), Kept(t, u), NEW K,
         NEW o, OpOK(o, t, K)
  PROVE  OpOK(o, u, K)
<1>1. /\ Len(t) \in Nat /\ DOMAIN t = 1..Len(t)
      /\ Len(u) \in Nat /\ DOMAIN u = 1..Len(u)
  BY LenProperties
<1>2. ASSUME NEW r, MutableRows(u, r) = {}
      PROVE  MutableRows(t, r) = {}
  BY <1>1, <1>2 DEF MutableRows, Kept
<1>3. ViewOK(o, t) => ViewOK(o, u)
  BY <1>2 DEF ViewOK
<1>4. ASSUME NEW i \in 1..Len(t), t[i].state = "dead_lettered"
      PROVE  i \in 1..Len(u) /\ u[i].state = "dead_lettered"
  BY <1>1, <1>4 DEF Kept
<1>. QED
  BY <1>3, <1>4 DEF OpOK

-----------------------------------------------------------------------------
\* A step of one operation: x is what it remembers next.
LEMMA OperationStep ==
  ASSUME ReceiptsInv, UNCHANGED <<retryVars, operating>>,
         stored' \subseteq Receipt,
         RowsOK(rows'), Kept(rows, rows'),
         NEW c \in Client \cup Viewer, NEW x, OpOK(x, rows', emitters),
         op' = [op EXCEPT ![c] = x]
  PROVE  ReceiptsInv' /\ Kept(rows, rows')
<1>1. LegacyTypeOK'
  BY LegacyTypeInductive DEF ReceiptsInv
<1>2. rows \in Seq(Row) /\ rows' \in Seq(Row)
  BY DEF ReceiptsInv, RowsOK
<1>3. DOMAIN op' = Client \cup Viewer
  BY DEF ReceiptsInv
<1>4. ASSUME NEW d \in Client \cup Viewer
      PROVE  OpOK(op'[d], rows', emitters)
  <2>1. CASE d = c
    <3>1. op'[d] = x
      BY <2>1 DEF ReceiptsInv
    <3>. QED BY <3>1
  <2>2. CASE d # c
    <3>1. op'[d] = op[d] /\ OpOK(op[d], rows, emitters)
      BY <2>2 DEF ReceiptsInv
    <3>2. OpOK(op[d], rows', emitters)
      BY <1>2, <3>1, OpKept
    <3>. QED BY <3>1, <3>2
  <2>. QED BY <2>1, <2>2
<1>5. config' = config /\ emitters' = emitters
  BY DEF operating
<1>. QED
  BY <1>1, <1>3, <1>4, <1>5 DEF ReceiptsInv

\* A step that only writes the rows.
LEMMA TableStep ==
  ASSUME ReceiptsInv, UNCHANGED <<retryVars, operating, op>>,
         stored' \subseteq Receipt, RowsOK(rows'), Kept(rows, rows')
  PROVE  ReceiptsInv' /\ Kept(rows, rows')
<1>1. LegacyTypeOK'
  BY LegacyTypeInductive DEF ReceiptsInv
<1>2. rows \in Seq(Row) /\ rows' \in Seq(Row)
  BY DEF ReceiptsInv, RowsOK
<1>3. \A d \in Client \cup Viewer : OpOK(op[d], rows', emitters)
  BY <1>2, OpKept DEF ReceiptsInv
<1>4. config' = config /\ emitters' = emitters
  BY DEF operating
<1>. QED
  BY <1>1, <1>3, <1>4 DEF ReceiptsInv

\* A step that only reads: x is what the operation remembers next.
LEMMA ReadingStep ==
  ASSUME ReceiptsInv, UNCHANGED <<retryVars, tables, operating>>,
         NEW c \in Client \cup Viewer, NEW x, OpOK(x, rows, emitters),
         op' = [op EXCEPT ![c] = x]
  PROVE  ReceiptsInv' /\ Kept(rows, rows')
<1>1. rows' = rows /\ stored' = stored
  BY DEF tables
<1>2. rows \in Seq(Row) /\ RowsOK(rows) /\ stored \subseteq Receipt
  BY DEF ReceiptsInv, RowsOK
<1>3. Kept(rows, rows)
  BY <1>2, KeptReflexive
<1>4. RowsOK(rows') /\ Kept(rows, rows') /\ stored' \subseteq Receipt /\ OpOK(x, rows', emitters)
  BY <1>1, <1>2, <1>3
<1>. QED
  BY <1>4, OperationStep

\* An operation that is refused leaves the tables alone.
LEMMA RefuseStep ==
  ASSUME ReceiptsInv, NEW c \in Client \cup Viewer, Refuse(c)
  PROVE  ReceiptsInv' /\ Kept(rows, rows')
<1>1. OpOK(Idle, rows, emitters)
  BY DEF OpOK, Idle
<1>2. /\ op' = [op EXCEPT ![c] = Idle] /\ UNCHANGED <<retryVars, tables, operating>>
  BY DEF Refuse, ReceiptsInv
<1>. QED
  BY <1>1, <1>2, ReadingStep

\* So does one that goes on to its insert, with names that are served or were
\* in the file.
LEMMA ToInsertStep ==
  ASSUME ReceiptsInv, NEW c \in Client \cup Viewer, NEW r \in Receipt, NEW E, E \subseteq Emitter,
         IsFiniteSet(E), NEW via,
         (via = "admin" /\ E \subseteq emitters) \/ (via = "cli" /\ E \subseteq op[c].file),
         ToInsert(c, r, E, via)
  PROVE  ReceiptsInv' /\ Kept(rows, rows')
<1>. DEFINE x == [pc |-> "insert", receipt |-> r, names |-> E, via |-> via,
                  file |-> IF via = "cli" THEN op[c].file ELSE {}]
<1>1. OpOK(x, rows, emitters)
  BY DEF OpOK
<1>2. /\ op' = [op EXCEPT ![c] = x] /\ UNCHANGED <<retryVars, tables, operating>>
  BY DEF ToInsert, ReceiptsInv
<1>. HIDE DEF x
<1>. QED
  BY <1>1, <1>2, ReadingStep

\* The row i names a receipt and an emitter.
LEMMA RowMember ==
  ASSUME ReceiptsInv, NEW i \in DOMAIN rows
  PROVE  i \in 1..Len(rows) /\ rows[i] \in Row /\ rows[i].receipt \in Receipt
<1>1. i \in 1..Len(rows) /\ rows[i] \in Row
  BY LenProperties, ElementOfSeq DEF ReceiptsInv, RowsOK
<1>. QED BY <1>1 DEF Row

-----------------------------------------------------------------------------
\* The replays: what is decided on is served or listed, and only inserts write.
LEMMA ClientInductive ==
  ASSUME ReceiptsInv, NEW c \in Client, ClientStep(c)
  PROVE  ReceiptsInv' /\ Kept(rows, rows')
<1>0. c \in Client \cup Viewer /\ OpOK(op[c], rows, emitters) /\ stored \subseteq Receipt
  BY DEF ReceiptsInv
<1>e. emitters \subseteq Emitter /\ IsFiniteSet(emitters)
  BY ReceiptsAssumption DEF ReceiptsInv, Emitter
<1>s. \A e : IsFiniteSet({e})
  BY FS_Singleton
<1>1. ASSUME NEW r \in Receipt, ReplayReceipt(c, r)
      PROVE  ReceiptsInv' /\ Kept(rows, rows')
  <2>1. CASE Refuse(c)
    BY <1>0, <2>1, RefuseStep
  <2>2. CASE ToInsert(c, r, emitters, "admin")
    BY <1>0, <1>e, <2>2, ToInsertStep
  <2>. QED BY <1>1, <2>1, <2>2 DEF ReplayReceipt
<1>1e. ASSUME NEW r \in Receipt, NEW e, ReplayReceiptEmitter(c, r, e)
       PROVE  ReceiptsInv' /\ Kept(rows, rows')
  <2>1. CASE Refuse(c)
    BY <1>0, <2>1, RefuseStep
  <2>2. CASE e \in emitters /\ ToInsert(c, r, {e}, "admin")
    <3>1. {e} \subseteq emitters /\ {e} \subseteq Emitter
      BY <1>e, <2>2
    <3>. QED BY <1>0, <1>s, <2>2, <3>1, ToInsertStep
  <2>. QED BY <1>1e, <2>1, <2>2 DEF ReplayReceiptEmitter
<1>2. ASSUME NEW i, ReplayDelivery(c, i)
      PROVE  ReceiptsInv' /\ Kept(rows, rows')
  <2>1. CASE Refuse(c)
    BY <1>0, <2>1, RefuseStep
  <2>2. CASE /\ i \in DOMAIN rows /\ rows[i].emitter \in emitters
             /\ ToInsert(c, rows[i].receipt, {rows[i].emitter}, "admin")
    <3>1. {rows[i].emitter} \subseteq emitters /\ {rows[i].emitter} \subseteq Emitter
      BY <1>e, <2>2
    <3>. QED BY <1>0, <1>s, <2>2, <3>1, ToInsertStep, RowMember
  <2>. QED BY <1>2, <2>1, <2>2 DEF ReplayDelivery
<1>3. ASSUME NEW command \in {"replay_id", "dlq_retry"}, CliStart(c, command)
      PROVE  ReceiptsInv' /\ Kept(rows, rows')
  <2>. DEFINE x == [pc |-> command, file |-> config]
  <2>1. config \subseteq Emitter /\ IsFiniteSet(config)
    BY ReceiptsAssumption DEF ReceiptsInv, Emitter
  <2>2. OpOK(x, rows, emitters)
    BY <2>1 DEF OpOK
  <2>3. /\ op' = [op EXCEPT ![c] = x] /\ UNCHANGED <<retryVars, tables, operating>>
    BY <1>3 DEF CliStart, ReceiptsInv
  <2>. HIDE DEF x
  <2>. QED BY <1>0, <2>2, <2>3, ReadingStep
<1>4. ASSUME NEW r \in Receipt, NEW e, RunReplayIdEmitter(c, r, e)
      PROVE  ReceiptsInv' /\ Kept(rows, rows')
  <2>1. CASE Refuse(c)
    BY <1>0, <2>1, RefuseStep
  <2>2. CASE e \in op[c].file /\ ToInsert(c, r, {e}, "cli")
    <3>1. {e} \subseteq Emitter /\ {e} \subseteq op[c].file
      BY <1>0, <1>4, <2>2 DEF RunReplayIdEmitter, OpOK
    <3>. QED BY <1>0, <1>s, <2>2, <3>1, ToInsertStep
  <2>. QED BY <1>4, <2>1, <2>2 DEF RunReplayIdEmitter
<1>5. ASSUME NEW r \in Receipt, RunReplayId(c, r)
      PROVE  ReceiptsInv' /\ Kept(rows, rows')
  <2>. DEFINE historical == {rows[i].emitter : i \in {i \in DOMAIN rows : rows[i].receipt = r}}
  <2>1. CASE Refuse(c)
    BY <1>0, <2>1, RefuseStep
  <2>2. CASE historical \subseteq op[c].file /\ ToInsert(c, r, historical, "cli")
    <3>. HIDE DEF historical
    <3>1. op[c].file \subseteq Emitter /\ IsFiniteSet(op[c].file)
      BY <1>0, <1>5 DEF RunReplayId, OpOK
    <3>2. historical \subseteq Emitter /\ IsFiniteSet(historical)
      BY <2>2, <3>1, FS_Subset
    <3>. QED BY <1>0, <2>2, <3>2, ToInsertStep
  <2>. QED BY <1>5, <2>1, <2>2 DEF RunReplayId
<1>6. ASSUME NEW i, DlqRetry(c, i)
      PROVE  ReceiptsInv' /\ Kept(rows, rows')
  <2>1. CASE Refuse(c)
    BY <1>0, <2>1, RefuseStep
  <2>2. CASE /\ i \in DOMAIN rows /\ rows[i].emitter \in op[c].file
             /\ ToInsert(c, rows[i].receipt, {rows[i].emitter}, "cli")
    <3>1. {rows[i].emitter} \subseteq Emitter /\ {rows[i].emitter} \subseteq op[c].file
      BY <1>0, <1>6, <2>2 DEF DlqRetry, OpOK
    <3>. QED BY <1>0, <1>s, <2>2, <3>1, ToInsertStep, RowMember
  <2>. QED BY <1>6, <2>1, <2>2 DEF DlqRetry
<1>7. ASSUME op[c].pc = "insert", Len(rows) + Cardinality(op[c].names) <= MaxRows,
             NEW new \in Appended(op[c].receipt, op[c].names), rows' = rows \o new
      PROVE  RowsOK(rows') /\ Kept(rows, rows')
  <2>1. op[c].receipt \in Receipt /\ op[c].names \subseteq Emitter /\ IsFiniteSet(op[c].names)
    BY <1>0, <1>7 DEF OpOK
  <2>2. RowsOK(rows)
    BY DEF ReceiptsInv
  <2>. QED BY <1>7, <2>1, <2>2, AppendedRows
<1>8. ASSUME RowsOK(rows'), Kept(rows, rows'), op' = [op EXCEPT ![c] = Idle],
             UNCHANGED <<retryVars, stored, operating>>
      PROVE  ReceiptsInv' /\ Kept(rows, rows')
  <2>1. OpOK(Idle, rows', emitters)
    BY DEF OpOK, Idle
  <2>2. UNCHANGED <<retryVars, operating>> /\ stored' \subseteq Receipt
    BY <1>0, <1>8
  <2>. QED BY <1>0, <1>8, <2>1, <2>2, OperationStep
<1>9. CASE InsertReplays(c)
  <2>1. RowsOK(rows') /\ Kept(rows, rows')
    BY <1>7, <1>9 DEF InsertReplays
  <2>. QED BY <1>8, <1>9, <2>1 DEF InsertReplays
<1>10. CASE InsertOrphan(c)
  BY <1>0, <1>10, RefuseStep DEF InsertOrphan
<1>11. CASE InsertFails(c)
  <2>1. RowsOK(rows') /\ Kept(rows, rows')
    <3>1. CASE UNCHANGED rows
      BY <3>1, KeptReflexive DEF ReceiptsInv, RowsOK
    <3>. QED BY <1>7, <1>11, <3>1 DEF InsertFails
  <2>. QED BY <1>8, <1>11, <2>1 DEF InsertFails
<1>. QED
  BY <1>1, <1>1e, <1>2, <1>3, <1>4, <1>5, <1>6, <1>9, <1>10, <1>11 DEF ClientStep

-----------------------------------------------------------------------------
\* AggregateFromStates shows the column only when there is no row to show.
LEMMA AggregateOfRows ==
  ASSUME NEW t, NEW r, NEW a, NEW b
  PROVE  /\ LatestMutablePerEmitter(t, r) # {} =>
              ReceiptAggregateState(t, r, a) = ReceiptAggregateState(t, r, b)
         /\ LatestMutablePerEmitter(t, r) = {} => ReceiptAggregateState(t, r, a) = a
BY DEF ReceiptAggregateState, AggregateFromStates

\* The youngest row of the emitter of row i.
LEMMA YoungestRow ==
  ASSUME NEW t \in Seq(Row), NEW r, NEW i \in MutableRows(t, r)
  PROVE  \E m \in MutableRows(t, r) :
            t[m].emitter = t[i].emitter /\ t[m].state \in LatestMutablePerEmitter(t, r)
<1>. DEFINE S == {j \in MutableRows(t, r) : t[j].emitter = t[i].emitter}
<1>1. Len(t) \in Nat /\ DOMAIN t = 1..Len(t)
  BY LenProperties
<1>2. S \in SUBSET (1..Len(t)) /\ i \in S
  BY <1>1 DEF MutableRows
<1>3. IsFiniteSet(S)
  <2>1. IsFiniteSet(1..Len(t))
    BY <1>1, FS_Interval
  <2>. HIDE DEF S
  <2>. QED BY <1>2, <2>1, FS_Subset
<1>4. S \subseteq Nat /\ S # {}
  BY <1>1, <1>2
<1>5. PICK m \in S : \A q \in S : q <= m
  <2>. HIDE DEF S
  <2>. QED BY <1>3, <1>4, Greatest
<1>6. m \in MutableRows(t, r) /\ t[m].emitter = t[i].emitter
  OBVIOUS
<1>7. \A j \in MutableRows(t, r) : t[j].emitter = t[m].emitter => j <= m
  BY <1>5, <1>6
<1>8. t[m].state \in LatestMutablePerEmitter(t, r)
  BY <1>6, <1>7 DEF LatestMutablePerEmitter
<1>. QED BY <1>6, <1>8

\* Without a mutable row the column is shown.
LEMMA AggregateWithoutRows ==
  ASSUME NEW t, NEW r, MutableRows(t, r) = {}
  PROVE  LatestMutablePerEmitter(t, r) = {}
BY DEF LatestMutablePerEmitter

\* The views: what is shown was true at one of the two reads.
LEMMA ViewerInductive ==
  ASSUME ReceiptsInv, NEW v \in Viewer, ViewerStep(v)
  PROVE  ReceiptsInv' /\ Kept(rows, rows')
<1>0. /\ v \in Client \cup Viewer /\ OpOK(op[v], rows, emitters) /\ stored \subseteq Receipt
      /\ rows \in Seq(Row)
  BY DEF ReceiptsInv, RowsOK
<1>1. ASSUME NEW R, R \subseteq Receipt, ToView(v, R)
      PROVE  ReceiptsInv' /\ Kept(rows, rows')
  <2>. DEFINE x == [pc |-> "view", todo |-> R,
                    columns |-> [r \in R |-> processing_state[r]],
                    before |-> [r \in R |-> Derived(r)],
                    items |-> {}]
  <2>1. ASSUME NEW r \in R, MutableRows(rows, r) = {}
        PROVE  Derived(r) = processing_state[r]
    BY <2>1, AggregateWithoutRows, AggregateOfRows DEF Derived
  <2>2. ViewOK(x, rows)
    BY <1>1, <2>1 DEF ViewOK
  <2>3. OpOK(x, rows, emitters)
    BY <2>2 DEF OpOK
  <2>4. /\ op' = [op EXCEPT ![v] = x] /\ UNCHANGED <<retryVars, tables, operating>>
    BY <1>1 DEF ToView, ReceiptsInv
  <2>. HIDE DEF x
  <2>. QED BY <1>0, <2>3, <2>4, ReadingStep
<1>2. ASSUME NEW r \in Receipt, GetReceipt(v, r)
      PROVE  ReceiptsInv' /\ Kept(rows, rows')
  BY <1>0, <1>1, <1>2, RefuseStep DEF GetReceipt
<1>3. ASSUME NEW s, ListReceipts(v, s)
      PROVE  ReceiptsInv' /\ Kept(rows, rows')
  BY <1>0, <1>1, <1>3 DEF ListReceipts
<1>4. CASE ViewDeliveries(v)
  <2>. DEFINE r == CHOOSE r \in op[v].todo : \A q \in op[v].todo : q <= r
              rest == op[v].todo \ {r}
              item == [shown |-> Item(v, r), was |-> {op[v].before[r], Derived(r)}]
              x == [pc |-> "view", todo |-> rest,
                    columns |-> [q \in rest |-> op[v].columns[q]],
                    before |-> [q \in rest |-> op[v].before[q]],
                    items |-> op[v].items \cup {item}]
  <2>1. ViewOK(op[v], rows) /\ op[v].todo # {}
    BY <1>0, <1>4 DEF ViewDeliveries, OpOK
  <2>2. r \in op[v].todo
    <3>1. op[v].todo \subseteq Nat /\ IsFiniteSet(op[v].todo)
      BY <2>1, ReceiptsAssumption, LegacyRetryAssumption, FS_Subset DEF ViewOK
    <3>2. \E m \in op[v].todo : \A q \in op[v].todo : q <= m
      BY <2>1, <3>1, Greatest
    <3>. QED BY <3>2
  <2>. HIDE DEF r
  <2>3. Item(v, r) \in {op[v].before[r], Derived(r)}
    <3>1. CASE LatestMutablePerEmitter(rows, r) # {}
      BY <3>1, AggregateOfRows DEF Item, Derived
    <3>2. CASE LatestMutablePerEmitter(rows, r) = {}
      <4>1. MutableRows(rows, r) = {}
        BY <1>0, <3>2, YoungestRow
      <4>2. Item(v, r) = op[v].columns[r]
        BY <3>2, AggregateOfRows DEF Item
      <4>. QED BY <2>1, <2>2, <4>1, <4>2 DEF ViewOK
    <3>. QED BY <3>1, <3>2
  <2>4. item.shown \in item.was
    BY <2>3
  <2>5. ViewOK(x, rows)
    <3>. HIDE DEF item
    <3>. QED BY <2>1, <2>4 DEF ViewOK
  <2>6. OpOK(x, rows, emitters)
    BY <2>5 DEF OpOK
  <2>7. /\ op' = [op EXCEPT ![v] = x] /\ UNCHANGED <<retryVars, tables, operating>>
    <3>1. op' = [op EXCEPT ![v] = x]
      BY <1>0, <1>4 DEF ViewDeliveries, ReceiptsInv, r
    <3>. QED BY <1>4, <3>1 DEF ViewDeliveries, ReceiptsInv
  <2>. HIDE DEF x
  <2>. QED BY <1>0, <2>6, <2>7, ReadingStep
<1>5. ASSUME NEW E, ListDlq(v, E)
      PROVE  ReceiptsInv' /\ Kept(rows, rows')
  <2>. DEFINE L == {i \in DOMAIN rows : rows[i].state = "dead_lettered" /\ rows[i].emitter \in E}
              x == [pc |-> "dlq", todo |-> {}, listed |-> L]
  <2>1. OpOK(x, rows, emitters)
    BY <1>0, LenProperties DEF OpOK
  <2>2. /\ op' = [op EXCEPT ![v] = x] /\ UNCHANGED <<retryVars, tables, operating>>
    BY <1>5 DEF ListDlq, ReceiptsInv
  <2>. HIDE DEF x
  <2>. QED BY <1>0, <2>1, <2>2, ReadingStep
<1>6. ASSUME op' = [op EXCEPT ![v] = Idle], UNCHANGED <<retryVars, tables, operating>>
      PROVE  ReceiptsInv' /\ Kept(rows, rows')
  <2>1. OpOK(Idle, rows, emitters)
    BY DEF OpOK, Idle
  <2>. QED BY <1>0, <1>6, <2>1, ReadingStep
<1>7. CASE ViewDone(v)
  BY <1>6, <1>7 DEF ViewDone
<1>8. CASE ViewFails(v)
  BY <1>6, <1>8 DEF ViewFails
<1>. QED
  BY <1>2, <1>3, <1>4, <1>5, <1>7, <1>8 DEF ViewerStep

-----------------------------------------------------------------------------
\* Every step keeps the invariant, and keeps the rows.
LEMMA ReceiptsInductive ==
  ASSUME ReceiptsInv, [ReceiptsNext]_vars
  PROVE  ReceiptsInv' /\ Kept(rows, rows')
<1>0. /\ rows \in Seq(Row) /\ RowsOK(rows) /\ stored \subseteq Receipt
      /\ Len(rows) \in Nat /\ DOMAIN rows = 1..Len(rows)
  BY LenProperties DEF ReceiptsInv, RowsOK
<1>k. Kept(rows, rows)
  BY <1>0, KeptReflexive
<1>1. CASE UNCHANGED vars
  BY <1>0, <1>1, <1>k, TableStep DEF vars, tables
<1>2. ASSUME NEW r \in Receipt, StoreWithDeliveries(r)
      PROVE  ReceiptsInv' /\ Kept(rows, rows')
  <2>1. emitters \subseteq Emitter /\ IsFiniteSet(emitters)
    BY ReceiptsAssumption DEF ReceiptsInv, Emitter
  <2>2. PICK new \in Appended(r, emitters) : rows' = rows \o new
    BY <1>2 DEF StoreWithDeliveries
  <2>3. RowsOK(rows') /\ Kept(rows, rows')
    BY <1>0, <1>2, <2>1, <2>2, AppendedRows DEF StoreWithDeliveries
  <2>4. stored' \subseteq Receipt
    BY <1>0, <1>2 DEF StoreWithDeliveries
  <2>. QED BY <1>2, <2>3, <2>4, TableStep DEF StoreWithDeliveries
<1>3. ASSUME NEW i \in DOMAIN rows, NEW s \in DeliveryState, SetRow(i, s),
             rows[i].immutable = FALSE, rows[i].state \notin {"emitted", "dead_lettered"}
      PROVE  ReceiptsInv' /\ Kept(rows, rows')
  <2>1. RowsOK(rows') /\ Kept(rows, rows')
    BY <1>0, <1>3, UpdatedRow DEF SetRow
  <2>. QED BY <1>0, <1>3, <2>1, TableStep DEF SetRow
<1>4. ASSUME NEW i \in DOMAIN rows, Claim(i) \/ Dispatched(i)
      PROVE  ReceiptsInv' /\ Kept(rows, rows')
  <2>1. rows[i].immutable \in BOOLEAN
    BY RowMember DEF Row
  <2>2. rows[i].immutable = FALSE /\ rows[i].state \notin {"emitted", "dead_lettered"}
    BY <1>0, <1>4, <2>1 DEF Claim, Dispatched, RowsOK
  <2>3. PICK s \in DeliveryState : SetRow(i, s)
    BY <1>4 DEF Claim, Dispatched, DeliveryState
  <2>. QED BY <1>3, <2>2, <2>3
<1>5. ASSUME NEW new \in Configs, EditConfig(new)
      PROVE  ReceiptsInv' /\ Kept(rows, rows')
  <2>1. LegacyTypeOK'
    BY <1>5, LegacyTypeInductive DEF EditConfig, ReceiptsInv
  <2>2. rows' = rows /\ stored' = stored /\ op' = op /\ emitters' = emitters
    BY <1>5 DEF EditConfig, tables
  <2>3. config' \in Configs
    BY <1>5 DEF EditConfig
  <2>. QED BY <1>k, <2>1, <2>2, <2>3 DEF ReceiptsInv
<1>6. CASE Restart
  <2>1. LegacyTypeOK'
    BY <1>6, LegacyTypeInductive DEF Restart, ReceiptsInv
  <2>2. rows' = rows /\ stored' = stored /\ emitters' = config /\ config' = config
    BY <1>6 DEF Restart, tables
  <2>3. OpOK(Idle, rows, config)
    BY DEF OpOK, Idle
  <2>4. /\ DOMAIN op' = Client \cup Viewer
        /\ \A c \in Client \cup Viewer : op'[c] = IF FromServer(op[c]) THEN Idle ELSE op[c]
    BY <1>6 DEF Restart, ReceiptsInv
  <2>5. ASSUME NEW o, OpOK(o, rows, emitters), ~FromServer(o)
        PROVE  OpOK(o, rows, config)
    BY <2>5 DEF OpOK, FromServer
  <2>6. \A c \in Client \cup Viewer : OpOK(op'[c], rows, config)
    BY <2>3, <2>4, <2>5 DEF ReceiptsInv
  <2>. QED BY <1>k, <2>1, <2>2, <2>4, <2>6 DEF ReceiptsInv
<1>7. CASE ReplayFailedStep
  <2>1. LegacyNext
    BY <1>0, <1>7 DEF ReplayFailedStep, LegacyNext, OperatorStep
  <2>2. LegacyTypeOK'
    BY <2>1, LegacyTypeInductive DEF ReceiptsInv
  <2>3. UNCHANGED <<stored, rows, config, emitters, op>>
    BY <1>7 DEF ReplayFailedStep, tables, operating
  <2>. QED BY <1>k, <2>2, <2>3 DEF ReceiptsInv
<1>. QED
  BY <1>1, <1>2, <1>4, <1>5, <1>6, <1>7, ClientInductive, ViewerInductive DEF ReceiptsNext

\* A migrated or an empty database satisfies the invariant.
LEMMA ReceiptsInitial ==
  ASSUME ReceiptsInit
  PROVE  ReceiptsInv
<1>1. LegacyTypeOK
  BY LegacyTypeInitial DEF ReceiptsInit
<1>2. stored \subseteq Receipt /\ IsFiniteSet(stored) /\ Cardinality(stored) \in Nat
      /\ Cardinality(stored) <= MaxRows
  <2>1. IsFiniteSet(Migrated) /\ stored \in SUBSET Migrated
    BY ReceiptsAssumption, FS_Subset DEF ReceiptsInit
  <2>2. /\ IsFiniteSet(stored) /\ Cardinality(stored) <= Cardinality(Migrated)
        /\ Cardinality(stored) \in Nat /\ Cardinality(Migrated) \in Nat
    BY <2>1, FS_Subset, FS_CardinalityType
  <2>. QED BY <2>1, <2>2, ReceiptsAssumption
<1>. DEFINE n == Cardinality(stored)
<1>3. PICK order \in [1..n -> stored] : rows = [i \in DOMAIN order |-> Backfill(order[i])]
  BY DEF ReceiptsInit
<1>4. ASSUME NEW r \in Receipt
      PROVE  Backfill(r) \in Row /\ Backfill(r).immutable /\ Backfill(r).state # "in_flight"
  <2>1. processing_state[r] \in ProcessingState
    BY <1>1 DEF LegacyTypeOK
  <2>2. BackfillState(processing_state[r]) \in {"emitted", "failed", "dead_lettered"}
    BY <2>1 DEF BackfillState, ProcessingState
  <2>. QED BY <2>2 DEF Backfill, Row, DeliveryState
<1>5. rows \in [1..n -> Row] /\ \A i \in 1..n : rows[i].immutable /\ rows[i].state # "in_flight"
  BY <1>2, <1>3, <1>4
<1>6. rows \in Seq(Row) /\ Len(rows) = n
  <2>1. rows \in Seq(Row)
    BY <1>2, <1>5, SeqDef
  <2>. QED BY <1>2, <1>5, <2>1, LenProperties
<1>7. RowsOK(rows)
  BY <1>2, <1>5, <1>6 DEF RowsOK
<1>8. config \in Configs /\ emitters = config
  BY DEF ReceiptsInit
<1>9. DOMAIN op = Client \cup Viewer /\ \A c \in Client \cup Viewer : OpOK(op[c], rows, emitters)
  BY DEF ReceiptsInit, OpOK, Idle
<1>. QED
  BY <1>1, <1>2, <1>7, <1>8, <1>9 DEF ReceiptsInv

-----------------------------------------------------------------------------
\* So the invariant holds in every reachable state.
LEMMA ReceiptsInvariant == ReceiptsSpec => []ReceiptsInv
BY ReceiptsInitial, ReceiptsInductive, PTL DEF ReceiptsSpec

(***************************************************************************)
(* Type correctness of the tables, the configuration and the operations of *)
(* the admin API and the command line.                                     *)
(***************************************************************************)
THEOREM ReceiptsTypeCorrect == ReceiptsSpec => []ReceiptsTypeOK
<1>1. ReceiptsInv => ReceiptsTypeOK
  BY DEF ReceiptsInv, ReceiptsTypeOK, RowsOK, OpOK
<1>. QED BY <1>1, ReceiptsInvariant, PTL

(***************************************************************************)
(* A receipt shown as emitted got downstream through every emitter it has  *)
(* rows for (receipt_aggregate_state): the youngest row of each is         *)
(* emitted.                                                                *)
(***************************************************************************)
THEOREM EmittedReachedHolds == ReceiptsSpec => []EmittedReached
<1>1. ASSUME ReceiptsInv
      PROVE  EmittedReached
  <2>. SUFFICES ASSUME NEW r \in stored, Derived(r) = "emitted", NEW i \in MutableRows(rows, r)
                PROVE  \E j \in MutableRows(rows, r) :
                          rows[j].emitter = rows[i].emitter /\ rows[j].state = "emitted"
    BY DEF EmittedReached
  <2>1. rows \in Seq(Row)
    BY <1>1 DEF ReceiptsInv, RowsOK
  <2>2. PICK m \in MutableRows(rows, r) :
          rows[m].emitter = rows[i].emitter /\ rows[m].state \in LatestMutablePerEmitter(rows, r)
    BY <2>1, YoungestRow
  <2>3. LatestMutablePerEmitter(rows, r) = {"emitted"}
    BY <2>2 DEF Derived, ReceiptAggregateState, AggregateFromStates
  <2>. QED BY <2>2, <2>3
<1>. QED BY <1>1, ReceiptsInvariant, PTL

(***************************************************************************)
(* The delivery rows are an audit trail: no replay, retry or restart       *)
(* removes a row or reopens one that is settled or immutable               *)
(* (insert_replays only inserts).                                          *)
(***************************************************************************)
THEOREM AuditTrailHolds == ReceiptsSpec => AuditTrail
<1>. DEFINE Step == /\ Len(rows) <= Len(rows')
                    /\ \A i \in DOMAIN rows :
                         /\ rows'[i].receipt = rows[i].receipt /\ rows'[i].emitter = rows[i].emitter
                         /\ rows[i].immutable \/ rows[i].state \in {"emitted", "dead_lettered"}
                              => rows'[i] = rows[i]
<1>1. ASSUME ReceiptsInv, [ReceiptsNext]_vars
      PROVE  Step
  <2>1. Kept(rows, rows')
    BY <1>1, ReceiptsInductive
  <2>2. DOMAIN rows = 1..Len(rows)
    BY <1>1, LenProperties DEF ReceiptsInv, RowsOK
  <2>. QED BY <2>1, <2>2 DEF Kept
<1>. QED BY <1>1, ReceiptsInvariant, PTL DEF ReceiptsSpec, AuditTrail

\* A step that does not write the rows adds none, and neither does an update.
LEMMA NothingAdded ==
  ASSUME ReceiptsInv,
         \/ UNCHANGED rows
         \/ \E i \in DOMAIN rows, s \in DeliveryState : rows' = [rows EXCEPT ![i].state = s]
  PROVE  DOMAIN rows' \ DOMAIN rows = {}
OBVIOUS

(***************************************************************************)
(* Every row that is added is for an emitter of the running server or, by  *)
(* a command, for one that was in hookbox.toml when the command read it:   *)
(* the requests of the admin API do not outlive the emitters they were     *)
(* checked against.                                                        *)
(***************************************************************************)
THEOREM TargetsAreServedHolds == ReceiptsSpec => TargetsAreServed
<1>. DEFINE Step == \A i \in DOMAIN rows' \ DOMAIN rows :
                      \/ rows'[i].emitter \in emitters
                      \/ \E c \in Client : /\ op[c].pc = "insert" /\ op'[c] = Idle
                                           /\ rows'[i].emitter \in op[c].file
<1>1. ASSUME ReceiptsInv, [ReceiptsNext]_vars
      PROVE  Step
  <2>0. rows \in Seq(Row) /\ RowsOK(rows) /\ DOMAIN op = Client \cup Viewer
    BY <1>1 DEF ReceiptsInv, RowsOK
  <2>1. CASE UNCHANGED rows
    BY <2>1
  <2>2. ASSUME NEW i \in DOMAIN rows, Claim(i) \/ Dispatched(i)
        PROVE  Step
    <3>1. PICK s \in DeliveryState : rows' = [rows EXCEPT ![i].state = s]
      BY <2>2 DEF Claim, Dispatched, SetRow, DeliveryState
    <3>2. DOMAIN rows' \ DOMAIN rows = {}
      BY <1>1, <2>2, <3>1, NothingAdded
    <3>. QED BY <3>2
  <2>3. ASSUME NEW r \in Receipt, StoreWithDeliveries(r)
        PROVE  Step
    <3>1. emitters \subseteq Emitter /\ IsFiniteSet(emitters)
      BY <1>1, ReceiptsAssumption DEF ReceiptsInv, Emitter
    <3>2. PICK new \in Appended(r, emitters) : rows' = rows \o new
      BY <2>3 DEF StoreWithDeliveries
    <3>3. \A i \in DOMAIN rows' \ DOMAIN rows : rows'[i].emitter \in emitters
      BY <2>0, <2>3, <3>1, <3>2, AppendedRows DEF StoreWithDeliveries
    <3>. QED BY <3>3
  <2>4. ASSUME NEW c \in Client, InsertReplays(c) \/ InsertFails(c), ~UNCHANGED rows
        PROVE  Step
    <3>1. /\ op[c].pc = "insert" /\ op' = [op EXCEPT ![c] = Idle]
          /\ Len(rows) + Cardinality(op[c].names) <= MaxRows
          /\ \E new \in Appended(op[c].receipt, op[c].names) : rows' = rows \o new
      BY <2>4 DEF InsertReplays, InsertFails
    <3>2. OpOK(op[c], rows, emitters) /\ op'[c] = Idle
      BY <1>1, <2>0, <3>1 DEF ReceiptsInv
    <3>3. /\ op[c].receipt \in Receipt /\ op[c].names \subseteq Emitter
          /\ IsFiniteSet(op[c].names)
          /\ op[c].names \subseteq emitters \/ op[c].names \subseteq op[c].file
      BY <3>1, <3>2 DEF OpOK
    <3>4. PICK new \in Appended(op[c].receipt, op[c].names) : rows' = rows \o new
      BY <3>1
    <3>5. \A i \in DOMAIN rows' \ DOMAIN rows : rows'[i].emitter \in op[c].names
      BY <2>0, <3>1, <3>3, <3>4, AppendedRows
    <3>. QED BY <3>1, <3>2, <3>3, <3>5
  <2>5. ASSUME NEW c \in Client, ClientStep(c)
        PROVE  UNCHANGED rows \/ InsertReplays(c) \/ InsertFails(c)
    BY <2>5 DEF ClientStep, ReplayReceipt, ReplayReceiptEmitter, ReplayDelivery, CliStart,
       RunReplayIdEmitter, RunReplayId, DlqRetry, InsertOrphan, Refuse, ToInsert, tables
  <2>6. ASSUME NEW v \in Viewer, ViewerStep(v)
        PROVE  UNCHANGED rows
    BY <2>6 DEF ViewerStep, GetReceipt, ListReceipts, ListDlq, ViewDeliveries, ViewDone,
       ViewFails, ToView, Refuse, tables
  <2>7. (\E new \in Configs : EditConfig(new)) \/ Restart \/ ReplayFailedStep \/ UNCHANGED vars
          => UNCHANGED rows
    BY DEF EditConfig, Restart, ReplayFailedStep, vars, tables
  <2>. HIDE DEF Step
  <2>. QED BY <1>1, <2>1, <2>2, <2>3, <2>4, <2>5, <2>6, <2>7 DEF ReceiptsNext
<1>. QED BY <1>1, ReceiptsInvariant, PTL DEF ReceiptsSpec, TargetsAreServed

(***************************************************************************)
(* What get_receipt, list_receipts and list_dlq show, from two reads that  *)
(* are no transaction, was true at one of them.                            *)
(***************************************************************************)
THEOREM ViewWasTrueHolds == ReceiptsSpec => []ViewWasTrue
<1>1. ReceiptsInv => ViewWasTrue
  BY DEF ReceiptsInv, OpOK, ViewOK, ViewWasTrue
<1>. QED BY <1>1, ReceiptsInvariant, PTL
=============================================================================
