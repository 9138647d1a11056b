------------------------------- MODULE Receipts -------------------------------
(***************************************************************************)
(* What operators see of a receipt and what they can do about it: the      *)
(* admin API (hookbox-server/src/routes/admin.rs), `hookbox replay id` and *)
(* `hookbox dlq retry` (hookbox-cli/src/commands), the derived state of a  *)
(* receipt (hookbox/src/transitions.rs) and the tables under them.         *)
(*                                                                         *)
(* An operation is a read, a decision and a write, or two reads; between   *)
(* its statements the workers dispatch rows, other operators replay, and   *)
(* the configuration is edited and the server restarted with it.           *)
(*                                                                         *)
(* The receipt-level columns and `hookbox replay failed` are those of      *)
(* LegacyRetry.  The rows of webhook_deliveries are a sequence in the      *)
(* order of created_at, which is taken to be that of their commits; the    *)
(* workers of DeliveryQueue are reduced to what they do to the state of a  *)
(* row.                                                                    *)
(***************************************************************************)
EXTENDS LegacyRetry, Sequences

CONSTANTS
  Configs,     \* the sets of emitters hookbox.toml may list
  Client,      \* replaying: admin requests and CLI commands in flight
  Viewer,      \* looking: admin requests and CLI commands in flight
  Migrated,    \* the receipts that may be older than migration 0002
  MaxRows      \* bound: rows of webhook_deliveries

Emitter == UNION Configs

ASSUME ReceiptsAssumption ==
  /\ {} \notin Configs
  /\ \A E \in Configs : IsFiniteSet(E)
  /\ IsFiniteSet(Receipt)
  /\ Migrated \subseteq Receipt /\ Cardinality(Migrated) <= MaxRows
  /\ Client \cap Viewer = {}
  /\ MaxRows \in Nat

VARIABLES
  stored,      \* the receipts in webhook_receipts
  rows,        \* webhook_deliveries by created_at
  config,      \* the emitters hookbox.toml lists
  emitters,    \* pipeline.emitter_names of the running server
  op           \* the operation of each client

tables == <<stored, rows>>
operating == <<config, emitters>>
vars == <<retryVars, tables, operating, op>>

\* WebhookDelivery.
DeliveryState == {"pending", "in_flight", "emitted", "failed", "dead_lettered"}
Row == [receipt : Receipt, emitter : Emitter \cup {"legacy"}, state : DeliveryState,
        immutable : BOOLEAN]

\* A client between operations.
Idle == [pc |-> "idle"]

\* Migration 0002 gives a receipt of the old release one immutable row.
BackfillState(s) ==
  CASE s \in {"emitted", "processed", "replayed"} -> "emitted"
    [] s \in {"emit_failed", "stored"} -> "failed"
    [] s = "dead_lettered" -> "dead_lettered"
Backfill(r) ==
  [receipt |-> r, emitter |-> "legacy", state |-> BackfillState(processing_state[r]),
   immutable |-> TRUE]

ReceiptsInit ==
  /\ LegacyInit
  /\ stored \in SUBSET Migrated
  /\ \A r \in Receipt \ stored : processing_state[r] = "stored"
  /\ \E order \in [1..Cardinality(stored) -> stored] :
       /\ \A i, j \in DOMAIN order : i < j => order[i] < order[j]
       /\ rows = [i \in DOMAIN order |-> Backfill(order[i])]
  /\ config \in Configs
  /\ emitters = config
  /\ op = [c \in Client \cup Viewer |-> Idle]

-----------------------------------------------------------------------------
(***************************************************************************)
(* The derived state of a receipt.                                         *)
(***************************************************************************)
MutableRows(t, r) == {i \in DOMAIN t : t[i].receipt = r /\ ~t[i].immutable}

\* latest_mutable_per_emitter: the states of the youngest rows.
LatestMutablePerEmitter(t, r) ==
  {t[i].state : i \in {i \in MutableRows(t, r) :
     \A j \in MutableRows(t, r) : t[j].emitter = t[i].emitter => j <= i}}

\* Mutant: one emitter's success is the receipt's.
AggregateAnyEmitted(states, fallback) ==
  IF states = {} THEN fallback
  ELSE IF "dead_lettered" \in states THEN "dead_lettered"
  ELSE IF "failed" \in states THEN "emit_failed"
  ELSE IF "emitted" \in states THEN "emitted"
  ELSE "stored"

AggregateFromStates(states, fallback) ==
  IF states = {} THEN fallback
  ELSE IF "dead_lettered" \in states THEN "dead_lettered"
  ELSE IF "failed" \in states THEN "emit_failed"
  ELSE IF states = {"emitted"} THEN "emitted"
  ELSE "stored"

\* receipt_aggregate_state, on the rows t and the column's value.
ReceiptAggregateState(t, r, fallback) ==
  AggregateFromStates(LatestMutablePerEmitter(t, r), fallback)

Derived(r) == ReceiptAggregateState(rows, r, processing_state[r])

-----------------------------------------------------------------------------
(***************************************************************************)
(* The tables.                                                             *)
(***************************************************************************)
NewRow(r, e) ==
  [receipt |-> r, emitter |-> e, state |-> "pending", immutable |-> FALSE]

\* The rows a transaction appends for the emitters E, in some order.
Appended(r, E) ==
  {[i \in 1..Cardinality(E) |-> NewRow(r, order[i])] :
     order \in {f \in [1..Cardinality(E) -> E] : \A i, j \in DOMAIN f : f[i] = f[j] => i = j}}

\* The pipeline stores a new receipt with its fan-out (module Ingest).
StoreWithDeliveries(r) ==
  /\ r \in Receipt \ stored
  /\ Len(rows) + Cardinality(emitters) <= MaxRows
  /\ stored' = stored \cup {r}
  /\ \E new \in Appended(r, emitters) : rows' = rows \o new
  /\ UNCHANGED <<retryVars, operating, op>>

SetRow(i, s) ==
  /\ rows' = [rows EXCEPT ![i].state = s]
  /\ UNCHANGED <<retryVars, stored, operating, op>>

\* A worker of the running server claims a row.
Claim(i) ==
  /\ rows[i].emitter \in emitters
  /\ rows[i].state \in {"pending", "failed"}
  /\ ~rows[i].immutable
  /\ SetRow(i, "in_flight")

\* The outcome of a dispatch reaches the row.
Dispatched(i) ==
  /\ rows[i].emitter \in emitters
  /\ rows[i].state = "in_flight"
  /\ \E s \in {"emitted", "failed", "dead_lettered"} : SetRow(i, s)

-----------------------------------------------------------------------------
(***************************************************************************)
(* Replays.  A client's operation waits at "insert" with the receipt and   *)
(* the emitters it decided on; `file` is what hookbox.toml listed when a   *)
(* command read it.                                                        *)
(***************************************************************************)
\* The answer "not found", "bad request", "refused" or an error: nothing is done.
Refuse(c) ==
  /\ op' = [op EXCEPT ![c] = Idle]
  /\ UNCHANGED <<retryVars, tables, operating>>

ToInsert(c, r, E, via) ==
  /\ op' = [op EXCEPT ![c] = [pc |-> "insert", receipt |-> r, names |-> E, via |-> via,
                              file |-> IF via = "cli" THEN @.file ELSE {}]]
  /\ UNCHANGED <<retryVars, tables, operating>>

\* replay_receipt up to the insert, without ?emitter and with it.
ReplayReceipt(c, r) ==
  /\ op[c].pc = "idle"
  /\ IF r \in stored THEN ToInsert(c, r, emitters, "admin") ELSE Refuse(c)

ReplayReceiptEmitter(c, r, e) ==
  /\ op[c].pc = "idle"
  /\ IF r \in stored /\ e \in emitters
     THEN ToInsert(c, r, {e}, "admin")
     ELSE Refuse(c)

\* Mutant: the emitter of the row is not looked up in the configuration.
ReplayDeliveryUnchecked(c, i) ==
  /\ op[c].pc = "idle"
  /\ IF i \notin DOMAIN rows THEN Refuse(c)
     ELSE ToInsert(c, rows[i].receipt, {rows[i].emitter}, "admin")

\* replay_delivery up to the insert.
ReplayDelivery(c, i) ==
  /\ op[c].pc = "idle"
  /\ IF i \notin DOMAIN rows THEN Refuse(c)
     ELSE IF rows[i].emitter \notin emitters THEN Refuse(c)
     ELSE ToInsert(c, rows[i].receipt, {rows[i].emitter}, "admin")

\* The commands read hookbox.toml first and keep what it listed.
CliStart(c, command) ==
  /\ op[c].pc = "idle"
  /\ op' = [op EXCEPT ![c] = [pc |-> command, file |-> config]]
  /\ UNCHANGED <<retryVars, tables, operating>>

\* run_replay_id with --emitter: the receipt is not looked up.
RunReplayIdEmitter(c, r, e) ==
  /\ op[c].pc = "replay_id"
  /\ IF e \in op[c].file THEN ToInsert(c, r, {e}, "cli") ELSE Refuse(c)

\* run_replay_id without it: to all emitters the receipt has rows for.
RunReplayId(c, r) ==
  LET historical == {rows[i].emitter : i \in {i \in DOMAIN rows : rows[i].receipt = r}} IN
  /\ op[c].pc = "replay_id"
  /\ IF historical # {} /\ historical \subseteq op[c].file
     THEN ToInsert(c, r, historical, "cli")
     ELSE Refuse(c)

\* `hookbox dlq retry`.
DlqRetry(c, i) ==
  /\ op[c].pc = "dlq_retry"
  /\ IF /\ i \in DOMAIN rows
        /\ rows[i].state = "dead_lettered"
        /\ rows[i].emitter \in op[c].file
     THEN ToInsert(c, rows[i].receipt, {rows[i].emitter}, "cli")
     ELSE Refuse(c)

\* Mutant: a replay starts the emitter's dead row over.
InsertReplaysResets(c) ==
  /\ op[c].pc = "insert"
  /\ op[c].receipt \in stored
  /\ rows' = [i \in DOMAIN rows |->
       IF rows[i].receipt = op[c].receipt /\ rows[i].emitter \in op[c].names
       THEN [rows[i] EXCEPT !.state = "pending"] ELSE rows[i]]
  /\ op' = [op EXCEPT ![c] = Idle]
  /\ UNCHANGED <<retryVars, stored, operating>>

\* insert_replay, insert_replays: all rows or none.
InsertReplays(c) ==
  /\ op[c].pc = "insert"
  /\ op[c].receipt \in stored
  /\ Len(rows) + Cardinality(op[c].names) <= MaxRows
  /\ \E new \in Appended(op[c].receipt, op[c].names) : rows' = rows \o new
  /\ op' = [op EXCEPT ![c] = Idle]
  /\ UNCHANGED <<retryVars, stored, operating>>

\* The receipt does not exist: the foreign key refuses the rows.
InsertOrphan(c) ==
  /\ op[c].pc = "insert"
  /\ op[c].receipt \notin stored
  /\ Refuse(c)

\* The insert fails, or its commit succeeds and the confirmation is lost.
InsertFails(c) ==
  /\ op[c].pc = "insert"
  /\ \/ UNCHANGED rows
     \/ /\ op[c].receipt \in stored
        /\ Len(rows) + Cardinality(op[c].names) <= MaxRows
        /\ \E new \in Appended(op[c].receipt, op[c].names) : rows' = rows \o new
  /\ op' = [op EXCEPT ![c] = Idle]
  /\ UNCHANGED <<retryVars, stored, operating>>

-----------------------------------------------------------------------------
(***************************************************************************)
(* Views.  The receipts are read first, then the rows of one after the     *)
(* other, the latest first.  `before` and `items[r].was` are histories:    *)
(* the derived state when the request read the receipt, and that and the   *)
(* one when it read its rows.                                              *)
(***************************************************************************)
ToView(c, R) ==
  /\ op' = [op EXCEPT ![c] = [pc |-> "view", todo |-> R,
                              columns |-> [r \in R |-> processing_state[r]],
                              before |-> [r \in R |-> Derived(r)],
                              items |-> {}]]
  /\ UNCHANGED <<retryVars, tables, operating>>

\* get_receipt.
GetReceipt(c, r) ==
  /\ op[c].pc = "idle"
  /\ IF r \in stored THEN ToView(c, {r}) ELSE Refuse(c)

\* list_receipts: the filter is put to the column.
ListReceipts(c, s) ==
  /\ op[c].pc = "idle"
  /\ ToView(c, {r \in stored : s = "any" \/ processing_state[r] = s})

\* Mutant: the column is shown as it is.
ItemRawColumn(c, r) == op[c].columns[r]

\* receipt_list_item_json, receipt_detail_json.
Item(c, r) == ReceiptAggregateState(rows, r, op[c].columns[r])

\* get_deliveries_for_receipt for the next receipt of the page.
ViewDeliveries(c) ==
  LET r == CHOOSE r \in op[c].todo : \A q \in op[c].todo : q <= r IN
  /\ op[c].pc = "view"
  /\ op[c].todo # {}
  /\ op' = [op EXCEPT ![c] =
       [pc |-> "view", todo |-> @.todo \ {r},
        columns |-> [q \in @.todo \ {r} |-> @.columns[q]],
        before |-> [q \in @.todo \ {r} |-> @.before[q]],
        items |-> @.items \cup {[shown |-> Item(c, r), was |-> {@.before[r], Derived(r)}]}]]
  /\ UNCHANGED <<retryVars, tables, operating>>

\* list_dlq, of one emitter or of all: the rows, then the receipt of each.
ListDlq(c, E) ==
  /\ op[c].pc = "idle"
  /\ op' = [op EXCEPT ![c] = [pc |-> "dlq", todo |-> {}, listed |->
       {i \in DOMAIN rows : rows[i].state = "dead_lettered" /\ rows[i].emitter \in E}]]
  /\ UNCHANGED <<retryVars, tables, operating>>

\* The page is answered.
ViewDone(c) ==
  /\ op[c].pc \in {"view", "dlq"}
  /\ op[c].todo = {}
  /\ op' = [op EXCEPT ![c] = Idle]
  /\ UNCHANGED <<retryVars, tables, operating>>

\* One of its statements fails: the request is answered with 500.
ViewFails(c) ==
  /\ op[c].pc \in {"view", "dlq"}
  /\ op' = [op EXCEPT ![c] = Idle]
  /\ UNCHANGED <<retryVars, tables, operating>>

-----------------------------------------------------------------------------
\* hookbox.toml is edited.
EditConfig(new) ==
  /\ config' = new
  /\ UNCHANGED <<retryVars, tables, emitters, op>>

\* The server is restarted with it; requests in flight are lost.
FromServer(o) == o.pc \in {"view", "dlq"} \/ (o.pc = "insert" /\ o.via = "admin")
Restart ==
  /\ emitters # config
  /\ emitters' = config
  /\ op' = [c \in DOMAIN op |-> IF FromServer(op[c]) THEN Idle ELSE op[c]]
  /\ UNCHANGED <<retryVars, tables, config>>

\* `hookbox replay failed`; `hookbox serve` runs no RetryWorker.
ReplayFailedStep ==
  /\ \E o \in Operator : ReplayFailed(o, stored) \/ ResetForRetry(o) \/ ResetFails(o)
  /\ UNCHANGED <<tables, operating, op>>

ClientStep(c) ==
  \/ \E r \in Receipt, e \in Emitter :
       ReplayReceiptEmitter(c, r, e) \/ RunReplayIdEmitter(c, r, e)
  \/ \E r \in Receipt : ReplayReceipt(c, r) \/ RunReplayId(c, r)
  \/ \E i \in 1..MaxRows : ReplayDelivery(c, i) \/ DlqRetry(c, i)
  \/ \E command \in {"replay_id", "dlq_retry"} : CliStart(c, command)
  \/ InsertReplays(c) \/ InsertOrphan(c) \/ InsertFails(c)

ViewerStep(v) ==
  \/ \E r \in Receipt : GetReceipt(v, r)
  \/ \E s \in {"any", "dead_lettered"} : ListReceipts(v, s)
  \/ \E e \in Emitter : ListDlq(v, {e})
  \/ ListDlq(v, Emitter \cup {"legacy"})
  \/ ViewDeliveries(v)
  \/ ViewDone(v) \/ ViewFails(v)

ReceiptsNext ==
  \/ \E c \in Client : ClientStep(c)
  \/ \E v \in Viewer : ViewerStep(v)
  \/ \E r \in Receipt : StoreWithDeliveries(r)
  \/ \E i \in DOMAIN rows : Claim(i) \/ Dispatched(i)
  \/ \E new \in Configs : EditConfig(new)
  \/ Restart
  \/ ReplayFailedStep

ReceiptsSpec == ReceiptsInit /\ [][ReceiptsNext]_vars

-----------------------------------------------------------------------------
ReceiptsTypeOK ==
  /\ LegacyTypeOK
  /\ stored \subseteq Receipt
  /\ rows \in Seq(Row) /\ Len(rows) <= MaxRows
  /\ config \in Configs /\ emitters \in Configs
  /\ \A c \in Client \cup Viewer :
       /\ op[c].pc \in {"idle", "insert", "replay_id", "dlq_retry", "view", "dlq"}
       /\ op[c].pc = "insert" => op[c].names \subseteq Emitter
       /\ op[c].pc \in {"replay_id", "dlq_retry"} => op[c].file \subseteq Emitter

(***************************************************************************)
(* A receipt that is shown as emitted got downstream through every emitter *)
(* it has rows for, whatever was replayed, failed and dead-lettered        *)
(* meanwhile: receipt_aggregate_state never hides an emitter that has not  *)
(* taken the event.                                                        *)
(***************************************************************************)
EmittedReached ==
  \A r \in stored :
    Derived(r) = "emitted" =>
      \A i \in MutableRows(rows, r) :
        \E j \in MutableRows(rows, r) : rows[j].emitter = rows[i].emitter /\ rows[j].state = "emitted"

(***************************************************************************)
(* The rows are an audit trail: no replay, retry or migration removes a    *)
(* row, moves it to another receipt or emitter, or reopens one that is     *)
(* settled or immutable.                                                   *)
(***************************************************************************)
AuditTrail ==
  [][/\ Len(rows) <= Len(rows')
     /\ \A i \in DOMAIN rows :
          /\ rows'[i].receipt = rows[i].receipt /\ rows'[i].emitter = rows[i].emitter
          /\ rows[i].immutable \/ rows[i].state \in {"emitted", "dead_lettered"}
               => rows'[i] = rows[i]]_vars

(***************************************************************************)
(* A row is added only for an emitter that the running server has a worker *)
(* for or, by a command, for one that hookbox.toml listed when the command *)
(* read it: a replay of a backfilled row or of a retired emitter is        *)
(* refused, and a row nobody serves is the mark of a command that was      *)
(* overtaken by an edit of the file.                                       *)
(***************************************************************************)
TargetsAreServed ==
  [][\A i \in DOMAIN rows' \ DOMAIN rows :
       \/ rows'[i].emitter \in emitters
       \/ \E c \in Client : /\ op[c].pc = "insert" /\ op'[c] = Idle
                            /\ rows'[i].emitter \in op[c].file]_vars

(***************************************************************************)
(* The state a request shows of a receipt, computed from two reads that    *)
(* are not one transaction, is one the receipt was in at one of them; and  *)
(* a dead letter that is shown stays one, for its `dlq retry` to find.     *)
(***************************************************************************)
ViewWasTrue ==
  \A v \in Viewer :
    /\ op[v].pc = "view" => \A item \in op[v].items : item.shown \in item.was
    /\ op[v].pc = "dlq" => \A i \in op[v].listed : rows[i].state = "dead_lettered"
=============================================================================
