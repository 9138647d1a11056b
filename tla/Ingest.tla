-------------------------------- MODULE Ingest --------------------------------
(***************************************************************************)
(* The ingest path of hookbox: the HTTP handler                            *)
(* (hookbox-server/src/routes/ingest.rs), the pipeline it runs             *)
(* (hookbox/src/pipeline.rs), the layered dedupe (hookbox/src/dedupe.rs,   *)
(* hookbox-postgres/src/dedupe.rs) and the transaction of                  *)
(* store_with_deliveries (hookbox-postgres/src/storage.rs).                *)
(*                                                                         *)
(* Several server processes share one database.  Every await of the        *)
(* pipeline is a point where other requests run, where the client may go   *)
(* away (the handler's future is dropped) or where the process may die.    *)
(* A provider sends an event again until it is given an answer that is not *)
(* a 500; two requests may carry the same event.                           *)
(*                                                                         *)
(* The dedupe key is the provider and the hash of the body, so two         *)
(* requests with one key have one payload hash and DedupeDecision::Conflict*)
(* does not arise: the cache is a set of keys.  Metrics, reasons and the   *)
(* columns of a receipt that no later step of the path reads are left out. *)
(***************************************************************************)
EXTENDS Naturals, Sequences, FiniteSets

CONSTANTS
  Process,    \* server processes
  Request,    \* webhooks as a provider sends them, retries not counted
  Key,        \* dedupe keys
  KeyOf,      \* the dedupe key of a request
  Forged,     \* the requests whose signature the verifier rejects
  Emitter,    \* emitter_names of the pipeline
  Capacity,   \* InMemoryRecentDedupe::capacity
  PoolSize,   \* connections in the pool of a process
  MaxFaults   \* bound: how many faults the environment may inject

ASSUME IngestAssumption ==
  /\ KeyOf \in [Request -> Key]
  /\ Forged \subseteq Request
  /\ Capacity \in Nat \ {0}
  /\ PoolSize \in Nat \ {0}
  /\ MaxFaults \in Nat

VARIABLES
  receipts,    \* table webhook_receipts: the committed receipt ids
  deliveries,  \* table webhook_deliveries: committed <<receipt id, emitter>>
  pc,          \* the stage a request is in, or the last answer to it
  host,        \* the process that handles the request
  tries,       \* times the request was sent; <<r, tries[r]>> is its ReceiptId
  fanned,      \* emitters whose row the open transaction of a request has inserted
  map,         \* InMemoryRecentDedupeInner::map of each process
  order,       \* InMemoryRecentDedupeInner::order of each process
  learnt,      \* history: the new keys each process was given to record, in order
  acks,        \* history: <<request, receipt id>> of the 200 answers
  faults       \* faults the environment may still inject

tables == <<receipts, deliveries>>
cache == <<map, order, learnt>>
vars == <<receipts, deliveries, pc, host, tries, fanned, map, order, learnt,
          acks, faults>>

\* A webhook is sent again only after a fault, so these ids are enough.
ReceiptId == Request \X (1 .. MaxFaults + 1)

\* The ReceiptId::new() of the ingest call that handles the request, and the
\* dedupe_key column of a receipt.
Id(r) == <<r, tries[r]>>
KeyOfId(i) == KeyOf[i[1]]
KeyOfRequest(r) == KeyOf[r]

\* The answers: 200 accepted, 200 duplicate, 401, 500.
Answer == {"accepted", "duplicate", "verification_failed", "error"}

\* The stages at which the handler of a request is suspended.
Stage == {"verify", "check", "lookup", "begin", "insert", "existing",
          "fanout", "commit", "record"}

InFlight(r) == pc[r] \in Stage

\* Mutant: the existing id is fetched before the transaction is rolled back.
ConnectedWhileFetching(r) == pc[r] \in {"insert", "existing", "fanout", "commit"}

\* Between begin() and the end of its transaction a request holds a connection.
Connected(r) == pc[r] \in {"insert", "fanout", "commit"}

\* A row of the key is inserted and not committed: the unique index makes any
\* other INSERT of the key wait.
Locks(r) == pc[r] \in {"fanout", "commit"}

Free(p) ==
  Cardinality({r \in Request : host[r] = p /\ Connected(r)}) < PoolSize

\* One unit of bad luck: a failed statement, a lost answer, a client that goes
\* away, a crash.
Fault ==
  /\ faults > 0
  /\ faults' = faults - 1

TypeOK ==
  /\ receipts \subseteq ReceiptId
  /\ deliveries \subseteq ReceiptId \X Emitter
  /\ pc \in [Request -> Stage \cup Answer \cup {"idle"}]
  /\ host \in [Request -> Process]
  /\ tries \in [Request -> 0 .. MaxFaults + 1]
  /\ fanned \in [Request -> SUBSET Emitter]
  /\ map \in [Process -> SUBSET Key]
  /\ order \in [Process -> Seq(Key)]
  /\ learnt \in [Process -> Seq(Key)]
  /\ acks \subseteq Request \X ReceiptId
  /\ faults \in 0..MaxFaults

Init ==
  /\ receipts = {}
  /\ deliveries = {}
  /\ pc = [r \in Request |-> "idle"]
  /\ \E p \in Process : host = [r \in Request |-> p]
  /\ tries = [r \in Request |-> 0]
  /\ fanned = [r \in Request |-> {}]
  /\ map = [p \in Process |-> {}]
  /\ order = [p \in Process |-> <<>>]
  /\ learnt = [p \in Process |-> <<>>]
  /\ acks = {}
  /\ faults = MaxFaults

Goto(r, s) == pc' = [pc EXCEPT ![r] = s]

-----------------------------------------------------------------------------
(***************************************************************************)
(* The provider sends the webhook, for the first time or again.            *)
(***************************************************************************)
Send(r, p) ==
  /\ pc[r] \in {"idle", "error"}
  /\ host' = [host EXCEPT ![r] = p]
  /\ tries' = [tries EXCEPT ![r] = @ + 1]
  /\ Goto(r, "verify")
  /\ UNCHANGED <<tables, fanned, cache, acks, faults>>

(***************************************************************************)
(* Stages 2 and 3 of the pipeline.  The advice of the dedupe is logged and *)
(* nothing else: only whether the database is asked depends on the cache.  *)
(***************************************************************************)
\* Mutant: the rejection is logged and the pipeline goes on.
VerifyLogsOnly(r) ==
  /\ pc[r] = "verify"
  /\ Goto(r, "check")
  /\ UNCHANGED <<tables, host, tries, fanned, cache, acks, faults>>

\* Mutant: the VerificationStatus is answered instead of the IngestResult.
VerifyRelabelled(r) ==
  /\ pc[r] = "verify"
  /\ Goto(r, IF r \in Forged THEN "failed" ELSE "check")
  /\ UNCHANGED <<tables, host, tries, fanned, cache, acks, faults>>

Verify(r) ==
  /\ pc[r] = "verify"
  /\ Goto(r, IF r \in Forged THEN "verification_failed" ELSE "check")
  /\ UNCHANGED <<tables, host, tries, fanned, cache, acks, faults>>

Cached(r) == KeyOf[r] \in map[host[r]]
CheckFast(r) ==
  /\ pc[r] = "check"
  /\ Goto(r, IF Cached(r) THEN "begin" ELSE "lookup")
  /\ UNCHANGED <<tables, host, tries, fanned, cache, acks, faults>>

CheckStorage(r) ==
  /\ pc[r] = "lookup"
  /\ Free(host[r])
  /\ Goto(r, "begin")
  /\ UNCHANGED <<tables, host, tries, fanned, cache, acks, faults>>

(***************************************************************************)
(* Stage 4: store_with_deliveries.                                         *)
(***************************************************************************)
Begin(r) ==
  /\ pc[r] = "begin"
  /\ Free(host[r])
  /\ Goto(r, "insert")
  /\ UNCHANGED <<tables, host, tries, fanned, cache, acks, faults>>

SameKey(r) == {i \in receipts : KeyOfId(i) = KeyOf[r]}

\* Mutant: without the unique index the INSERT does not wait for the
\* transaction that holds the key.
InsertReceiptNoWait(r) ==
  /\ pc[r] = "insert"
  /\ fanned' = [fanned EXCEPT ![r] = {}]
  /\ Goto(r, IF SameKey(r) = {} THEN "fanout" ELSE "existing")
  /\ UNCHANGED <<tables, host, tries, cache, acks, faults>>

\* INSERT ... ON CONFLICT (dedupe_key) DO NOTHING, and the rollback() that
\* follows a conflict.
InsertReceipt(r) ==
  /\ pc[r] = "insert"
  /\ \A q \in Request : KeyOf[q] = KeyOf[r] => ~Locks(q)
  /\ fanned' = [fanned EXCEPT ![r] = {}]
  /\ Goto(r, IF SameKey(r) = {} THEN "fanout" ELSE "existing")
  /\ UNCHANGED <<tables, host, tries, cache, acks, faults>>

\* The SELECT of the existing id, on a connection of its own, and the answer.
FetchExisting(r) ==
  /\ pc[r] = "existing"
  /\ Free(host[r])
  /\ IF SameKey(r) = {}
     THEN Goto(r, "error") /\ UNCHANGED acks
     ELSE /\ \E i \in SameKey(r) : acks' = acks \cup {<<r, i>>}
          /\ Goto(r, "duplicate")
  /\ UNCHANGED <<tables, host, tries, fanned, cache, faults>>

\* One turn of the loop over emitter_names.
InsertDelivery(r, e) ==
  /\ pc[r] = "fanout"
  /\ e \notin fanned[r]
  /\ fanned' = [fanned EXCEPT ![r] = @ \cup {e}]
  /\ UNCHANGED <<tables, pc, host, tries, cache, acks, faults>>

\* Mutant: the commit does not wait for the end of the loop.
FanOutDoneEarly(r) ==
  /\ pc[r] = "fanout"
  /\ fanned[r] # {}
  /\ Goto(r, "commit")
  /\ UNCHANGED <<tables, host, tries, fanned, cache, acks, faults>>

FanOutDone(r) ==
  /\ pc[r] = "fanout"
  /\ fanned[r] = Emitter
  /\ Goto(r, "commit")
  /\ UNCHANGED <<tables, host, tries, fanned, cache, acks, faults>>

\* The rows of the transaction become visible, all of them at once.
Publish(r) ==
  /\ receipts' = receipts \cup {Id(r)}
  /\ deliveries' = deliveries \cup ({Id(r)} \X fanned[r])

Commit(r) ==
  /\ pc[r] = "commit"
  /\ Publish(r)
  /\ Goto(r, "record")
  /\ UNCHANGED <<host, tries, fanned, cache, acks, faults>>

(***************************************************************************)
(* InMemoryRecentDedupe::record, under the mutex of the cache, and the     *)
(* answer.  StorageDedupe::record does nothing.                            *)
(***************************************************************************)
\* Mutant: the newest key is popped instead of the oldest.
RememberEvictsNewest(p, k) ==
  IF k \in map[p]
  THEN UNCHANGED <<map, order>>
  ELSE LET full == Cardinality(map[p]) >= Capacity /\ order[p] # <<>>
           kept == SubSeq(order[p], 1, Len(order[p]) - 1) IN
       /\ map' = [map EXCEPT ![p] =
                    (IF full THEN @ \ {order[p][Len(order[p])]} ELSE @) \cup {k}]
       /\ order' = [order EXCEPT ![p] = Append(IF full THEN kept ELSE @, k)]

Remember(p, k) ==
  IF k \in map[p]
  THEN UNCHANGED <<map, order>>
  ELSE LET full == Cardinality(map[p]) >= Capacity /\ order[p] # <<>> IN
       /\ map' = [map EXCEPT ![p] =
                    (IF full THEN @ \ {Head(order[p])} ELSE @) \cup {k}]
       /\ order' = [order EXCEPT ![p] = Append(IF full THEN Tail(@) ELSE @, k)]

Record(r) ==
  /\ pc[r] = "record"
  /\ Remember(host[r], KeyOf[r])
  /\ learnt' = IF KeyOf[r] \in map[host[r]]
               THEN learnt
               ELSE [learnt EXCEPT ![host[r]] = Append(@, KeyOf[r])]
  /\ acks' = acks \cup {<<r, Id(r)>>}
  /\ Goto(r, "accepted")
  /\ UNCHANGED <<tables, host, tries, fanned, faults>>

-----------------------------------------------------------------------------
(***************************************************************************)
(* What goes wrong.                                                        *)
(***************************************************************************)
\* Mutant: the error of commit() is ignored.
StatementFailsIgnored(r) ==
  /\ pc[r] \in {"lookup", "begin", "insert", "existing", "fanout", "commit"}
  /\ Fault
  /\ Goto(r, IF pc[r] = "commit" THEN "record" ELSE "error")
  /\ UNCHANGED <<tables, host, tries, fanned, cache, acks>>

\* A statement, or the wait for a connection, fails: the pipeline returns the
\* error, and the transaction, if there is one, is rolled back when dropped.
StatementFails(r) ==
  /\ pc[r] \in {"lookup", "begin", "insert", "existing", "fanout", "commit"}
  /\ Fault
  /\ Goto(r, "error")
  /\ UNCHANGED <<tables, host, tries, fanned, cache, acks>>

\* The database commits, and the confirmation does not reach the pipeline.
CommitUnknown(r) ==
  /\ pc[r] = "commit"
  /\ Fault
  /\ Publish(r)
  /\ Goto(r, "error")
  /\ UNCHANGED <<host, tries, fanned, cache, acks>>

\* The client goes away: the server drops the handler's future where it is.
Cancel(r) ==
  /\ InFlight(r)
  /\ Fault
  /\ Goto(r, "idle")
  /\ UNCHANGED <<tables, host, tries, fanned, cache, acks>>

\* The answer is lost on its way: the provider sends the webhook again.
AnswerLost(r) ==
  /\ pc[r] \in {"accepted", "duplicate"}
  /\ Fault
  /\ Goto(r, "idle")
  /\ UNCHANGED <<tables, host, tries, fanned, cache, acks>>

\* A process dies and is replaced: its requests and its cache are gone.
Crash(p) ==
  /\ Fault
  /\ pc' = [r \in Request |-> IF InFlight(r) /\ host[r] = p THEN "idle" ELSE pc[r]]
  /\ map' = [map EXCEPT ![p] = {}]
  /\ order' = [order EXCEPT ![p] = <<>>]
  /\ learnt' = [learnt EXCEPT ![p] = <<>>]
  /\ UNCHANGED <<tables, host, tries, fanned, acks>>

-----------------------------------------------------------------------------
Handle(r) ==
  \/ Verify(r)
  \/ CheckFast(r)
  \/ CheckStorage(r)
  \/ Begin(r)
  \/ InsertReceipt(r)
  \/ FetchExisting(r)
  \/ \E e \in Emitter : InsertDelivery(r, e)
  \/ FanOutDone(r)
  \/ Commit(r)
  \/ Record(r)

Fail(r) ==
  \/ StatementFails(r)
  \/ CommitUnknown(r)
  \/ Cancel(r)
  \/ AnswerLost(r)

Next ==
  \/ \E r \in Request, p \in Process : Send(r, p)
  \/ \E r \in Request : Handle(r) \/ Fail(r)
  \/ \E p \in Process : Crash(p)

Spec == Init /\ [][Next]_vars

(***************************************************************************)
(* The runtime polls every handler, the database answers, and a provider   *)
(* goes on sending a webhook that was answered with a 500 or not at all.   *)
(***************************************************************************)
FairSpec ==
  /\ Spec
  /\ \A r \in Request : /\ WF_vars(Handle(r))
                        /\ WF_vars(\E p \in Process : Send(r, p))

-----------------------------------------------------------------------------
(***************************************************************************)
(* Properties.                                                             *)
(***************************************************************************)

\* The provider is given a 200 only after the commit: whatever request was
\* ever told "accepted" or "duplicate", the receipt it was told of is stored,
\* is a receipt of that event, and has one delivery for every emitter.
AckedIsDurable ==
  \A a \in acks : /\ a[2] \in receipts
                  /\ KeyOfId(a[2]) = KeyOf[a[1]]
                  /\ \A e \in Emitter : <<a[2], e>> \in deliveries

\* An event is stored once however many copies of it are in the pipelines of
\* however many processes, retried after whatever error; and only if the
\* verifier let it through.
StoredOnce ==
  /\ \A i, j \in receipts : KeyOfId(i) = KeyOfId(j) => i = j
  /\ \A i \in receipts : i[1] \notin Forged

\* The fan-out is atomic: at any moment the deliveries in the queue are the
\* receipts stored times the emitters, after cancelled, failed and unconfirmed
\* transactions too.
FanOutAtomic == deliveries = receipts \X Emitter

\* The advisory cache of a process knows the last keys it was given, as many
\* as it has room for and no others: it forgets in the order it learnt, its map
\* and its queue stay in step, no key is held twice, and it never claims an
\* event that is not stored.
CacheCoherent ==
  \A p \in Process :
    LET known == IF Len(learnt[p]) < Capacity THEN Len(learnt[p]) ELSE Capacity IN
    /\ Len(order[p]) = known
    /\ \A n \in 1 .. known : order[p][n] = learnt[p][Len(learnt[p]) - known + n]
    /\ map[p] = {order[p][n] : n \in DOMAIN order[p]}
    /\ \A m, n \in DOMAIN order[p] : order[p][m] = order[p][n] => m = n
    /\ \A k \in map[p] : \E i \in receipts : KeyOfId(i) = k

\* Every webhook is answered in the end, and a genuine one with a 200: no
\* handler waits for ever for a key or for a connection of the pool.
EveryWebhookAnswered ==
  \A r \in Request :
    <>[](pc[r] \in IF r \in Forged THEN {"verification_failed"}
                                   ELSE {"accepted", "duplicate"})

\* What the README says of a verification failure: its receipt is stored.
RejectedIsStored ==
  \A r \in Request : pc[r] = "verification_failed" => Id(r) \in receipts

(***************************************************************************)
(* The ingest path implements the inbox.                                   *)
(***************************************************************************)
I == INSTANCE Inbox WITH
       Receipt <- ReceiptId,
       KeyOfReceipt <- KeyOfId,
       Genuine <- {i \in ReceiptId : i[1] \notin Forged},
       inbox <- receipts,
       queued <- deliveries,
       told <- acks

\* Seen from outside, storing an event with its fan-out is one step, which
\* happens at most once, and every 200 comes after it.
ImplementsInbox == I!Spec
=============================================================================
