------------------------------ MODULE Adapters ------------------------------
(***************************************************************************)
(* The emitter adapters (hookbox-emitter-kafka, -sqs, -redis, -nats and    *)
(* hookbox/src/emitter.rs): what Ok and Err of emit say about the event.   *)
(*                                                                         *)
(* The adapters that wait for the broker's answer send a request and give  *)
(* up on an error or at a timeout; a request that was given up may still   *)
(* arrive.  librdkafka, without enable.idempotence, and the AWS SDK, with  *)
(* its default retries, send a request again within one emit when its      *)
(* answer is lost.  The other adapters hand the event to a buffer of the   *)
(* process, which something else empties: the NATS client, librdkafka with *)
(* acks = 0, the drain task of the development channel.                    *)
(*                                                                         *)
(* The brokers are external: a stream, topic or queue counts the copies of *)
(* an event, and a FIFO queue of SQS drops a message whose deduplication   *)
(* id, the receipt's, it has seen in the last five minutes.                *)
(***************************************************************************)
EXTENDS Naturals, FiniteSets, Sequences

CONSTANTS
  Event,        \* the events, by receipt_id
  Kinds,        \* the kinds of adapter to look at
  Capacity,     \* of the development channel; 1024 in the code
  MaxCalls,     \* bound: emits of each event
  MaxFaults     \* bound: faults

Confirming == {"kafka", "sqs", "sqs_fifo", "redis"}
Resending == {"kafka", "sqs", "sqs_fifo"}
Buffering == {"kafka_acks0", "nats", "channel"}

ASSUME AdaptersAssumption ==
  /\ IsFiniteSet(Event)
  /\ Kinds \subseteq Confirming \cup Buffering
  /\ Capacity \in Nat \ {0}
  /\ MaxCalls \in [Event -> Nat] /\ MaxFaults \in Nat

VARIABLES
  kind,        \* of the adapter
  call,        \* of emit, by event
  calls,       \* history: emits begun, by event
  resent,      \* history: requests the client library sent again, by event
  flying,      \* requests in the network, by event
  copies,      \* in the broker, by event
  buffer,      \* events the process has still to hand over, in order
  remembered,  \* deduplication ids a FIFO queue has
  forgotten,   \* history: how often it forgot one, by event
  acked,       \* history: events of which an emit returned Ok
  lost,        \* history: events that were in a buffer that was lost
  faults       \* faults left

broker == <<flying, copies, buffer, remembered, forgotten, lost>>
adapterVars == <<kind, call, calls, resent, broker, acked, faults>>

AdaptersTypeOK ==
  /\ kind \in Kinds
  /\ call \in [Event -> {"none", "sending", "landed", "ok", "err", "marked_ok", "marked_err"}]
  /\ calls \in [Event -> Nat]
  /\ resent \in [Event -> Nat]
  /\ flying \in [Event -> Nat]
  /\ copies \in [Event -> Nat]
  /\ buffer \in Seq(Event)
  /\ remembered \subseteq Event
  /\ forgotten \in [Event -> Nat]
  /\ acked \subseteq Event
  /\ lost \subseteq Event
  /\ faults \in 0..MaxFaults

AdaptersInit ==
  /\ kind \in Kinds
  /\ call = [e \in Event |-> "none"]
  /\ calls = [e \in Event |-> 0]
  /\ resent = [e \in Event |-> 0]
  /\ flying = [e \in Event |-> 0]
  /\ copies = [e \in Event |-> 0]
  /\ buffer = <<>>
  /\ remembered = {}
  /\ forgotten = [e \in Event |-> 0]
  /\ acked = {}
  /\ lost = {}
  /\ faults = MaxFaults

-----------------------------------------------------------------------------
Bump(f, e) == [f EXCEPT ![e] = @ + 1]
Lower(f, e) == [f EXCEPT ![e] = @ - 1]
Buffered == {buffer[i] : i \in DOMAIN buffer}
Returns(e, result) == call' = [call EXCEPT ![e] = result]

\* The event is serialised and the request leaves, or the buffer is asked.
EmitCall(e) ==
  /\ call[e] = "none"
  /\ calls[e] < MaxCalls[e]
  /\ Returns(e, "sending")
  /\ calls' = Bump(calls, e)
  /\ flying' = IF kind \in Confirming THEN Bump(flying, e) ELSE flying
  /\ UNCHANGED <<kind, resent, copies, buffer, remembered, forgotten, acked, lost, faults>>

\* Mutant: the queue is told a new deduplication id every time.
StoreAlways(e) ==
  /\ copies' = Bump(copies, e)
  /\ UNCHANGED remembered

\* The broker stores the message; a FIFO queue drops one it knows.
Store(e) ==
  IF kind = "sqs_fifo"
  THEN /\ copies' = IF e \in remembered THEN copies ELSE Bump(copies, e)
       /\ remembered' = remembered \cup {e}
  ELSE /\ copies' = Bump(copies, e)
       /\ UNCHANGED remembered

\* The request of the current call arrives.
Land(e) ==
  /\ call[e] = "sending"
  /\ flying[e] > 0
  /\ flying' = Lower(flying, e)
  /\ Store(e)
  /\ Returns(e, "landed")
  /\ UNCHANGED <<kind, calls, resent, buffer, forgotten, acked, lost, faults>>

\* The answer is lost, on its way back or with the request: the client library
\* sends the request again and waits for the answer to that.
Resend(e) ==
  /\ kind \in Resending
  /\ call[e] = "landed" \/ flying[e] > 0
  /\ faults > 0
  /\ faults' = faults - 1
  /\ Returns(e, IF call[e] = "landed" THEN "sending" ELSE call[e])
  /\ flying' = Bump(flying, e)
  /\ resent' = Bump(resent, e)
  /\ UNCHANGED <<kind, calls, copies, buffer, remembered, forgotten, acked, lost>>

\* One that was given up or sent again arrives, or never does.
Abandoned(e) == IF call[e] = "sending" THEN flying[e] - 1 ELSE flying[e]
LandLate(e) ==
  /\ kind \in Confirming
  /\ Abandoned(e) > 0
  /\ flying' = Lower(flying, e)
  /\ \/ Store(e)
     \/ UNCHANGED <<copies, remembered>>
  /\ UNCHANGED <<kind, call, calls, resent, buffer, forgotten, acked, lost, faults>>

\* Mutant: the answer is not waited for.
ConfirmUnread(e) ==
  /\ kind \in Confirming
  /\ call[e] \in {"sending", "landed"}
  /\ Returns(e, "ok")
  /\ acked' = acked \cup {e}
  /\ UNCHANGED <<kind, calls, resent, broker, faults>>

\* KafkaEmitter, SqsEmitter, RedisEmitter: the answer is read in time.
Confirm(e) ==
  /\ kind \in Confirming
  /\ call[e] = "landed"
  /\ Returns(e, "ok")
  /\ acked' = acked \cup {e}
  /\ UNCHANGED <<kind, calls, resent, broker, faults>>

\* They fail: the broker refuses, or the time is up and the request goes on.
Refused(e) ==
  /\ kind \in Confirming
  /\ call[e] = "sending"
  /\ flying' = Lower(flying, e)
  /\ Returns(e, "err")
  /\ UNCHANGED <<kind, calls, resent, copies, buffer, remembered, forgotten, acked, lost, faults>>

TimedOut(e) ==
  /\ kind \in Confirming
  /\ call[e] \in {"sending", "landed"}
  /\ Returns(e, "err")
  /\ UNCHANGED <<kind, calls, resent, broker, acked, faults>>

\* NatsEmitter, ChannelEmitter and Kafka without acks: the buffer takes it.
Buffer(e) ==
  /\ kind \in Buffering
  /\ call[e] = "sending"
  /\ kind = "channel" => Len(buffer) < Capacity
  /\ buffer' = Append(buffer, e)
  /\ acked' = acked \cup {e}
  /\ Returns(e, "ok")
  /\ UNCHANGED <<kind, calls, resent, flying, copies, remembered, forgotten, lost, faults>>

\* They fail: the client or the receiving end is closed.
Closed(e) ==
  /\ kind \in Buffering
  /\ call[e] = "sending"
  /\ faults > 0
  /\ faults' = faults - 1
  /\ Returns(e, "err")
  /\ UNCHANGED <<kind, calls, resent, broker, acked>>

\* The client writes out its buffer; drain_emitter takes the next event.
Flush ==
  /\ buffer # <<>>
  /\ buffer' = Tail(buffer)
  /\ copies' = Bump(copies, Head(buffer))
  /\ UNCHANGED <<kind, call, calls, resent, flying, remembered, forgotten, acked, lost, faults>>

\* The connection or the process dies with what is in the buffer.
LoseBuffer ==
  /\ buffer # <<>>
  /\ faults > 0
  /\ faults' = faults - 1
  /\ lost' = lost \cup Buffered
  /\ buffer' = <<>>
  /\ UNCHANGED <<kind, call, calls, resent, flying, copies, remembered, forgotten, acked>>

\* Five minutes have passed.
Forget(e) ==
  /\ e \in remembered
  /\ remembered' = remembered \ {e}
  /\ forgotten' = Bump(forgotten, e)
  /\ UNCHANGED <<kind, call, calls, resent, flying, copies, buffer, acked, lost, faults>>

EmitStep(e) ==
  \/ call[e] \in {"sending", "landed"} /\ Resend(e)
  \/ Land(e) \/ LandLate(e) \/ Confirm(e) \/ Refused(e) \/ TimedOut(e)
  \/ Buffer(e) \/ Closed(e)

BrokerStep ==
  \/ \E e \in Event : Forget(e)
  \/ Flush
  \/ LoseBuffer

-----------------------------------------------------------------------------
(***************************************************************************)
(* What Ok of an emit is worth: with an adapter that waits for the answer  *)
(* the broker has the event; with the others it has it, will have it, or   *)
(* the process lost its buffer.  An event is never simply gone.            *)
(***************************************************************************)
AckedIsDownstream ==
  \A e \in acked :
    \/ copies[e] > 0
    \/ kind \in Buffering /\ e \in Buffered \cup lost

(***************************************************************************)
(* Retries duplicate an event, but never more often than it was emitted or *)
(* sent again by the client library; a FIFO queue takes one copy for every *)
(* five minutes it was retried in, whoever retried.  That, and not the     *)
(* "exactly-once delivery" of the doc of SqsEmitter, is what the           *)
(* deduplication id gives: a backoff may be an hour.                       *)
(***************************************************************************)
CopiesBounded ==
  \A e \in Event :
    /\ copies[e] + flying[e] <= calls[e] + resent[e]
    /\ kind = "sqs_fifo" => copies[e] <= 1 + forgotten[e]
=============================================================================
