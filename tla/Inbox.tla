-------------------------------- MODULE Inbox --------------------------------
(***************************************************************************)
(* What hookbox promises a webhook provider, with no process, transaction, *)
(* cache or network in it: the first genuine copy of an event is stored    *)
(* together with its whole fan-out, once and for all, and every positive   *)
(* answer to a copy of the event names that receipt.                       *)
(***************************************************************************)
CONSTANTS Receipt, KeyOfReceipt(_), Genuine, Request, KeyOfRequest(_), Emitter

VARIABLES
  inbox,    \* the receipts stored
  queued,   \* the deliveries queued: pairs of a receipt and an emitter
  told      \* the positive answers: pairs of a request and a receipt

vars == <<inbox, queued, told>>

Init ==
  /\ inbox = {}
  /\ queued = {}
  /\ told = {}

Store(i) ==
  /\ i \in Genuine
  /\ \A j \in inbox : KeyOfReceipt(j) # KeyOfReceipt(i)
  /\ inbox' = inbox \cup {i}
  /\ queued' = queued \cup ({i} \X Emitter)
  /\ UNCHANGED told

Tell(r, i) ==
  /\ i \in inbox
  /\ KeyOfReceipt(i) = KeyOfRequest(r)
  /\ told' = told \cup {<<r, i>>}
  /\ UNCHANGED <<inbox, queued>>

Next ==
  \/ \E i \in Receipt : Store(i)
  \/ \E r \in Request, i \in Receipt : Tell(r, i)

Spec == Init /\ [][Next]_vars
=============================================================================
