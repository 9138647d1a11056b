--------------------------- MODULE DeliveryLedger ---------------------------
(***************************************************************************)
(* What the delivery queue promises, with no worker, lease or clock in it: *)
(* a delivery that was enqueued stays open until it is settled once and    *)
(* for all, as emitted only after the downstream system took the event,    *)
(* and as dead-lettered only after MaxAttempts emits of it failed.  The    *)
(* downstream system may take the event more than once (at least once).    *)
(***************************************************************************)
EXTENDS Naturals

CONSTANTS Delivery, MaxAttempts

VARIABLES
  outcome,   \* "none" before it is enqueued, then "open", then its settlement
  copies,    \* times the downstream system took the event
  failures   \* times an emit of it was reported to have failed

vars == <<outcome, copies, failures>>

Init ==
  /\ outcome = [d \in Delivery |-> "none"]
  /\ copies = [d \in Delivery |-> 0]
  /\ failures = [d \in Delivery |-> 0]

Enqueue(D) ==
  /\ \A d \in D : outcome[d] = "none"
  /\ outcome' = [d \in Delivery |-> IF d \in D THEN "open" ELSE outcome[d]]
  /\ UNCHANGED <<copies, failures>>

Take(d) ==
  /\ outcome[d] # "none"
  /\ copies' = [copies EXCEPT ![d] = @ + 1]
  /\ UNCHANGED <<outcome, failures>>

Fail(d) ==
  /\ outcome[d] # "none"
  /\ failures' = [failures EXCEPT ![d] = @ + 1]
  /\ UNCHANGED <<outcome, copies>>

SettleEmitted(d) ==
  /\ outcome[d] = "open"
  /\ copies[d] > 0
  /\ outcome' = [outcome EXCEPT ![d] = "emitted"]
  /\ UNCHANGED <<copies, failures>>

SettleDeadLettered(d) ==
  /\ outcome[d] = "open"
  /\ failures[d] >= MaxAttempts
  /\ outcome' = [outcome EXCEPT ![d] = "dead_lettered"]
  /\ UNCHANGED <<copies, failures>>

Next ==
  \/ \E D \in SUBSET Delivery : Enqueue(D)
  \/ \E d \in Delivery : \/ Take(d)
                         \/ Fail(d)
                         \/ SettleEmitted(d)
                         \/ SettleDeadLettered(d)

Spec == Init /\ [][Next]_vars
=============================================================================
