------------------------------ MODULE MCQueue ------------------------------
(***************************************************************************)
(* Instances of DeliveryQueue for TLC: the maps between workers, rows and  *)
(* emitters, and the symmetries.                                           *)
(***************************************************************************)
EXTENDS DeliveryQueue, TLC

\* One emitter: every worker serves it and every row is for it.
OneEmitter == CHOOSE e \in Emitter : TRUE
AllWorkersServeIt == [w \in Worker |-> OneEmitter]
AllRowsAreForIt == [d \in Delivery |-> OneEmitter]

\* Two server processes drain the first emitter; the second has a worker and a
\* row of its own.
First == "e1"
Second == "e2"
TwoEmitters == {First, Second}
OwnWorkers == [w \in Worker |-> IF w = "w3" THEN Second ELSE First]
OwnRows == [d \in Delivery |-> IF d = "d2" THEN Second ELSE First]

\* Nothing is assumed of the worker of the second emitter: it may hang.
FirstIsFair == Spec /\ FairnessOf(First)

\* Every delivery to an emitter is settled in the end, through crashes, lost
\* claims and marks and overrun leases; and a slow, dead or hanging emitter
\* does not hold up the deliveries to another.
FirstSettles == Settles(First)

Symmetry == Permutations(Worker) \cup Permutations(Delivery \ Legacy)
=============================================================================
