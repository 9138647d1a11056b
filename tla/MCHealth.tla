------------------------------ MODULE MCHealth ------------------------------
(***************************************************************************)
(* Instances of Health for TLC: one event is sent twice, the other once.   *)
(***************************************************************************)
EXTENDS Health, TLC

CONSTANTS e1, e2
Calls == e1 :> 2 @@ e2 :> 1
=============================================================================
