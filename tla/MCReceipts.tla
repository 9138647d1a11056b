----------------------------- MODULE MCReceipts -----------------------------
(***************************************************************************)
(* Instances of Receipts for TLC: the receipt is either older than         *)
(* migration 0002 or stored with its fan-out.                              *)
(***************************************************************************)
EXTENDS Receipts, TLC
=============================================================================
