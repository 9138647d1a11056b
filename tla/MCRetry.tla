------------------------------ MODULE MCRetry ------------------------------
(***************************************************************************)
(* Instances of LegacyRetry for TLC.                                       *)
(***************************************************************************)
EXTENDS LegacyRetry, TLC
=============================================================================
