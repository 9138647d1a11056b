------------------------------ MODULE MCIngest ------------------------------
(***************************************************************************)
(* Instances of Ingest for TLC.  Requests "b" and "c" are events of their  *)
(* own; "a1" and "a2" carry the same event "a", and "x" is a forged copy   *)
(* of it.                                                                  *)
(***************************************************************************)
EXTENDS Ingest

Events == [r \in Request |-> IF r \in {"b", "c"} THEN r ELSE "a"]
=============================================================================
