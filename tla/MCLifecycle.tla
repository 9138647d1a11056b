----------------------------- MODULE MCLifecycle -----------------------------
(***************************************************************************)
(* An instance of Lifecycle for TLC: three emitters, the second of type    *)
(* "channel".                                                              *)
(***************************************************************************)
EXTENDS Lifecycle

Names == {"kafka", "dev", "nats"}
InOrder == <<"kafka", "dev", "nats">>
=============================================================================
