---------------------------- MODULE MCR3Offload ----------------------------
(* Instances of R3Offload for TLC. *)
EXTENDS R3Offload

(* Both storages. *)
BothBackends == {"csb", "local"}
=============================================================================
