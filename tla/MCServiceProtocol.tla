-------------------------- MODULE MCServiceProtocol --------------------------
(* Instances of ServiceProtocol for TLC. *)
EXTENDS ServiceProtocol
=============================================================================

