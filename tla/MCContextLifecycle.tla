-------------------------- MODULE MCContextLifecycle --------------------------
(* Instances of ContextLifecycle for TLC. *)
EXTENDS ContextLifecycle
=============================================================================

