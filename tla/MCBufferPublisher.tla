-------------------------- MODULE MCBufferPublisher --------------------------
(* Instances of BufferPublisher for TLC: one subscriber of each kind. *)
EXTENDS BufferPublisher
==============================================================================
