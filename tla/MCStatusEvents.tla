---------------------------- MODULE MCStatusEvents ----------------------------
(* Instances of StatusEvents: the peers may be exchanged.                  *)
EXTENDS StatusEvents, TLC

Symmetry == Permutations(Peers)
===============================================================================
