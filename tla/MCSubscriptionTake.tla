-------------------------- MODULE MCSubscriptionTake --------------------------
(* Instances of SubscriptionTake for TLC: two threads, three samples and room *)
(* for two loans.                                                             *)
EXTENDS SubscriptionTake, TLC

Symmetric == Permutations(Threads) \cup Permutations(Buffers)
================================================================================
