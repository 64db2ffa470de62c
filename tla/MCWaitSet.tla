------------------------------ MODULE MCWaitSet ------------------------------
(* Instances of WaitSet for TLC: one entity of each kind; the event may belong *)
(* to the subscription's reader, whose status condition it then shares.        *)
EXTENDS WaitSet

CONSTANTS sub, client, deadline, matched, writer, graph

EventOnReader == [e \in Events |-> IF e = deadline THEN sub ELSE writer]
==============================================================================
