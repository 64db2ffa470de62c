------------------------------ MODULE RpcPromise ------------------------------
(***************************************************************************)
(* What the service protocol promises to a client, without endpoints,      *)
(* discovery or threads: a response is taken at most once, by the client   *)
(* that asked, and only after the server answered that request.  Requests  *)
(* and responses may be lost: nothing forces a step.                       *)
(***************************************************************************)
EXTENDS Naturals

CONSTANT Requests   \* the requests, each of one client

VARIABLES
  asked,      \* requests that were sent
  answered,   \* requests that the server answered
  delivered   \* [Requests -> Nat]: times the client took the response

vars == <<asked, answered, delivered>>

Init ==
  /\ asked = {}
  /\ answered = {}
  /\ delivered = [r \in Requests |-> 0]

Ask(r) ==
  /\ r \notin asked
  /\ asked' = asked \cup {r}
  /\ UNCHANGED <<answered, delivered>>

Answer(r) ==
  /\ r \in asked \ answered
  /\ answered' = answered \cup {r}
  /\ UNCHANGED <<asked, delivered>>

TakeAnswer(r) ==
  /\ r \in answered
  /\ delivered[r] = 0
  /\ delivered' = [delivered EXCEPT ![r] = 1]
  /\ UNCHANGED <<asked, answered>>

Next == \E r \in Requests : Ask(r) \/ Answer(r) \/ TakeAnswer(r)

Spec == Init /\ [][Next]_vars
===============================================================================
