------------------------ MODULE BufferEndpointRegistry ------------------------
(***************************************************************************)
(* The registry that tells buffer-aware publishers of buffer-aware         *)
(* subscribers and the other way round (buffer_endpoint_registry.cpp), and *)
(* the discovery listener that feeds it (custom_participant_info.hpp).     *)
(* The two directions have the same code: here the registrants are the     *)
(* local entities of one kind, the endpoints those of the other kind.      *)
(*                                                                         *)
(* The registry decides under its lock whom to call, and calls after it    *)
(* has released the lock: registrations, discoveries, calls and            *)
(* unregistrations of several threads interleave.                          *)
(***************************************************************************)
EXTENDS Naturals

CONSTANTS
  Registrants,    \* local endpoints with a discovery callback
  Endpoints,      \* the buffer-aware endpoints that may be discovered
  TopicOf         \* [Registrants \cup Endpoints -> topics]

VARIABLES
  listening,      \* buffer_discovery_cb_ of the participant's listener is set
  discovered,     \* endpoints that Fast DDS has discovered
  known,          \* known_subscribers_ or known_publishers_
  status,         \* [Registrants -> "new", "registered" or "unregistered"]
  calls,          \* [Registrants \X Endpoints -> Nat]: calls decided and not made
  fired           \* [Registrants \X Endpoints -> Nat]: calls made

registryVars == <<listening, discovered, known, status, calls, fired>>

Pairs == Registrants \X Endpoints

Init ==
  /\ listening = FALSE
  /\ discovered = {}
  /\ known = {}
  /\ status = [r \in Registrants |-> "new"]
  /\ calls = [p \in Pairs |-> 0]
  /\ fired = [p \in Pairs |-> 0]

\* One more call to each registrant in R about each endpoint in E of its topic.
Call(R, E) ==
  calls' = [p \in Pairs |->
    calls[p] + IF p[1] \in R /\ p[2] \in E /\ TopicOf[p[1]] = TopicOf[p[2]] THEN 1 ELSE 0]

Registered == {r \in Registrants : status[r] = "registered"}

------------------------------------------------------------------------------
\* set_buffer_discovery_callback, at the end of the set-up of the context.
SetDiscoveryCallback ==
  /\ ~listening
  /\ listening' = TRUE
  /\ UNCHANGED <<discovered, known, status, calls, fired>>

Mut_no_replay(r) ==
  /\ status[r] = "new"
  /\ listening
  /\ status' = [status EXCEPT ![r] = "registered"]
  /\ UNCHANGED <<listening, discovered, known, calls, fired>>

\* register_*_discovery_callback: the new callback is to be called for what is known.
Register(r) ==
  /\ status[r] = "new"
  /\ listening
  /\ status' = [status EXCEPT ![r] = "registered"]
  /\ Call({r}, known)
  /\ UNCHANGED <<listening, discovered, known, fired>>

\* unregister_callbacks: calls that are decided are still made.
Unregister(r) ==
  /\ status[r] = "registered"
  /\ status' = [status EXCEPT ![r] = "unregistered"]
  /\ UNCHANGED <<listening, discovered, known, calls, fired>>

Mut_no_dedup(e) ==
  /\ listening
  /\ discovered' = discovered \cup {e}
  /\ known' = known \cup {e}
  /\ Call(Registered, {e})
  /\ UNCHANGED <<listening, status, fired>>

\* process_discovery_info and notify_*_discovered.  Fast DDS may report an endpoint more
\* than once; before the callback is set the report goes nowhere.
Notify(e) ==
  /\ discovered' = discovered \cup {e}
  /\ \/ /\ listening /\ e \notin known
        /\ known' = known \cup {e}
        /\ Call(Registered, {e})
     \/ /\ ~listening \/ e \in known
        /\ UNCHANGED <<known, calls>>
  /\ UNCHANGED <<listening, status, fired>>

\* A thread that left the lock makes one of its calls.
Fire(r, e) ==
  /\ calls[<<r, e>>] > 0
  /\ calls' = [calls EXCEPT ![<<r, e>>] = @ - 1]
  /\ fired' = [fired EXCEPT ![<<r, e>>] = @ + 1]
  /\ UNCHANGED <<listening, discovered, known, status>>

Next ==
  \/ SetDiscoveryCallback
  \/ \E r \in Registrants : Register(r) \/ Unregister(r)
  \/ \E e \in Endpoints : Notify(e)
  \/ \E r \in Registrants, e \in Endpoints : Fire(r, e)

Spec == Init /\ [][Next]_registryVars

------------------------------------------------------------------------------
(***************************************************************************)
(* Properties.                                                             *)
(***************************************************************************)

\* Type invariant; nothing is known that was not discovered, nor before the hook is set.
TypeOK ==
  /\ listening \in BOOLEAN
  /\ discovered \subseteq Endpoints
  /\ known \subseteq discovered
  /\ known # {} => listening
  /\ status \in [Registrants -> {"new", "registered", "unregistered"}]
  /\ calls \in [Pairs -> Nat]
  /\ fired \in [Pairs -> Nat]

\* A registrant is called at most once about an endpoint, however registrations and
\* repeated discoveries of several threads interleave, and only about its own topic.
CalledAtMostOnce ==
  \A p \in Pairs :
    /\ calls[p] + fired[p] <= 1
    /\ calls[p] + fired[p] = 1 =>
         p[2] \in known /\ status[p[1]] # "new" /\ TopicOf[p[1]] = TopicOf[p[2]]

\* No known endpoint slips between registration and discovery: each of the two looks at
\* what the other has left under the same lock.
NoPairMissed ==
  \A r \in Registered, e \in known :
    TopicOf[r] = TopicOf[e] => calls[<<r, e>>] + fired[<<r, e>>] = 1
==============================================================================
