------------------------ MODULE ServiceAvailability ------------------------
(***************************************************************************)
(* How a client decides that a service can be called.                      *)
(*                                                                         *)
(*   rmw_service_server_is_available.cpp   the question                    *)
(*   custom_client_info.hpp      the listeners that count the matches      *)
(*   custom_participant_info.hpp the listener that fills the graph cache   *)
(*   rmw_service.cpp             a server creates and deletes its two      *)
(*                               endpoints, the request reader first       *)
(*                                                                         *)
(* The answer is put together from four counts, read one after the other   *)
(* with no lock around them, about endpoints that are discovered one by    *)
(* one; the graph cache has no notion of which two belong to one server.   *)
(***************************************************************************)
EXTENDS FiniteSets, Naturals

CONSTANT
  Servers   \* servers of one service name, each created at most once

ASSUME ServersAssumption == IsFiniteSet(Servers)

Kinds == {"request", "response"}

\* "created": both endpoints exist and rmw_create_service has not returned yet.
Phases == {"new", "creating", "created", "up", "undoing", "deleting", "gone"}

VARIABLES
  phase,          \* [Servers -> Phases]
  graph,          \* [Kinds -> SUBSET Servers]: endpoints in the graph cache
  incompatible,   \* [Kinds -> SUBSET Servers]: whose QoS keeps this endpoint from matching
  subscriptions_, \* ClientPubListener: request readers matched
  publishers_,    \* ClientListener: response writers matched
  request_publisher_matched_count_,
  response_subscriber_matched_count_,
  stage,          \* where the caller of service_server_is_available is
  count,          \* the count it compares the next one with
  is_available,   \* the answer
  calm            \* history: nothing has changed since the call began

service == <<phase, graph, incompatible>>
client  == <<subscriptions_, publishers_, request_publisher_matched_count_,
             response_subscriber_matched_count_>>
query   == <<stage, count, is_available>>
availabilityVars    == <<service, client, query, calm>>

Up == {s \in Servers : phase[s] \in {"created", "up"}}

\* The servers that have the endpoint of this kind: the request reader is created
\* first and destroyed first; an undone creation deletes it last.
Half(kind) == IF kind = "request" THEN {"creating", "undoing"} ELSE {"deleting"}
Existing(kind) == Up \cup {s \in Servers : phase[s] \in Half(kind)}

AvailabilityInit ==
  /\ phase = [s \in Servers |-> "new"]
  /\ graph = [kind \in Kinds |-> {}]
  /\ incompatible = [kind \in Kinds |-> {}]
  /\ subscriptions_ = {} /\ publishers_ = {}
  /\ request_publisher_matched_count_ = 0
  /\ response_subscriber_matched_count_ = 0
  /\ stage = "idle" /\ count = 0 /\ is_available = FALSE
  /\ calm = TRUE

(***************************************************************************)
(* The servers.                                                            *)
(***************************************************************************)
Turn(s, from, to) ==
  /\ phase[s] = from
  /\ phase' = [phase EXCEPT ![s] = to]
  /\ calm' = FALSE
  /\ UNCHANGED <<graph, client, query>>

\* One profile makes the QoS of both endpoints, of the server and of the client:
\* where the server asks for more than the client its requests do not match,
\* where it offers less its responses do not.  Policies and XML profiles differ
\* independently, so either direction may fail, both or none.
CreateReader(s) ==
  /\ Turn(s, "new", "creating")
  /\ \E failing \in SUBSET Kinds :
       incompatible' = [kind \in Kinds |->
                          incompatible[kind] \cup IF kind \in failing THEN {s} ELSE {}]

CreateWriter(s) == Turn(s, "creating", "created")
CreateReturns(s) == Turn(s, "created", "up")
\* A later step of the creation fails: the scope exits delete what there is.
CreateFails(s) ==
  \/ Turn(s, "created", "undoing")
  \/ Turn(s, "creating", "gone")
  \/ Turn(s, "undoing", "gone")

DeleteReader(s) == Turn(s, "up", "deleting") /\ UNCHANGED incompatible

DeleteWriter(s) == Turn(s, "deleting", "gone")

(***************************************************************************)
(* Discovery: the participant's listener keeps the graph cache, the        *)
(* listeners of the client's own endpoints keep the sets of matches.       *)
(***************************************************************************)
OnDiscovery(kind, s) ==
  /\ (s \in Existing(kind)) # (s \in graph[kind])
  /\ graph' = [graph EXCEPT ![kind] = IF s \in @ THEN @ \ {s} ELSE @ \cup {s}]
  /\ calm' = FALSE
  /\ UNCHANGED <<phase, incompatible, client, query>>

Matchable(kind) == Existing(kind) \ incompatible[kind]

Mut_never_erased(kind, set, s) == set \cup (Matchable(kind) \cap {s})

\* current_count_change is 1: insert, -1: erase.
Updated(kind, set, s) == IF s \in Matchable(kind) THEN set \cup {s} ELSE set \ {s}

OnSubscriptionMatched(s) ==
  /\ (s \in Matchable("response")) # (s \in publishers_)
  /\ publishers_' = Updated("response", publishers_, s)
  /\ response_subscriber_matched_count_' = Cardinality(publishers_')
  /\ calm' = FALSE
  /\ UNCHANGED <<service, subscriptions_, request_publisher_matched_count_, query>>

OnPublicationMatched(s) ==
  /\ (s \in Matchable("request")) # (s \in subscriptions_)
  /\ subscriptions_' = Updated("request", subscriptions_, s)
  /\ request_publisher_matched_count_' = Cardinality(subscriptions_')
  /\ calm' = FALSE
  /\ UNCHANGED <<service, publishers_, response_subscriber_matched_count_, query>>

(***************************************************************************)
(* __rmw_service_server_is_available, one step per count it reads.         *)
(***************************************************************************)
Call ==
  /\ stage \in {"idle", "done"}
  /\ stage' = "readers"
  /\ is_available' = FALSE
  /\ count' = 0
  /\ calm' = TRUE
  /\ UNCHANGED <<service, client>>

Return(answer) == stage' = "done" /\ is_available' = answer /\ count' = 0

\* The count is held in "count" to be compared, unless it is 0: not ready.
Keep(n, next) ==
  \/ n = 0 /\ Return(FALSE)
  \/ n # 0 /\ stage' = next /\ count' = n /\ UNCHANGED is_available

\* The count is compared with the one before.
GraphAgrees(n) == n # 0 /\ n = count

GetReaderCount ==
  /\ stage = "readers"
  /\ Keep(Cardinality(graph["request"]), "writers")
  /\ UNCHANGED <<service, client, calm>>

Mut_graph_only ==
  /\ stage = "writers"
  /\ Return(GraphAgrees(Cardinality(graph["response"])))
  /\ UNCHANGED <<service, client, calm>>

GetWriterCount ==
  /\ stage = "writers"
  /\ IF GraphAgrees(Cardinality(graph["response"]))
       THEN stage' = "pubs" /\ count' = 0 /\ UNCHANGED is_available
       ELSE Return(FALSE)
  /\ UNCHANGED <<service, client, calm>>

LoadPublisherMatches ==
  /\ stage = "pubs"
  /\ Keep(request_publisher_matched_count_, "subs")
  /\ UNCHANGED <<service, client, calm>>

LoadSubscriberMatches ==
  /\ stage = "subs"
  /\ Return(response_subscriber_matched_count_ # 0 /\ response_subscriber_matched_count_ = count)
  /\ UNCHANGED <<service, client, calm>>

Discovery(s) ==
  \/ \E kind \in Kinds : OnDiscovery(kind, s)
  \/ OnSubscriptionMatched(s)
  \/ OnPublicationMatched(s)

Finish(s) ==
  /\ CreateWriter(s) \/ CreateReturns(s) \/ CreateFails(s) \/ DeleteWriter(s)
  /\ UNCHANGED incompatible

Query == Call \/ GetReaderCount \/ GetWriterCount \/ LoadPublisherMatches \/ LoadSubscriberMatches

AvailabilityNext ==
  \/ \E s \in Servers : CreateReader(s) \/ DeleteReader(s) \/ Finish(s) \/ Discovery(s)
  \/ Query

AvailabilitySpec == AvailabilityInit /\ [][AvailabilityNext]_availabilityVars

\* A create or destroy call that began returns, a change is discovered in the end,
\* and the client polls.  Nobody is obliged to create or to destroy a server.
LiveSpec ==
  /\ AvailabilitySpec
  /\ \A s \in Servers :
       /\ WF_availabilityVars(Finish(s))
       /\ \A kind \in Kinds : WF_availabilityVars(OnDiscovery(kind, s))
       /\ WF_availabilityVars(OnSubscriptionMatched(s)) /\ WF_availabilityVars(OnPublicationMatched(s))
  /\ WF_availabilityVars(Query)

(***************************************************************************)
(* Properties.                                                             *)
(***************************************************************************)
Matching(kind) == Up \ incompatible[kind]

\* The servers the client can call, and those that match in one direction only.
Serving == Matching("request") \cap Matching("response")
OneWay(kind) == Matching(kind) \ Serving
Balanced == Cardinality(OneWay("request")) = Cardinality(OneWay("response"))

Settled ==
  /\ \A s \in Servers : phase[s] \in {"new", "created", "up", "gone"}
  /\ graph = [kind \in Kinds |-> Up]
  /\ subscriptions_ = Matching("request")
  /\ publishers_ = Matching("response")

\* While the servers are whole and discovery has caught up, the four counts tell
\* whether a server is up that the client can call, but for servers that match in
\* one direction only: "available" is wrong only if there are some of both
\* directions, "not available" only if there are more of one than of the other.
AnswerOfSettled ==
  stage = "done" /\ calm /\ Settled =>
    /\ is_available => Serving # {} \/ \A kind \in Kinds : OneWay(kind) # {}
    /\ Serving # {} /\ Balanced => is_available

\* A client that polls finds a server that stays up, and once it does the answer
\* stays; when every server it could call has left it stops being told that one is
\* available, unless servers that match in one direction only make up for it.  The
\* counts of servers that came and left change neither.
AnswerFollows ==
  /\ <>[](Serving # {} /\ Balanced) => <>[](stage = "done" => is_available)
  /\ <>[](Serving = {} /\ \E kind \in Kinds : OneWay(kind) = {})
       => <>[](stage = "done" => ~is_available)
=============================================================================
