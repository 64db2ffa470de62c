--------------------------- MODULE ServiceProtocol ---------------------------
(***************************************************************************)
(* The request/response protocol of rmw_fastrtps: clients of one service   *)
(* server, the discovery events that the server's listeners receive, and   *)
(* the server threads that take requests and send responses.               *)
(*                                                                         *)
(*   rmw_request.cpp   __rmw_send_request, __rmw_take_request              *)
(*   rmw_response.cpp  __rmw_send_response, __rmw_take_response            *)
(*   custom_service_info.hpp   ServiceListener, ServicePubListener         *)
(*   rmw_client.cpp    __rmw_destroy_client                                *)
(*                                                                         *)
(* A service is two DDS topics.  The server's response writer answers on a *)
(* topic that every client reads, so it must know that the reader of the   *)
(* client that asked is matched before it writes (the writer is volatile). *)
(* Discovery of a client's two endpoints is asynchronous and unordered:    *)
(* a request can arrive before the client's response reader is matched,    *)
(* and it can be taken after the client is gone.                           *)
(***************************************************************************)
EXTENDS Integers

CONSTANTS
  RmwClients,    \* clients that put the GUID of their response reader in each request
  PlainClients,  \* DDS clients that leave it out
  Threads,       \* server threads that call rmw_send_response
  Unstable,      \* clients whose participant's lease may expire while they are up
  MaxRequests    \* bound: requests per client

Clients == RmwClients \cup PlainClients

ASSUME ConstantsAssumption ==
  /\ RmwClients \cap PlainClients = {}
  /\ Unstable \subseteq Clients
  /\ MaxRequests \in Nat

(***************************************************************************)
(* GUIDs.  The kind of an entity is part of its GUID: send_response looks  *)
(* at the "reader" bit of the entity id.                                   *)
(***************************************************************************)
Reader(c) == [kind |-> "reader", owner |-> c]
Writer(c) == [kind |-> "writer", owner |-> c]
Unknown   == [kind |-> "unknown", owner |-> "none"]
Guids     == [kind : {"reader", "writer"}, owner : Clients] \cup {Unknown}

Requests  == [client : Clients, sn : 1..MaxRequests]
Responses == [guid : Guids, sn : 1..MaxRequests]
NoRequest == [client |-> "none", sn |-> 0]

\* The values send_response returns, told apart by the path that returns them:
\* GONE and a successful write are RMW_RET_OK, MAYBE is RMW_RET_TIMEOUT.
Outcomes == {"none", "gone", "timeout", "written", "error"}

VARIABLES
  client,             \* [Clients -> {"up", "reader_deleted", "gone"}]
  sent,               \* [Clients -> Nat]: sequence number of the last request written
  reqMatched,         \* clients whose request writer is matched by the server's reader
  rspMatched,         \* clients whose response reader is matched by the server's writer
  subEvent,           \* [Clients -> {-1, 0, 1}]: on_subscription_matched yet to be called
  pubEvent,           \* [Clients -> {-1, 0, 1}]: on_publication_matched yet to be called
  subscriptions,      \* ServicePubListener::subscriptions_
  clients_endpoints,  \* ServicePubListener::clients_endpoints_
  requests,           \* the history of the server's request reader
  taken,              \* requests taken by the application and not yet answered
  pc,                 \* where each server thread is in send_response
  job,                \* the request each server thread is answering
  outcome,            \* [Requests -> Outcomes]: how send_response returned
  responses,          \* [Clients -> SUBSET Responses]: histories of the response readers
  received,           \* [Requests -> Nat]: times the response was taken by its client
  discarded           \* responses that their client could not deserialize

serverVars == <<subscriptions, clients_endpoints>>
ddsVars    == <<reqMatched, rspMatched, subEvent, pubEvent>>
appVars    == <<taken, pc, job, outcome>>
clientVars == <<client, sent, responses, received, discarded>>
vars == <<serverVars, ddsVars, appVars, clientVars, requests>>

(***************************************************************************)
(* The map of client endpoints: reader to writer and writer to reader.     *)
(***************************************************************************)

\* std::unordered_map::emplace: a key that is present keeps its value.
Emplace(m, k, v) ==
  [x \in DOMAIN m \cup {k} |-> IF x \in DOMAIN m THEN m[x] ELSE v]

EraseKeys(m, K) == [x \in DOMAIN m \ K |-> m[x]]

Mut_add_writer_only(m, r, w) == Emplace(m, w, r)

endpoint_add_reader_and_writer(m, r, w) == Emplace(Emplace(m, r, w), w, r)

Mut_erase_one_direction(m, g) ==
  IF g \in DOMAIN m THEN EraseKeys(m, {g}) ELSE m

endpoint_erase_if_exists(m, g) ==
  IF g \in DOMAIN m THEN EraseKeys(m, {g, m[g]}) ELSE m

\* The GUID that identifies a client's requests: its response reader's when the
\* client sends it, else that of its request writer.
RequestGuid(c) == IF c \in RmwClients THEN Reader(c) ELSE Writer(c)

\* related_sample_identity of a request: the response reader, if the client says so.
RelatedReader(c) == IF c \in RmwClients THEN Reader(c) ELSE Unknown

------------------------------------------------------------------------------
(***************************************************************************)
(* Clients.                                                                *)
(***************************************************************************)

\* __rmw_send_request.  The request writer is volatile: the sample gets to the
\* server's reader only if the two are matched, on the server's side (reqMatched) and
\* on the client's, of which nothing is assumed.
SendRequest(c) ==
  /\ client[c] = "up"
  /\ sent[c] < MaxRequests
  /\ sent' = [sent EXCEPT ![c] = @ + 1]
  /\ \/ /\ c \in reqMatched
        /\ requests' = requests \cup {[client |-> c, sn |-> sent[c] + 1]}
     \/ UNCHANGED requests
  /\ UNCHANGED <<serverVars, ddsVars, appVars, client, responses, received, discarded>>

Mut_accept_any_response(c, m) == TRUE

\* The filter of __rmw_take_response.
IsOwnResponse(c, m) == m.guid = Reader(c) \/ m.guid = Writer(c)

\* __rmw_take_response.  The sample leaves the reader's history whether or not it
\* is the client's own, and whether or not it can be deserialized.
TakeResponse(c) ==
  /\ client[c] = "up"
  /\ \E m \in responses[c] :
       /\ responses' = [responses EXCEPT ![c] = @ \ {m}]
       /\ LET r == [client |-> c, sn |-> m.sn] IN
            \/ /\ IsOwnResponse(c, m)
               /\ received' = [received EXCEPT ![r] = @ + 1]
               /\ UNCHANGED discarded
            \/ /\ IsOwnResponse(c, m)
               /\ discarded' = discarded \cup {r}
               /\ UNCHANGED received
            \/ /\ ~IsOwnResponse(c, m)
               /\ UNCHANGED <<received, discarded>>
  /\ UNCHANGED <<serverVars, ddsVars, appVars, client, sent, requests>>

\* __rmw_destroy_client deletes the response reader, with its history, and then
\* the request writer.  It goes on when Fast DDS refuses to delete one: that endpoint
\* stays matched.
DeleteResponseReader(c) ==
  /\ client[c] = "up"
  /\ client' = [client EXCEPT ![c] = "reader_deleted"]
  /\ responses' = [responses EXCEPT ![c] = {}]
  /\ UNCHANGED <<serverVars, ddsVars, appVars, sent, received, discarded, requests>>

DeleteRequestWriter(c) ==
  /\ client[c] = "reader_deleted"
  /\ client' = [client EXCEPT ![c] = "gone"]
  /\ UNCHANGED <<serverVars, ddsVars, appVars, sent, responses, received, discarded, requests>>

------------------------------------------------------------------------------
(***************************************************************************)
(* Discovery, by Fast DDS.  It matches and unmatches endpoints of the      *)
(* server and afterwards calls the server's listener, one event of an      *)
(* endpoint at a time.  It unmatches an endpoint that was deleted, and one *)
(* of an Unstable client, whose lease expired although it is up; such an   *)
(* endpoint may be matched again.                                          *)
(***************************************************************************)
MatchReader(c) ==
  /\ client[c] = "up"
  /\ c \notin rspMatched
  /\ pubEvent[c] = 0
  /\ rspMatched' = rspMatched \cup {c}
  /\ pubEvent' = [pubEvent EXCEPT ![c] = 1]
  /\ UNCHANGED <<serverVars, appVars, clientVars, requests, reqMatched, subEvent>>

MatchWriter(c) ==
  /\ client[c] # "gone"
  /\ c \notin reqMatched
  /\ subEvent[c] = 0
  /\ reqMatched' = reqMatched \cup {c}
  /\ subEvent' = [subEvent EXCEPT ![c] = 1]
  /\ UNCHANGED <<serverVars, appVars, clientVars, requests, rspMatched, pubEvent>>

UnmatchReader(c) ==
  /\ c \in rspMatched
  /\ pubEvent[c] = 0
  /\ client[c] # "up" \/ c \in Unstable
  /\ rspMatched' = rspMatched \ {c}
  /\ pubEvent' = [pubEvent EXCEPT ![c] = -1]
  /\ UNCHANGED <<serverVars, appVars, clientVars, requests, reqMatched, subEvent>>

UnmatchWriter(c) ==
  /\ c \in reqMatched
  /\ subEvent[c] = 0
  /\ client[c] = "gone" \/ c \in Unstable
  /\ reqMatched' = reqMatched \ {c}
  /\ subEvent' = [subEvent EXCEPT ![c] = -1]
  /\ UNCHANGED <<serverVars, appVars, clientVars, requests, rspMatched, pubEvent>>

------------------------------------------------------------------------------
(***************************************************************************)
(* The server's listeners, called by Fast DDS.                             *)
(***************************************************************************)

\* ServicePubListener::on_publication_matched.  Its notify_all wakes the threads in
\* wait_for_subscription: they test their predicate again (WaitMatched).
OnPublicationMatched(c) ==
  /\ pubEvent[c] # 0
  /\ pubEvent' = [pubEvent EXCEPT ![c] = 0]
  /\ \/ /\ pubEvent[c] = 1
        /\ subscriptions' = subscriptions \cup {Reader(c)}
        /\ UNCHANGED clients_endpoints
     \/ /\ pubEvent[c] = -1
        /\ subscriptions' = subscriptions \ {Reader(c)}
        /\ clients_endpoints' = endpoint_erase_if_exists(clients_endpoints, Reader(c))
  /\ UNCHANGED <<appVars, clientVars, requests, reqMatched, rspMatched, subEvent>>

\* ServiceListener::on_subscription_matched.
OnSubscriptionMatched(c) ==
  /\ subEvent[c] # 0
  /\ subEvent' = [subEvent EXCEPT ![c] = 0]
  /\ clients_endpoints' = IF subEvent[c] = -1
                            THEN endpoint_erase_if_exists(clients_endpoints, Writer(c))
                            ELSE clients_endpoints
  /\ UNCHANGED <<appVars, clientVars, requests, reqMatched, rspMatched, pubEvent, subscriptions>>

------------------------------------------------------------------------------
(***************************************************************************)
(* The server's threads.                                                   *)
(***************************************************************************)

Mut_read_without_taking ==
  \E r \in requests :
    /\ clients_endpoints' = endpoint_add_reader_and_writer(
         clients_endpoints, RelatedReader(r.client), Writer(r.client))
    /\ taken' = taken \cup {r}
    /\ UNCHANGED <<requests, subscriptions, ddsVars, clientVars, pc, job, outcome>>

\* __rmw_take_request.  A sample without valid data has no effect; the endpoints of
\* any other are recorded before the request is deserialized, which may fail.
TakeRequest ==
  \E r \in requests :
    /\ requests' = requests \ {r}
    /\ \/ UNCHANGED <<clients_endpoints, taken>>
       \/ /\ clients_endpoints' = endpoint_add_reader_and_writer(
                clients_endpoints, RelatedReader(r.client), Writer(r.client))
          /\ taken' \in {taken, taken \cup {r}}
    /\ UNCHANGED <<subscriptions, ddsVars, clientVars, pc, job, outcome>>

\* Thread t is done with request r.
Return(t, r, value) ==
  /\ pc' = [pc EXCEPT ![t] = "idle"]
  /\ job' = [job EXCEPT ![t] = NoRequest]
  /\ outcome' = [outcome EXCEPT ![r] = value]

GoTo(t, r, label) ==
  /\ pc' = [pc EXCEPT ![t] = label]
  /\ job' = [job EXCEPT ![t] = r]
  /\ UNCHANGED outcome

IsReader(guid) == guid.kind = "reader"

Mut_skip_wait(t, r) ==
  /\ pc[t] = "idle"
  /\ r \in taken
  /\ taken' = taken \ {r}
  /\ LET guid == RequestGuid(r.client) IN
       \/ IsReader(guid) /\ guid \notin DOMAIN clients_endpoints /\ Return(t, r, "gone")
       \/ IsReader(guid) /\ guid \in DOMAIN clients_endpoints /\ GoTo(t, r, "write")
       \/ ~IsReader(guid) /\ GoTo(t, r, "write")
  /\ UNCHANGED <<serverVars, ddsVars, clientVars, requests>>

\* __rmw_send_response up to the first unlock in check_for_subscription.
SendResponse(t, r) ==
  /\ pc[t] = "idle"
  /\ r \in taken
  /\ taken' = taken \ {r}
  /\ LET guid == RequestGuid(r.client) IN
       \/ IsReader(guid) /\ guid \notin DOMAIN clients_endpoints /\ Return(t, r, "gone")
       \/ IsReader(guid) /\ guid \in DOMAIN clients_endpoints /\ GoTo(t, r, "wait")
       \/ ~IsReader(guid) /\ GoTo(t, r, "write")
  /\ UNCHANGED <<serverVars, ddsVars, clientVars, requests>>

\* wait_for_subscription finds the reader in subscriptions_: YES.
WaitMatched(t) ==
  /\ pc[t] = "wait"
  /\ RequestGuid(job[t].client) \in subscriptions
  /\ GoTo(t, job[t], "write")
  /\ UNCHANGED <<serverVars, ddsVars, clientVars, requests, taken>>

Mut_wait_for_ever(t) == pc[t] = "wait" /\ FALSE /\ UNCHANGED vars

\* wait_for_subscription tests its predicate for the last time when
\* max_blocking_time is over: MAYBE.
WaitTimeout(t) ==
  /\ pc[t] = "wait"
  /\ RequestGuid(job[t].client) \notin subscriptions
  /\ Return(t, job[t], "timeout")
  /\ UNCHANGED <<serverVars, ddsVars, clientVars, requests, taken>>

\* The response writer sends the sample to every matched reader.
Deliver(m) ==
  responses' = [c \in Clients |-> IF c \in rspMatched /\ client[c] = "up"
                                    THEN responses[c] \cup {m} ELSE responses[c]]

\* DataWriter::write, which may fail.
WriteResponse(t) ==
  /\ pc[t] = "write"
  /\ \/ /\ Deliver([guid |-> RequestGuid(job[t].client), sn |-> job[t].sn])
        /\ Return(t, job[t], "written")
     \/ /\ Return(t, job[t], "error")
        /\ UNCHANGED responses
  /\ UNCHANGED <<serverVars, ddsVars, client, sent, received, discarded, requests, taken>>

------------------------------------------------------------------------------
Init ==
  /\ client = [c \in Clients |-> "up"]
  /\ sent = [c \in Clients |-> 0]
  /\ reqMatched = {}
  /\ rspMatched = {}
  /\ subEvent = [c \in Clients |-> 0]
  /\ pubEvent = [c \in Clients |-> 0]
  /\ subscriptions = {}
  /\ clients_endpoints = [g \in {} |-> Unknown]
  /\ requests = {}
  /\ taken = {}
  /\ pc = [t \in Threads |-> "idle"]
  /\ job = [t \in Threads |-> NoRequest]
  /\ outcome = [r \in Requests |-> "none"]
  /\ responses = [c \in Clients |-> {}]
  /\ received = [r \in Requests |-> 0]
  /\ discarded = {}

ClientStep(c) ==
  \/ SendRequest(c)
  \/ TakeResponse(c)
  \/ DeleteResponseReader(c)
  \/ DeleteRequestWriter(c)

DiscoveryStep(c) ==
  \/ MatchReader(c)
  \/ MatchWriter(c)
  \/ UnmatchReader(c)
  \/ UnmatchWriter(c)
  \/ OnPublicationMatched(c)
  \/ OnSubscriptionMatched(c)

ThreadStep(t) ==
  \/ \E r \in taken : SendResponse(t, r)
  \/ WaitMatched(t)
  \/ WaitTimeout(t)
  \/ WriteResponse(t)

Next ==
  \/ \E c \in Clients : ClientStep(c) \/ DiscoveryStep(c)
  \/ TakeRequest
  \/ \E t \in Threads : ThreadStep(t)

Spec == Init /\ [][Next]_vars

\* The executor keeps taking requests and its threads keep running; nothing is
\* assumed of discovery or of the clients.
Fairness == WF_vars(TakeRequest) /\ \A t \in Threads : WF_vars(ThreadStep(t))

FairSpec == Spec /\ Fairness

------------------------------------------------------------------------------
(***************************************************************************)
(* Properties.                                                             *)
(***************************************************************************)

\* Type invariant of the protocol state; a thread has a job exactly while it is in
\* send_response.
TypeOK ==
  /\ client \in [Clients -> {"up", "reader_deleted", "gone"}]
  /\ sent \in [Clients -> 0..MaxRequests]
  /\ reqMatched \subseteq Clients
  /\ rspMatched \subseteq Clients
  /\ subEvent \in [Clients -> {-1, 0, 1}]
  /\ pubEvent \in [Clients -> {-1, 0, 1}]
  /\ subscriptions \subseteq Guids
  /\ DOMAIN clients_endpoints \subseteq Guids
  /\ clients_endpoints \in [DOMAIN clients_endpoints -> Guids]
  /\ requests \subseteq Requests
  /\ taken \subseteq Requests
  /\ pc \in [Threads -> {"idle", "wait", "write"}]
  /\ job \in [Threads -> Requests \cup {NoRequest}]
  /\ \A t \in Threads : pc[t] = "idle" <=> job[t] = NoRequest
  /\ outcome \in [Requests -> Outcomes]
  /\ responses \in [Clients -> SUBSET Responses]
  /\ received \in [Requests -> Nat]
  /\ discarded \subseteq Requests

\* clients_endpoints_ holds the reader of an rmw client exactly when it holds its
\* writer, and each leads to the other: whichever of the two endpoints goes first,
\* both entries go (on_publication_matched, on_subscription_matched).  Requests of
\* plain clients, which all share the unknown GUID as their reader, do not disturb
\* the entries of rmw clients.
EndpointsPaired ==
  \A c \in RmwClients :
    /\ Reader(c) \in DOMAIN clients_endpoints <=> Writer(c) \in DOMAIN clients_endpoints
    /\ Reader(c) \in DOMAIN clients_endpoints =>
         /\ clients_endpoints[Reader(c)] = Writer(c)
         /\ clients_endpoints[Writer(c)] = Reader(c)

\* A client takes the response to each of its requests at most once, and only when
\* the server wrote a response to that very request: the responses to all clients
\* share a topic and only the filter in take_response keeps them apart.
ReceivedOnceAndOwn ==
  \A r \in Requests : received[r] = 0 \/ (received[r] = 1 /\ outcome[r] = "written")

\* Where the response to r is once the client's reader has it.
Reached(r) ==
  \/ received[r] > 0
  \/ r \in discarded
  \/ [guid |-> RequestGuid(r.client), sn |-> r.sn] \in responses[r.client]

\* The workaround for the discovery race works: a response that send_response wrote
\* for an rmw client that is up and was never unmatched is at the client's reader,
\* however late the reader was matched.
WrittenReachesRequester ==
  \A r \in Requests :
    /\ r.client \in RmwClients \ Unstable
    /\ client[r.client] = "up"
    /\ outcome[r] = "written"
    => Reached(r)

\* send_response drops a response as GONE, returning RMW_RET_OK, only for a client
\* that is being destroyed or was unmatched: never for one that is merely not
\* discovered yet.
GoneOnlyAfterUnmatch ==
  \A r \in Requests :
    outcome[r] = "gone" =>
      /\ r.client \in RmwClients
      /\ client[r.client] # "up" \/ r.client \in Unstable

\* Every request that reached the server's reader is consumed, and every request
\* handed to the application gets a result: no wait for a reader blocks for ever.
Settled(r) == r \notin requests /\ r \notin taken /\ \A t \in Threads : job[t] # r
EveryRequestSettles == \A r \in Requests : (r \in requests) ~> Settled(r)

\* The protocol implements what RpcPromise promises to the clients.
Promise == INSTANCE RpcPromise WITH
  asked     <- {r \in Requests : r.sn <= sent[r.client]},
  answered  <- {r \in Requests : outcome[r] = "written"},
  delivered <- received

\* Every behaviour of the protocol is one of the promise: each step asks, answers or
\* delivers at most one request, in that order, once.
ImplementsPromise == Promise!Spec

(***************************************************************************)
(* The inductive invariant behind the safety properties.                   *)
(***************************************************************************)
Asked(r) == r.sn <= sent[r.client]

\* Plain clients occupy the unknown GUID and their writers' GUIDs, no more.
PlainEntries ==
  \A c \in PlainClients :
    /\ Reader(c) \notin DOMAIN clients_endpoints
    /\ Writer(c) \in DOMAIN clients_endpoints => clients_endpoints[Writer(c)] = Unknown

\* A request is in one place at a time: in the reader's history, with the application,
\* with one thread, or answered.
RequestsHeld ==
  /\ \A r \in requests : Asked(r) /\ outcome[r] = "none" /\ r \notin taken
  /\ \A r \in taken : Asked(r) /\ outcome[r] = "none"
  /\ \A t \in Threads : job[t] # NoRequest =>
       /\ Asked(job[t]) /\ outcome[job[t]] = "none"
       /\ job[t] \notin requests /\ job[t] \notin taken
       /\ \A u \in Threads : job[u] = job[t] => u = t
  /\ \A r \in Requests : outcome[r] # "none" => Asked(r)

\* A response in a reader's history identifies the client that asked, and the client's
\* own responses there were written and not taken before.
MailOwned ==
  \A c \in Clients : \A m \in responses[c] :
    /\ \E d \in Clients : m.guid = RequestGuid(d)
    /\ m.guid = RequestGuid(c) =>
         /\ outcome[[client |-> c, sn |-> m.sn]] = "written"
         /\ received[[client |-> c, sn |-> m.sn]] = 0

\* What the server knows of an rmw client that is up and was never unmatched is right.
StableKnown ==
  \A c \in RmwClients \ Unstable : client[c] = "up" =>
    /\ pubEvent[c] # -1 /\ subEvent[c] # -1
    /\ pubEvent[c] = 1 \/ Reader(c) \in subscriptions => c \in rspMatched
    /\ \A r \in taken : r.client = c => Reader(c) \in DOMAIN clients_endpoints
    /\ \A t \in Threads : pc[t] = "write" /\ job[t].client = c => c \in rspMatched

IInv ==
  /\ TypeOK
  /\ EndpointsPaired
  /\ PlainEntries
  /\ RequestsHeld
  /\ MailOwned
  /\ ReceivedOnceAndOwn
  /\ StableKnown
  /\ WrittenReachesRequester
  /\ GoneOnlyAfterUnmatch
==============================================================================
