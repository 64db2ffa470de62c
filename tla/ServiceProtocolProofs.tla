------------------------ MODULE ServiceProtocolProofs ------------------------
(***************************************************************************)
(* Proofs about ServiceProtocol, for any clients, threads and number of    *)
(* requests.                                                               *)
(***************************************************************************)
EXTENDS ServiceProtocol, TLAPS

EndpointMap(m) == DOMAIN m \subseteq Guids /\ m \in [DOMAIN m -> Guids]

\* The GUIDs of the clients' endpoints are GUIDs, and tell clients and kinds apart.
LEMMA GuidFacts ==
  /\ Unknown \in Guids
  /\ \A c \in Clients : Reader(c) \in Guids /\ Writer(c) \in Guids
  /\ \A c \in Clients : RequestGuid(c) \in Guids /\ RelatedReader(c) \in Guids
  /\ \A c, d : Reader(c) # Writer(d) /\ Reader(c) # Unknown /\ Writer(c) # Unknown
  /\ \A c, d : Reader(c) = Reader(d) => c = d
  /\ \A c, d : Writer(c) = Writer(d) => c = d
  /\ \A c, d \in Clients : RequestGuid(c) = RequestGuid(d) => c = d
  /\ \A c, d \in Clients : RequestGuid(c) = Reader(d) \/ RequestGuid(c) = Writer(d) => c = d
  /\ \A c \in RmwClients : IsReader(RequestGuid(c)) /\ RequestGuid(c) = Reader(c)
  /\ \A c \in Clients : IsReader(RequestGuid(c)) => c \in RmwClients
BY ConstantsAssumption DEF Guids, Unknown, Reader, Writer, RequestGuid, RelatedReader, Clients, IsReader

\* endpoint_erase_if_exists: the keys it removes.
LEMMA EraseFacts ==
  ASSUME NEW m, NEW g, m = [x \in DOMAIN m |-> m[x]]
  PROVE  LET n == endpoint_erase_if_exists(m, g) IN
           /\ g \notin DOMAIN m => n = m
           /\ g \in DOMAIN m => DOMAIN n = DOMAIN m \ {g, m[g]}
           /\ DOMAIN n \subseteq DOMAIN m
           /\ \A x \in DOMAIN n : n[x] = m[x]
           /\ n = [x \in DOMAIN n |-> n[x]]
BY DEF endpoint_erase_if_exists, EraseKeys

\* Recording a client's endpoints leaves a map of GUIDs.
LEMMA AddIsMap ==
  ASSUME NEW m, EndpointMap(m), NEW r \in Guids, NEW w \in Guids
  PROVE  EndpointMap(endpoint_add_reader_and_writer(m, r, w))
BY DEF endpoint_add_reader_and_writer, Emplace, EndpointMap

\* Erasing a client's endpoints leaves a map of GUIDs.
LEMMA EraseIsMap ==
  ASSUME NEW m, EndpointMap(m), NEW g
  PROVE  EndpointMap(endpoint_erase_if_exists(m, g))
BY DEF endpoint_erase_if_exists, EraseKeys, EndpointMap

\* The request that a response or a thread's job stands for.
LEMMA RequestFacts ==
  /\ \A c \in Clients, n \in 1..MaxRequests : [client |-> c, sn |-> n] \in Requests
  /\ \A r \in Requests : r.client \in Clients /\ r.sn \in 1..MaxRequests
  /\ \A r, q \in Requests : r.client = q.client /\ r.sn = q.sn => r = q
  /\ NoRequest \notin Requests
BY ConstantsAssumption DEF Requests, NoRequest

\* The initial state has the right types.
LEMMA TypeInit == Init => TypeOK
<1> SUFFICES ASSUME Init PROVE TypeOK
  OBVIOUS
<1> QED
  BY ConstantsAssumption, GuidFacts DEF Init, TypeOK, Outcomes, Responses

\* Every step of the protocol preserves the type invariant.
LEMMA TypeStep == TypeOK /\ [Next]_vars => TypeOK'
<1> SUFFICES ASSUME TypeOK, [Next]_vars PROVE TypeOK'
  OBVIOUS
<1> USE ConstantsAssumption DEF TypeOK, Outcomes
<1> DEFINE MapOK == EndpointMap(clients_endpoints)
<1>0. MapOK
  BY DEF EndpointMap
<1>1. ASSUME NEW c \in Clients, SendRequest(c) PROVE TypeOK'
  <2>1. [client |-> c, sn |-> sent[c] + 1] \in Requests
    BY <1>1 DEF SendRequest, Requests
  <2> QED
    BY <1>1, <2>1 DEF SendRequest, serverVars, ddsVars, appVars
<1>2. ASSUME NEW c \in Clients, TakeResponse(c) PROVE TypeOK'
  <2>1. PICK m \in responses[c] : TakeResponse(c)!2!(m)
    BY <1>2 DEF TakeResponse
  <2>2. [client |-> c, sn |-> m.sn] \in Requests
    BY RequestFacts DEF Responses
  <2>3. received' \in [Requests -> Nat] /\ discarded' \subseteq Requests
    BY <2>1, <2>2
  <2> QED
    BY <1>2, <2>1, <2>3 DEF TakeResponse, serverVars, ddsVars, appVars
<1>3. ASSUME NEW c \in Clients, DeleteResponseReader(c) \/ DeleteRequestWriter(c)
      PROVE  TypeOK'
  BY <1>3 DEF DeleteResponseReader, DeleteRequestWriter, serverVars, ddsVars, appVars
<1>4. ASSUME NEW c \in Clients, MatchReader(c) \/ MatchWriter(c) PROVE TypeOK'
  BY <1>4 DEF MatchReader, MatchWriter, serverVars, appVars, clientVars
<1>5. ASSUME NEW c \in Clients, UnmatchReader(c) \/ UnmatchWriter(c) PROVE TypeOK'
  BY <1>5 DEF UnmatchReader, UnmatchWriter, serverVars, appVars, clientVars
<1>6. ASSUME NEW c \in Clients, OnPublicationMatched(c) PROVE TypeOK'
  <2>1. MapOK'
    BY <1>0, <1>6, EraseIsMap DEF OnPublicationMatched
  <2>2. subscriptions' \subseteq Guids
    BY <1>6, GuidFacts DEF OnPublicationMatched
  <2> QED
    BY <1>6, <2>1, <2>2 DEF OnPublicationMatched, appVars, clientVars, EndpointMap
<1>7. ASSUME NEW c \in Clients, OnSubscriptionMatched(c) PROVE TypeOK'
  <2>1. MapOK'
    BY <1>0, <1>7, EraseIsMap DEF OnSubscriptionMatched
  <2> QED
    BY <1>7, <2>1 DEF OnSubscriptionMatched, appVars, clientVars, EndpointMap
<1>8. ASSUME TakeRequest PROVE TypeOK'
  <2>1. PICK r \in requests : TakeRequest!(r)
    BY <1>8 DEF TakeRequest
  <2>2. MapOK'
    BY <1>0, <2>1, AddIsMap, GuidFacts, RequestFacts
  <2>3. taken' \subseteq Requests /\ requests' \subseteq Requests
    BY <2>1
  <2> QED
    BY <2>1, <2>2, <2>3 DEF ddsVars, clientVars, EndpointMap
<1>9. ASSUME NEW t \in Threads, NEW r \in taken, SendResponse(t, r) PROVE TypeOK'
  BY <1>9, RequestFacts DEF SendResponse, Return, GoTo, serverVars, ddsVars, clientVars
<1>10. ASSUME NEW t \in Threads, WaitMatched(t) \/ WaitTimeout(t) PROVE TypeOK'
  BY <1>10, RequestFacts DEF WaitMatched, WaitTimeout, Return, GoTo, serverVars, ddsVars, clientVars
<1>11. ASSUME NEW t \in Threads, WriteResponse(t) PROVE TypeOK'
  <2>1. job[t] \in Requests
    BY <1>11 DEF WriteResponse
  <2>2. [guid |-> RequestGuid(job[t].client), sn |-> job[t].sn] \in Responses
    BY <2>1, RequestFacts, GuidFacts DEF Responses
  <2>3. responses' \in [Clients -> SUBSET Responses]
    BY <1>11, <2>2 DEF WriteResponse, Deliver
  <2>4. /\ pc' \in [Threads -> {"idle", "wait", "write"}]
        /\ job' \in [Threads -> Requests \cup {NoRequest}]
        /\ \A u \in Threads : pc'[u] = "idle" <=> job'[u] = NoRequest
        /\ outcome' \in [Requests -> Outcomes]
    BY <1>11, <2>1 DEF WriteResponse, Return
  <2> QED
    BY <1>11, <2>3, <2>4 DEF WriteResponse, serverVars, ddsVars
<1>12. ASSUME UNCHANGED vars PROVE TypeOK'
  BY <1>12 DEF vars, serverVars, ddsVars, appVars, clientVars
<1> QED
  BY <1>1, <1>2, <1>3, <1>4, <1>5, <1>6, <1>7, <1>8, <1>9, <1>10, <1>11, <1>12
  DEF Next, ClientStep, DiscoveryStep, ThreadStep

\* The protocol state keeps its types.
THEOREM TypeCorrect == Spec => []TypeOK
BY TypeInit, TypeStep, PTL DEF Spec

------------------------------------------------------------------------------
(***************************************************************************)
(* The map of endpoints.                                                   *)
(***************************************************************************)
Entries(m) ==
  /\ \A c \in RmwClients :
       /\ Reader(c) \in DOMAIN m <=> Writer(c) \in DOMAIN m
       /\ Reader(c) \in DOMAIN m => m[Reader(c)] = Writer(c) /\ m[Writer(c)] = Reader(c)
  /\ \A c \in PlainClients :
       /\ Reader(c) \notin DOMAIN m
       /\ Writer(c) \in DOMAIN m => m[Writer(c)] = Unknown

\* Recording a request's endpoints keeps rmw clients paired and plain clients apart.
LEMMA AddKeepsEntries ==
  ASSUME NEW m, Entries(m), NEW c \in Clients
  PROVE  Entries(endpoint_add_reader_and_writer(m, RelatedReader(c), Writer(c)))
<1> DEFINE n == endpoint_add_reader_and_writer(m, RelatedReader(c), Writer(c))
<1>1. RelatedReader(c) # Writer(c)
  BY GuidFacts DEF RelatedReader
<1>2. /\ DOMAIN n = DOMAIN m \cup {RelatedReader(c), Writer(c)}
      /\ \A x \in DOMAIN m : n[x] = m[x]
      /\ RelatedReader(c) \notin DOMAIN m => n[RelatedReader(c)] = Writer(c)
      /\ Writer(c) \notin DOMAIN m => n[Writer(c)] = RelatedReader(c)
  BY <1>1 DEF endpoint_add_reader_and_writer, Emplace
<1> HIDE DEF n
<1>3. CASE c \in RmwClients
  <2>1. RelatedReader(c) = Reader(c)
    BY <1>3 DEF RelatedReader
  <2>2. c \notin PlainClients
    BY <1>3, ConstantsAssumption
  <2> QED
    BY <1>2, <2>1, <2>2, GuidFacts DEF Entries, n
<1>4. CASE c \in PlainClients
  <2>1. RelatedReader(c) = Unknown /\ c \notin RmwClients
    BY <1>4, ConstantsAssumption DEF RelatedReader
  <2> QED
    BY <1>2, <2>1, GuidFacts DEF Entries, n
<1> QED
  BY <1>3, <1>4 DEF Clients, n

\* Erasing an endpoint and its partner keeps rmw clients paired and plain clients apart.
LEMMA EraseKeepsEntries ==
  ASSUME NEW m, EndpointMap(m), Entries(m), NEW c \in Clients,
         NEW g \in {Reader(c), Writer(c)}
  PROVE  Entries(endpoint_erase_if_exists(m, g))
<1> DEFINE n == endpoint_erase_if_exists(m, g)
<1>1. /\ g \notin DOMAIN m => n = m
      /\ g \in DOMAIN m => DOMAIN n = DOMAIN m \ {g, m[g]}
      /\ \A x \in DOMAIN n : n[x] = m[x]
  BY EraseFacts DEF EndpointMap
<1> HIDE DEF n
<1>2. CASE g \notin DOMAIN m
  BY <1>1, <1>2 DEF n
<1>3. CASE g \in DOMAIN m /\ c \in RmwClients
  <2>1. DOMAIN n = DOMAIN m \ {Reader(c), Writer(c)} /\ c \notin PlainClients
    BY <1>1, <1>3, ConstantsAssumption DEF Entries
  <2> QED
    BY <1>1, <2>1, GuidFacts DEF Entries, n
<1>4. CASE g \in DOMAIN m /\ c \in PlainClients
  <2>1. DOMAIN n = DOMAIN m \ {Writer(c), Unknown} /\ c \notin RmwClients
    BY <1>1, <1>4, ConstantsAssumption DEF Entries
  <2> QED
    BY <1>1, <2>1, GuidFacts DEF Entries, n
<1> QED
  BY <1>2, <1>3, <1>4 DEF Clients

\* Every step keeps the entries of the map paired.
LEMMA EndpointsStep ==
  TypeOK /\ EndpointsPaired /\ PlainEntries /\ [Next]_vars => (EndpointsPaired /\ PlainEntries)'
<1> SUFFICES ASSUME TypeOK, EndpointsPaired, PlainEntries, [Next]_vars
             PROVE  (EndpointsPaired /\ PlainEntries)'
  OBVIOUS
<1>0. EndpointMap(clients_endpoints) /\ Entries(clients_endpoints)
  BY DEF TypeOK, EndpointMap, Entries, EndpointsPaired, PlainEntries
<1> SUFFICES Entries(clients_endpoints')
  BY DEF Entries, EndpointsPaired, PlainEntries
<1>1. ASSUME NEW c \in Clients, OnPublicationMatched(c) PROVE Entries(clients_endpoints')
  BY <1>0, <1>1, EraseKeepsEntries DEF OnPublicationMatched
<1>2. ASSUME NEW c \in Clients, OnSubscriptionMatched(c) PROVE Entries(clients_endpoints')
  BY <1>0, <1>2, EraseKeepsEntries DEF OnSubscriptionMatched
<1>3. ASSUME TakeRequest PROVE Entries(clients_endpoints')
  BY <1>0, <1>3, AddKeepsEntries, RequestFacts DEF TakeRequest, TypeOK
<1>4. ASSUME UNCHANGED clients_endpoints PROVE Entries(clients_endpoints')
  BY <1>0, <1>4
<1> QED
  BY <1>1, <1>2, <1>3, <1>4
  DEF Next, ClientStep, DiscoveryStep, ThreadStep, SendRequest, TakeResponse,
      DeleteResponseReader, DeleteRequestWriter, MatchReader, MatchWriter, UnmatchReader,
      UnmatchWriter, SendResponse, WaitMatched, WaitTimeout, WriteResponse, serverVars, vars

------------------------------------------------------------------------------
(***************************************************************************)
(* Requests and responses.                                                 *)
(***************************************************************************)

\* Every step keeps a request in one place.
LEMMA RequestsStep == TypeOK /\ RequestsHeld /\ [Next]_vars => RequestsHeld'
<1> SUFFICES ASSUME TypeOK, RequestsHeld, [Next]_vars PROVE RequestsHeld'
  OBVIOUS
<1> USE DEF RequestsHeld, Asked
<1>1. ASSUME NEW c \in Clients, SendRequest(c) PROVE RequestsHeld'
  <2> DEFINE r == [client |-> c, sn |-> sent[c] + 1]
  <2>1. \A q \in Requests : Asked(q) => Asked(q)' /\ q # r
    BY <1>1, ConstantsAssumption, RequestFacts DEF SendRequest, TypeOK
  <2>2. r \in Requests /\ r.sn <= sent'[r.client]
    <3>1. sent[c] \in 0..MaxRequests /\ sent[c] < MaxRequests /\ sent'[c] = sent[c] + 1
      BY <1>1 DEF SendRequest, TypeOK
    <3>2. sent[c] + 1 \in 1..MaxRequests /\ sent[c] + 1 <= sent'[c]
      BY <3>1, ConstantsAssumption
    <3>3. r \in Requests
      BY <3>2 DEF Requests
    <3>4. r.sn = sent[c] + 1 /\ r.client = c
      OBVIOUS
    <3> HIDE DEF r
    <3> QED
      BY <3>2, <3>3, <3>4
  <2>3. outcome[r] = "none" /\ r \notin taken /\ \A t \in Threads : job[t] # r
    BY <2>1, <2>2, RequestFacts DEF TypeOK
  <2>4. requests' \subseteq requests \cup {r} /\ UNCHANGED appVars
    BY <1>1 DEF SendRequest
  <2> HIDE DEF r
  <2>5. \A q \in requests' : Asked(q)' /\ outcome'[q] = "none" /\ q \notin taken'
    <3>1. ASSUME NEW q \in requests
          PROVE  Asked(q)' /\ outcome'[q] = "none" /\ q \notin taken'
      BY <2>1, <2>4 DEF TypeOK, appVars
    <3>2. outcome'[r] = "none" /\ r \notin taken'
      BY <2>3, <2>4 DEF appVars
    <3> QED
      BY <2>2, <2>4, <3>1, <3>2
  <2>6. \A q \in taken' : Asked(q)' /\ outcome'[q] = "none"
    BY <2>1, <2>4 DEF TypeOK, appVars
  <2>7. \A t \in Threads : job'[t] # NoRequest =>
          /\ Asked(job[t])' /\ outcome'[job'[t]] = "none"
          /\ job'[t] \notin requests' /\ job'[t] \notin taken'
          /\ \A u \in Threads : job'[u] = job'[t] => u = t
    BY <2>1, <2>3, <2>4 DEF TypeOK, appVars
  <2>8. \A q \in Requests : outcome'[q] # "none" => Asked(q)'
    BY <2>1, <2>4 DEF appVars
  <2> QED
    BY <2>5, <2>6, <2>7, <2>8
<1>2. ASSUME TakeRequest PROVE RequestsHeld'
  <2>1. PICK r \in requests : /\ requests' = requests \ {r}
                              /\ taken' \in {taken, taken \cup {r}}
                              /\ UNCHANGED <<sent, pc, job, outcome>>
    BY <1>2 DEF TakeRequest, clientVars
  <2> QED
    BY <2>1 DEF TypeOK
<1>3. ASSUME NEW t \in Threads, NEW r \in taken, SendResponse(t, r) PROVE RequestsHeld'
  <2>1. /\ taken' = taken \ {r}
        /\ UNCHANGED <<requests, sent>>
        /\ job' = [job EXCEPT ![t] = NoRequest] \/ job' = [job EXCEPT ![t] = r]
        /\ job' = [job EXCEPT ![t] = NoRequest] => outcome' = [outcome EXCEPT ![r] = "gone"]
        /\ job' = [job EXCEPT ![t] = r] => UNCHANGED outcome
    BY <1>3, RequestFacts DEF SendResponse, Return, GoTo, clientVars, TypeOK
  <2> QED
    BY <2>1, RequestFacts DEF TypeOK, Outcomes
<1>4. ASSUME NEW t \in Threads, WaitMatched(t) PROVE RequestsHeld'
  BY <1>4 DEF WaitMatched, GoTo, clientVars, TypeOK
<1>5. ASSUME NEW t \in Threads, WaitTimeout(t) \/ WriteResponse(t) PROVE RequestsHeld'
  <2>1. /\ UNCHANGED <<requests, taken, sent>>
        /\ job' = [job EXCEPT ![t] = NoRequest]
        /\ \E v \in Outcomes \ {"none"} : outcome' = [outcome EXCEPT ![job[t]] = v]
        /\ job[t] \in Requests
    <3>1. job[t] \in Requests
      BY <1>5 DEF WaitTimeout, WriteResponse, TypeOK
    <3>2. CASE WaitTimeout(t)
      BY <3>1, <3>2 DEF WaitTimeout, Return, clientVars, Outcomes
    <3>3. CASE WriteResponse(t)
      BY <3>1, <3>3 DEF WriteResponse, Return, Outcomes
    <3> QED
      BY <1>5, <3>2, <3>3
  <2> QED
    BY <2>1, RequestFacts DEF TypeOK
<1>6. ASSUME UNCHANGED <<requests, sent, appVars>> PROVE RequestsHeld'
  BY <1>6 DEF appVars
<1> QED
  BY <1>1, <1>2, <1>3, <1>4, <1>5, <1>6
  DEF Next, ClientStep, DiscoveryStep, ThreadStep, TakeResponse, DeleteResponseReader,
      DeleteRequestWriter, MatchReader, MatchWriter, UnmatchReader, UnmatchWriter,
      OnPublicationMatched, OnSubscriptionMatched, clientVars, vars

\* Every step keeps the clients' own responses unique, written and untaken.
LEMMA MailStep ==
  TypeOK /\ RequestsHeld /\ MailOwned /\ ReceivedOnceAndOwn /\ [Next]_vars
    => (MailOwned /\ ReceivedOnceAndOwn)'
<1> SUFFICES ASSUME TypeOK, RequestsHeld, MailOwned, ReceivedOnceAndOwn, [Next]_vars
             PROVE  (MailOwned /\ ReceivedOnceAndOwn)'
  OBVIOUS
<1> USE DEF MailOwned, ReceivedOnceAndOwn
<1>1. ASSUME NEW c \in Clients, TakeResponse(c) PROVE (MailOwned /\ ReceivedOnceAndOwn)'
  <2>1. PICK m \in responses[c] : TakeResponse(c)!2!(m)
    BY <1>1 DEF TakeResponse
  <2> DEFINE r == [client |-> c, sn |-> m.sn]
  <2>2. r \in Requests /\ m \in Responses
    BY RequestFacts DEF TypeOK, Responses
  <2>3. UNCHANGED outcome
    BY <1>1 DEF TakeResponse, appVars
  <2>4. IsOwnResponse(c, m) => m.guid = RequestGuid(c)
    <3>1. PICK d \in Clients : m.guid = RequestGuid(d)
      OBVIOUS
    <3> QED
      BY <3>1, GuidFacts DEF IsOwnResponse
  <2>5. CASE UNCHANGED received
    BY <2>1, <2>3, <2>5 DEF TypeOK
  <2>6. CASE IsOwnResponse(c, m) /\ received' = [received EXCEPT ![r] = @ + 1]
    <3>1. outcome[r] = "written" /\ received[r] = 0
      BY <2>4, <2>6
    <3>2. \A q \in responses'[c] : q.guid = RequestGuid(c) => q.sn # m.sn
      BY <2>1, <2>2, <2>4, <2>6 DEF TypeOK, Responses
    <3>3. \A q \in Requests : received'[q] = IF q = r THEN 1 ELSE received[q]
      BY <2>2, <2>6, <3>1 DEF TypeOK
    <3>4. \A d \in Clients : responses'[d] \subseteq responses[d]
      BY <2>1 DEF TypeOK
    <3>5. ReceivedOnceAndOwn'
      BY <2>3, <3>1, <3>3
    <3>6. ASSUME NEW d \in Clients, NEW q \in responses'[d]
          PROVE  /\ \E e \in Clients : q.guid = RequestGuid(e)
                 /\ q.guid = RequestGuid(d) =>
                      /\ outcome'[[client |-> d, sn |-> q.sn]] = "written"
                      /\ received'[[client |-> d, sn |-> q.sn]] = 0
      <4>1. q \in responses[d] /\ q \in Responses
        BY <3>4 DEF TypeOK
      <4>2. [client |-> d, sn |-> q.sn] \in Requests
        BY <4>1, RequestFacts DEF Responses
      <4>3. q.guid = RequestGuid(d) => [client |-> d, sn |-> q.sn] # r
        BY <3>2
      <4> QED
        BY <2>3, <3>3, <4>1, <4>2, <4>3
    <3> QED
      BY <3>5, <3>6
  <2> QED
    BY <2>1, <2>5, <2>6
<1>2. ASSUME NEW c \in Clients, DeleteResponseReader(c) PROVE (MailOwned /\ ReceivedOnceAndOwn)'
  BY <1>2 DEF DeleteResponseReader, appVars, TypeOK
<1>3. ASSUME NEW t \in Threads, WriteResponse(t) PROVE (MailOwned /\ ReceivedOnceAndOwn)'
  <2> DEFINE r == job[t]
             m == [guid |-> RequestGuid(r.client), sn |-> r.sn]
  <2>1. r \in Requests /\ r.client \in Clients /\ outcome[r] = "none" /\ received[r] = 0
    BY <1>3, RequestFacts DEF WriteResponse, TypeOK, RequestsHeld
  <2>2. UNCHANGED received
    BY <1>3 DEF WriteResponse
  <2>3. \E v \in {"written", "error"} :
          /\ outcome' = [outcome EXCEPT ![r] = v]
          /\ v = "written" => Deliver(m)
          /\ v = "error" => UNCHANGED responses
    BY <1>3 DEF WriteResponse, Return
  <2>4. \A q \in Requests : outcome[q] = "written" => outcome'[q] = "written"
    BY <2>1, <2>3 DEF TypeOK
  <2>5. ReceivedOnceAndOwn'
    BY <2>1, <2>2, <2>4
  <2>6. ASSUME NEW d \in Clients, NEW q \in responses'[d]
        PROVE  /\ \E e \in Clients : q.guid = RequestGuid(e)
               /\ q.guid = RequestGuid(d) =>
                    /\ outcome'[[client |-> d, sn |-> q.sn]] = "written"
                    /\ received'[[client |-> d, sn |-> q.sn]] = 0
    <3>1. CASE q \in responses[d]
      <4>1. [client |-> d, sn |-> q.sn] \in Requests
        BY <3>1, RequestFacts DEF TypeOK, Responses
      <4> QED
        BY <2>2, <2>4, <3>1, <4>1
    <3>2. CASE q \notin responses[d]
      <4>1. q = m /\ outcome' = [outcome EXCEPT ![r] = "written"]
        <5>1. PICK v \in {"written", "error"} :
                 /\ outcome' = [outcome EXCEPT ![r] = v]
                 /\ v = "written" => Deliver(m)
                 /\ v = "error" => UNCHANGED responses
          BY <2>3
        <5>2. v = "written"
          BY <3>2, <5>1
        <5> QED
          BY <3>2, <5>1, <5>2 DEF Deliver
      <4>2. q.guid = RequestGuid(d) => d = r.client
        BY <2>1, <4>1, GuidFacts
      <4>3. r = [client |-> r.client, sn |-> r.sn]
        BY <2>1 DEF Requests
      <4> QED
        BY <2>1, <2>2, <4>1, <4>2, <4>3 DEF TypeOK
    <3> QED
      BY <3>1, <3>2
  <2> QED
    BY <2>5, <2>6
<1>4. ASSUME UNCHANGED <<responses, received>>,
             \A q \in Requests : outcome[q] = "written" => outcome'[q] = "written"
      PROVE  (MailOwned /\ ReceivedOnceAndOwn)'
  <2>1. \A c \in Clients : \A m \in responses[c] : [client |-> c, sn |-> m.sn] \in Requests
    <3>1. \A m \in Responses : m.sn \in 1..MaxRequests
      BY DEF Responses
    <3> QED
      BY <3>1, RequestFacts DEF TypeOK
  <2> QED
    BY <1>4, <2>1
<1>5. ASSUME NEW t \in Threads, ThreadStep(t), ~WriteResponse(t)
      PROVE  /\ UNCHANGED <<responses, received>>
             /\ \A q \in Requests : outcome[q] = "written" => outcome'[q] = "written"
  BY <1>5, RequestFacts
  DEF ThreadStep, SendResponse, WaitMatched, WaitTimeout, Return, GoTo, clientVars, TypeOK,
      RequestsHeld
<1> QED
  BY <1>1, <1>2, <1>3, <1>4, <1>5
  DEF Next, ClientStep, DiscoveryStep, SendRequest, DeleteRequestWriter, MatchReader,
      MatchWriter, UnmatchReader, UnmatchWriter, OnPublicationMatched, OnSubscriptionMatched,
      TakeRequest, appVars, clientVars, vars

------------------------------------------------------------------------------
(***************************************************************************)
(* Clients that stay up and matched.                                       *)
(***************************************************************************)

\* The entries of one client survive the events of another.
LEMMA EraseKeepsOthers ==
  ASSUME NEW m, EndpointMap(m), Entries(m), NEW c \in RmwClients, NEW d \in Clients, c # d,
         NEW g \in {Reader(d), Writer(d)}, Reader(c) \in DOMAIN m
  PROVE  Reader(c) \in DOMAIN endpoint_erase_if_exists(m, g)
<1>1. g \in DOMAIN m => m[g] \in {Reader(d), Writer(d), Unknown}
  BY DEF Entries, Clients
<1>2. Reader(c) # g /\ Reader(c) \notin {Reader(d), Writer(d), Unknown}
  BY GuidFacts
<1> QED
  BY <1>1, <1>2 DEF endpoint_erase_if_exists, EraseKeys

\* Every step keeps the server's knowledge of such a client right.
LEMMA StableStep ==
  TypeOK /\ EndpointsPaired /\ PlainEntries /\ StableKnown /\ [Next]_vars => StableKnown'
<1> SUFFICES ASSUME TypeOK, EndpointsPaired, PlainEntries, StableKnown, [Next]_vars,
                    NEW c \in RmwClients \ Unstable, client'[c] = "up"
             PROVE  /\ pubEvent'[c] # -1 /\ subEvent'[c] # -1
                    /\ pubEvent'[c] = 1 \/ Reader(c) \in subscriptions' => c \in rspMatched'
                    /\ \A r \in taken' :
                         r.client = c => Reader(c) \in DOMAIN clients_endpoints'
                    /\ \A t \in Threads :
                         pc'[t] = "write" /\ job'[t].client = c => c \in rspMatched'
  BY DEF StableKnown
<1> DEFINE Goal == /\ pubEvent'[c] # -1 /\ subEvent'[c] # -1
                   /\ pubEvent'[c] = 1 \/ Reader(c) \in subscriptions' => c \in rspMatched'
                   /\ \A r \in taken' :
                        r.client = c => Reader(c) \in DOMAIN clients_endpoints'
                   /\ \A t \in Threads :
                        pc'[t] = "write" /\ job'[t].client = c => c \in rspMatched'
<1>0. /\ EndpointMap(clients_endpoints) /\ Entries(clients_endpoints)
      /\ c \in Clients
  BY DEF TypeOK, EndpointMap, Entries, EndpointsPaired, PlainEntries, Clients
<1>1. client[c] = "up"
  BY <1>0, RequestFacts
  DEF Next, ClientStep, DiscoveryStep, ThreadStep, SendRequest, TakeResponse,
      DeleteResponseReader, DeleteRequestWriter, MatchReader, MatchWriter, UnmatchReader,
      UnmatchWriter, OnPublicationMatched, OnSubscriptionMatched, TakeRequest, SendResponse,
      WaitMatched, WaitTimeout, WriteResponse, clientVars, vars, TypeOK
<1> DEFINE Known == /\ pubEvent[c] # -1 /\ subEvent[c] # -1
                    /\ pubEvent[c] = 1 \/ Reader(c) \in subscriptions => c \in rspMatched
                    /\ \A r \in taken : r.client = c => Reader(c) \in DOMAIN clients_endpoints
                    /\ \A t \in Threads :
                         pc[t] = "write" /\ job[t].client = c => c \in rspMatched
<1>2. Known
  BY <1>1 DEF StableKnown
<1>3. ASSUME NEW d \in Clients, ClientStep(d) PROVE Goal
  BY <1>2, <1>3
  DEF ClientStep, SendRequest, TakeResponse, DeleteResponseReader, DeleteRequestWriter,
      serverVars, ddsVars, appVars
<1>4. ASSUME NEW d \in Clients, MatchReader(d) \/ MatchWriter(d) PROVE Goal
  BY <1>0, <1>2, <1>4 DEF MatchReader, MatchWriter, serverVars, appVars, TypeOK
<1>5. ASSUME NEW d \in Clients, UnmatchReader(d) PROVE Goal
  <2>1. c # d
    BY <1>1, <1>5 DEF UnmatchReader
  <2> QED
    BY <1>0, <1>2, <1>5, <2>1 DEF UnmatchReader, serverVars, appVars, TypeOK
<1>6. ASSUME NEW d \in Clients, UnmatchWriter(d) PROVE Goal
  <2>1. c # d
    BY <1>1, <1>6 DEF UnmatchWriter
  <2> QED
    BY <1>0, <1>2, <1>6, <2>1 DEF UnmatchWriter, serverVars, appVars, TypeOK
<1>7. ASSUME NEW d \in Clients, OnPublicationMatched(d) PROVE Goal
  <2>1. CASE pubEvent[d] = 1
    BY <1>0, <1>2, <1>7, <2>1, GuidFacts DEF OnPublicationMatched, appVars, TypeOK
  <2>2. CASE pubEvent[d] = -1
    <3>1. c # d
      BY <1>2, <2>2
    <3>2. /\ pubEvent'[c] = pubEvent[c]
          /\ subscriptions' \subseteq subscriptions
          /\ UNCHANGED <<subEvent, rspMatched, taken, pc, job>>
          /\ clients_endpoints' = endpoint_erase_if_exists(clients_endpoints, Reader(d))
      BY <1>0, <1>7, <2>2, <3>1 DEF OnPublicationMatched, appVars, TypeOK
    <3>3. Reader(c) \in DOMAIN clients_endpoints => Reader(c) \in DOMAIN clients_endpoints'
      BY <1>0, <3>1, <3>2, EraseKeepsOthers
    <3> QED
      BY <1>2, <3>2, <3>3
  <2> QED
    BY <1>7, <2>1, <2>2 DEF OnPublicationMatched, TypeOK
<1>8. ASSUME NEW d \in Clients, OnSubscriptionMatched(d) PROVE Goal
  <2>1. CASE subEvent[d] # -1
    BY <1>0, <1>2, <1>8, <2>1 DEF OnSubscriptionMatched, appVars, TypeOK
  <2>2. CASE subEvent[d] = -1
    <3>1. c # d
      BY <1>2, <2>2
    <3>2. /\ subEvent'[c] = subEvent[c]
          /\ UNCHANGED <<subscriptions, pubEvent, rspMatched, taken, pc, job>>
          /\ clients_endpoints' = endpoint_erase_if_exists(clients_endpoints, Writer(d))
      BY <1>0, <1>8, <2>2, <3>1 DEF OnSubscriptionMatched, appVars, TypeOK
    <3>3. Reader(c) \in DOMAIN clients_endpoints => Reader(c) \in DOMAIN clients_endpoints'
      BY <1>0, <3>1, <3>2, EraseKeepsOthers
    <3> QED
      BY <1>2, <3>2, <3>3
  <2> QED
    BY <2>1, <2>2
<1>9. ASSUME TakeRequest PROVE Goal
  <2>1. PICK r \in requests : TakeRequest!(r)
    BY <1>9 DEF TakeRequest
  <2>2. UNCHANGED <<subscriptions, pubEvent, subEvent, rspMatched, pc, job>>
    BY <2>1 DEF ddsVars
  <2>3. CASE UNCHANGED <<clients_endpoints, taken>>
    BY <1>2, <2>2, <2>3
  <2>4. CASE /\ clients_endpoints' = endpoint_add_reader_and_writer(
                  clients_endpoints, RelatedReader(r.client), Writer(r.client))
             /\ taken' \in {taken, taken \cup {r}}
    <3>1. DOMAIN clients_endpoints' =
            DOMAIN clients_endpoints \cup {RelatedReader(r.client), Writer(r.client)}
      BY <2>4 DEF endpoint_add_reader_and_writer, Emplace
    <3>2. r.client = c => RelatedReader(r.client) = Reader(c)
      BY DEF RelatedReader
    <3> QED
      BY <1>2, <2>2, <2>4, <3>1, <3>2
  <2> QED
    BY <2>1, <2>3, <2>4
<1>10. ASSUME NEW t \in Threads, NEW r \in taken, SendResponse(t, r) PROVE Goal
  <2>1. r.client = c => IsReader(RequestGuid(r.client))
    BY GuidFacts
  <2>2. UNCHANGED <<serverVars, ddsVars>> /\ taken' \subseteq taken
    BY <1>10 DEF SendResponse
  <2>3. ASSUME NEW u \in Threads, pc'[u] = "write", job'[u].client = c
        PROVE  pc[u] = "write" /\ job[u].client = c
    BY <1>10, <2>1, <2>3 DEF SendResponse, Return, GoTo, TypeOK
  <2> QED
    BY <1>2, <2>2, <2>3 DEF serverVars, ddsVars
<1>11. ASSUME NEW t \in Threads, WaitMatched(t) PROVE Goal
  <2>1. job[t].client = c => Reader(c) \in subscriptions
    BY <1>11, GuidFacts DEF WaitMatched
  <2> QED
    BY <1>2, <1>11, <2>1 DEF WaitMatched, GoTo, serverVars, ddsVars, TypeOK
<1>12. ASSUME NEW t \in Threads, WaitTimeout(t) \/ WriteResponse(t) PROVE Goal
  BY <1>2, <1>12 DEF WaitTimeout, WriteResponse, Return, serverVars, ddsVars, TypeOK
<1>13. ASSUME UNCHANGED vars PROVE Goal
  BY <1>2, <1>13 DEF vars, serverVars, ddsVars, appVars
<1> QED
  BY <1>3, <1>4, <1>5, <1>6, <1>7, <1>8, <1>9, <1>10, <1>11, <1>12, <1>13
  DEF Next, DiscoveryStep, ThreadStep

\* Every step keeps written responses at the readers of clients that stay matched.
LEMMA ReachStep == IInv /\ [Next]_vars => WrittenReachesRequester'
<1> SUFFICES ASSUME IInv, [Next]_vars, NEW r \in Requests,
                    r.client \in RmwClients \ Unstable, client'[r.client] = "up",
                    outcome'[r] = "written"
             PROVE  Reached(r)'
  BY DEF WrittenReachesRequester
<1> DEFINE c == r.client
           m == [guid |-> RequestGuid(r.client), sn |-> r.sn]
<1>0. TypeOK /\ c \in Clients /\ r = [client |-> c, sn |-> r.sn] /\ m \in Responses
  BY GuidFacts, RequestFacts DEF IInv, Requests, Responses
<1>1. client[c] = "up"
  BY <1>0, RequestFacts
  DEF Next, ClientStep, DiscoveryStep, ThreadStep, SendRequest, TakeResponse,
      DeleteResponseReader, DeleteRequestWriter, MatchReader, MatchWriter, UnmatchReader,
      UnmatchWriter, OnPublicationMatched, OnSubscriptionMatched, TakeRequest, SendResponse,
      WaitMatched, WaitTimeout, WriteResponse, clientVars, vars, TypeOK
<1>2. outcome[r] = "written" => Reached(r)
  BY <1>1 DEF IInv, WrittenReachesRequester
<1>3. ASSUME NEW d \in Clients, TakeResponse(d) PROVE Reached(r)'
  <2>1. PICK q \in responses[d] : TakeResponse(d)!2!(q)
    BY <1>3 DEF TakeResponse
  <2>2. outcome[r] = "written"
    BY <1>3 DEF TakeResponse, appVars
  <2>3. /\ received[r] > 0 => received'[r] > 0
        /\ discarded \subseteq discarded'
    BY <2>1, <1>0 DEF TypeOK
  <2>4. CASE m \in responses[c]
    <3>1. CASE d = c /\ q = m
      <4>1. IsOwnResponse(d, q) /\ [client |-> d, sn |-> q.sn] = r
        BY <1>0, <3>1, GuidFacts DEF IsOwnResponse
      <4>2. received'[r] > 0 \/ r \in discarded'
        BY <1>0, <2>1, <4>1 DEF TypeOK
      <4> QED
        BY <4>2 DEF Reached
    <3>2. CASE ~(d = c /\ q = m)
      BY <1>0, <2>1, <2>4, <3>2 DEF Reached, TypeOK
    <3> QED
      BY <3>1, <3>2
  <2> QED
    BY <1>2, <2>2, <2>3, <2>4 DEF Reached
<1>4. ASSUME NEW t \in Threads, WriteResponse(t) PROVE Reached(r)'
  <2>1. UNCHANGED <<received, discarded>>
    BY <1>4 DEF WriteResponse
  <2>2. CASE job[t] = r /\ outcome'[r] = "written"
    <3>1. c \in rspMatched
      BY <1>1, <1>4, <2>2 DEF IInv, StableKnown, WriteResponse
    <3>2. Deliver(m)
      BY <1>4, <2>2, <1>0 DEF WriteResponse, Return, TypeOK
    <3> QED
      BY <1>0, <1>1, <3>1, <3>2 DEF Deliver, Reached
  <2>3. CASE job[t] # r
    <3>1. outcome[r] = "written"
      BY <1>0, <1>4, <2>3 DEF WriteResponse, Return, TypeOK
    <3>2. responses[c] \subseteq responses'[c]
      BY <1>0, <1>4 DEF WriteResponse, Deliver
    <3> QED
      BY <1>2, <2>1, <3>1, <3>2 DEF Reached
  <2> QED
    BY <2>2, <2>3
<1>5. ASSUME NEW d \in Clients, DeleteResponseReader(d) PROVE Reached(r)'
  <2>1. d # c
    BY <1>0, <1>5 DEF DeleteResponseReader, TypeOK
  <2>2. /\ responses'[c] = responses[c]
        /\ UNCHANGED <<received, discarded, outcome>>
    BY <1>0, <1>5, <2>1 DEF DeleteResponseReader, TypeOK, appVars
  <2> QED
    BY <1>2, <2>2 DEF Reached
<1>6. ASSUME UNCHANGED <<responses, received, discarded>>,
             outcome'[r] = "written" => outcome[r] = "written"
      PROVE  Reached(r)'
  BY <1>2, <1>6 DEF Reached
<1>7. ASSUME NEW t \in Threads, ThreadStep(t), ~WriteResponse(t)
      PROVE  /\ UNCHANGED <<responses, received, discarded>>
             /\ outcome'[r] = "written" => outcome[r] = "written"
  BY <1>0, <1>7
  DEF ThreadStep, SendResponse, WaitMatched, WaitTimeout, Return, GoTo, clientVars, TypeOK
<1> QED
  BY <1>3, <1>4, <1>5, <1>6, <1>7
  DEF Next, ClientStep, DiscoveryStep, SendRequest, DeleteRequestWriter, MatchReader,
      MatchWriter, UnmatchReader, UnmatchWriter, OnPublicationMatched, OnSubscriptionMatched,
      TakeRequest, appVars, clientVars, vars

\* Every step drops responses as GONE only for clients that are not connected.
LEMMA GoneStep == IInv /\ [Next]_vars => GoneOnlyAfterUnmatch'
<1> SUFFICES ASSUME IInv, [Next]_vars, NEW r \in Requests, outcome'[r] = "gone"
             PROVE  /\ r.client \in RmwClients
                    /\ client'[r.client] # "up" \/ r.client \in Unstable
  BY DEF GoneOnlyAfterUnmatch
<1>0. TypeOK /\ r.client \in Clients
  BY RequestFacts DEF IInv
<1>1. client[r.client] # "up" => client'[r.client] # "up"
  BY <1>0
  DEF Next, ClientStep, DiscoveryStep, ThreadStep, SendRequest, TakeResponse,
      DeleteResponseReader, DeleteRequestWriter, MatchReader, MatchWriter, UnmatchReader,
      UnmatchWriter, OnPublicationMatched, OnSubscriptionMatched, TakeRequest, SendResponse,
      WaitMatched, WaitTimeout, WriteResponse, clientVars, vars, TypeOK
<1>2. CASE outcome[r] = "gone"
  BY <1>1, <1>2 DEF IInv, GoneOnlyAfterUnmatch
<1>3. CASE outcome[r] # "gone"
  <2>1. PICK t \in Threads, q \in taken : SendResponse(t, q)
    BY <1>0, <1>3
    DEF Next, ClientStep, DiscoveryStep, ThreadStep, SendRequest, TakeResponse,
        DeleteResponseReader, DeleteRequestWriter, MatchReader, MatchWriter, UnmatchReader,
        UnmatchWriter, OnPublicationMatched, OnSubscriptionMatched, TakeRequest,
        WaitMatched, WaitTimeout, WriteResponse, Return, GoTo, appVars, vars, TypeOK
  <2>2. /\ q = r
        /\ IsReader(RequestGuid(r.client))
        /\ RequestGuid(r.client) \notin DOMAIN clients_endpoints
    BY <1>0, <1>3, <2>1 DEF SendResponse, Return, GoTo, TypeOK
  <2>3. r.client \in RmwClients /\ Reader(r.client) \notin DOMAIN clients_endpoints
    BY <1>0, <2>2, GuidFacts
  <2> QED
    BY <1>1, <2>2, <2>3 DEF IInv, StableKnown
<1> QED
  BY <1>2, <1>3

------------------------------------------------------------------------------
(***************************************************************************)
(* The theorems.                                                           *)
(***************************************************************************)
\* The inductive invariant holds initially.
LEMMA IInvInit == Init => IInv
<1> SUFFICES ASSUME Init PROVE IInv
  OBVIOUS
<1>1. TypeOK
  BY TypeInit
<1>2. EndpointsPaired /\ PlainEntries
  BY DEF Init, EndpointsPaired, PlainEntries
<1>3. RequestsHeld
  BY RequestFacts DEF Init, RequestsHeld
<1>4. MailOwned /\ ReceivedOnceAndOwn
  BY DEF Init, MailOwned, ReceivedOnceAndOwn
<1>5. StableKnown
  BY DEF Init, StableKnown, Clients
<1>6. WrittenReachesRequester /\ GoneOnlyAfterUnmatch
  BY DEF Init, WrittenReachesRequester, GoneOnlyAfterUnmatch
<1> QED
  BY <1>1, <1>2, <1>3, <1>4, <1>5, <1>6 DEF IInv

\* The inductive invariant is preserved by every step.
LEMMA IInvStep == IInv /\ [Next]_vars => IInv'
BY TypeStep, EndpointsStep, RequestsStep, MailStep, StableStep, ReachStep, GoneStep DEF IInv

\* The inductive invariant holds in every reachable state.
THEOREM Invariance == Spec => []IInv
BY IInvInit, IInvStep, PTL DEF Spec

\* clients_endpoints_ never keeps one direction of an rmw client's pair without the
\* other, in whatever order its two endpoints are unmatched.
THEOREM EndpointsStayPaired == Spec => []EndpointsPaired
<1>1. IInv => EndpointsPaired
  BY DEF IInv
<1> QED
  BY Invariance, <1>1, PTL

\* take_response delivers a response at most once, and only one to the client's own
\* request.
THEOREM ReceiveOnceAndOwn == Spec => []ReceivedOnceAndOwn
<1>1. IInv => ReceivedOnceAndOwn
  BY DEF IInv
<1> QED
  BY Invariance, <1>1, PTL

\* A response written for an rmw client that stays up and matched is never missed by
\* its reader: the wait in send_response closes the discovery race.
THEOREM WrittenIsReached == Spec => []WrittenReachesRequester
<1>1. IInv => WrittenReachesRequester
  BY DEF IInv
<1> QED
  BY Invariance, <1>1, PTL

\* send_response drops a response as GONE only for clients that were unmatched or
\* destroyed.
THEOREM GoneIsJustified == Spec => []GoneOnlyAfterUnmatch
<1>1. IInv => GoneOnlyAfterUnmatch
  BY DEF IInv
<1> QED
  BY Invariance, <1>1, PTL

------------------------------------------------------------------------------
(***************************************************************************)
(* The protocol implements RpcPromise.                                     *)
(***************************************************************************)
AskedSet    == {r \in Requests : r.sn <= sent[r.client]}
AnsweredSet == {r \in Requests : outcome[r] = "written"}

\* The initial state of the protocol maps to the initial state of the promise.
LEMMA PromiseInit == Init => Promise!Init
<1> SUFFICES ASSUME Init PROVE Promise!Init
  OBVIOUS
<1>1. AskedSet = {}
  BY ConstantsAssumption, RequestFacts DEF Init, AskedSet
<1>2. AnsweredSet = {}
  BY DEF Init, AnsweredSet
<1> QED
  BY <1>1, <1>2 DEF Init, Promise!Init, AskedSet, AnsweredSet

\* Each step asks, answers or delivers one request, or changes nothing of them.
LEMMA PromiseStep == IInv /\ [Next]_vars => [Promise!Next]_(Promise!vars)
<1> SUFFICES ASSUME IInv, [Next]_vars PROVE [Promise!Next]_(Promise!vars)
  OBVIOUS
<1>0. TypeOK
  BY DEF IInv
<1> DEFINE Still == UNCHANGED <<AskedSet, AnsweredSet, received>>
<1>1. Still => [Promise!Next]_(Promise!vars)
  BY DEF Promise!vars, AskedSet, AnsweredSet
<1>2. ASSUME NEW c \in Clients, SendRequest(c) PROVE [Promise!Next]_(Promise!vars)
  <2> DEFINE n == sent[c] + 1
             r == [client |-> c, sn |-> n]
  <2>1. sent[c] \in 0..MaxRequests /\ sent[c] < MaxRequests
    BY <1>0, <1>2 DEF SendRequest, TypeOK
  <2>2. r \in Requests
    BY <2>1, ConstantsAssumption DEF Requests
  <2>3. \A q \in Requests : q.sn <= sent'[q.client] <=> q.sn <= sent[q.client] \/ q = r
    <3>1. ASSUME NEW q \in Requests, q.client # c
          PROVE  q.sn <= sent'[q.client] <=> q.sn <= sent[q.client] \/ q = r
      BY <1>0, <1>2, <3>1, RequestFacts DEF SendRequest, TypeOK
    <3>2. ASSUME NEW q \in Requests, q.client = c
          PROVE  q.sn <= sent'[q.client] <=> q.sn <= sent[q.client] \/ q = r
      <4>1. sent'[c] = n /\ q.sn \in 1..MaxRequests
        BY <1>0, <1>2, RequestFacts DEF SendRequest, TypeOK
      <4>2. q.sn <= n <=> q.sn <= sent[c] \/ q.sn = n
        BY <2>1, <4>1, ConstantsAssumption
      <4>3. q.sn = n <=> q = r
        BY <2>2, <3>2, RequestFacts
      <4> QED
        BY <3>2, <4>1, <4>2, <4>3
    <3> QED
      BY <3>1, <3>2
  <2>4. r \notin AskedSet
    BY <2>1 DEF AskedSet
  <2>5. AskedSet' = AskedSet \cup {r}
    BY <2>2, <2>3 DEF AskedSet
  <2>6. UNCHANGED <<AnsweredSet, received>>
    BY <1>2 DEF SendRequest, appVars, AnsweredSet
  <2>7. PICK q \in Requests : q = r
    BY <2>2
  <2>8. Promise!Ask(q)
    BY <2>4, <2>5, <2>6, <2>7 DEF Promise!Ask, AskedSet, AnsweredSet
  <2> QED
    BY <2>8 DEF Promise!Next
<1>3. ASSUME NEW c \in Clients, TakeResponse(c) PROVE [Promise!Next]_(Promise!vars)
  <2>1. PICK m \in responses[c] : TakeResponse(c)!2!(m)
    BY <1>3 DEF TakeResponse
  <2> DEFINE r == [client |-> c, sn |-> m.sn]
  <2>2. r \in Requests
    BY <1>0, RequestFacts DEF TypeOK, Responses
  <2>3. UNCHANGED <<AskedSet, AnsweredSet>>
    BY <1>3 DEF TakeResponse, appVars, AskedSet, AnsweredSet
  <2>4. CASE UNCHANGED received
    BY <1>1, <2>3, <2>4
  <2>5. CASE IsOwnResponse(c, m) /\ received' = [received EXCEPT ![r] = @ + 1]
    <3>1. PICK d \in Clients : m.guid = RequestGuid(d)
      BY DEF IInv, MailOwned
    <3>2. m.guid = RequestGuid(c)
      BY <2>5, <3>1, GuidFacts DEF IsOwnResponse
    <3>3. outcome[r] = "written" /\ received[r] = 0
      BY <3>2 DEF IInv, MailOwned
    <3>4. received' = [received EXCEPT ![r] = 1]
      BY <1>0, <2>2, <2>5, <3>3 DEF TypeOK
    <3>5. Promise!TakeAnswer(r)
      BY <2>2, <2>3, <3>3, <3>4 DEF Promise!TakeAnswer, AskedSet, AnsweredSet
    <3> QED
      BY <2>2, <3>5 DEF Promise!Next
  <2> QED
    BY <2>1, <2>4, <2>5
<1>4. ASSUME NEW t \in Threads, WriteResponse(t) PROVE [Promise!Next]_(Promise!vars)
  <2>1. job[t] \in Requests /\ outcome[job[t]] = "none" /\ Asked(job[t])
    BY <1>0, <1>4, RequestFacts DEF WriteResponse, TypeOK, IInv, RequestsHeld
  <2>2. UNCHANGED <<AskedSet, received>>
    BY <1>4 DEF WriteResponse, AskedSet
  <2>3. CASE outcome' = [outcome EXCEPT ![job[t]] = "error"]
    BY <1>0, <1>1, <2>1, <2>2, <2>3 DEF AnsweredSet, TypeOK
  <2>4. CASE outcome' = [outcome EXCEPT ![job[t]] = "written"]
    <3>1. AnsweredSet' = AnsweredSet \cup {job[t]} /\ job[t] \in AskedSet \ AnsweredSet
      BY <1>0, <2>1, <2>4 DEF AnsweredSet, AskedSet, Asked, TypeOK
    <3>2. PICK q \in Requests : q = job[t]
      BY <2>1
    <3>3. Promise!Answer(q)
      BY <2>2, <3>1, <3>2 DEF Promise!Answer, AskedSet, AnsweredSet
    <3> QED
      BY <3>3 DEF Promise!Next
  <2> QED
    BY <1>4, <2>3, <2>4 DEF WriteResponse, Return
<1>5. ASSUME NEW t \in Threads, NEW r \in taken, SendResponse(t, r) PROVE Still
  <2>1. r \in Requests /\ outcome[r] = "none"
    BY <1>0 DEF IInv, RequestsHeld, TypeOK
  <2> QED
    BY <1>0, <1>5, <2>1
    DEF SendResponse, Return, GoTo, clientVars, AskedSet, AnsweredSet, TypeOK
<1>6. ASSUME NEW t \in Threads, WaitMatched(t) \/ WaitTimeout(t) PROVE Still
  <2>1. job[t] \in Requests /\ outcome[job[t]] = "none"
    BY <1>0, <1>6 DEF IInv, RequestsHeld, WaitMatched, WaitTimeout, TypeOK
  <2> QED
    BY <1>0, <1>6, <2>1
    DEF WaitMatched, WaitTimeout, Return, GoTo, clientVars, AskedSet, AnsweredSet, TypeOK
<1>7. ASSUME UNCHANGED <<sent, outcome, received>> PROVE Still
  BY <1>7 DEF AskedSet, AnsweredSet
<1> QED
  BY <1>1, <1>2, <1>3, <1>4, <1>5, <1>6, <1>7
  DEF Next, ClientStep, DiscoveryStep, ThreadStep, DeleteResponseReader, DeleteRequestWriter,
      MatchReader, MatchWriter, UnmatchReader, UnmatchWriter, OnPublicationMatched,
      OnSubscriptionMatched, TakeRequest, appVars, clientVars, vars

\* Through any interleaving of discovery, destruction of clients and server threads, the
\* protocol implements the promise: asked, then answered, then delivered at most once.
THEOREM ProtocolImplementsPromise == Spec => ImplementsPromise
BY PromiseInit, PromiseStep, Invariance, PTL DEF Spec, ImplementsPromise, Promise!Spec
==============================================================================
