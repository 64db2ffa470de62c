----------------------------- MODULE ListenerProofs -----------------------------
(***************************************************************************)
(* Proofs about what the listeners of the client, service and subscription *)
(* objects tell.                                                           *)
(*                                                                         *)
(* DataNotification: for any number of setters, callbacks and samples, no  *)
(* sample is announced twice, and none stays silent but for the window     *)
(* between a setter's count and its install.                               *)
(*                                                                         *)
(* ServiceAvailability: for any number of servers, whatever came and left  *)
(* before, the four counts give the right answer once all is discovered.   *)
(***************************************************************************)
EXTENDS DataNotification, ServiceAvailability, FiniteSetTheorems, TLAPS

\* The inductive invariant holds initially.
LEMMA IInvInit == Init => IInv
<1> SUFFICES ASSUME Init PROVE IInv
  OBVIOUS
<1> USE NotificationAssumption DEF Init
<1>1. TypeOK
  <2>1. arrived \in 0..MaxSamples /\ sets \in 0..MaxSets
    OBVIOUS
  <2>2. mask \in BOOLEAN /\ (mask <=> cb # None) /\ delivering \in BOOLEAN
    OBVIOUS
  <2>3. raced \in BOOLEAN /\ crashed \in BOOLEAN
    OBVIOUS
  <2>4. \A s \in Setters : pc[s] = "locked" <=> lock = s
    OBVIOUS
  <2>5. /\ pc \in [Setters -> {"idle", "counted", "locked"}]
        /\ arg \in [Setters -> Callbacks \cup {None}]
        /\ held \in [Setters -> SUBSET Samples]
        /\ announced \in [Samples -> Nat]
    OBVIOUS
  <2> QED BY <2>1, <2>2, <2>3, <2>4, <2>5 DEF TypeOK
<1>2. NotYetArrived
  BY DEF NotYetArrived
<1>3. AnnouncedOnce
  BY DEF AnnouncedOnce
<1>4. UnreadExplained
  BY DEF UnreadExplained
<1> QED BY <1>1, <1>2, <1>3, <1>4 DEF IInv

\* Every step keeps the types and the ownership of the callback's lock.
LEMMA TypeStep == TypeOK /\ [Next]_vars => TypeOK'
<1> SUFFICES ASSUME TypeOK, [Next]_vars PROVE TypeOK'
  OBVIOUS
<1> USE NotificationAssumption DEF TypeOK, Samples
<1>1. CASE Arrive
  BY <1>1 DEF Arrive, setterVars
<1>2. CASE OnDataAvailable
  <2>1. CASE UNCHANGED <<unread, announced>>
    BY <1>2, <2>1 DEF OnDataAvailable, setterVars
  <2>2. CASE MarkAsRead /\ Announce(unread)
    <3>1. announced' \in [Samples -> Nat]
      BY <2>2 DEF Announce
    <3>2. unread' = {} /\ raced' \in BOOLEAN /\ crashed' \in BOOLEAN
      BY <1>2, <2>2 DEF OnDataAvailable, MarkAsRead
    <3> QED BY <1>2, <3>1, <3>2 DEF OnDataAvailable, setterVars
  <2> QED BY <1>2, <2>1, <2>2 DEF OnDataAvailable
<1>3. CASE Take
  BY <1>3 DEF Take, setterVars
<1>4. ASSUME NEW s \in Setters, SetterStep(s) PROVE TypeOK'
  <2>1. ASSUME NEW c \in Callbacks, Count(s, c) PROVE TypeOK'
    <3>1. unread \in SUBSET Samples /\ sets + 1 \in 0..MaxSets
      BY <2>1 DEF Count
    <3> QED BY <2>1, <3>1 DEF Count, MarkAsRead
  <2>2. CASE Clear(s)
    BY <2>2 DEF Clear, readerVars
  <2>3. CASE Lock(s)
    BY <2>3 DEF Lock, readerVars
  <2>4. CASE Install(s)
    BY <2>4 DEF Install, Unlock, Announce, readerVars
  <2>5. CASE Uninstall(s)
    BY <2>5 DEF Uninstall, Unlock, readerVars
  <2> QED BY <1>4, <2>1, <2>2, <2>3, <2>4, <2>5 DEF SetterStep
<1>5. CASE UNCHANGED vars
  BY <1>5 DEF vars, setterVars, readerVars
<1> QED BY <1>1, <1>2, <1>3, <1>4, <1>5 DEF Next

\* Every step keeps the samples that are to come untouched.
LEMMA ArrivalStep == TypeOK /\ NotYetArrived /\ [Next]_vars => NotYetArrived'
<1> SUFFICES ASSUME TypeOK, NotYetArrived, [Next]_vars PROVE NotYetArrived'
  OBVIOUS
<1> USE DEF TypeOK, NotYetArrived, Samples
<1>1. CASE Arrive
  BY <1>1, NotificationAssumption DEF Arrive, setterVars
<1>2. CASE OnDataAvailable
  <2>1. CASE UNCHANGED <<unread, announced>>
    BY <1>2, <2>1 DEF OnDataAvailable, setterVars
  <2>2. CASE MarkAsRead /\ Announce(unread)
    BY <1>2, <2>2 DEF OnDataAvailable, MarkAsRead, Announce, setterVars
  <2> QED BY <1>2, <2>1, <2>2 DEF OnDataAvailable
<1>3. CASE Take
  BY <1>3 DEF Take, setterVars
<1>4. ASSUME NEW s \in Setters, SetterStep(s) PROVE NotYetArrived'
  <2>1. ASSUME NEW c \in Callbacks, Count(s, c) PROVE NotYetArrived'
    BY <2>1 DEF Count, MarkAsRead
  <2>2. CASE Clear(s)
    BY <2>2 DEF Clear, readerVars
  <2>3. CASE Lock(s)
    BY <2>3 DEF Lock, readerVars
  <2>4. CASE Install(s)
    BY <2>4 DEF Install, Unlock, Announce, readerVars
  <2>5. CASE Uninstall(s)
    BY <2>5 DEF Uninstall, Unlock, readerVars
  <2> QED BY <1>4, <2>1, <2>2, <2>3, <2>4, <2>5 DEF SetterStep
<1>5. CASE UNCHANGED vars
  BY <1>5 DEF vars, setterVars, readerVars
<1> QED BY <1>1, <1>2, <1>3, <1>4, <1>5 DEF Next

\* Every step keeps each sample unread, with one setter, or announced once.
LEMMA AnnouncedStep ==
  TypeOK /\ NotYetArrived /\ AnnouncedOnce /\ [Next]_vars => AnnouncedOnce'
<1> SUFFICES ASSUME TypeOK, NotYetArrived, AnnouncedOnce, [Next]_vars
             PROVE AnnouncedOnce'
  OBVIOUS
<1> USE DEF TypeOK, AnnouncedOnce, Samples
<1>1. CASE Arrive
  <2>1. arrived + 1 \in Samples /\ arrived + 1 > arrived
    BY <1>1, NotificationAssumption DEF Arrive
  <2> QED BY <1>1, <2>1 DEF Arrive, setterVars, NotYetArrived
<1>2. CASE OnDataAvailable
  <2>1. CASE UNCHANGED <<unread, announced>>
    BY <1>2, <2>1 DEF OnDataAvailable, setterVars
  <2>2. CASE MarkAsRead /\ Announce(unread)
    BY <1>2, <2>2 DEF OnDataAvailable, MarkAsRead, Announce, setterVars
  <2> QED BY <1>2, <2>1, <2>2 DEF OnDataAvailable
<1>3. CASE Take
  BY <1>3 DEF Take, setterVars
<1>4. ASSUME NEW s \in Setters, SetterStep(s) PROVE AnnouncedOnce'
  <2>1. ASSUME NEW c \in Callbacks, Count(s, c) PROVE AnnouncedOnce'
    BY <2>1 DEF Count, MarkAsRead
  <2>2. CASE Clear(s)
    BY <2>2 DEF Clear, readerVars
  <2>3. CASE Lock(s)
    BY <2>3 DEF Lock, readerVars
  <2>4. CASE Install(s)
    BY <2>4 DEF Install, Unlock, Announce, readerVars
  <2>5. CASE Uninstall(s)
    BY <2>5 DEF Uninstall, Unlock, readerVars
  <2> QED BY <1>4, <2>1, <2>2, <2>3, <2>4, <2>5 DEF SetterStep
<1>5. CASE UNCHANGED vars
  BY <1>5 DEF vars, setterVars, readerVars
<1> QED BY <1>1, <1>2, <1>3, <1>4, <1>5 DEF Next

\* Every step keeps unread samples explained.
LEMMA ExplainedStep == TypeOK /\ UnreadExplained /\ [Next]_vars => UnreadExplained'
<1> SUFFICES ASSUME TypeOK, UnreadExplained, [Next]_vars PROVE UnreadExplained'
  OBVIOUS
<1> USE NotificationAssumption DEF TypeOK, UnreadExplained, InSetter
<1>1. CASE Arrive
  BY <1>1 DEF Arrive, setterVars
<1>2. CASE OnDataAvailable
  BY <1>2 DEF OnDataAvailable, MarkAsRead, setterVars
<1>3. CASE Take
  BY <1>3 DEF Take, setterVars
<1>4. ASSUME NEW s \in Setters, SetterStep(s) PROVE UnreadExplained'
  <2>1. ASSUME NEW c \in Callbacks, Count(s, c) PROVE UnreadExplained'
    BY <2>1 DEF Count, MarkAsRead
  <2>2. CASE Clear(s)
    BY <2>2 DEF Clear, readerVars
  <2>3. CASE Lock(s)
    BY <2>3 DEF Lock, readerVars
  <2>4. CASE Install(s)
    BY <2>4 DEF Install, Unlock, readerVars
  <2>5. CASE Uninstall(s)
    BY <2>5 DEF Uninstall, Unlock, readerVars
  <2> QED BY <1>4, <2>1, <2>2, <2>3, <2>4, <2>5 DEF SetterStep
<1>5. CASE UNCHANGED vars
  BY <1>5 DEF vars, setterVars, readerVars
<1> QED BY <1>1, <1>2, <1>3, <1>4, <1>5 DEF Next

\* The inductive invariant holds in every reachable state.
THEOREM Invariance == Spec => []IInv
<1>1. IInv /\ [Next]_vars => IInv'
  BY TypeStep, ArrivalStep, AnnouncedStep, ExplainedStep DEF IInv
<1> QED BY IInvInit, <1>1, PTL DEF Spec

\* get_unread_count(true) makes the announcements of setters and listener exclusive: no
\* sample is counted for two callbacks, or twice for one.
THEOREM NoDoubleAnnouncement == Spec => []AnnouncedOnce
<1>1. IInv => AnnouncedOnce
  BY DEF IInv
<1> QED BY Invariance, <1>1, PTL

\* A sample is missed by an installed callback only if it arrived while a setter was
\* between counting the unread samples and installing its callback.
THEOREM MissedOnlyInWindow == Spec => []SilentOnlyAfterRace
<1>1. IInv => SilentOnlyAfterRace
  BY DEF IInv, TypeOK, UnreadExplained, SilentOnlyAfterRace, Quiet
<1> QED BY Invariance, <1>1, PTL

------------------------------------------------------------------------------
(***************************************************************************)
(* The availability of a service.                                          *)
(***************************************************************************)
GraphCount(kind) == Cardinality(graph[kind])

AvailabilityTypes ==
  /\ phase \in [Servers -> Phases]
  /\ graph \in [Kinds -> SUBSET Servers]
  /\ subscriptions_ \subseteq Servers /\ publishers_ \subseteq Servers
  /\ request_publisher_matched_count_ = Cardinality(subscriptions_)
  /\ response_subscriber_matched_count_ = Cardinality(publishers_)
  /\ stage \in {"idle", "readers", "writers", "pubs", "subs", "done"}
  /\ is_available \in BOOLEAN

\* What a call has learnt so far is still true if nothing has changed since it began.
Learnt ==
  /\ stage = "writers" => count = GraphCount("request") /\ count # 0
  /\ stage \in {"pubs", "subs"} =>
       GraphCount("request") # 0 /\ GraphCount("request") = GraphCount("response")
  /\ stage = "subs" => count = request_publisher_matched_count_ /\ count # 0
  /\ stage = "done" =>
       (is_available <=>
          /\ GraphCount("request") # 0 /\ GraphCount("request") = GraphCount("response")
          /\ request_publisher_matched_count_ # 0
          /\ request_publisher_matched_count_ = response_subscriber_matched_count_)

AvailabilityInv == AvailabilityTypes /\ (calm => Learnt)

\* The counters follow the sets, and every step keeps what the call has learnt, or ends the
\* calm.
LEMMA AvailabilityStep ==
  AvailabilityInv /\ [AvailabilityNext]_availabilityVars => AvailabilityInv'
<1> SUFFICES ASSUME AvailabilityInv, [AvailabilityNext]_availabilityVars PROVE AvailabilityInv'
  OBVIOUS
<1> USE DEF AvailabilityInv, AvailabilityTypes
<1>1. ASSUME NEW s \in Servers, NEW from \in Phases, NEW to \in Phases, Turn(s, from, to)
      PROVE  AvailabilityInv'
  BY <1>1 DEF Turn, client, query
<1>2. ASSUME NEW s \in Servers, CreateReader(s) \/ DeleteReader(s) \/ Finish(s)
      PROVE  AvailabilityInv'
  BY <1>1, <1>2 DEF CreateReader, DeleteReader, Finish, CreateWriter, CreateReturns, CreateFails,
                    DeleteWriter, Phases
<1>3. ASSUME NEW s \in Servers, NEW kind \in Kinds, OnDiscovery(kind, s) PROVE AvailabilityInv'
  BY <1>3 DEF OnDiscovery, client, query
<1>4. ASSUME NEW s \in Servers, OnSubscriptionMatched(s) PROVE AvailabilityInv'
  BY <1>4 DEF OnSubscriptionMatched, Updated, service, query
<1>5. ASSUME NEW s \in Servers, OnPublicationMatched(s) PROVE AvailabilityInv'
  BY <1>5 DEF OnPublicationMatched, Updated, service, query
<1>kept. ASSUME UNCHANGED <<service, client>>
         PROVE  GraphCount("request")' = GraphCount("request")
                /\ GraphCount("response")' = GraphCount("response")
  BY <1>kept DEF service, GraphCount
<1>6. CASE Call
  BY <1>6 DEF Call, service, client, Learnt
<1>7. CASE GetReaderCount
  BY <1>7, <1>kept DEF GetReaderCount, Keep, Return, service, client, Learnt, GraphCount
<1>8. CASE GetWriterCount
  BY <1>8, <1>kept DEF GetWriterCount, GraphAgrees, Return, service, client, Learnt, GraphCount
<1>9. CASE LoadPublisherMatches
  BY <1>9, <1>kept DEF LoadPublisherMatches, Keep, Return, service, client, Learnt
<1>10. CASE LoadSubscriberMatches
  BY <1>10, <1>kept DEF LoadSubscriberMatches, Return, service, client, Learnt
<1>11. CASE UNCHANGED availabilityVars
  BY <1>11, <1>kept DEF availabilityVars, service, client, query, Learnt
<1> QED
  BY <1>2, <1>3, <1>4, <1>5, <1>6, <1>7, <1>8, <1>9, <1>10, <1>11
  DEF AvailabilityNext, Discovery, Query

\* The servers that match in a direction are those the client can call and those that
\* match in this direction only.
LEMMA MatchingParts ==
  ASSUME NEW kind \in Kinds
  PROVE  /\ Cardinality(Serving) \in Nat /\ Cardinality(OneWay(kind)) \in Nat
         /\ Cardinality(Matching(kind)) = Cardinality(Serving) + Cardinality(OneWay(kind))
         /\ Cardinality(Matching(kind)) = 0 <=> Serving = {} /\ OneWay(kind) = {}
<1>1. Serving \cup OneWay(kind) = Matching(kind) /\ Serving \cap OneWay(kind) = {}
  BY DEF Kinds, Serving, OneWay
<1>2. IsFiniteSet(Serving) /\ IsFiniteSet(OneWay(kind)) /\ IsFiniteSet(Matching(kind))
  BY ServersAssumption, FS_Subset DEF Serving, OneWay, Matching, Up
<1>3. /\ Cardinality(Serving) \in Nat /\ Cardinality(OneWay(kind)) \in Nat
      /\ Cardinality({}) = 0
  BY <1>2, FS_CardinalityType, FS_EmptySet
<1>4. Cardinality(Matching(kind)) = Cardinality(Serving) + Cardinality(OneWay(kind))
  <2>1. Cardinality(Serving \cup OneWay(kind))
          = Cardinality(Serving) + Cardinality(OneWay(kind)) - Cardinality(Serving \cap OneWay(kind))
    BY <1>2, FS_Union
  <2>2. Cardinality(Matching(kind)) = Cardinality(Serving) + Cardinality(OneWay(kind)) - 0
    BY <2>1, <1>1, <1>3
  <2> QED BY <2>2, <1>3
<1>5. Cardinality(Matching(kind)) = 0 <=> Matching(kind) = {}
  BY <1>2, FS_EmptySet
<1> QED BY <1>1, <1>3, <1>4, <1>5

\* For any number of servers, each with any QoS in either direction: if the servers are
\* whole and discovery has caught up since before the call began, the answer says whether
\* a server is up that the client can call, except as servers that match in one direction
\* only account for it.
THEOREM AnswerIsRight == AvailabilitySpec => []AnswerOfSettled
<1>1. AvailabilityInit => AvailabilityInv
  <2>1. Cardinality({}) = 0
    BY FS_EmptySet
  <2> QED BY <2>1 DEF AvailabilityInit, AvailabilityInv, AvailabilityTypes, Learnt, Phases
<1>2. AvailabilityInv => AnswerOfSettled
  <2> SUFFICES ASSUME AvailabilityInv, stage = "done", calm, Settled
               PROVE  /\ is_available => Serving # {} \/ \A kind \in Kinds : OneWay(kind) # {}
                      /\ Serving # {} /\ Balanced => is_available
    BY DEF AnswerOfSettled
  <2> DEFINE requests == Cardinality(Matching("request"))
             responses == Cardinality(Matching("response"))
  <2>1. /\ GraphCount("request") = Cardinality(Up) /\ GraphCount("response") = Cardinality(Up)
        /\ request_publisher_matched_count_ = requests
        /\ response_subscriber_matched_count_ = responses
    BY DEF AvailabilityInv, AvailabilityTypes, Settled, GraphCount, Kinds
  <2>2. is_available <=> Cardinality(Up) # 0 /\ requests # 0 /\ requests = responses
    BY <2>1 DEF AvailabilityInv, Learnt
  <2>3. Serving # {} => Cardinality(Up) # 0
    <3>1. IsFiniteSet(Up)
      BY ServersAssumption, FS_Subset DEF Up
    <3> QED BY <3>1, FS_EmptySet DEF Serving, Matching
  <2>4. "request" \in Kinds /\ "response" \in Kinds
    BY DEF Kinds
  <2>5. Serving # {} /\ Balanced => is_available
    BY <2>2, <2>3, <2>4, MatchingParts DEF Balanced
  <2>6. ASSUME is_available, Serving = {}, NEW kind \in Kinds PROVE OneWay(kind) # {}
    BY <2>2, <2>4, <2>6, MatchingParts DEF Kinds
  <2> QED BY <2>5, <2>6
<1> QED BY <1>1, <1>2, AvailabilityStep, PTL DEF AvailabilitySpec
================================================================================
