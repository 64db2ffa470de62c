---------------------------- MODULE EntityLifecycle ----------------------------
(***************************************************************************)
(* How publishers, subscriptions, clients and services come and go in one  *)
(* context.  Each is made of a dozen things acquired one after the other,  *)
(* any of which may fail: what was acquired is undone, and what is shared  *)
(* (types, topics with a use count, type supports) must live as long as it *)
(* is used.                                                                *)
(*                                                                         *)
(*   cpp/ and dynamic_cpp/  publisher.cpp, subscription.cpp,               *)
(*                          rmw_client.cpp, rmw_service.cpp     creation   *)
(*   shared_cpp/            the same names                      destruction*)
(*   shared_cpp/            custom_participant_info.cpp, utils.cpp  topics *)
(*   dynamic_cpp/           type_support_registry.cpp           supports   *)
(*                                                                         *)
(* A call is the list of steps it still has to take.  entity_creation_mutex_*)
(* covers creation but for the graph of publishers and subscriptions, and  *)
(* the second half of destruction.                                         *)
(***************************************************************************)
EXTENDS Naturals, Sequences, FiniteSets, SequencesExt

CONSTANTS
  Entities,     \* each is created and destroyed once, by a thread of its own
  Kind,         \* [Entities -> Kinds]
  TopicOf,      \* [Entities -> topics (or services)]
  Types,        \* message (or service) types
  BufferAware,  \* those that have buffer fields
  MaxCreated,   \* bound: entities created in one behaviour
  MaxFaults     \* bound: steps that fail

None == "none"
Nothing == <<None, None>>   \* no step, no type
Kinds == {"publisher", "subscription", "client", "service"}

ASSUME EntityAssumption ==
  /\ IsFiniteSet(Entities) /\ IsFiniteSet(Types)
  /\ Kind \in [Entities -> Kinds]
  /\ DOMAIN TopicOf = Entities
  /\ BufferAware \subseteq Types
  /\ None \notin Entities \cup Types
  /\ MaxCreated \in Nat /\ MaxFaults \in Nat

\* What an entity has for each of its topics: clients and services have two, and a
\* publisher or subscription of a buffer-aware type a second one, its channel.
Slots == {"main", "channel", "request", "response"}

\* What is acquired and released, and the steps between.
Support(x)  == <<"support", x>>    \* a reference to a type support of the registry
Type(x)     == <<"type", x>>       \* a registered type
Event       == <<"event", "main">> \* publisher_event_, subscription_event_
Listener(x) == <<"listener", x>>
Topic(x)    == <<"topic", x>>      \* a use of a topic
Filter      == <<"filter", "main">>
Endpoint(x) == <<"endpoint", x>>   \* a DataWriter or DataReader
Handle      == <<"handle", "main">>
Graph       == <<"graph", "main">>
Lock        == <<"lock", "main">>
Check       == <<"check", "main">>
Unlock      == <<"unlock", "main">>

Things == ({"support", "type", "listener", "topic", "endpoint"} \X Slots)
            \cup {Event, Filter, Handle, Graph}
Steps  == Things \cup {Lock, Check, Unlock}

VARIABLES
  package,   \* "cpp" or "dynamic": the library the context belongs to
  call,      \* what each entity's thread is doing, or how its last call ended
  todo,      \* the steps it has left
  type,      \* the type of each entity
  has,       \* the things each entity has
  lock,      \* holder of entity_creation_mutex_
  types,     \* types registered with the participant
  topics,    \* DDS topics of the participant: the type of each, or Nothing
  uses,      \* topic_name_to_topic_: use_count
  watchers,  \* event listeners of the topic listeners
  supports,  \* TypeSupportRegistry: ref_count
  muted,     \* endpoints that could not be deleted and lost their listener
  failed,    \* history: the step that ended each creation or change of filter
  refused,   \* history: entities of which an endpoint was not deleted
  faults, crashed

callVars   == <<call, todo>>
sharedVars == <<types, topics, uses, watchers, supports>>
history    == <<failed, refused, faults, crashed>>
vars == <<package, call, todo, type, has, lock, sharedVars, muted, history>>

Names     == {TopicOf[e] : e \in Entities} \X Slots
TypeNames == Types \X (Slots \ {"channel"})

TopicName(e, x) == <<TopicOf[e], x>>
TypeName(e, x)  == <<type[e], IF x = "channel" THEN "main" ELSE x>>

Is(e, kinds) == Kind[e] \in kinds
PubSub  == {"publisher", "subscription"}
Rpc     == {"client", "service"}

Init ==
  /\ package \in {"cpp", "dynamic"}
  /\ call = [e \in Entities |-> None]
  /\ todo = [e \in Entities |-> <<>>]
  /\ type = [e \in Entities |-> None]
  /\ has = [e \in Entities |-> {}]
  /\ lock = None
  /\ types = {}
  /\ topics = [n \in Names |-> Nothing]
  /\ uses = [n \in Names |-> 0]
  /\ watchers = {}
  /\ supports = [t \in TypeNames |-> 0]
  /\ muted = {} /\ refused = {}
  /\ failed = [e \in Entities |-> Nothing]
  /\ faults = 0 /\ crashed = None

(***************************************************************************)
(* Creation, step by step.  Of each function the first operator is what    *)
(* endpoints need, the second the endpoints and what comes after them.     *)
(***************************************************************************)
If(c, steps) == IF c THEN steps ELSE <<>>
Channel == <<Topic("channel"), Endpoint("channel")>>

CppPublisherTopic == <<Type("main"), Event, Listener("main"), Topic("main")>>
CppPublisherWriter(channel) == <<Endpoint("main"), Handle>> \o If(channel, Channel)

CppSubscriptionTopic(filtered) ==
  <<Type("main"), Event, Listener("main"), Topic("main")>> \o If(filtered, <<Filter>>)
CppSubscriptionReader(channel) == <<Endpoint("main"), Handle>> \o If(channel, Channel)

\* A subscription whose type is only known at run time has no channel.
RuntimeSubscriptionTopic(filtered) == CppSubscriptionTopic(filtered)
RuntimeSubscriptionReader == CppSubscriptionReader(FALSE)

CppClientTopics ==
  <<Type("request"), Type("response"), Listener("response"), Listener("request"),
    Topic("response"), Topic("request")>>
CppClientEndpoints == <<Endpoint("response"), Endpoint("request"), Handle, Graph>>

CppServiceTopics ==
  <<Type("request"), Type("response"), Listener("request"), Listener("response"),
    Topic("request"), Topic("response")>>
CppServiceEndpoints == <<Endpoint("request"), Endpoint("response"), Handle, Graph>>

\* rmw_fastrtps_dynamic_cpp gets its type supports first, and has no channels and no filters.
DynamicPublisherTopic     == <<Support("main")>> \o CppPublisherTopic
DynamicPublisherWriter    == CppPublisherWriter(FALSE)
DynamicSubscriptionTopic  == <<Support("main")>> \o CppSubscriptionTopic(FALSE)
DynamicSubscriptionReader == CppSubscriptionReader(FALSE)
DynamicClientTopics       == <<Support("request"), Support("response")>> \o CppClientTopics
DynamicClientEndpoints    == CppClientEndpoints
DynamicServiceTopics      == <<Support("request"), Support("response")>> \o CppServiceTopics
DynamicServiceEndpoints   == CppServiceEndpoints

CppPlans(kind, channel) ==
  [publisher    |-> {CppPublisherTopic \o CppPublisherWriter(channel)},
   subscription |-> {CppSubscriptionTopic(f) \o CppSubscriptionReader(channel) : f \in BOOLEAN}
                      \cup {RuntimeSubscriptionTopic(f) \o RuntimeSubscriptionReader : f \in BOOLEAN},
   client       |-> {CppClientTopics \o CppClientEndpoints},
   service      |-> {CppServiceTopics \o CppServiceEndpoints}][kind]

DynamicPlans(kind) ==
  [publisher    |-> {DynamicPublisherTopic \o DynamicPublisherWriter},
   subscription |-> {DynamicSubscriptionTopic \o DynamicSubscriptionReader},
   client       |-> {DynamicClientTopics \o DynamicClientEndpoints},
   service      |-> {DynamicServiceTopics \o DynamicServiceEndpoints}][kind]

\* The ways to create e with type t.
Plans(e, t) ==
  IF package = "cpp" THEN CppPlans(Kind[e], t \in BufferAware) ELSE DynamicPlans(Kind[e])

\* rmw_create_publisher and rmw_create_subscription enter the graph after the lock is
\* released; rmw_create_client and rmw_create_service do so as the last step under it.
Create(e) ==
  /\ call[e] = None
  /\ Cardinality({f \in Entities : call[f] # None}) < MaxCreated
  /\ \E t \in Types : \E plan \in Plans(e, t) :
       /\ type' = [type EXCEPT ![e] = t]
       /\ todo' = [todo EXCEPT ![e] = <<Lock, Check>> \o plan \o <<Unlock>>
                                        \o If(Is(e, PubSub), <<Graph>>)]
  /\ call' = [call EXCEPT ![e] = "creating"]
  /\ UNCHANGED <<package, has, lock, sharedVars, muted, history>>

(***************************************************************************)
(* What undoes it: the scope exits, in reverse order of their declaration, *)
(* and destruction.                                                        *)
(***************************************************************************)
UndoPublisher ==
  <<Topic("channel"), Handle, Endpoint("main"), Support("main"), Topic("main"), Type("main"),
    Listener("main"), Event>>

\* The content filter is not among them.
UndoSubscription ==
  <<Topic("channel"), Handle, Endpoint("main"), Support("main"), Topic("main"), Type("main"),
    Event, Listener("main")>>

UndoClient ==
  <<Handle, Endpoint("request"), Endpoint("response"), Support("response"), Support("request"),
    Topic("response"), Type("response"), Topic("request"), Type("request"),
    Listener("request"), Listener("response")>>

Mut_forget_response_type ==
  <<Handle, Endpoint("response"), Endpoint("request"), Support("response"), Support("request"),
    Topic("response"), Topic("request"), Type("request"), Listener("response"), Listener("request")>>

UndoService ==
  <<Handle, Endpoint("response"), Endpoint("request"), Support("response"), Support("request"),
    Topic("response"), Type("response"), Topic("request"), Type("request"),
    Listener("response"), Listener("request")>>

Undo(e) ==
  [publisher |-> UndoPublisher, subscription |-> UndoSubscription,
   client |-> UndoClient, service |-> UndoService][Kind[e]]

\* shared_cpp: what both packages share
DestroyPublisher ==
  <<Lock, Endpoint("main"), Listener("main"), Topic("main"), Type("main"), Event, Unlock, Handle>>

DestroySubscription ==
  <<Lock, Endpoint("main"), Filter, Listener("main"), Topic("main"), Type("main"), Event, Unlock,
    Handle>>

Mut_listener_first ==
  <<Graph, Lock, Listener("response"), Endpoint("response"), Endpoint("request"), Listener("request"),
    Topic("request"), Type("request"), Topic("response"), Type("response"), Unlock, Handle>>

DestroyClient ==
  <<Graph, Lock, Endpoint("response"), Listener("response"), Endpoint("request"), Listener("request"),
    Topic("request"), Type("request"), Topic("response"), Type("response"), Unlock, Handle>>

DestroyService ==
  <<Graph, Lock, Endpoint("request"), Listener("request"), Endpoint("response"), Listener("response"),
    Topic("request"), Type("request"), Topic("response"), Type("response"), Unlock, Handle>>

DestroyShared(e) == IF Is(e, {"publisher"}) THEN DestroyPublisher ELSE DestroySubscription

\* Each package's own part comes first: the channel, or the reference to the type support,
\* which is returned again if the call is made again.
CppDestroyPublisher    == <<Endpoint("channel"), Topic("channel"), Graph>> \o DestroyPublisher
CppDestroySubscription == <<Endpoint("channel"), Topic("channel"), Graph>> \o DestroySubscription
DynamicReturn(e) ==
  IF Is(e, PubSub) THEN <<Support("main")>> ELSE <<Support("request"), Support("response")>>

DestroySteps(e) ==
  [publisher |-> CppDestroyPublisher, subscription |-> CppDestroySubscription,
   client |-> DestroyClient, service |-> DestroyService][Kind[e]]

Destroy(e) ==
  /\ call[e] \in {"live", "refused"}
  /\ call' = [call EXCEPT ![e] = "destroying"]
  /\ todo' = [todo EXCEPT ![e] = If(package = "dynamic", DynamicReturn(e)) \o DestroySteps(e)]
  /\ UNCHANGED <<package, type, has, lock, sharedVars, muted, history>>

(***************************************************************************)
(* rmw_subscription_set_content_filter: a filter is added or dropped by    *)
(* deleting the reader and creating another one.                           *)
(***************************************************************************)
CloseReader == <<Graph, Lock, Endpoint("main"), Filter, Unlock>>

SetContentFilter(e) ==
  /\ package = "cpp" /\ Is(e, {"subscription"})
  /\ call[e] = "live"
  /\ call' = [call EXCEPT ![e] = IF Filter \in has[e] THEN "dropping" ELSE "adding"]
  /\ todo' = [todo EXCEPT ![e] = CloseReader]
  /\ UNCHANGED <<package, type, has, lock, sharedVars, muted, history>>

Mut_reopen_without_graph == <<Endpoint("main")>>

ReopenReader == <<Endpoint("main"), Graph>>

Reopen(e) ==
  /\ call[e] \in {"adding", "dropping"} /\ todo[e] = <<>>
  /\ call' = [call EXCEPT ![e] = "reopening"]
  /\ todo' = [todo EXCEPT ![e] = If(call[e] = "adding", <<Filter>>) \o ReopenReader]
  /\ UNCHANGED <<package, type, has, lock, sharedVars, muted, history>>

(***************************************************************************)
(* The steps.                                                              *)
(***************************************************************************)
Getting(e) == call[e] \in {"creating", "reopening"}

At(e, whats) == todo[e] # <<>> /\ Head(todo[e])[1] \in whats
Slot(e) == Head(todo[e])[2]

Step(e) == todo' = [todo EXCEPT ![e] = Tail(@)] /\ UNCHANGED <<package, type, faults>>

Get(e) == Getting(e) /\ Step(e) /\ has' = [has EXCEPT ![e] = @ \cup {Head(todo[e])}]

\* What is not there is not released, but rmw_destroy_* returns a type support in any case.
Due(e) == Head(todo[e]) \in has[e] \/ (call[e] = "destroying" /\ At(e, {"support"}))

Put(e) == ~Getting(e) /\ Due(e) /\ Step(e) /\ has' = [has EXCEPT ![e] = @ \ {Head(todo[e])}]

Skip(e) ==
  /\ ~Getting(e) /\ todo[e] # <<>> /\ ~Due(e) /\ ~At(e, {"lock", "unlock"}) /\ Step(e)
  /\ UNCHANGED <<call, has, lock, sharedVars, muted, failed, refused, crashed>>

TakeLock(e) ==
  /\ At(e, {"lock"}) /\ Step(e)
  /\ lock = None /\ lock' = e
  /\ UNCHANGED <<call, has, sharedVars, muted, failed, refused, crashed>>

ReleaseLock(e) ==
  /\ At(e, {"unlock"}) /\ Step(e)
  /\ lock' = None
  /\ UNCHANGED <<call, has, sharedVars, muted, failed, refused, crashed>>

\* find_and_check_topic_and_type: a topic of that name has another type.
Incompatible(e) ==
  \E x \in Slots :
    /\ Topic(x) \in UNION {ToSet(plan) : plan \in Plans(e, type[e])}
    /\ x # "channel"
    /\ topics[TopicName(e, x)] \notin {Nothing, TypeName(e, x)}

FindAndCheck(e) ==
  /\ At(e, {"check"})
  /\ IF Incompatible(e)
     THEN /\ call' = [call EXCEPT ![e] = "undoing"]
          /\ todo' = [todo EXCEPT ![e] = <<Unlock>>]
          /\ failed' = [failed EXCEPT ![e] = Check]
          /\ UNCHANGED <<package, type, faults>>
     ELSE Step(e) /\ UNCHANGED <<call, failed>>
  /\ UNCHANGED <<has, lock, sharedVars, muted, refused, crashed>>

GetSupport(e) ==
  /\ At(e, {"support"}) /\ Get(e)
  /\ supports' = [supports EXCEPT ![TypeName(e, Slot(e))] = @ + 1]
  /\ UNCHANGED <<call, lock, types, topics, uses, watchers, muted, failed, refused, crashed>>

\* return_type_support; it frees the support with the last reference, and rmw_destroy_*
\* reads what to return from the support itself.
PutSupport(e) ==
  /\ At(e, {"support"}) /\ Put(e)
  /\ LET t == TypeName(e, Slot(e))
     IN IF supports[t] = 0
        THEN crashed' = "support" /\ UNCHANGED supports
        ELSE supports' = [supports EXCEPT ![t] = @ - 1] /\ UNCHANGED crashed
  /\ UNCHANGED <<call, lock, types, topics, uses, watchers, muted, failed, refused>>

GetType(e) ==
  /\ At(e, {"type"}) /\ Get(e)
  /\ types' = types \cup {TypeName(e, Slot(e))}
  /\ UNCHANGED <<call, lock, topics, uses, watchers, supports, muted, failed, refused, crashed>>

\* Fast DDS refuses to unregister the type of an endpoint.
InUse(t) ==
  \E f \in Entities : \E x \in Slots : Endpoint(x) \in has[f] /\ topics[TopicName(f, x)] = t

PutType(e) ==
  /\ At(e, {"type"}) /\ Put(e)
  /\ types' = IF InUse(TypeName(e, Slot(e))) THEN types ELSE types \ {TypeName(e, Slot(e))}
  /\ UNCHANGED <<call, lock, topics, uses, watchers, supports, muted, failed, refused, crashed>>

\* Only publishers and subscriptions watch their topic, and not their channel.
Watches(e, x) == IF Is(e, PubSub) /\ x = "main" THEN {<<TopicName(e, x), e>>} ELSE {}

Mut_found_is_not_counted(e) ==
  /\ At(e, {"topic"}) /\ Get(e)
  /\ LET n == TopicName(e, Slot(e))
     IN /\ uses' = [uses EXCEPT ![n] = 1]
        /\ watchers' = watchers \cup Watches(e, Slot(e))
        /\ topics' = [topics EXCEPT ![n] = IF @ = Nothing THEN TypeName(e, Slot(e)) ELSE @]
  /\ UNCHANGED <<call, lock, types, supports, muted, failed, refused, crashed>>

\* Fast DDS creates no second topic of a name; find_or_create_topic then uses a null pointer.
FindOrCreateTopic(e) ==
  /\ At(e, {"topic"}) /\ Get(e)
  /\ LET n == TopicName(e, Slot(e))
     IN IF uses[n] = 0 /\ topics[n] # Nothing
        THEN crashed' = "null topic" /\ UNCHANGED <<topics, uses, watchers>>
        ELSE /\ uses' = [uses EXCEPT ![n] = @ + 1]
             /\ watchers' = watchers \cup Watches(e, Slot(e))
             /\ topics' = [topics EXCEPT ![n] = IF @ = Nothing THEN TypeName(e, Slot(e)) ELSE @]
             /\ UNCHANGED crashed
  /\ UNCHANGED <<call, lock, types, supports, muted, failed, refused>>

\* Fast DDS does not delete a topic that an endpoint or a content filter refers to.
ReferredTo(n) ==
  \E f \in Entities : \E x \in Slots :
    /\ TopicName(f, x) = n
    /\ Endpoint(x) \in has[f] \/ (x = "main" /\ Filter \in has[f])

DeleteTopic(e) ==
  /\ At(e, {"topic"}) /\ Put(e)
  /\ LET n == TopicName(e, Slot(e))
         last == uses[n] = 1
     IN /\ uses' = [uses EXCEPT ![n] = @ - 1]
        /\ watchers' = {w \in watchers : ~(last /\ w[1] = n)} \ Watches(e, Slot(e))
        /\ topics' = [topics EXCEPT ![n] = IF last /\ ~ReferredTo(n) THEN Nothing ELSE @]
  /\ UNCHANGED <<call, lock, types, supports, muted, failed, refused, crashed>>

\* Fast DDS creates no endpoint for a topic whose type is not registered.
Creatable(e) == topics[TopicName(e, Slot(e))] \in types

GetEndpoint(e) ==
  /\ At(e, {"endpoint"}) /\ Get(e)
  /\ Creatable(e)
  /\ UNCHANGED <<call, lock, sharedVars, muted, failed, refused, crashed>>

PutEndpoint(e) ==
  /\ At(e, {"endpoint"}) /\ Put(e)
  /\ UNCHANGED <<call, lock, sharedVars, muted, failed, refused, crashed>>

Own == {"event", "listener", "filter", "handle", "graph"}

GetOwn(e) ==
  /\ At(e, Own) /\ Get(e)
  /\ UNCHANGED <<call, lock, sharedVars, muted, failed, refused, crashed>>

PutOwn(e) ==
  /\ At(e, Own) /\ Put(e)
  /\ UNCHANGED <<call, lock, sharedVars, muted, failed, refused, crashed>>

(***************************************************************************)
(* A step of a creation fails; the topic QoS is tested before the first    *)
(* topic and before the channel.                                           *)
(***************************************************************************)
MayFail(e) ==
  \/ At(e, Own \cup {"support", "type", "endpoint"})
  \/ At(e, {"topic"}) /\ (Slot(e) = "channel" \/ \A x \in Slots : Topic(x) \notin has[e])

Fails(e) ==
  /\ Getting(e)
  /\ \/ MayFail(e) /\ faults < MaxFaults /\ faults' = faults + 1
     \/ At(e, {"endpoint"}) /\ ~Creatable(e) /\ UNCHANGED faults
  /\ failed' = [failed EXCEPT ![e] = Head(todo[e])]

Return(e, how, steps) ==
  /\ call' = [call EXCEPT ![e] = how]
  /\ todo' = [todo EXCEPT ![e] = steps]
  /\ UNCHANGED <<package, type, has, lock, sharedVars, muted, refused, crashed>>

CreationFails(e) ==
  /\ call[e] = "creating" /\ Fails(e)
  /\ lock = e
  /\ Return(e, "undoing", Append(Undo(e), Unlock))

\* rmw_create_publisher, rmw_create_subscription: cleanup by the shared destruction only
GraphFails(e) ==
  /\ call[e] = "creating" /\ Fails(e)
  /\ lock # e
  /\ Return(e, "undoing", DestroyShared(e))

\* rmw_subscription_set_content_filter: nothing is restored
ReopenFails(e) ==
  /\ call[e] = "reopening" /\ Fails(e)
  /\ Return(e, "breaking", <<Endpoint("main")>>)

(***************************************************************************)
(* Fast DDS refuses to delete an endpoint: samples of it are on loan.  A   *)
(* publisher or subscription gives up, a client or service goes on.        *)
(***************************************************************************)
Refusal(e) ==
  /\ call[e] \in {"destroying", "adding", "dropping"}
  /\ At(e, {"endpoint"}) /\ Slot(e) # "channel" /\ Head(todo[e]) \in has[e]
  /\ faults < MaxFaults /\ faults' = faults + 1
  /\ refused' = refused \cup {e}

GiveUp(e) ==
  /\ Is(e, PubSub) /\ Refusal(e)
  /\ call' = [call EXCEPT ![e] = "refusing"]
  /\ todo' = [todo EXCEPT ![e] = <<Unlock>>]
  /\ UNCHANGED <<package, type, has, lock, sharedVars, muted, failed, crashed>>

Mute(e) ==
  /\ Is(e, Rpc) /\ Refusal(e)
  /\ muted' = muted \cup {<<e, Slot(e)>>}
  /\ todo' = [todo EXCEPT ![e] = Tail(@)]
  /\ UNCHANGED <<package, call, type, has, lock, sharedVars, failed, crashed>>

\* The call returns.
Returned == [creating |-> "live", reopening |-> "live", undoing |-> "gone", destroying |-> "gone",
             refusing |-> "refused", breaking |-> "broken"]

Finish(e) ==
  /\ call[e] \in DOMAIN Returned /\ todo[e] = <<>>
  /\ call' = [call EXCEPT ![e] = Returned[@]]
  /\ UNCHANGED <<package, todo, type, has, lock, sharedVars, muted, history>>

EntityNext(e) ==
  \/ Create(e) \/ Destroy(e) \/ SetContentFilter(e) \/ Reopen(e) \/ Finish(e)
  \/ Skip(e) \/ TakeLock(e) \/ ReleaseLock(e) \/ FindAndCheck(e)
  \/ GetSupport(e) \/ PutSupport(e) \/ GetType(e) \/ PutType(e)
  \/ FindOrCreateTopic(e) \/ DeleteTopic(e)
  \/ GetEndpoint(e) \/ PutEndpoint(e) \/ GetOwn(e) \/ PutOwn(e)
  \/ CreationFails(e) \/ GraphFails(e) \/ ReopenFails(e) \/ GiveUp(e) \/ Mute(e)

Next == crashed = None /\ \E e \in Entities : EntityNext(e)

Spec == Init /\ [][Next]_vars

TypeOK ==
  /\ package \in {"cpp", "dynamic"}
  /\ call \in [Entities -> {None, "adding", "dropping"} \cup DOMAIN Returned
                              \cup {Returned[how] : how \in DOMAIN Returned}]
  /\ todo \in [Entities -> Seq(Steps)]
  /\ type \in [Entities -> Types \cup {None}]
  /\ has \in [Entities -> SUBSET Things]
  /\ lock \in Entities \cup {None}
  /\ types \subseteq TypeNames
  /\ topics \in [Names -> TypeNames \cup {Nothing}]
  /\ uses \in [Names -> Nat]
  /\ watchers \subseteq Names \X Entities
  /\ supports \in [TypeNames -> Nat]
  /\ muted \subseteq Entities \X Slots /\ refused \subseteq Entities
  /\ failed \in [Entities -> Steps \cup {Nothing}]
  /\ faults \in 0..MaxFaults /\ crashed \in {None, "null topic", "support"}

(***************************************************************************)
(* Properties                                                              *)
(***************************************************************************)
Users(n) ==
  {u \in Entities \X Slots : Topic(u[2]) \in has[u[1]] /\ TopicName(u[1], u[2]) = n}
HoldersOf(what, t) ==
  {h \in Entities \X Slots : <<what, h[2]>> \in has[h[1]] /\ TypeName(h[1], h[2]) = t}

\* The library runs into a pointer to nothing only after something was forgotten or a
\* deletion was refused.
CrashExplained ==
  /\ crashed = "null topic" => muted # {} \/ \E e \in Entities : failed[e] # Nothing /\ Filter \in has[e]
  /\ crashed = "support" => package = "dynamic" /\ refused # {}

\* A topic counts its uses, exists while it is used, and outlives its last use only where
\* something that was never deleted refers to it.
TopicsWhileUsed ==
  crashed = None =>
    \A n \in Names :
      /\ uses[n] = Cardinality(Users(n))
      /\ uses[n] > 0 => topics[n] # Nothing
      /\ uses[n] = 0 /\ topics[n] # Nothing => ReferredTo(n)

\* A registered type has a holder or an endpoint that keeps it; no endpoint lacks its type.
TypesWhileUsed ==
  /\ \A t \in types : HoldersOf("type", t) # {} \/ InUse(t)
  /\ \A e \in Entities : \A x \in Slots : Endpoint(x) \in has[e] => topics[TopicName(e, x)] \in types

\* The references to type supports are those of the entities that exist, as long as no
\* destruction had to be tried again.
SupportsWhileUsed ==
  (\A e \in refused : Is(e, Rpc)) =>
    \A t \in TypeNames : supports[t] = Cardinality(HoldersOf("support", t))

\* Topics, types and type supports live exactly as long as an entity uses them, whatever
\* entities share them and whatever fails (find_or_create_topic and delete_topic,
\* remove_topic_and_type, TypeSupportRegistry).
SharedWhileUsed == TopicsWhileUsed /\ TypesWhileUsed /\ SupportsWhileUsed /\ CrashExplained

\* What Fast DDS may call exists: the listeners of an endpoint and the events they and the
\* topic listeners refer to, in every order of teardown.  The exceptions are endpoints
\* whose listener was taken away, and the reader of a channel forgotten after the graph failed.
NoDanglingListener ==
  /\ \A e \in Entities : \A x \in Slots :
       Endpoint(x) \in has[e] /\ <<e, x>> \notin muted =>
         /\ x = "main" => {Listener("main"), Event} \subseteq has[e]
         /\ x = "channel" => Is(e, {"publisher"}) \/ failed[e] = Graph \/ Event \in has[e]
         /\ x \in {"request", "response"} => Listener(x) \in has[e]
  /\ \A w \in watchers : Event \in has[w[2]] /\ Topic("main") \in has[w[2]]

\* An entity that is gone leaves nothing, but for what the code is known to forget: the
\* filter of a subscription that could not be made, the channel and the type support of a
\* publisher or subscription that could not enter the graph, an endpoint not deleted.
Forgotten(e) ==
  (IF failed[e] \notin {Nothing, Graph} THEN {Filter} ELSE {})
    \cup (IF failed[e] = Graph /\ Is(e, PubSub)
          THEN {Topic("channel"), Endpoint("channel"), Support("main")} ELSE {})
    \cup {Endpoint(x) : x \in {y \in Slots : <<e, y>> \in muted}}

GoneLeavesNothing == \A e \in Entities : call[e] = "gone" => has[e] \subseteq Forgotten(e)

\* An entity the application may use has all its things, its topics are of its types, and
\* its types are registered; only a forgotten channel may be of another type.
LiveIsWhole ==
  \A e \in Entities : call[e] = "live" =>
    /\ \E plan \in Plans(e, type[e]) : has[e] \cup {Filter} = ToSet(plan) \cup {Graph, Filter}
    /\ \A x \in Slots : Topic(x) \in has[e] =>
         \/ topics[TopicName(e, x)] = TypeName(e, x)
         \/ x = "channel" /\ \E f \in Entities : failed[f] = Graph /\ TopicOf[f] = TopicOf[e]
================================================================================
