# A TLA+ development for rmw_fastrtps

`rmw_fastrtps` implements the ROS middleware interface (`rmw_*` functions) on top of eProsima
Fast DDS. It is three libraries: `rmw_fastrtps_shared_cpp`, which holds nearly everything, and
`rmw_fastrtps_cpp` and `rmw_fastrtps_dynamic_cpp`, which create the entities with static or
introspected type supports. `rmw_fastrtps_cpp` also has *buffer-aware* publishers and
subscriptions, which exchange messages by extra peer to peer channels.

Apart from the type supports, hardly any of its code computes much. What is hard about it is who
runs when: threads of the
application (executors, publishers, threads that create and destroy nodes), threads of Fast DDS that
call listeners, discovery that is asynchronous and unordered, and statuses that are cleared by
whoever reads them first. The modules below model that, one component each; `map` in
`PROJECT.json` leads from each definition to its lines.

Paths below are short: `S/` is `src/rmw_fastrtps_shared_cpp/src/`, `SI/` is
`src/rmw_fastrtps_shared_cpp/include/rmw_fastrtps_shared_cpp/`, `C/` is `src/rmw_fastrtps_cpp/src/`
and `D/` is `src/rmw_fastrtps_dynamic_cpp/src/`.

## 1. Inventory

For each component: its state, its operations, whom it meets, what is hard, and what makes it
correct.

**Service protocol** (`S/rmw_request.cpp`, `S/rmw_response.cpp`, `SI/custom_service_info.hpp`,
`SI/custom_client_info.hpp`). A service is two DDS topics. State: the response readers matched
with the server's writer (`subscriptions_`), the map between the two endpoints of each client
(`clients_endpoints_`), the histories of the readers. Operations: send and take a request, send and
take a response, `on_publication_matched`, `on_subscription_matched`, destruction of a client.
Hard: a request may arrive before its client's reader is matched, and is lost if answered then; the
client may leave at any point; all clients read all responses. Correct: no response is lost for a
connected client, misdelivered, delivered twice, or dropped as "gone" for a client that is not.

**Service availability** (`S/rmw_service_server_is_available.cpp`). State: two counts of the graph
cache, two atomic counts of the client's listeners. Hard: the four are read one after the other
without a lock while servers come and go, and a server may match in one direction only. Correct: the
answer is right when things are at rest, and a polling client learns of a server that stays and of
servers that leave.

**Data notification** (`S/custom_subscriber_info.cpp`, the listeners of clients and services). State:
callback, its mutex, the listener's mask, the reader's unread samples. Hard: callbacks are set and
cleared while Fast DDS delivers; two locks. Correct: nothing is announced twice, nothing is missed
but in a known window, and no deadlock.

**Status events** (`S/custom_publisher_info.cpp`, `S/custom_subscriber_info.cpp`, `S/rmw_event.cpp`).
State: for each status what the DDS entity has accumulated and what the rmw object has, the
callback, the set of matched endpoints. Hard: reading a status resets it for everybody else. Correct:
no change is reported twice or forgotten, and the set of endpoints is right.

**Wait** (`S/rmw_wait.cpp`, `S/rmw_trigger_guard_condition.cpp`, the takes). State: status
conditions, guard conditions, the arguments of the call. Hard: `rmw_wait` looks, sleeps, looks again
and clears what it looked at, while things arrive. Correct: it does not sleep on something to take.

**Buffer endpoint registry** (`C/buffer_endpoint_registry.cpp`). State: known endpoints, registered
callbacks. Hard: decided under a lock, called outside it. Correct: each registrant learns of each
endpoint exactly once.

**Buffer publisher and buffer take** (`C/rmw_publish.cpp`, `C/rmw_publisher.cpp`, `C/rmw_take.cpp`,
`C/rmw_subscription.cpp`). State: lists of pending and connected subscribers, a writer for each, the
main writer's matches. Hard: writers are created by the publishing threads, endpoints discovered
meanwhile; the choice between main writer and channels compares two counts kept by different
listeners. Correct: one entry for a subscriber, none lost, and every subscriber gets the message.

**Context lifecycle and graph listener thread** (`C/init_rmw_context_impl.cpp`,
`S/init_rmw_context_impl.cpp`, `S/listener_thread.cpp`, `C/rmw_node.cpp`, `C/rmw_init.cpp` and their
`D/` twins). State: the reference count, a dozen objects, a thread. Hard: any step may fail, the
thread is running already or still, two threads create and destroy nodes. Correct: what is used
exists, nothing is left behind, every call returns.

**Entity creation and destruction, topic registry** (`C/` and `D/` `publisher.cpp`,
`subscription.cpp`, `rmw_client.cpp`, `rmw_service.cpp`; `S/custom_participant_info.cpp`,
`S/utils.cpp`). State: what each entity has acquired, topics shared by a use count. Hard: long
sequences of acquisitions, each of which may fail; deletions that Fast DDS refuses; steps taken
outside the lock. Correct: what fails is undone, what is shared lives as long as it is used, nothing
that Fast DDS may call dangles.

**Content filter** (`S/rmw_subscription.cpp`). Adding or dropping a filter deletes the reader under the
lock and creates another one outside. Correct: the subscription is whole again, or the call failed.

**Takes and loans** (`S/rmw_take.cpp`, `S/rmw_subscription.cpp`, `S/subscription.cpp`). State: the reader's
history, the loans that Fast DDS counts, the items of the `LoanManager`. Operations: five kinds of take,
each with its own loop over samples that carry no data or are local; returning a loan; deleting or
replacing the reader. Hard: the two lists of loans change under different locks. Correct: every loan is
accounted for and given to one taker only, every sample has one fate, and a take returns empty-handed
only if there is nothing.

**Type support and serialization** (`D/TypeSupport_impl.hpp`, `D/MessageTypeSupport_impl.hpp`,
`D/type_support_registry.cpp`, `D/type_support_proxy.cpp`, `S/TypeSupport_impl.cpp`,
`C/type_support_common.cpp`). State: what is found of a type (bounds, key, whether its memory is already
CDR), a buffer for keys, a count of users. Operations: describe a type, estimate, serialize and
deserialize a message, compute an instance handle. Hard: four walks over the same members must agree on
every byte of alignment; keys share a buffer. Correct: what is written fits what was reserved and is
read back, no truncated payload is accepted, handles tell keys apart, plain means plain.

**QoS conversion** (`S/qos.cpp`, `SI/qos.hpp`, `S/time_utils.cpp`). Profiles become entity QoS and are
reported back. Hard: defaults, clamping, infinity. Correct: what is reported honours what was asked for.

**The rest** computes without state of its own or passes through to other libraries: serialization on
its own, names and demangling, graph queries, logging, security, network flows. `PROJECT.json` lists
them with the reason each is not modelled.

How they interact: the context owns the participant, whose listener feeds the graph cache and the
buffer registry; entities are created under it; Fast DDS calls their listeners, which update the
state that takes, waits and queries read; the context's own subscription is served by the listener
thread through the same `rmw_wait`.

## 2. Modules

| module | models | theorems in |
|---|---|---|
| `RpcPromise` | abstract: what a client may rely on (asked, answered, delivered at most once) | |
| `ServiceProtocol` | requests, responses, server's listeners and threads; implements `RpcPromise` | `ServiceProtocolProofs` |
| `DataNotification` | callbacks for new data of subscriptions, clients, services | `ListenerProofs` |
| `WaitSet` | `rmw_wait` and the takes that follow it | `WaitSetProofs` |
| `BufferEndpointRegistry` | the registry of buffer-aware endpoints | `BufferPublisherProofs` |
| `BufferPublisher` | publisher's lists, threads and channels; composes an instance of the registry | `BufferPublisherProofs` |
| `ServiceAvailability` | the query, the servers and discovery under it | `ListenerProofs` |
| `ContextLifecycle` | nodes, set-up, teardown and the listener thread | `ContextLifecycleProofs` |
| `StatusEvents` | statuses, events and matched endpoints | `StatusEventsProofs` |
| `EntityLifecycle` | creation, destruction and filters of all entities in both packages; topics, types, type supports | `EntityLifecycleProofs` |
| `SubscriptionTake` | the takes, the `LoanManager`, the reader under them | `EndpointProofs` |
| `TypeSupport` | the walks over a message's members: description, estimate, serialization, keys | |
| `QosProfile` | conversion of QoS in both directions | `EndpointProofs` |
| `EndpointSupport` | type supports that endpoints share, their QoS, keys and instance handles, whatever the walks over the type give; uses `QosProfile` | `EndpointProofs` |
| `TypedEndpoint` | `EndpointSupport` with the walks of `TypeSupport`; samples written and read | |

Each `MC*` module names the values of one module's constants. Names of definitions are those of the
code where TLA+ allows it; an action is one critical section or one read that others can come
between. Definitions called `Mut_*` are wrong versions of the definition that follows them: each
property is tried against at least one, to see that it can fail.

### How state and actions correspond to the code

*ServiceProtocol.* `subscriptions` and `clients_endpoints` are the members of `ServicePubListener`;
`requests`, `responses` are reader histories; `reqMatched`, `rspMatched` is what Fast DDS has
matched, `subEvent`, `pubEvent` the listener calls it still owes. `TakeRequest` is
`__rmw_take_request` with its `endpoint_add_reader_and_writer`; `SendResponse`, `WaitMatched`,
`WaitTimeout`, `WriteResponse` are `__rmw_send_response` cut where it releases the lock of
`check_for_subscription` and where `wait_for` wakes. GUIDs are `[kind, owner]`, as `send_response`
looks at the kind. `RmwClients` put their response reader into the request, `PlainClients` do not;
`Unstable` ones may be unmatched while up (lease) and matched again.

*DataNotification.* `delivering` is the reader's lock held by Fast DDS from an arrival to the end of
`on_data_available`; `lock` is `on_new_message_m_` (or its twin). `Count` (`get_unread_count(true)`)
precedes `Lock`, as in the code. `Kind` selects the listener: services' does not test the callback.

*WaitSet.* `ScanGuards`, `ScanEvents`, `ScanData` are the loops of `has_triggered_condition`;
`Wake` and `Timeout` the DDS wait; `CheckData`, `CheckEvent`, `CheckGuard` read, `ResetGuard` clears,
two steps between which anything may arrive. `AttachedConditionTrue` has the semantics of a DDS
status condition: all its entity's enabled statuses count. `MainTake` has what Fast DDS does to
DATA_AVAILABLE, `TakeData` the order of `rmw_take` for buffer-aware subscriptions. The statuses of
Fast DDS are external.

*BufferEndpointRegistry.* `calls` are decided under the lock and `fired` made outside it. Publishers
and subscriptions run the same code in both directions: one direction is modelled.

*BufferPublisher.* `endpoints`, `pending`, `cpu_only_subscribers`, `alive` are the fields of
`BufferPublisherState`, as bags; `EnterCallback` tests `alive` outside the lock and
`OnSubscriberDiscovered` inside; `StartPublish`, `ChooseChannel`, `MovePending`, `CreateWriters`,
`WriteBuffer`, `WriteMain` are the stages of `rmw_publish`; `ClearState`, `UnregisterPublisher` of
`rmw_destroy_publisher`. `due`, `settled`, `missed`, `lost` are history.

*ServiceAvailability.* `phase` goes through creation and destruction of a server one endpoint at a
time; `OnDiscovery` fills the graph cache, `OnSubscriptionMatched`, `OnPublicationMatched` the
client's sets and atomic counts; the query is one action for each count it reads. `incompatible` has,
for each direction, the servers whose endpoint does not match the client's: `CreateReader` chooses either
direction, both or none, as one profile makes both endpoints, the policies are of the kind offered and
requested, and XML profiles may set each endpoint's. `Serving` are the servers that match in both
directions, `OneWay` those that match in one.

*ContextLifecycle.* `objects` is what exists, `Order` the order of `init_context_impl`; `pc` follows
`rmw_create_node` and `rmw_destroy_node` through the reference count; `owner` is the mutex of
`context->impl`; `listener` is the thread's place in `node_listener`.

*StatusEvents.* `total`, `change`, `current_change`, `last` are the DDS status; `status_total`,
`status_change`, `changed` the rmw object's copy; `tracked` is `publishers_` or `subscriptions_`.
Three kinds stand for eleven statuses: those with a masked listener, the incompatible type (always
handed on by the topic's listener), the matches.

*EntityLifecycle.* A call is the sequence of steps it still has to take (`todo`); `has` is what an entity
holds. The creations of four kinds in two packages (`CppPublisherTopic` ... `DynamicServiceEndpoints`),
their scope exits (`Undo*`) and the destructions (`Destroy*`) are such sequences, in the order of the
code; a release of what is not there is passed over (`Skip`). `uses` and `watchers` are `UseCountTopic`'s
count and the topic listener's set, `supports` the `ref_count` of `TypeSupportRegistry`, `lock` is
`entity_creation_mutex_`. `types` and `topics` are Fast DDS's, which refuses to unregister the type of an
endpoint, to delete a topic referred to, and to create a topic twice (`InUse`, `ReferredTo`,
`FindOrCreateTopic`). Where the code would use a pointer to nothing the model stops with `crashed`.

*SubscriptionTake.* `outstanding` is what Fast DDS counts, `items` what the `LoanManager` has, `hand` the
item that a call holds between the two; `StartTake` begins a call of any kind, `PassOver`, `Deliver`,
`EndIteration` are the branches of `_take`, `_take_sequence`, `_take_serialized_message`,
`_take_dynamic_message`; `TakeLoan`, `AddItem`, `SkipLoan`, `EraseItem`, `ReturnLoan` the steps of the
loaned take and its return. `Destroy` and `SetContentFilter` delete or replace the reader, which fails
while loans are out.

*TypeSupport.* A type is a sequence of members: kind, dimension, bound, key, and the members of a nested
message. `Describe` is the constructor with `calculateMaxSerializedSize` and its twin for keys; `Estimate`,
`Serialize`, `Deserialize` are the functions of those names, with their helpers for strings, sequences
and single fields; a stream is a position and the bytes written, each of them named by the value and the
part of it that it holds. Alignment, offsets and sizes of C structs, and the primitives of `Cdr`, are
external. The walks are recursive as in the code, which is why this module and `TypedEndpoint`, which
uses it, have no theorems.

*EndpointSupport.* `users`, `keyMax` and `buffer` are the reference count, key size and key buffer of
each type support: one in the registry for the process in the dynamic package, one for each participant
in the static one (`HolderOf`); `lock` is the mutex of the object that the participant registered.
`GetSupport` and `ReturnSupport` are parts of the creation and destruction of an endpoint. `BeginKey`,
`WriteKey`, `HashKey` are `compute_key` cut where another participant's thread can use the same buffer.
What a walk over the type gives is a parameter: what the constructor finds (`DescOf`), the size
estimated for a key (`KeyRoom`), its bytes (`KeyStream`) and value (`KeyValue`).

*TypedEndpoint.* Gives these parameters their values (`TypeDesc`, `TypeKeyRoom`, ...) from `Describe`,
`Estimate` and `Serialize`, and adds the last sample. `Publish` is a reservation and a serialization,
`PublishSerialized` copies the bytes, `Take` deserializes the sample or a first part of it.

*QosProfile.* One record per profile. `FillEntityQos`, `LimitForKeys`, `ToRmw`, `DiscoveredToRmw` are
`fill_entity_qos_from_profile`, `apply_qos_resource_limits_for_keys`, `dds_qos_to_rmw_qos`,
`rtps_qos_to_rmw_qos`.

## 3. Runs

State counts are distinct states; every run takes three minutes or less.

| run | checks | bounds and size |
|---|---|---|
| `service_protocol` | `EndpointsPaired`, `ReceivedOnceAndOwn`, `WrittenReachesRequester`, `GoneOnlyAfterUnmatch`, `EveryRequestSettles`, refinement `ImplementsPromise` | an rmw client, a plain client that may lose its lease, one server thread, one request each; 319,008 |
| `data_notification` | `AnnouncedOnce`, `SilentOnlyAfterRace`, `LocksAreReleased` | two setters, two callbacks, 3 samples, 3 sets; 34,061 |
| `wait_set` | `WaiterNotStuck`, `EverythingTaken` | one entity of each kind, two events of which one shares the subscription's status condition, 4 deliveries; 74,718 |
| `wait_buffer` | finding: `BufferDataDetected` is violated | one subscription, 3 deliveries |
| `buffer_publisher` | `CalledAtMostOnce`, `NoPairMissed`, `KnownReached`, `SettledGetAll`, `KnownIsEntered` | one subscriber of each kind, one of which may leave, one of another topic, two threads, 2 messages; 302,733 |
| `buffer_legacy` | finding: `LegacyGetAll` is violated | two subscribers, one message |
| `availability` | `AnswerOfSettled`, `AnswerFollows` | two servers, each matching in both directions, one or none; 355,929 |
| `context` | `NothingUsedIsGone`, `UsersHaveContext`, `NothingLeft`, `CallsReturn`, `UpdatesApplied`, `ErrorReturned` | two threads, five calls, two updates, every fault; 83,076 |
| `events` | `ReportedOnce`, `NothingForgotten`, `OffByStolenOnly` | two peers, 2 deadlines, 3 sets of the callback; 1,184,301 |
| `entities` | `SharedWhileUsed`, `NoDanglingListener`, `GoneLeavesNothing`, `LiveIsWhole` | any two of five entities, two types, two faults; 1,068,364 |
| `takes` | `LoansAccounted`, `HeldIsExclusive`, `OneFate`, `EmptyOnlyIfEmpty` | two threads, three samples, room for two loans, one failed return; 407,200 |
| `typed_endpoint` | `PayloadFits`, `TakenIsPublished`, `HandlesTellKeys`, `PlainIsLayout`, `QosKept` | 484 types in C and C++, keyed types with two participants and threads, 1,800 profiles; C strings without data or longer than their bound; 222,181 |

The modules with proofs have a type invariant too, `TypeOK` or `SupportTypeOK`. It is proved (section
4), and no run repeats it.

*Why the bounds are enough.* The hazards are races of two: a client and the server thread, a setter and an
arrival, a node created while the last one is destroyed. Each run has two of what races, plus one of each
other kind that can disturb them, and enough events that the state behind a race is reached from both
sides: a second sample behind the one that is taken, a third setting of a callback, a fourth delivery that
lands between a wait's look and its reset, two whole lives of a context with a node in each. `entities`
has every pair of entities that share a topic, a service or a type; a third changes nothing that a pair
does not, as they meet only in the shared tables. Where a theorem exists the bound does not matter for
safety. In `service_protocol` the unstable client is the plain one; the theorems cover unstable rmw
clients, whose responses may indeed be lost or dropped.

### Fairness

- `ServiceProtocol`: weak fairness of `TakeRequest` (the executor spins) and of each server thread's
  steps; `WaitTimeout` is one of them, as `wait_for` has a deadline. None of discovery or clients.
- `DataNotification`: Fast DDS finishes a call of the listener; a setter that has begun goes on.
  Nobody is obliged to set a callback or to take.
- `WaitSet`: the executor's thread is scheduled and comes back to `rmw_wait`; Fast DDS finishes the
  notification of a buffer sample. `Timeout` is not fair: the wait may be infinite.
- `ServiceAvailability`: a creation or destruction that began returns, changes are discovered in the
  end, the client polls. Nobody has to create or destroy a server.
- `BufferPublisher`: a thread of Fast DDS that left the registry's lock makes its call, and the callback
  that waits for the publisher's lock gets it. Nobody has to publish or to discover.
- `ContextLifecycle`: threads inside a call and the listener thread are scheduled; the wait that
  fails is excluded, since it may always be the other outcome.

Liveness is claimed only under these. The other modules claim none: their operations return or fail by
themselves.

`CHECK_DEADLOCK FALSE` is set where the bounds, or clients that are all gone, end the system.

## 4. What is proved

For all values of the constants that satisfy the modules' assumptions; checked by TLAPS.

**ServiceProtocolProofs.** `TypeCorrect`, `Invariance`, `EndpointsStayPaired`, `ReceiveOnceAndOwn`,
`WrittenIsReached`, `GoneIsJustified`, `ProtocolImplementsPromise`. The properties are not inductive.
That a response is never delivered twice needs to know that a request is in one place at a time, the
reader's history, the application, one thread, or answered (`RequestsHeld`), and that what lies in a
reader's history is of the client that asked and was not taken before (`MailOwned`). That a written
response reaches its client needs what the server knows of a stable client: it waits only for readers
in the map, and writes only to those matched (`StableKnown`). Plain clients share the unknown GUID and
must not disturb the others' entries (`PlainEntries`). `IInv` is the conjunction; it has one lemma for
each conjunct. The refinement follows from `IInv`: every step asks, answers or delivers at most one
request, or stutters.

**ListenerProofs.** `NoDoubleAnnouncement`, `MissedOnlyInWindow`, from `TypeOK`,
`NotYetArrived` (samples that have not arrived are nowhere), `AnnouncedOnce` and `UnreadExplained`
(without a race, an unread sample has no callback, or the listener is about to count it).
`AnswerIsRight` is about `ServiceAvailability`: from `AvailabilityInv`, which says that the
counters follow the sets of matched endpoints, and that what a query has learnt so far is still true if
nothing has changed since it began (`Learnt`). By counting, the matches of a direction are the servers
that can be called plus those that match in it only (`MatchingParts`), so the two counts agree just when
there are as many of one direction only as of the other.

**WaitSetProofs.** `TypeCorrect` and `NoStuckWaiter`: provided that buffer samples can be read
(`~BufferFails`), a blocked wait with anything to take has a true condition. `BufferSeen` and
`ChangeSeen` say that what was announced shows in a guard or is marked ready; `ResetOfReady` that a
guard is cleared only for what is ready; `SleepsWithStatus` that at the time of sleeping every
untaken sample has its status, since the scan looked at the history. Without the proviso the statement
is false: that is the run `wait_buffer`.

**BufferPublisherProofs.** First the registry on its own, for any registrations, endpoints and threads:
`AtMostOnce` and `NoneMissed`, whose conjunction with its `TypeOK` is inductive (`RegInv`). Then
`UsesRegistry`: every step of the composed system is a step of the registry or
leaves it alone. Hence `CallsOnce` and `MissesNoPair`, which are the registry's theorems under the
publisher. `ReachesKnown` and `TypeCorrect` need `PublisherInv`: the one call of the callback leaves one
trace (`OneTrace`), a callback that waits, an entry on one list, or an entry in one thread's hands; it
is inductive only together with the registry's promise not to call twice. `SettledLoseNothing` holds
of any number of subscribers with writers of their own, of which the run has one: a serialization that fails
for one is passed over and costs the others nothing. It is by counting: the code compares two numbers, the matches of the main writer and the entries of its lists.
While nothing moves under a call (`SettledInv`) both are cardinalities of sets
(`EntriesCountMatches`), one within the other, so they are equal only if every subscriber has a channel.

**StatusEventsProofs.** `ReportsOnce`, `ForgetsNothing`, `TracksAllButStolen`, from `EventsInv`. It relates
the entity's change to the match that the listener is still to be called for (`OneMatchAtATime`): a
change that is gone was read by somebody, who made the endpoint one of `stolen`. `ToldOrKept`,
`TypeKept`, `MatchKept` count, for each kind of status, where a change can be.

**EndpointProofs.** Of `SubscriptionTake`: `TypeCorrect`, `NoLoanForgotten`, `LoansExclusive`,
`EmptyIsEmpty`, `EverySampleHasOneFate`. The loans
that Fast DDS counts are those of the `LoanManager`, of the calls under way and the leaked ones
(`LoanInv`); that the `LoanManager` has room for a new item follows by counting, as the two limits are the
same. `FateInv` says of each sample where it is, in the reader, in one thread's call, or at its end, and that
it is in the list of what was delivered at one position at most.

Of `EndpointSupport`: `SupportTypeCorrect`, `HandlesAreKeys`, `KeysHaveSupport`, `QosIsKept`, from
`SupportInv`. `HandlesTellKeys` compares two handles and is far from inductive: each was read from a
buffer that has changed since. `HandlesShowKeys` says of one handle that it holds every byte of its key,
and of a key of fixed layout zeros besides, so that two handles differ wherever two keys do. For that the
bytes must still be in the buffer when they are hashed (`KeyWritten`). Nobody else writes there, by the
mutex within a participant and by `alone` across participants (`KeyThreads`); nobody deletes the buffer,
as the reference count is the cardinality of a set that the thread's endpoint is in (`UsersCounted`,
`KeysHaveSupport`); and nobody shrinks it below the key (`BufferHasRoom`). The zeros are those of the
resize, since a fixed key skips the same padding every time (`PaddingIsZero`). `QosIsKept` follows from
`QosFilled` and lemmas about `QosProfile` alone, the round trip of a profile among them.

These results hold for any types and messages for which the walks do what `KeyRoomAssumption` and
`KeyBytesAssumption` say: a key ends within its bound or estimate, and two keys that differ, differ in a
byte that both write. That the walks of `TypeSupport` do so is an induction over types, so no theorem;
TLC evaluates both assumptions for every type and message of `typed_endpoint`. Every step of
`TypedEndpoint` is a `SupportNext` step or leaves `supportVars` alone, as its `Next` shows.

**ContextLifecycleProofs.** `NothingIsUsedAfterDeletion`, `ReferencesHaveContext`, `LeavesNothing`,
`ReturnsError` and `TypeCorrect`, from `ContextInv`. The properties say nothing of the stages, so they
are not inductive: `SettingUp` and `TearingDown` say which objects are there at each stage of the thread
that holds the mutex, `AtRest` that without the mutex there is all or nothing, `Accounted` that the
count is the cardinality of the set of references, so that a call that gives one back finds the
count above zero. `HolderStep` reduces a step under the mutex to its own stage.

**EntityLifecycleProofs.** `EntitiesFit`, and from it `NothingIsLeft` and `CallbacksAreThere`. The
properties speak of entities that are gone and of things that are there, the code of lists of steps, so
the invariant relates the two for each entity (`Shape`): in the steps that are left nothing is acquired
before what it needs and nothing released before what needs it (`Gettable`, `Releasable`), the mutex is
taken and released around the steps that need it (`Guarded`), what a thing needs is there or among the
steps that are left, and what is there will be released or is one of the things the code forgets
(`Closed`). That the creations are in order is shown by giving each step a place; that a failure may
happen at any step follows since what can be there then is within what the scope exits release
(`UndoLists`, `CreationFailsShape`).

What entities share has an invariant of its own, `SharedInv`, from which follow `TypeCorrect`,
`SharedLivesWhileUsed` and `UsableIsWhole`. That the count of a topic is the number of its users
(`Counted`) needs that who releases a topic has it and who acquires it has it not (`GetFacts`,
`PutFacts`, from `Shape`). That a topic has the type of its users (`TopicTyped`) is not inductive: the
type is checked some steps before the topic is found or created. `Checks` and `Compatible` say that
what the check found stays true while the creation holds the mutex, as nobody else can acquire a topic
meanwhile. A channel is not checked: its type follows from that of the main topic, of which every user
of the channel is a user, unless one who could not enter the graph forgot the channel (`Strayed`,
`Twins`). With the types of topics follow those registered (`EndpointTyped`, `TypesKept`: the library
refuses to unregister the type of an endpoint). A type support is counted unless a destruction that was
refused is made again and returns it a second time (`Returning`, `Refusers`); and the library runs into
a null pointer only after something was forgotten or a deletion was refused (`CrashExplained`).

**Only model-checked.** All liveness, and what the walks over a type compute: `PayloadFits`,
`TakenIsPublished`, `PlainIsLayout`, and the two assumptions about keys. Out of the prover's reach, and
left to TLC: liveness under fairness and `ENABLED`, induction over data, and recursive operators, which
`TypeSupport` has.

## 5. Findings

1. *Samples stay in the buffer channel while `rmw_wait` sleeps* (`wait_buffer`). A buffer sample that
   is invalid or cannot be deserialized makes `take_buffer_aware` return before it triggers
   `buffer_data_guard_` again for the samples behind it. `C/rmw_take.cpp:116,162`.
2. *A legacy subscriber misses messages* (`buffer_legacy`). The publisher compares matches of the main
   writer with entries that are added before the match and never removed. `C/rmw_publish.cpp:266`.

Behaviour that no document speaks against, which the models have and the properties spell out:

- `send_response` answers "gone" for a client that was unmatched, even if it is matched again, and
  times out for entries that a late `take_request` records for a client that has left
  (`GoneOnlyAfterUnmatch` has the exact condition).
- The service's listener does not test its callback again after it got the mutex, as the client's and
  the subscription's listeners do: if the callback is cleared meanwhile, it calls an empty one
  (`SI/custom_service_info.hpp:218`). Two steps in a row show it; no run is spent on it.
- A sample that arrives between a setter's count and its install is not announced until the next one
  (`SilentOnlyAfterRace`).
- A trigger of a guard condition that falls between `rmw_wait`'s look and its reset is forgotten
  (`S/rmw_wait.cpp:331`; no property, see the hazards).
- Endpoints discovered before the context sets its discovery callback are unknown to the registry.
- Halves of two servers can add up to an available service while discovery is under way
  (`AnswerOfSettled` is about rest).
- A server's reader asks for, and its writer offers, what one profile says, so a difference in reliability
  or durability breaks one direction only, and `rmw_service_server_is_available` compares the number of
  matches of the two directions (`S/rmw_service_server_is_available.cpp:121`). For a reliable, volatile
  client a best-effort server matches only the requests and a transient-local one only the responses; one
  match each, so the answer is "available", though the comment at line 126 says that "there is a service
  server available" and neither can be called. For the same reason a server that can be called is
  reported as not available while a server that matches in one direction is up. `AnswerOfSettled` and
  `AnswerFollows` say exactly when the answer can be relied on; without their exceptions for servers
  that match in one direction, both are violated.
- A matched status that is read between the match and the listener's call makes the listener ignore
  the endpoint for good (`OffByStolenOnly`), and setting a callback for incompatible types discards
  what was noted (`NothingForgotten`).
- The teardown of a context returns no error if only `destroy_publisher` failed
  (`S/init_rmw_context_impl.cpp:78`: `err` replaces `ret` only if both are errors; `ErrorReturned`).
- A subscription with a filter whose creation fails after the filter was made leaves the filter. Fast
  DDS then keeps the topic, which the registry forgets, and the next entity on that topic runs into
  the null pointer that `find_or_create_topic` does not test
  (`S/custom_participant_info.cpp:80,86`; `GoneLeavesNothing`, `CrashExplained`). An endpoint of a client
  or service that Fast DDS refuses to delete has the same effect.
- A publisher or subscription that cannot enter the graph is destroyed by the shared code only: its
  channel stays, in `rmw_fastrtps_cpp`, with a listener that refers to what was deleted, and a later
  publisher of another type writes to a channel of the wrong type; in `rmw_fastrtps_dynamic_cpp` its
  type support stays referenced (`Forgotten`, `NoDanglingListener`, `LiveIsWhole`).
- `destroy_publisher` and `destroy_subscription` say of a refused deletion "we have not changed state".
  The graph, the channel and the type support are gone by then, and a second attempt returns the type
  support again (`S/publisher.cpp:52`; `SupportsWhileUsed`, `CrashExplained`).
- While a filter is set, the destruction of another entity of the type may unregister it, and the
  reader cannot be created again; nothing is restored when setting a filter fails (`ReopenFails`). The
  new reader also has not the listener mask of a callback that was set on the old one.
- Changes of liveliness are told to a callback as the sum of two changes of which one may be negative
  (`S/custom_subscriber_info.cpp:256`): the sum may be zero or wrap around.
- `rmw_destroy_node` tests `ret` where it means `inner_ret` and drops the error of leaving the graph
  (`C/rmw_node.cpp:93`).
- The first content filter, or the last one dropped, replaces the reader: samples not yet taken are lost
  (`OneFate`). So is a sample whose serialized form does not fit a message that cannot be resized.
- Loaned and dynamic takes do not look at `ignore_local_publications`. A loan that `return_loan` refuses
  has left the `LoanManager` and cannot be returned again. At the limit of loans a take reports success
  and nothing taken (`LoansAccounted`, `EmptyOnlyIfEmpty`).
- The instance handle of one key may differ from one message to the next. With an unbounded string in the
  key, short keys are used as they are until a longer one has been seen, and hashed from then on
  (`C/type_support_common.cpp:180`, `D/TypeSupport_impl.hpp:408`); with members of variable length, the
  padding between them keeps what earlier keys left in the buffer. Two participants of the dynamic
  package compute keys in one buffer under different mutexes. `HandlesTellKeys` promises equal handles only
  for keys of fixed layout computed alone.
- A C string without data, never initialised or finalised, is estimated as nothing but serialized as an
  empty string of five bytes (`D/TypeSupport.hpp:68,89`): the write may run out of the payload and throw,
  unless Fast DDS gave it more. In a sequence it throws in any case (`D/TypeSupport.hpp:100`).
  `PayloadFits` excepts it.
- A key that holds an unbounded sequence other than of strings may find no room in the key buffer, and
  the exception leaves `compute_key`. `rmw_publish_serialized_message` computes no key at all
  (`S/TypeSupport_impl.cpp:94`).
- `{nested{int16, int8}, int8, int64}` is called plain, although CDR puts the third member elsewhere than
  the compiler: only the end of the last member is compared (`PlainIsLayout` excepts such types). Plain
  types with a key lose the attribute in the dynamic package, as the walk over the key repeats the
  comparison, while `README.md:282` has "the only requirement is for the data type to be POD".
- In C, a bounded string may be one character longer than its bound (`D/TypeSupport_impl.hpp:176`).
- The comment at `SI/qos.hpp:159` says that history and depth are not set: the code sets them where they
  are announced. With an infinite lease, liveliness is announced at two thirds of the greatest duration.
- `rmw_destroy_publisher` of the dynamic package returns its type support before the writer that uses it is
  deleted (`D/rmw_publisher.cpp:224`); the participant's own reference keeps it alive.

## 6. Abstractions

- Transport between matched endpoints is reliable, histories do not overflow, except that sending may
  fail. QoS enters only where it decides something (volatile response writer, matching in
  `ServiceAvailability`).
- `__rmw_destroy_client` goes on when Fast DDS refuses to delete an endpoint; in `ServiceProtocol` that
  endpoint just stays matched.
- `WaitSet` has one thread that waits and takes. Two waits on the same entities are a misuse of the
  wait set (`rmw_wait` itself detects two on one wait set).
- `BufferPublisher` has the matching of the main writer and of the channels as sets only, and does not
  convert messages.
- `SubscriptionTake` follows samples without content and the outcome of a call, not its message info.
- `TypedEndpoint` follows one sample, read once each time it is written. Lengths are 0 to 3, keys have up
  to 16 bytes and more, bounds of 32 bits are 7. An array of C strings of which one has no data is left
  out: the code reads through the null pointer. The strings of keys have data. `EndpointSupport` remembers `MaxHandles` handles, and
  only of keys computed without another participant's thread in the same buffer. A digest is
  taken to be as good as the bytes it is taken
  of. The static package's generated callbacks are taken to compute what the introspecting walk computes.
- `ContextLifecycle` leaves out that `join` or the trigger fails: both end in `terminate` or a return
  that leaves the thread running by intent of nobody.
- `StatusEvents` follows one counter of liveliness, which has two.
- In `EntityLifecycle` a subscription that failed to get its reader back is not used again, and the
  accelerated channel of a subscription, a topic and a reader of its own, is left out. Topics of one
  name but different prefixes are different topics. A refused deletion is a fault; in the code it
  needs samples on loan.
- Messages, names, types and timestamps are values without content. Logging and error texts are left
  out.

## 7. Plan

Written in this order, the most important behaviour first: the service protocol with its abstract
promise; data notification; the wait; the buffer registry and the publisher above it; availability;
the context with its thread; status events; creation and destruction of entities; takes and loans; type
support with QoS. What could follow:

1. Both counters of liveliness in `StatusEvents`; guard conditions that must be reported in `WaitSet`.
2. Names and demangling, type hashes in user data, and the endpoint information queries, as operators
   against reference definitions.
