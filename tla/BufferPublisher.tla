--------------------------- MODULE BufferPublisher ---------------------------
(***************************************************************************)
(* A buffer-aware publisher: how it learns of subscribers and by which     *)
(* channel each message leaves (rmw_publish.cpp, rmw_publisher.cpp).       *)
(*                                                                         *)
(* Every subscriber matches the main writer.  Buffer-aware ones also have  *)
(* a reader on a buffer channel: CPU-only subscribers on the channel that  *)
(* they share, accelerated ones on a channel of their own, for which a     *)
(* publishing thread creates a writer on demand.  A message leaves either  *)
(* by the main writer or by the buffer channels, as the publisher decides  *)
(* from two counts that are kept by different listeners.                   *)
(***************************************************************************)
EXTENDS Naturals, FiniteSets

CONSTANTS
  Publisher,      \* the publisher's gid in the registry
  Accelerated,    \* subscribers with a channel of their own
  CpuOnly,        \* subscribers on the shared CPU channel
  Legacy,         \* subscribers that are not buffer-aware
  Foreign,        \* buffer-aware subscribers of other topics, which the registry knows too
  Leavers,        \* subscribers that may go away
  Threads,        \* threads that publish
  MaxPublishes    \* bound: messages published

BufferAware == Accelerated \cup CpuOnly
Subscribers == BufferAware \cup Legacy

ASSUME BufferAssumption ==
  /\ Accelerated \cap CpuOnly = {}
  /\ BufferAware \cap Legacy = {}
  /\ Foreign \cap Subscribers = {}
  /\ Publisher \notin Subscribers \cup Foreign
  /\ IsFiniteSet(Subscribers)
  /\ IsFiniteSet(Threads)
  /\ MaxPublishes \in Nat

VARIABLES
  \* the registry
  listening, discovered, known, status, calls, fired,
  \* Fast DDS
  matched,        \* subscribers matched with the main writer
  left,           \* subscribers that went away
  linked,         \* subscribers whose buffer reader is matched with the publisher's writer
  \* the publisher: BufferPublisherState
  alive,          \* alive
  destroying,     \* how far rmw_destroy_publisher is: "no", "cleared", "done"
  entered,        \* [BufferAware -> Nat]: callbacks that saw alive and wait for the lock
  endpoints,      \* [BufferAware -> Nat]: endpoints by target_subscriber_gid
  pending,        \* [BufferAware -> Nat]: pending by target_subscriber_gid
  cpu_only_subscribers, \* [BufferAware -> Nat]
  dropped,        \* subscribers for which no endpoint could be created
  \* publishing threads
  pc,             \* where each thread is
  total,          \* total_matched
  batch,          \* [Threads -> [BufferAware -> Nat]]: pending publishers a thread creates
  published,      \* messages so far
  \* history
  due,            \* [Threads -> SUBSET Subscribers]: matched all through the call so far
  settled,        \* [Threads -> BOOLEAN]: nothing moved under the call so far
  missed,         \* subscribers that missed a message
  lost            \* subscribers that missed a message although all was settled

Registry ==
  INSTANCE BufferEndpointRegistry WITH
    Registrants <- {Publisher}, Endpoints <- BufferAware \cup Foreign,
    TopicOf <- [x \in {Publisher} \cup BufferAware \cup Foreign |->
                  IF x \in Foreign THEN "other" ELSE "topic"]

registryVars == <<listening, discovered, known, status, calls, fired>>
linkVars     == <<matched, left, linked>>
stateVars    == <<alive, entered, endpoints, pending, cpu_only_subscribers, dropped>>
threadVars   == <<pc, total, batch, published>>
historyVars  == <<due, settled, missed, lost>>
vars == <<registryVars, linkVars, stateVars, destroying, threadVars, historyVars>>

Nothing == [s \in BufferAware |-> 0]

\* The entries of a list that has list[s] of them for s.
Size(list) == Cardinality(UNION {{s} \X (1..list[s]) : s \in BufferAware})

Init ==
  /\ Registry!Init
  /\ matched = {}
  /\ left = {}
  /\ linked = {}
  /\ alive = TRUE
  /\ destroying = "no"
  /\ entered = Nothing
  /\ endpoints = Nothing
  /\ pending = Nothing
  /\ cpu_only_subscribers = Nothing
  /\ dropped = {}
  /\ pc = [t \in Threads |-> "idle"]
  /\ total = [t \in Threads |-> 0]
  /\ batch = [t \in Threads |-> Nothing]
  /\ published = 0
  /\ due = [t \in Threads |-> {}]
  /\ settled = [t \in Threads |-> FALSE]
  /\ missed = {}
  /\ lost = {}

\* Something happens beside the publishing threads.
Unsettle ==
  /\ settled' = [t \in Threads |-> FALSE]
  /\ UNCHANGED <<missed, lost>>

------------------------------------------------------------------------------
(***************************************************************************)
(* Discovery and matching, by Fast DDS; a reader is reported as discovered *)
(* before it is matched.                                                   *)
(***************************************************************************)
SetDiscoveryCallback ==
  /\ Registry!SetDiscoveryCallback
  /\ Unsettle
  /\ UNCHANGED <<linkVars, stateVars, destroying, threadVars, due>>

Discover(s) ==
  /\ s \in (BufferAware \cup Foreign) \ left
  /\ Registry!Notify(s)
  /\ Unsettle
  /\ UNCHANGED <<linkVars, stateVars, destroying, threadVars, due>>

\* on_publication_matched of the main writer.
Match(s) ==
  /\ s \in Subscribers \ (matched \cup left)
  /\ s \in BufferAware => s \in discovered
  /\ destroying = "no"
  /\ matched' = matched \cup {s}
  /\ Unsettle
  /\ UNCHANGED <<registryVars, left, linked, stateVars, destroying, threadVars, due>>

\* The writer of the buffer channel, once it exists, is matched on its own.
Link(s) ==
  /\ s \in BufferAware \ (linked \cup left)
  /\ s \in discovered
  /\ destroying = "no"
  /\ s \in Accelerated => endpoints[s] > 0
  /\ linked' = linked \cup {s}
  /\ Unsettle
  /\ UNCHANGED <<registryVars, matched, left, stateVars, destroying, threadVars, due>>

\* A subscriber goes away: only the main writer's listener is told.
Leave(s) ==
  /\ s \in (Leavers \cap (matched \cup discovered)) \ left
  /\ left' = left \cup {s}
  /\ matched' = matched \ {s}
  /\ linked' = linked \ {s}
  /\ due' = [t \in Threads |-> due[t] \ {s}]
  /\ Unsettle
  /\ UNCHANGED <<registryVars, stateVars, destroying, threadVars>>

------------------------------------------------------------------------------
(***************************************************************************)
(* The publisher's discovery callback.                                     *)
(***************************************************************************)

\* rmw_create_publisher registers the callback.
RegisterPublisher ==
  /\ destroying = "no"
  /\ Registry!Register(Publisher)
  /\ Unsettle
  /\ UNCHANGED <<linkVars, stateVars, destroying, threadVars, due>>

\* The call begins: alive is read without the lock.
EnterCallback(s) ==
  /\ Registry!Fire(Publisher, s)
  /\ entered' = IF alive THEN [entered EXCEPT ![s] = @ + 1] ELSE entered
  /\ Unsettle
  /\ UNCHANGED <<linkVars, alive, endpoints, pending, cpu_only_subscribers, dropped,
                 destroying, threadVars, due>>

PushBack(list, s) == [list EXCEPT ![s] = @ + 1]

Mut_one_at_a_time(s) ==
  \/ /\ Size(endpoints) + Size(pending) + Size(cpu_only_subscribers) > 0
     /\ UNCHANGED <<pending, cpu_only_subscribers>>
  \/ /\ Size(endpoints) + Size(pending) + Size(cpu_only_subscribers) = 0
     /\ s \in CpuOnly
     /\ cpu_only_subscribers' = PushBack(cpu_only_subscribers, s)
     /\ UNCHANGED pending
  \/ /\ Size(endpoints) + Size(pending) + Size(cpu_only_subscribers) = 0
     /\ s \in Accelerated
     /\ pending' = PushBack(pending, s)
     /\ UNCHANGED cpu_only_subscribers

\* Under the lock: the subscriber is put on a list, unless it is on one already.
AddSubscriber(s) ==
  \/ /\ endpoints[s] > 0 \/ cpu_only_subscribers[s] > 0
     /\ UNCHANGED <<pending, cpu_only_subscribers>>
  \/ /\ endpoints[s] = 0 /\ cpu_only_subscribers[s] = 0
     /\ s \in CpuOnly
     /\ cpu_only_subscribers' = PushBack(cpu_only_subscribers, s)
     /\ UNCHANGED pending
  \/ /\ endpoints[s] = 0 /\ cpu_only_subscribers[s] = 0
     /\ s \in Accelerated
     /\ pending' = IF pending[s] > 0 THEN pending ELSE PushBack(pending, s)
     /\ UNCHANGED cpu_only_subscribers

LeaveCallback(s) ==
  /\ entered[s] > 0
  /\ entered' = [entered EXCEPT ![s] = @ - 1]
  /\ Unsettle
  /\ UNCHANGED <<registryVars, linkVars, alive, endpoints, dropped, destroying, threadVars, due>>

\* alive is read again under the lock.
OnSubscriberDiscovered(s) ==
  /\ LeaveCallback(s)
  /\ \/ alive /\ AddSubscriber(s)
     \/ ~alive /\ UNCHANGED <<pending, cpu_only_subscribers>>

------------------------------------------------------------------------------
(***************************************************************************)
(* rmw_publish.                                                            *)
(***************************************************************************)

\* Everybody that is known is matched, has one entry and a writer that reaches it.
AllSettled ==
  /\ known \ Foreign = matched \cap BufferAware
  /\ known \ Foreign = linked
  /\ \A s \in known \ Foreign : endpoints[s] + cpu_only_subscribers[s] = 1
  /\ \A s \in BufferAware \ known : endpoints[s] + cpu_only_subscribers[s] = 0
  /\ pending = Nothing
  /\ \A t \in Threads : batch[t] = Nothing

\* subscription_count().
StartPublish(t) ==
  /\ pc[t] = "idle"
  /\ destroying = "no"
  /\ status[Publisher] = "registered"
  /\ published < MaxPublishes
  /\ published' = published + 1
  /\ total' = [total EXCEPT ![t] = Cardinality(matched)]
  /\ pc' = [pc EXCEPT ![t] = "count"]
  /\ due' = [due EXCEPT ![t] = matched]
  /\ settled' = [settled EXCEPT ![t] = AllSettled]
  /\ UNCHANGED <<registryVars, linkVars, stateVars, destroying, batch, missed, lost>>

\* total_matched is not looked at any more.
Decide(t, channel) ==
  /\ pc[t] = "count"
  /\ pc' = [pc EXCEPT ![t] = channel]
  /\ total' = [total EXCEPT ![t] = 0]
  /\ UNCHANGED <<registryVars, linkVars, stateVars, destroying, batch, published, historyVars>>

Mut_any_buffer_aware(t) ==
  Decide(t, IF Size(endpoints) + Size(pending) + Size(cpu_only_subscribers) > 0 THEN "move" ELSE "main")

\* Legacy subscribers are present if there are more subscribers than entries.
ChooseChannel(t) ==
  Decide(t, IF total[t] <= Size(endpoints) + Size(pending) + Size(cpu_only_subscribers)
            THEN "move" ELSE "main")

\* The message reaches reached and the call returns; failed are those for whom the code
\* reports that it could not be serialized.
Written(t, reached, failed) ==
  /\ pc' = [pc EXCEPT ![t] = "idle"]
  /\ missed' = missed \cup (due[t] \ reached)
  /\ lost' = IF settled[t] THEN lost \cup (due[t] \ (reached \cup failed)) ELSE lost
  /\ due' = [due EXCEPT ![t] = {}]
  /\ settled' = [settled EXCEPT ![t] = FALSE]
  /\ UNCHANGED <<registryVars, linkVars, stateVars, destroying, total, batch, published>>

\* __rmw_publish.
WriteMain(t) ==
  /\ pc[t] = "main"
  /\ Written(t, matched, {})

Mut_create_without_clearing(t) ==
  /\ pc[t] = "move"
  /\ batch' = [batch EXCEPT ![t] = pending]
  /\ pc' = [pc EXCEPT ![t] = IF pending = Nothing THEN "write" ELSE "create"]
  /\ UNCHANGED <<registryVars, linkVars, stateVars, destroying, total, published, historyVars>>

\* create_pending_buffer_writers takes the pending list over ...
MovePending(t) ==
  /\ pc[t] = "move"
  /\ batch' = [batch EXCEPT ![t] = pending]
  /\ pending' = Nothing
  /\ pc' = [pc EXCEPT ![t] = IF pending = Nothing THEN "write" ELSE "create"]
  /\ UNCHANGED <<registryVars, linkVars, alive, entered, endpoints, cpu_only_subscribers, dropped,
                 destroying, total, published, historyVars>>

\* ... creates a writer for each, or fails to, without the lock, and adds the endpoints.
CreateWriters(t, failed) ==
  /\ pc[t] = "create"
  /\ endpoints' = [s \in BufferAware |-> endpoints[s] + IF s \in failed THEN 0 ELSE batch[t][s]]
  /\ dropped' = dropped \cup failed
  /\ batch' = [batch EXCEPT ![t] = Nothing]
  /\ pc' = [pc EXCEPT ![t] = "write"]
  /\ UNCHANGED <<registryVars, linkVars, alive, entered, pending, cpu_only_subscribers,
                 destroying, total, published, historyVars>>

\* publish_to_buffer_endpoints: the shared CPU channel, if anybody uses it, and the
\* writer of every endpoint; one for which the message cannot be serialized is skipped.
WriteBuffer(t, failed) ==
  /\ pc[t] = "write"
  /\ Written(t,
       {s \in linked \cap CpuOnly : Size(cpu_only_subscribers) > 0} \cup
       {s \in (linked \cap Accelerated) \ failed : endpoints[s] > 0}, failed)

------------------------------------------------------------------------------
(***************************************************************************)
(* rmw_destroy_publisher, not while the publisher is used.                 *)
(***************************************************************************)
ClearState ==
  /\ destroying = "no"
  /\ status[Publisher] = "registered"
  /\ \A t \in Threads : pc[t] = "idle"
  /\ destroying' = "cleared"
  /\ alive' = FALSE
  /\ endpoints' = Nothing
  /\ pending' = Nothing
  /\ cpu_only_subscribers' = Nothing
  /\ UNCHANGED <<registryVars, linkVars, entered, dropped, threadVars, historyVars>>

\* The callback is unregistered, and the writers are deleted.
UnregisterPublisher ==
  /\ destroying = "cleared"
  /\ Registry!Unregister(Publisher)
  /\ destroying' = "done"
  /\ matched' = {}
  /\ linked' = {}
  /\ UNCHANGED <<left, stateVars, threadVars, historyVars>>

Next ==
  \/ SetDiscoveryCallback
  \/ \E s \in BufferAware \cup Foreign : Discover(s)
  \/ \E s \in BufferAware : Link(s) \/ EnterCallback(s) \/ OnSubscriberDiscovered(s)
  \/ \E s \in Subscribers : Match(s) \/ Leave(s)
  \/ RegisterPublisher
  \/ \E t \in Threads :
       \/ StartPublish(t) \/ ChooseChannel(t) \/ WriteMain(t) \/ MovePending(t)
       \/ \E failed \in SUBSET {s \in BufferAware : endpoints[s] > 0} : WriteBuffer(t, failed)
       \/ \E failed \in SUBSET {s \in BufferAware : batch[t][s] > 0} : CreateWriters(t, failed)
  \/ ClearState \/ UnregisterPublisher

Spec == Init /\ [][Next]_vars

\* A thread of Fast DDS that has left the registry's lock goes on with its call.
Fairness == \A s \in BufferAware : WF_vars(EnterCallback(s)) /\ WF_vars(OnSubscriberDiscovered(s))

FairSpec == Spec /\ Fairness

------------------------------------------------------------------------------
(***************************************************************************)
(* Properties.                                                             *)
(***************************************************************************)

\* Type invariant; each list holds subscribers of its own kind.
TypeOK ==
  /\ Registry!TypeOK
  /\ matched \subseteq Subscribers
  /\ left \subseteq Leavers
  /\ linked \subseteq BufferAware \ left
  /\ alive \in BOOLEAN
  /\ destroying \in {"no", "cleared", "done"}
  /\ {entered, endpoints, pending, cpu_only_subscribers} \subseteq [BufferAware -> Nat]
  /\ \A s \in CpuOnly : endpoints[s] = 0 /\ pending[s] = 0
  /\ \A s \in Accelerated : cpu_only_subscribers[s] = 0
  /\ dropped \subseteq Accelerated
  /\ pc \in [Threads -> {"idle", "count", "main", "move", "create", "write"}]
  /\ total \in [Threads -> Nat]
  /\ batch \in [Threads -> [BufferAware -> Nat]]
  /\ published \in 0..MaxPublishes
  /\ due \in [Threads -> SUBSET Subscribers]
  /\ settled \in [Threads -> BOOLEAN]
  /\ missed \subseteq Subscribers
  /\ lost \subseteq missed

\* A call of the callback, or an entry, for a subscriber that is not in a thread's hands.
Listed(s) == entered[s] + endpoints[s] + pending[s] + cpu_only_subscribers[s]
Batched(s) == \E t \in Threads : batch[t][s] > 0

\* One call of the callback leaves one trace, until the publisher dies or the writer cannot
\* be created.
OneTrace(s) ==
  /\ Listed(s) <= 1
  /\ \A t \in Threads : batch[t][s] <= 1
  /\ \A t, u \in Threads : batch[t][s] > 0 /\ batch[u][s] > 0 => t = u
  /\ Batched(s) => Listed(s) = 0
  /\ Batched(s) \/ Listed(s) > 0 => fired[<<Publisher, s>>] > 0
  /\ alive /\ fired[<<Publisher, s>>] > 0 /\ s \notin dropped => Batched(s) \/ Listed(s) > 0

\* The strengthening of KnownReached that, with what the registry promises, is inductive.
PublisherInv ==
  /\ TypeOK
  /\ \A t \in Threads : pc[t] # "create" => batch[t] = Nothing
  /\ \A t \in Threads, s \in CpuOnly : batch[t][s] = 0
  /\ \A s \in BufferAware : OneTrace(s)

\* Entries for a subscriber, on the lists and in the hands of publishing threads.
Entries(s) ==
  endpoints[s] + pending[s] + cpu_only_subscribers[s]
    + Cardinality({t \in Threads : batch[t][s] > 0})

\* Through all that the publisher does, it is called at most once about a subscriber ...
CalledAtMostOnce == Registry!CalledAtMostOnce

\* ... and about every known one of its topic.
NoPairMissed == Registry!NoPairMissed

\* While the publisher is alive, every subscriber the registry knows is on its way to the
\* publisher's lists or on them, exactly once, unless its writer could not be created: it is
\* neither forgotten nor sent a message twice, not even while a publishing thread holds its
\* entry outside every list that the callback looks at.
KnownReached ==
  alive /\ status[Publisher] = "registered" =>
    \A s \in known \ (dropped \cup Foreign) : calls[<<Publisher, s>>] + entered[s] + Entries(s) = 1

\* If discovery, matching and creation of writers have come to rest when a message is
\* published and nothing moves meanwhile, every matched subscriber gets the message, but for
\* those for whom it cannot be serialized: they spoil it for nobody else.
SettledGetAll == lost = {}

\* A subscriber that the registry knows is put on a list in the end, even if it leaves or the
\* callback is unregistered meanwhile, unless its writer cannot be created or the publisher is
\* being destroyed.
KnownIsEntered ==
  \A s \in BufferAware :
    (status[Publisher] = "registered" /\ s \in known) ~>
      (Entries(s) = 1 \/ s \in dropped \/ ~alive)

(***************************************************************************)
(* What the code says of itself.                                           *)
(***************************************************************************)

\* "Check whether any non-backend-aware (legacy) subscribers exist.  If so, skip buffer
\* channels entirely and fall through to the main DataWriter so old RMW endpoints receive
\* the message" (rmw_publish.cpp:253-255).
LegacyGetAll == missed \cap Legacy = {}
==============================================================================
