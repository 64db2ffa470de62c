------------------------------- MODULE WaitSet -------------------------------
(***************************************************************************)
(* rmw_wait and what it waits for (rmw_wait.cpp): one thread of an executor*)
(* waits on subscriptions, clients and services, events and guard          *)
(* conditions and then takes from the ones that are ready, while Fast DDS  *)
(* and other threads deliver samples, events and triggers at any moment.   *)
(*                                                                         *)
(* What is delivered is remembered in several ways, some of which forget:  *)
(* the DATA_AVAILABLE status of a reader is cleared by every take, however *)
(* many samples are left; buffer_data_guard_, the guards of events and the *)
(* guard conditions are cleared by rmw_wait itself, after it looked.       *)
(***************************************************************************)
EXTENDS Naturals, FiniteSets

CONSTANTS
  Subscriptions,  \* buffer-aware subscriptions (the others have no buffer samples)
  Readers,        \* response readers of clients and request readers of services
  Events,         \* events of publishers and subscriptions, all of them initialised
  MatchedEvents,  \* those of them that are RMW_EVENT_*_MATCHED
  EntityOf,       \* [Events -> DDS entity]: the reader or writer of the event
  Guards,         \* guard conditions
  BufferFails,    \* whether a buffer sample may be invalid or impossible to read
  MaxDeliveries   \* bound: samples, events and triggers

NoEntity == "none"

ASSUME WaitAssumption ==
  /\ BufferFails \in BOOLEAN
  /\ MaxDeliveries \in Nat
  /\ Subscriptions \cap Readers = {}
  /\ (Subscriptions \cup Readers) \cap (Events \cup Guards) = {}
  /\ Events \cap Guards = {}
  /\ MatchedEvents \subseteq Events
  /\ NoEntity \notin Subscriptions \cup Readers \cup Events \cup Guards

DataReaders == Subscriptions \cup Readers
Entities == DataReaders \cup Events \cup Guards

VARIABLES
  deliveries,     \* number of deliveries so far
  data,           \* [DataReaders -> Nat]: untaken samples
  dataStatus,     \* [DataReaders -> BOOLEAN]: DATA_AVAILABLE in the status condition
  buffer,         \* [Subscriptions -> Nat]: untaken samples of the buffer channel
  notifying,      \* subscriptions whose buffer listener is to be called
  bufferGuard,    \* [Subscriptions -> BOOLEAN]: buffer_data_guard_
  changed,        \* [Events -> BOOLEAN]: the listener noted a change (deadline_changed_...)
  eventStatus,    \* [Events -> BOOLEAN]: the status of the event in the status condition
  eventGuard,     \* [Events -> BOOLEAN]: event_guard
  trigger,        \* [Guards -> BOOLEAN]: trigger value of the guard condition
  pc,             \* where the waiting thread is
  todo,           \* entities whose result it has not checked
  resetting,      \* the entity whose guard it has read and is about to clear
  waitResult,     \* wait_result
  ready           \* entities left non-null in the arguments

sourceVars == <<data, dataStatus, buffer, notifying, changed, eventStatus>>
guardVars  == <<bufferGuard, eventGuard, trigger>>
waitVars   == <<pc, todo, resetting, waitResult, ready>>
vars == <<deliveries, sourceVars, guardVars, waitVars>>

Init ==
  /\ deliveries = 0
  /\ data = [r \in DataReaders |-> 0]
  /\ dataStatus = [r \in DataReaders |-> FALSE]
  /\ buffer = [s \in Subscriptions |-> 0]
  /\ notifying = {}
  /\ bufferGuard = [s \in Subscriptions |-> FALSE]
  /\ changed = [e \in Events |-> FALSE]
  /\ eventStatus = [e \in Events |-> FALSE]
  /\ eventGuard = [e \in Events |-> FALSE]
  /\ trigger = [g \in Guards |-> FALSE]
  /\ pc = "idle"
  /\ todo = {}
  /\ resetting = NoEntity
  /\ waitResult = TRUE
  /\ ready = {}

------------------------------------------------------------------------------
(***************************************************************************)
(* Deliveries, by threads of Fast DDS and of the application.              *)
(***************************************************************************)
Deliver ==
  /\ deliveries < MaxDeliveries
  /\ deliveries' = deliveries + 1
  /\ UNCHANGED waitVars

DataArrives(r) ==
  /\ Deliver
  /\ data' = [data EXCEPT ![r] = @ + 1]
  /\ dataStatus' = [dataStatus EXCEPT ![r] = TRUE]
  /\ UNCHANGED <<buffer, notifying, changed, eventStatus, guardVars>>

BufferArrives(s) ==
  /\ Deliver
  /\ s \notin notifying
  /\ buffer' = [buffer EXCEPT ![s] = @ + 1]
  /\ notifying' = notifying \cup {s}
  /\ UNCHANGED <<data, dataStatus, changed, eventStatus, guardVars>>

\* CpuChannelDataReaderListener::on_data_available.
NotifyBuffer(s) ==
  /\ s \in notifying
  /\ notifying' = notifying \ {s}
  /\ bufferGuard' = [bufferGuard EXCEPT ![s] = TRUE]
  /\ UNCHANGED <<deliveries, data, dataStatus, buffer, changed, eventStatus, eventGuard, trigger, waitVars>>

\* The discovery callback of a subscription triggers its guard without any sample.
PublisherDiscovered(s) ==
  /\ Deliver
  /\ bufferGuard' = [bufferGuard EXCEPT ![s] = TRUE]
  /\ UNCHANGED <<sourceVars, eventGuard, trigger>>

\* A status that is not in the listener's mask only becomes active in the entity.
EventHappens(e) ==
  /\ Deliver
  /\ eventStatus' = [eventStatus EXCEPT ![e] = TRUE]
  /\ UNCHANGED <<data, dataStatus, buffer, notifying, changed, guardVars>>

\* RMWSubscriptionEvent::update_* and RMWPublisherEvent::update_*, with trigger_event;
\* Fast DDS may make the status active in the entity as well.
UpdateEvent(e) ==
  /\ Deliver
  /\ changed' = [changed EXCEPT ![e] = TRUE]
  /\ eventGuard' = [eventGuard EXCEPT ![e] = TRUE]
  /\ eventStatus' \in {eventStatus, [eventStatus EXCEPT ![e] = TRUE]}
  /\ UNCHANGED <<data, dataStatus, buffer, notifying, bufferGuard, trigger>>

\* __rmw_trigger_guard_condition.
TriggerGuard(g) ==
  /\ Deliver
  /\ trigger' = [trigger EXCEPT ![g] = TRUE]
  /\ UNCHANGED <<sourceVars, bufferGuard, eventGuard>>

------------------------------------------------------------------------------
(***************************************************************************)
(* __rmw_wait: has_triggered_condition.                                    *)
(***************************************************************************)
\* The status condition of a reader or writer: every status that it has enabled counts,
\* whichever entity of the wait set it was attached for.
StatusCondition(d) ==
  \/ d \in DataReaders /\ dataStatus[d]
  \/ \E e \in Events : EntityOf[e] = d /\ eventStatus[e]

StartWait ==
  /\ pc = "idle"
  /\ pc' = "scan_guards"
  /\ UNCHANGED <<deliveries, sourceVars, guardVars, todo, resetting, waitResult, ready>>

GoResults(result) ==
  /\ pc' = "results"
  /\ todo' = Entities
  /\ waitResult' = result

\* One loop of the scan: found says whether it meets a triggered condition.
Scan(here, found, next) ==
  /\ pc = here
  /\ \/ found /\ GoResults(TRUE)
     \/ ~found /\ pc' = next /\ UNCHANGED <<todo, waitResult>>
  /\ UNCHANGED <<deliveries, sourceVars, guardVars, resetting, ready>>

ScanGuards == Scan("scan_guards", \E g \in Guards : trigger[g], "scan_events")

ScanEvents ==
  Scan("scan_events",
       \E e \in Events : StatusCondition(EntityOf[e]) \/ eventGuard[e],
       "scan_data")

Mut_trust_status ==
  Scan("scan_data",
       (\E r \in DataReaders : dataStatus[r]) \/ (\E s \in Subscriptions : bufferGuard[s]),
       "block")

\* get_first_untaken_info looks at the history, not at the status.
ScanData ==
  Scan("scan_data",
       (\E r \in DataReaders : data[r] > 0) \/ (\E s \in Subscriptions : bufferGuard[s]),
       "block")

(***************************************************************************)
(* The wait of Fast DDS on the attached conditions.                        *)
(***************************************************************************)
AttachedConditionTrue ==
  \/ \E r \in DataReaders : StatusCondition(r)
  \/ \E s \in Subscriptions : bufferGuard[s]
  \/ \E e \in Events : StatusCondition(EntityOf[e]) \/ eventGuard[e]
  \/ \E g \in Guards : trigger[g]

Wake ==
  /\ pc = "block"
  /\ AttachedConditionTrue
  /\ GoResults(TRUE)
  /\ UNCHANGED <<deliveries, sourceVars, guardVars, resetting, ready>>

Timeout ==
  /\ pc = "block"
  /\ ~AttachedConditionTrue
  /\ GoResults(FALSE)
  /\ UNCHANGED <<deliveries, sourceVars, guardVars, resetting, ready>>

------------------------------------------------------------------------------
(***************************************************************************)
(* __rmw_wait: the results, subscriptions first and guard conditions last. *)
(* A guard is read in one step and cleared in a later one.                 *)
(***************************************************************************)
Before(x, y) ==
  \/ x \in Subscriptions /\ y \notin Subscriptions
  \/ x \in Readers /\ y \in Events \cup Guards
  \/ x \in Events /\ y \in Guards

Visits(x) ==
  /\ pc = "results"
  /\ resetting = NoEntity
  /\ x \in todo
  /\ \A y \in todo : ~Before(y, x)
  /\ UNCHANGED <<deliveries, sourceVars, guardVars, waitResult>>

\* The last entity ends rmw_wait; the executor goes on with what is ready.
Leave(x, marked) ==
  /\ todo' = todo \ {x}
  /\ ready' = marked
  /\ resetting' = NoEntity
  /\ pc' = IF todo \ {x} # {} THEN "results" ELSE IF marked = {} THEN "idle" ELSE "take"

GoReset(x, marked) ==
  /\ resetting' = x
  /\ ready' = marked
  /\ UNCHANGED <<todo, pc>>

CheckData(r) ==
  /\ r \in DataReaders
  /\ Visits(r)
  /\ \/ data[r] > 0 /\ Leave(r, ready \cup {r})
     \/ data[r] = 0 /\ r \in Subscriptions /\ bufferGuard[r] /\ GoReset(r, ready \cup {r})
     \/ data[r] = 0 /\ ~(r \in Subscriptions /\ bufferGuard[r]) /\ Leave(r, ready)

Mut_ignore_timeout(e) ==
  /\ e \in Events
  /\ Visits(e)
  /\ \/ eventGuard[e] /\ GoReset(e, IF waitResult THEN ready \cup {e} ELSE ready)
     \/ ~eventGuard[e] /\ Leave(e, IF waitResult /\ eventStatus[e] THEN ready \cup {e} ELSE ready)

\* After a timeout events are neither marked ready nor cleared.
CheckEvent(e) ==
  /\ e \in Events
  /\ Visits(e)
  /\ \/ waitResult /\ eventGuard[e] /\ GoReset(e, ready \cup {e})
     \/ waitResult /\ ~eventGuard[e] /\ Leave(e, IF eventStatus[e] THEN ready \cup {e} ELSE ready)
     \/ ~waitResult /\ Leave(e, ready)

\* A guard condition is cleared whether it was seen triggered or not.
CheckGuard(g) ==
  /\ g \in Guards
  /\ Visits(g)
  /\ GoReset(g, IF trigger[g] THEN ready \cup {g} ELSE ready)

\* set_trigger_value(false).
ResetGuard ==
  /\ pc = "results"
  /\ resetting # NoEntity
  /\ bufferGuard' = [s \in Subscriptions |-> bufferGuard[s] /\ s # resetting]
  /\ eventGuard' = [e \in Events |-> eventGuard[e] /\ e # resetting]
  /\ trigger' = [g \in Guards |-> trigger[g] /\ g # resetting]
  /\ Leave(resetting, ready)
  /\ UNCHANGED <<deliveries, sourceVars, waitResult>>

------------------------------------------------------------------------------
(***************************************************************************)
(* The executor: one take from each ready entity, then rmw_wait again.     *)
(***************************************************************************)
Executes(x) ==
  /\ pc = "take"
  /\ x \in ready
  /\ ready' = ready \ {x}
  /\ pc' = IF ready \ {x} = {} THEN "idle" ELSE "take"
  /\ UNCHANGED <<deliveries, notifying, trigger, todo, resetting, waitResult>>

\* Fast DDS clears DATA_AVAILABLE when a take finds a sample, however many are left.
MainTake(r) ==
  \/ /\ data[r] > 0
     /\ data' = [data EXCEPT ![r] = @ - 1]
     /\ dataStatus' = [dataStatus EXCEPT ![r] = FALSE]
  \/ data[r] = 0 /\ UNCHANGED <<data, dataStatus>>

\* __rmw_take_request and __rmw_take_response, as far as the reader is concerned.
TakeReader(r) ==
  /\ r \in Readers
  /\ Executes(r)
  /\ MainTake(r)
  /\ UNCHANGED <<buffer, changed, eventStatus, bufferGuard, eventGuard>>

Mut_no_retrigger(s) ==
  /\ buffer[s] > 0
  /\ buffer' = [buffer EXCEPT ![s] = @ - 1]
  /\ UNCHANGED <<bufferGuard, data, dataStatus>>

\* take_buffer_aware returns a sample, and triggers its guard if more are unread.
BufferTake(s) ==
  /\ buffer[s] > 0
  /\ buffer' = [buffer EXCEPT ![s] = @ - 1]
  /\ bufferGuard' = [bufferGuard EXCEPT ![s] = @ \/ buffer[s] > 1]
  /\ UNCHANGED <<data, dataStatus>>

\* It takes a sample that is invalid or that it cannot deserialize, and returns before
\* it looks for more: rmw_take falls back to the main reader.
BufferTakeFails(s) ==
  /\ BufferFails
  /\ buffer[s] > 0
  /\ buffer' = [buffer EXCEPT ![s] = @ - 1]
  /\ MainTake(s)
  /\ UNCHANGED bufferGuard

BufferEmpty(s) ==
  /\ buffer[s] = 0
  /\ MainTake(s)
  /\ UNCHANGED <<buffer, bufferGuard>>

\* rmw_take and rmw_take_with_info of a buffer-aware subscription.
TakeData(s) ==
  /\ s \in Subscriptions
  /\ Executes(s)
  /\ BufferTake(s) \/ BufferTakeFails(s) \/ BufferEmpty(s)
  /\ UNCHANGED <<changed, eventStatus, eventGuard>>

Mut_cached_only(e) ==
  /\ e \in Events
  /\ Executes(e)
  /\ changed' = [changed EXCEPT ![e] = FALSE]
  /\ eventGuard' = [eventGuard EXCEPT ![e] = FALSE]
  /\ UNCHANGED <<data, dataStatus, buffer, bufferGuard, eventStatus>>

\* take_event: what the listener noted, or else the status of the entity; matched events
\* read the status in any case.  Reading the status deactivates it.
TakeEvent(e) ==
  /\ e \in Events
  /\ Executes(e)
  /\ changed' = [changed EXCEPT ![e] = FALSE]
  /\ eventStatus' = [eventStatus EXCEPT ![e] = @ /\ changed[e] /\ e \notin MatchedEvents]
  /\ eventGuard' = [eventGuard EXCEPT ![e] = FALSE]
  /\ UNCHANGED <<data, dataStatus, buffer, bufferGuard>>

\* A guard condition has nothing to take.
HandleGuard(g) ==
  /\ g \in Guards
  /\ Executes(g)
  /\ UNCHANGED <<data, dataStatus, buffer, changed, eventStatus, bufferGuard, eventGuard>>

------------------------------------------------------------------------------
Delivery ==
  \/ \E r \in DataReaders : DataArrives(r)
  \/ \E s \in Subscriptions : BufferArrives(s) \/ PublisherDiscovered(s)
  \/ \E e \in Events : EventHappens(e) \/ UpdateEvent(e)
  \/ \E g \in Guards : TriggerGuard(g)

\* What the waiting thread does without anybody's help.
ThreadStep ==
  \/ StartWait \/ ScanGuards \/ ScanEvents \/ ScanData \/ Wake
  \/ \E r \in DataReaders : CheckData(r)
  \/ \E e \in Events : CheckEvent(e)
  \/ \E g \in Guards : CheckGuard(g)
  \/ ResetGuard
  \/ \E s \in Subscriptions : TakeData(s)
  \/ \E r \in Readers : TakeReader(r)
  \/ \E e \in Events : TakeEvent(e)
  \/ \E g \in Guards : HandleGuard(g)

Next ==
  \/ Delivery
  \/ \E s \in Subscriptions : NotifyBuffer(s)
  \/ ThreadStep
  \/ Timeout

Spec == Init /\ [][Next]_vars

\* The executor spins and its thread is scheduled; Fast DDS finishes its notifications.
\* A timeout is not needed: the wait may be infinite.
Fairness ==
  /\ WF_vars(ThreadStep)
  /\ \A s \in Subscriptions : WF_vars(NotifyBuffer(s))

FairSpec == Spec /\ Fairness

------------------------------------------------------------------------------
(***************************************************************************)
(* Properties.                                                             *)
(***************************************************************************)

\* Type invariant; only during the results is a guard about to be cleared.
TypeOK ==
  /\ deliveries \in 0..MaxDeliveries
  /\ data \in [DataReaders -> Nat]
  /\ dataStatus \in [DataReaders -> BOOLEAN]
  /\ buffer \in [Subscriptions -> Nat]
  /\ notifying \subseteq Subscriptions
  /\ bufferGuard \in [Subscriptions -> BOOLEAN]
  /\ changed \in [Events -> BOOLEAN]
  /\ eventStatus \in [Events -> BOOLEAN]
  /\ eventGuard \in [Events -> BOOLEAN]
  /\ trigger \in [Guards -> BOOLEAN]
  /\ pc \in {"idle", "scan_guards", "scan_events", "scan_data", "block", "results", "take"}
  /\ todo \subseteq Entities
  /\ resetting \in todo \cup {NoEntity}
  /\ waitResult \in BOOLEAN
  /\ ready \subseteq Entities

\* Something to take that nobody is about to announce.
Takeable ==
  \/ \E r \in DataReaders : data[r] > 0
  \/ \E s \in Subscriptions \ notifying : buffer[s] > 0
  \/ \E e \in Events : changed[e] \/ eventStatus[e]

\* The thread never sleeps on something to take: although takes, rmw_wait itself and
\* timeouts clear statuses and guards between the arrivals they announce, a blocked wait
\* with anything to take has a condition that is true.
WaiterNotStuck == pc = "block" /\ Takeable => AttachedConditionTrue

\* Whatever is delivered is eventually all taken by an executor that takes once from
\* each ready entity, even if the wait has no timeout.
EverythingTaken ==
  /\ \A r \in DataReaders : data[r] > 0 ~> data[r] = 0
  /\ \A s \in Subscriptions : buffer[s] > 0 ~> buffer[s] = 0
  /\ \A e \in Events : (changed[e] \/ eventStatus[e]) ~> ~(changed[e] \/ eventStatus[e])

(***************************************************************************)
(* The inductive invariant behind WaiterNotStuck.                          *)
(***************************************************************************)

\* A buffer sample that was announced shows in the guard or is about to be taken.
BufferSeen ==
  \A s \in Subscriptions : buffer[s] > 0 => s \in notifying \/ bufferGuard[s] \/ s \in ready

\* So does a change the listener noted.
ChangeSeen == \A e \in Events : changed[e] => eventGuard[e] \/ e \in ready

\* A guard is cleared only when its subscription or event is ready.
ResetOfReady == resetting \in Subscriptions \cup Events => resetting \in ready

\* While the thread sleeps nothing is ready and new samples show in the status.
SleepsWithStatus ==
  /\ pc \in {"idle", "scan_guards", "scan_events", "scan_data", "block"} => ready = {}
  /\ pc = "block" => \A r \in DataReaders : data[r] > 0 => dataStatus[r]
  /\ resetting # NoEntity => pc = "results"

IInv == TypeOK /\ BufferSeen /\ ChangeSeen /\ ResetOfReady /\ SleepsWithStatus

(***************************************************************************)
(* What the code says of itself.                                           *)
(***************************************************************************)

\* "Guard condition triggered when buffer channel DataReaders receive data.  Used by
\* rmw_wait to detect data on buffer-aware subscriptions" (custom_subscriber_info.hpp:149):
\* no announced buffer sample is left behind while rmw_wait blocks.
BufferDataDetected ==
  pc = "block" => \A s \in Subscriptions \ notifying : buffer[s] > 0 => bufferGuard[s]
==============================================================================
