---------------------------- MODULE WaitSetProofs ----------------------------
(***************************************************************************)
(* Proofs about WaitSet for any number of entities and of deliveries.      *)
(***************************************************************************)
EXTENDS WaitSet, TLAPS

\* An entity of one kind is of no other.
LEMMA Kinds ==
  /\ \A s \in Subscriptions : s \in DataReaders /\ s \notin Readers \cup Events \cup Guards
  /\ \A r \in Readers : r \in DataReaders /\ r \notin Subscriptions \cup Events \cup Guards
  /\ \A e \in Events : e \notin DataReaders \cup Guards
  /\ \A g \in Guards : g \notin DataReaders \cup Events
  /\ DataReaders \cup Events \cup Guards = Entities
  /\ NoEntity \notin Entities
  BY WaitAssumption DEF DataReaders, Entities

\* What leaving an entity does to the variables of the waiting thread.
LEMMA LeaveType ==
  ASSUME TypeOK, NEW x, NEW marked, marked \subseteq Entities, Leave(x, marked)
  PROVE  /\ todo' \subseteq Entities
         /\ resetting' \in todo' \cup {NoEntity}
         /\ ready' \subseteq Entities
         /\ pc' \in {"idle", "scan_guards", "scan_events", "scan_data", "block", "results", "take"}
  BY DEF TypeOK, Leave

LEMMA GoResetType ==
  ASSUME TypeOK, NEW x \in todo, NEW marked, marked \subseteq Entities, GoReset(x, marked)
  PROVE  /\ todo' \subseteq Entities
         /\ resetting' \in todo' \cup {NoEntity}
         /\ ready' \subseteq Entities
         /\ pc' \in {"idle", "scan_guards", "scan_events", "scan_data", "block", "results", "take"}
  BY DEF TypeOK, GoReset

\* One loop of the scan leaves everything alone but the thread's own variables.
LEMMA ScanType ==
  ASSUME TypeOK, NEW here, NEW found,
         NEW next \in {"scan_events", "scan_data", "block"}, Scan(here, found, next)
  PROVE  TypeOK'
  BY DEF TypeOK, Scan, GoResults, sourceVars, guardVars

\* A take from the main reader keeps the types of what it counts.
LEMMA MainTakeType ==
  ASSUME TypeOK, NEW r \in DataReaders, MainTake(r)
  PROVE  data' \in [DataReaders -> Nat] /\ dataStatus' \in [DataReaders -> BOOLEAN]
  <1>1. CASE data[r] = 0 /\ UNCHANGED <<data, dataStatus>>
    BY <1>1 DEF TypeOK
  <1>2. CASE data[r] > 0 /\ data' = [data EXCEPT ![r] = @ - 1]
                        /\ dataStatus' = [dataStatus EXCEPT ![r] = FALSE]
    <2>1. data[r] \in Nat /\ data[r] - 1 \in Nat
      BY <1>2 DEF TypeOK
    <2>2. data' \in [DataReaders -> Nat]
      BY <1>2, <2>1 DEF TypeOK
    <2>3. dataStatus' \in [DataReaders -> BOOLEAN]
      BY <1>2 DEF TypeOK
    <2> QED
      BY <2>2, <2>3
  <1> QED
    BY <1>1, <1>2 DEF MainTake

\* The types hold in the initial states.
LEMMA InitTypeOK == Init => TypeOK
  BY WaitAssumption DEF Init, TypeOK, Entities

\* Deliveries keep the types.
LEMMA DeliveryType ==
  ASSUME TypeOK, Delivery \/ (\E s \in Subscriptions : NotifyBuffer(s))
  PROVE  TypeOK'
  <1>1. CASE \E r \in DataReaders : DataArrives(r)
    BY <1>1, WaitAssumption DEF TypeOK, DataArrives, Deliver, guardVars, waitVars
  <1>2. CASE \E s \in Subscriptions : BufferArrives(s)
    BY <1>2, WaitAssumption DEF TypeOK, BufferArrives, Deliver, guardVars, waitVars
  <1>3. CASE \E s \in Subscriptions : PublisherDiscovered(s)
    BY <1>3, WaitAssumption DEF TypeOK, PublisherDiscovered, Deliver, sourceVars, waitVars
  <1>4. CASE \E s \in Subscriptions : NotifyBuffer(s)
    BY <1>4 DEF TypeOK, NotifyBuffer, waitVars
  <1>5. CASE \E e \in Events : EventHappens(e)
    BY <1>5, WaitAssumption DEF TypeOK, EventHappens, Deliver, guardVars, waitVars
  <1>6. CASE \E e \in Events : UpdateEvent(e)
    <2>1. /\ changed' \in [Events -> BOOLEAN]
          /\ eventGuard' \in [Events -> BOOLEAN]
          /\ eventStatus' \in [Events -> BOOLEAN]
      BY <1>6 DEF TypeOK, UpdateEvent
    <2> QED
      BY <1>6, <2>1, WaitAssumption DEF TypeOK, UpdateEvent, Deliver, guardVars, waitVars
  <1>7. CASE \E g \in Guards : TriggerGuard(g)
    BY <1>7, WaitAssumption DEF TypeOK, TriggerGuard, Deliver, sourceVars, waitVars
  <1> QED
    BY <1>1, <1>2, <1>3, <1>4, <1>5, <1>6, <1>7 DEF Delivery

\* The waiting thread keeps them.
LEMMA ThreadType ==
  ASSUME TypeOK, ThreadStep \/ Timeout
  PROVE  TypeOK'
  <1>1. CASE StartWait
    BY <1>1 DEF TypeOK, StartWait, sourceVars, guardVars
  <1>2. CASE ScanGuards \/ ScanEvents \/ ScanData
    BY <1>2, ScanType DEF ScanGuards, ScanEvents, ScanData
  <1>3. CASE Wake \/ Timeout
    BY <1>3 DEF TypeOK, Wake, Timeout, GoResults, sourceVars, guardVars
  <1>4. CASE \E r \in DataReaders : CheckData(r)
    <2>1. PICK r \in DataReaders : CheckData(r)
      BY <1>4
    <2>2. ready \cup {r} \subseteq Entities /\ ready \subseteq Entities /\ r \in todo
      BY <2>1, Kinds DEF TypeOK, CheckData, Visits
    <2> QED
      BY <2>1, <2>2, LeaveType, GoResetType
         DEF TypeOK, CheckData, Visits, sourceVars, guardVars
  <1>5. CASE \E e \in Events : CheckEvent(e)
    <2>1. PICK e \in Events : CheckEvent(e)
      BY <1>5
    <2>2. ready \cup {e} \subseteq Entities /\ ready \subseteq Entities /\ e \in todo
      BY <2>1, Kinds DEF TypeOK, CheckEvent, Visits
    <2>3. (IF eventStatus[e] THEN ready \cup {e} ELSE ready) \subseteq Entities
      BY <2>2
    <2> QED
      BY <2>1, <2>2, <2>3, LeaveType, GoResetType
         DEF TypeOK, CheckEvent, Visits, sourceVars, guardVars
  <1>6. CASE \E g \in Guards : CheckGuard(g)
    <2>1. PICK g \in Guards : CheckGuard(g)
      BY <1>6
    <2>2. (IF trigger[g] THEN ready \cup {g} ELSE ready) \subseteq Entities /\ g \in todo
      BY <2>1, Kinds DEF TypeOK, CheckGuard, Visits
    <2> QED
      BY <2>1, <2>2, GoResetType
         DEF TypeOK, CheckGuard, Visits, sourceVars, guardVars
  <1>7. CASE ResetGuard
    <2>1. /\ bufferGuard' \in [Subscriptions -> BOOLEAN]
          /\ eventGuard' \in [Events -> BOOLEAN]
          /\ trigger' \in [Guards -> BOOLEAN]
      BY <1>7 DEF ResetGuard
    <2> QED
      BY <1>7, <2>1, LeaveType DEF TypeOK, ResetGuard, sourceVars
  <1>8. CASE \E s \in Subscriptions : TakeData(s)
    <2>1. PICK s \in Subscriptions : TakeData(s)
      BY <1>8
    <2>2. data' \in [DataReaders -> Nat] /\ dataStatus' \in [DataReaders -> BOOLEAN]
      BY <2>1, MainTakeType, Kinds
         DEF TypeOK, TakeData, BufferTake, BufferTakeFails, BufferEmpty
    <2>3. buffer' \in [Subscriptions -> Nat]
      BY <2>1 DEF TypeOK, TakeData, BufferTake, BufferTakeFails, BufferEmpty
    <2>4. bufferGuard' \in [Subscriptions -> BOOLEAN]
      BY <2>1 DEF TypeOK, TakeData, BufferTake, BufferTakeFails, BufferEmpty
    <2> QED
      BY <2>1, <2>2, <2>3, <2>4 DEF TypeOK, TakeData, Executes
  <1>9. CASE \E r \in Readers : TakeReader(r)
    <2>1. PICK r \in Readers : TakeReader(r)
      BY <1>9
    <2>2. data' \in [DataReaders -> Nat] /\ dataStatus' \in [DataReaders -> BOOLEAN]
      BY <2>1, MainTakeType, Kinds DEF TakeReader
    <2> QED
      BY <2>1, <2>2 DEF TypeOK, TakeReader, Executes
  <1>10. CASE \E e \in Events : TakeEvent(e)
    <2>1. /\ changed' \in [Events -> BOOLEAN]
          /\ eventStatus' \in [Events -> BOOLEAN]
          /\ eventGuard' \in [Events -> BOOLEAN]
      BY <1>10 DEF TypeOK, TakeEvent
    <2> QED
      BY <1>10, <2>1 DEF TypeOK, TakeEvent, Executes
  <1>11. CASE \E g \in Guards : HandleGuard(g)
    BY <1>11 DEF TypeOK, HandleGuard, Executes
  <1> QED
    BY <1>1, <1>2, <1>3, <1>4, <1>5, <1>6, <1>7, <1>8, <1>9, <1>10, <1>11 DEF ThreadStep

\* The type invariant holds of every behaviour.
THEOREM TypeCorrect == Spec => []TypeOK
  <1>1. TypeOK /\ [Next]_vars => TypeOK'
    <2>1. TypeOK /\ Next => TypeOK'
      BY DeliveryType, ThreadType DEF Next
    <2>2. TypeOK /\ UNCHANGED vars => TypeOK'
      BY DEF TypeOK, vars, sourceVars, guardVars, waitVars
    <2> QED
      BY <2>1, <2>2
  <1> QED
    BY InitTypeOK, <1>1, PTL DEF Spec
------------------------------------------------------------------------------
(***************************************************************************)
(* No wait sleeps on something to take.  The induction follows each kind   *)
(* of thing from its arrival: it shows in a guard or a status, or its      *)
(* entity is ready.                                                        *)
(***************************************************************************)

\* The rest of the inductive invariant.
Seen == BufferSeen /\ ChangeSeen /\ ResetOfReady /\ SleepsWithStatus

\* Nothing has arrived in the initial states.
LEMMA InitSeen == Init => Seen
  BY WaitAssumption
     DEF Init, Seen, BufferSeen, ChangeSeen, ResetOfReady, SleepsWithStatus, DataReaders

\* What arrives is seen.
LEMMA DeliverySeen ==
  ASSUME TypeOK, Seen, Delivery \/ (\E s \in Subscriptions : NotifyBuffer(s))
  PROVE  Seen'
  <1> USE DEF TypeOK, Seen, BufferSeen, ChangeSeen, ResetOfReady, SleepsWithStatus
  <1>1. CASE \E r \in DataReaders : DataArrives(r)
    BY <1>1 DEF DataArrives, Deliver, guardVars, waitVars
  <1>2. CASE \E s \in Subscriptions : BufferArrives(s)
    BY <1>2 DEF BufferArrives, Deliver, guardVars, waitVars
  <1>3. CASE \E s \in Subscriptions : PublisherDiscovered(s)
    BY <1>3 DEF PublisherDiscovered, Deliver, sourceVars, waitVars
  <1>4. CASE \E s \in Subscriptions : NotifyBuffer(s)
    BY <1>4 DEF NotifyBuffer, waitVars
  <1>5. CASE \E e \in Events : EventHappens(e)
    BY <1>5 DEF EventHappens, Deliver, guardVars, waitVars
  <1>6. CASE \E e \in Events : UpdateEvent(e)
    BY <1>6 DEF UpdateEvent, Deliver, guardVars, waitVars
  <1>7. CASE \E g \in Guards : TriggerGuard(g)
    BY <1>7 DEF TriggerGuard, Deliver, sourceVars, waitVars
  <1> QED
    BY <1>1, <1>2, <1>3, <1>4, <1>5, <1>6, <1>7 DEF Delivery

\* Up to the results nothing is cleared and nothing is ready; the scan lets the thread
\* sleep only when the histories are empty.
LEMMA ScanSeen ==
  ASSUME TypeOK, Seen,
         StartWait \/ ScanGuards \/ ScanEvents \/ ScanData \/ Wake \/ Timeout
  PROVE  Seen'
  <1> USE DEF TypeOK, Seen, BufferSeen, ChangeSeen, ResetOfReady, SleepsWithStatus
  <1>1. CASE StartWait
    BY <1>1 DEF StartWait, sourceVars, guardVars
  <1>2. CASE ScanGuards
    BY <1>2 DEF ScanGuards, Scan, GoResults, sourceVars, guardVars
  <1>3. CASE ScanEvents
    BY <1>3 DEF ScanEvents, Scan, GoResults, sourceVars, guardVars
  <1>4. CASE ScanData
    BY <1>4 DEF ScanData, Scan, GoResults, sourceVars, guardVars
  <1>5. CASE Wake \/ Timeout
    BY <1>5 DEF Wake, Timeout, GoResults, sourceVars, guardVars
  <1> QED
    BY <1>1, <1>2, <1>3, <1>4, <1>5

\* The results clear the guard of a subscription or an event only after marking it.
LEMMA ResultsSeen ==
  ASSUME TypeOK, Seen,
         \/ \E r \in DataReaders : CheckData(r)
         \/ \E e \in Events : CheckEvent(e)
         \/ \E g \in Guards : CheckGuard(g)
         \/ ResetGuard
  PROVE  Seen'
  <1> USE Kinds DEF TypeOK, Seen, BufferSeen, ChangeSeen, ResetOfReady, SleepsWithStatus
  <1>1. CASE \E r \in DataReaders : CheckData(r)
    BY <1>1 DEF CheckData, Visits, Leave, GoReset, sourceVars, guardVars
  <1>2. CASE \E e \in Events : CheckEvent(e)
    BY <1>2 DEF CheckEvent, Visits, Leave, GoReset, sourceVars, guardVars
  <1>3. CASE \E g \in Guards : CheckGuard(g)
    BY <1>3 DEF CheckGuard, Visits, Leave, GoReset, sourceVars, guardVars
  <1>4. CASE ResetGuard
    BY <1>4 DEF ResetGuard, Leave, sourceVars
  <1> QED
    BY <1>1, <1>2, <1>3, <1>4

\* A take that finds the samples it is told of leaves the guard triggered when there are
\* more: this is where the invariant needs that no buffer sample is unreadable.
LEMMA TakesSeen ==
  ASSUME TypeOK, Seen, ~BufferFails,
         \/ \E s \in Subscriptions : TakeData(s)
         \/ \E r \in Readers : TakeReader(r)
         \/ \E e \in Events : TakeEvent(e)
         \/ \E g \in Guards : HandleGuard(g)
  PROVE  Seen'
  <1> USE Kinds DEF TypeOK, Seen, BufferSeen, ChangeSeen, ResetOfReady, SleepsWithStatus, Executes
  <1>1. CASE \E s \in Subscriptions : TakeData(s)
    <2>1. PICK s \in Subscriptions : TakeData(s)
      BY <1>1
    <2>2. \A t \in Subscriptions \ {s} : buffer'[t] = buffer[t] /\ bufferGuard'[t] = bufferGuard[t]
      BY <2>1 DEF TakeData, BufferTake, BufferTakeFails, BufferEmpty
    <2>3. buffer'[s] > 0 => bufferGuard'[s]
      <3>1. CASE BufferTake(s)
        <4>1. buffer'[s] = buffer[s] - 1 /\ buffer[s] \in Nat
          BY <3>1 DEF BufferTake
        <4>2. buffer[s] > 1 => bufferGuard'[s]
          BY <3>1 DEF BufferTake
        <4> QED
          BY <4>1, <4>2
      <3>2. CASE BufferEmpty(s)
        BY <3>2 DEF BufferEmpty
      <3> QED
        BY <2>1, <3>1, <3>2 DEF TakeData, BufferTakeFails
    <2>4. BufferSeen'
      BY <2>1, <2>2, <2>3 DEF TakeData
    <2> QED
      BY <2>1, <2>4 DEF TakeData
  <1>2. CASE \E r \in Readers : TakeReader(r)
    BY <1>2 DEF TakeReader
  <1>3. CASE \E e \in Events : TakeEvent(e)
    BY <1>3 DEF TakeEvent
  <1>4. CASE \E g \in Guards : HandleGuard(g)
    BY <1>4 DEF HandleGuard
  <1> QED
    BY <1>1, <1>2, <1>3, <1>4

\* For any numbers of subscriptions, readers, events, guard conditions and deliveries, a
\* blocked wait with something to take has a condition that is true, provided that every
\* buffer sample can be read.
THEOREM NoStuckWaiter == ~BufferFails => (Spec => []WaiterNotStuck)
  <1> SUFFICES ASSUME ~BufferFails PROVE Spec => []WaiterNotStuck
    OBVIOUS
  <1>1. Init => IInv
    BY InitTypeOK, InitSeen DEF IInv, Seen
  <1>2. IInv /\ [Next]_vars => IInv'
    <2>1. ASSUME IInv, Next PROVE IInv'
      <3>1. TypeOK'
        BY <2>1, DeliveryType, ThreadType DEF IInv, Next
      <3>2. Seen'
        BY <2>1, DeliverySeen, ScanSeen, ResultsSeen, TakesSeen DEF IInv, Seen, Next, ThreadStep
      <3> QED
        BY <3>1, <3>2 DEF IInv, Seen
    <2>2. ASSUME IInv, UNCHANGED vars PROVE IInv'
      BY <2>2 DEF IInv, TypeOK, BufferSeen, ChangeSeen, ResetOfReady, SleepsWithStatus,
                  vars, sourceVars, guardVars, waitVars
    <2> QED
      BY <2>1, <2>2
  <1>3. IInv => WaiterNotStuck
    BY Kinds DEF IInv, TypeOK, BufferSeen, ChangeSeen, SleepsWithStatus, WaiterNotStuck,
                 Takeable, AttachedConditionTrue, StatusCondition
  <1> QED
    BY <1>1, <1>2, <1>3, PTL DEF Spec
==============================================================================
