------------------------ MODULE ContextLifecycleProofs ------------------------
(***************************************************************************)
(* Proofs about ContextLifecycle for any threads, any faults and any       *)
(* number of calls: the references are counted exactly, nothing is deleted *)
(* while it is in use, and nothing is left after the last reference.       *)
(***************************************************************************)
EXTENDS ContextLifecycle, FiniteSetTheorems, TLAPS

------------------------------------------------------------------------------
(***************************************************************************)
(* What init_context_impl has made.                                        *)
(***************************************************************************)

\* The prefixes of Order, one by one.
LEMMA Prefixes ==
  /\ First(0) = {}
  /\ First(1) = {"common"}
  /\ First(2) = {"common", "participant"}
  /\ First(3) = {"common", "participant", "publisher"}
  /\ First(4) = {"common", "participant", "publisher", "subscription"}
  /\ First(5) = Objects \ {"listener_gc"}
  <1>1. /\ 1..0 = {} /\ 1..1 = {1} /\ 1..2 = {1, 2} /\ 1..3 = {1, 2, 3}
        /\ 1..4 = {1, 2, 3, 4} /\ 1..5 = {1, 2, 3, 4, 5}
    OBVIOUS
  <1>2. /\ Order[1] = "common" /\ Order[2] = "participant" /\ Order[3] = "publisher"
        /\ Order[4] = "subscription" /\ Order[5] = "graph_guard"
    BY DEF Order
  <1> QED
    BY <1>1, <1>2 DEF First, Objects

\* What has been made are the first k objects: the next one, or the last one, is the prefix
\* one longer, or one shorter.
LEMMA MadeOfPrefix ==
  ASSUME NEW k \in 0..5, objects = First(k)
  PROVE  /\ Made = 1..k
         /\ Cardinality(Made) = k
         /\ k < 5 => objects \cup {Order[k + 1]} = First(k + 1)
         /\ k > 0 => objects \ {Order[k]} = First(k - 1)
  <1>1. /\ Order[1] = "common" /\ Order[2] = "participant" /\ Order[3] = "publisher"
        /\ Order[4] = "subscription" /\ Order[5] = "graph_guard" /\ DOMAIN Order = 1..5
    BY DEF Order
  <1>2. k \in {0, 1, 2, 3, 4, 5}
    OBVIOUS
  <1>3. \A i \in 1..5 : Order[i] \in objects <=> i \in 1..k
    <2>1. \A i \in 1..5 : i \in {1, 2, 3, 4, 5}
      OBVIOUS
    <2> QED
      BY <1>1, <1>2, <2>1, Prefixes DEF Objects
  <1>4. Made = 1..k
    BY <1>1, <1>3 DEF Made
  <1>5. Cardinality(Made) = k
    <2>1. k \in Int /\ 1 \in Int
      OBVIOUS
    <2>2. Cardinality(1..k) = IF 1 > k THEN 0 ELSE k - 1 + 1
      BY <2>1, FS_Interval
    <2> QED
      BY <1>4, <2>1, <2>2
  <1>6. k < 5 => objects \cup {Order[k + 1]} = First(k + 1)
    BY <1>1, <1>2, Prefixes DEF Objects
  <1>7. k > 0 => objects \ {Order[k]} = First(k - 1)
    BY <1>1, <1>2, Prefixes DEF Objects
  <1> QED
    BY <1>4, <1>5, <1>6, <1>7

------------------------------------------------------------------------------
(***************************************************************************)
(* The references.                                                         *)
(***************************************************************************)

\* Which references there are.
LEMMA ReferencesAre ==
  \A r : r \in References <=>
    \E t \in Threads, i \in Int : i \in 1..Referring(t) /\ r = <<t, i>>
  BY DEF References

LEMMA ReferencesAreNext ==
  \A r : r \in References' <=>
    \E t \in Threads, i \in Int : i \in 1..(Referring(t)') /\ r = <<t, i>>
  BY DEF References

LEMMA ReferringIsNat ==
  ASSUME TypeOK, NEW t \in Threads
  PROVE  Referring(t) \in Nat
  BY DEF TypeOK, Referring

\* No thread gets or gives back a reference.
LEMMA SameReferences ==
  ASSUME Accounted, UNCHANGED count, \A t \in Threads : Referring(t)' = Referring(t)
  PROVE  Accounted'
  <1>1. References' = References
    BY ReferencesAre, ReferencesAreNext
  <1> QED
    BY <1>1 DEF Accounted

\* One thread gets one.
LEMMA OneMore ==
  ASSUME TypeOK, Accounted, NEW t \in Threads,
         Referring(t)' = Referring(t) + 1,
         \A u \in Threads \ {t} : Referring(u)' = Referring(u),
         count' = count + 1
  PROVE  Accounted'
  <1> DEFINE r == <<t, Referring(t) + 1>>
  <1>1. \A u \in Threads : Referring(u) \in Nat
    BY ReferringIsNat
  <1>2. References' = References \cup {r}
    <2>1. \A i : i \in 1..(Referring(t)') <=> i \in 1..Referring(t) \/ i = Referring(t) + 1
      BY <1>1
    <2>2. ASSUME NEW x \in References' PROVE x \in References \cup {r}
      <3>1. PICK u \in Threads, i \in Int : i \in 1..(Referring(u)') /\ x = <<u, i>>
        BY ReferencesAreNext
      <3> QED
        BY <2>1, <3>1, ReferencesAre
    <2>3. ASSUME NEW x \in References PROVE x \in References'
      <3>1. PICK u \in Threads, i \in Int : i \in 1..Referring(u) /\ x = <<u, i>>
        BY ReferencesAre
      <3> QED
        BY <2>1, <3>1, ReferencesAreNext
    <2>4. r \in References'
      BY <2>1, ReferencesAreNext
    <2> QED
      BY <2>2, <2>3, <2>4
  <1>3. r \notin References
    <2>1. \A i \in 1..Referring(t) : i # Referring(t) + 1
      BY <1>1
    <2> QED
      BY <2>1, ReferencesAre
  <1> QED
    BY <1>2, <1>3, FS_AddElement DEF Accounted

\* One thread gives one back.
LEMMA OneLess ==
  ASSUME TypeOK, Accounted, NEW t \in Threads,
         Referring(t) > 0,
         Referring(t)' = Referring(t) - 1,
         \A u \in Threads \ {t} : Referring(u)' = Referring(u),
         count' = count - 1
  PROVE  Accounted'
  <1> DEFINE r == <<t, Referring(t)>>
  <1>1. \A u \in Threads : Referring(u) \in Nat
    BY ReferringIsNat
  <1>2. References' = References \ {r}
    <2>1. \A i : i \in 1..(Referring(t)') <=> i \in 1..Referring(t) /\ i # Referring(t)
      BY <1>1
    <2>2. ASSUME NEW x \in References' PROVE x \in References \ {r}
      <3>1. PICK u \in Threads, i \in Int : i \in 1..(Referring(u)') /\ x = <<u, i>>
        BY ReferencesAreNext
      <3> QED
        BY <2>1, <3>1, ReferencesAre
    <2>3. ASSUME NEW x \in References \ {r} PROVE x \in References'
      <3>1. PICK u \in Threads, i \in Int : i \in 1..Referring(u) /\ x = <<u, i>>
        BY ReferencesAre
      <3> QED
        BY <2>1, <3>1, ReferencesAreNext
    <2> QED
      BY <2>2, <2>3
  <1>3. r \in References
    BY <1>1, ReferencesAre
  <1> QED
    BY <1>2, <1>3, FS_RemoveElement DEF Accounted

\* A thread that refers to the context is counted.
LEMMA ReferringIsCounted ==
  ASSUME TypeOK, Accounted, NEW t \in Threads, Referring(t) > 0
  PROVE  count > 0
  <1>1. <<t, 1>> \in References
    BY ReferringIsNat, ReferencesAre
  <1>2. Cardinality(References) # 0 /\ Cardinality(References) \in Nat
    BY <1>1, FS_EmptySet, FS_CardinalityType DEF Accounted
  <1> QED
    BY <1>2 DEF Accounted

------------------------------------------------------------------------------
(***************************************************************************)
(* The frame of the steps.                                                 *)
(***************************************************************************)

\* The types that do not concern the calls.
DataOK ==
  /\ objects \subseteq Objects /\ leaked \subseteq {"publisher", "subscription"}
  /\ listener \in Serving \cup {None, "exited"}
  /\ thread_is_running \in BOOLEAN /\ woken \in BOOLEAN
  /\ updates \in 0..MaxUpdates /\ pending \in 0..MaxUpdates /\ dataStatus \in BOOLEAN
  /\ pending <= updates
  /\ on_change \in BOOLEAN /\ in_graph \in BOOLEAN
  /\ ret \in {"ok", "reader", "writer"} /\ failures \subseteq {"reader", "writer"}

LEMMA ContextInvData == ContextInv => DataOK
  BY DEF ContextInv, TypeOK, DataOK

\* The mutex excludes: while t is in the set-up or the teardown nobody else is.
LEMMA Mutex ==
  ASSUME TypeOK, NEW t \in Threads, pc[t] \in Holding
  PROVE  /\ owner = t /\ owner # None
         /\ \A u \in Threads : u # t => pc[u] \notin Holding
  BY ContextAssumption DEF TypeOK

\* A step of the thread that holds the mutex, to a stage in which it still holds it, leaves
\* only its own stage and the data to look at.
LEMMA HolderStep ==
  ASSUME ContextInv, NEW t \in Threads, pc[t] \in Holding,
         NEW q \in Holding, pc' = [pc EXCEPT ![t] = q],
         UNCHANGED <<callVars, countVars>>, DataOK'
  PROVE  /\ pc'[t] = q
         /\ SettingUp(t)' /\ TearingDown(t)' /\ Reporting(t)' => ContextInv'
  <1>1. /\ TypeOK /\ Accounted /\ AtRest /\ Finalized
        /\ pc \in [Threads -> Holding \cup {"idle", "increment", "add_node", "decrement"}]
    BY DEF ContextInv, TypeOK
  <1>2. /\ owner = t /\ owner # None
        /\ \A u \in Threads : u # t => pc[u] \notin Holding
    BY <1>1, Mutex
  <1>3. pc'[t] = q /\ \A u \in Threads : u # t => pc'[u] = pc[u]
    BY <1>1
  <1>4. TypeOK'
    <2>1. \A u \in Threads : pc'[u] \in Holding <=> owner' = u
      BY <1>2, <1>3 DEF countVars
    <2>2. pc' \in [Threads -> Holding \cup {"idle", "increment", "add_node", "decrement"}]
      BY <1>1
    <2> QED
      BY <1>1, <2>1, <2>2 DEF TypeOK, DataOK, callVars, countVars
  <1>5. Accounted'
    <2>1. \A u \in Threads : Referring(u)' = Referring(u)
      BY <1>3 DEF Referring, countVars, Holding
    <2> QED
      BY <1>1, <2>1, SameReferences DEF countVars
  <1>6. AtRest' /\ Finalized'
    <2>1. initialized
      BY <1>1 DEF Finalized, NoCalls, Holding
    <2> QED
      BY <1>2, <2>1 DEF AtRest, Finalized, callVars, countVars
  <1>7. ASSUME NEW u \in Threads, u # t
        PROVE  SettingUp(u)' /\ TearingDown(u)' /\ Reporting(u)'
    <2>1. pc'[u] \notin Holding
      BY <1>2, <1>3, <1>7
    <2> QED
      BY <2>1 DEF SettingUp, TearingDown, Reporting, Joining, Holding
  <1> QED
    BY <1>3, <1>4, <1>5, <1>6, <1>7 DEF ContextInv, DataOK

\* A step that releases the mutex: what is there must be all or nothing.
LEMMA Release ==
  ASSUME ContextInv, NEW t \in Threads, pc[t] \in Holding, owner' = None,
         NEW q \in {"idle", "add_node"}, pc' = [pc EXCEPT ![t] = q],
         UNCHANGED <<callVars, nodes>>, count' \in Nat, DataOK',
         Accounted', IF count' = 0 THEN Bare' ELSE Whole'
  PROVE  ContextInv'
  <1>1. /\ TypeOK /\ Finalized
        /\ pc \in [Threads -> Holding \cup {"idle", "increment", "add_node", "decrement"}]
    BY DEF ContextInv, TypeOK
  <1>2. \A u \in Threads : u # t => pc[u] \notin Holding
    BY <1>1, Mutex
  <1>3. \A u \in Threads : pc'[u] \notin Holding
    BY <1>1, <1>2 DEF Holding
  <1>4. TypeOK'
    <2>1. pc' \in [Threads -> Holding \cup {"idle", "increment", "add_node", "decrement"}]
      BY <1>1
    <2>2. \A u \in Threads : pc'[u] \in Holding <=> owner' = u
      BY <1>3, ContextAssumption
    <2> QED
      BY <1>1, <2>1, <2>2 DEF TypeOK, DataOK, callVars
  <1>5. initialized'
    BY <1>1 DEF Finalized, NoCalls, Holding, callVars
  <1>6. ASSUME NEW u \in Threads
        PROVE  SettingUp(u)' /\ TearingDown(u)' /\ Reporting(u)'
    BY <1>3 DEF SettingUp, TearingDown, Reporting, Joining, Holding
  <1> QED
    BY <1>4, <1>5, <1>6 DEF ContextInv, AtRest, Finalized, DataOK

\* A step outside the set-up and the teardown, which changes none of the objects.
LEMMA OutsideStep ==
  ASSUME ContextInv, NEW t \in Threads, pc[t] \notin Holding,
         NEW q \in {"idle", "increment", "add_node", "decrement"},
         pc' = [pc EXCEPT ![t] = q],
         calls' \in 0..MaxCalls, initialized, is_shutdown' \in BOOLEAN,
         nodes' \in [Threads -> Nat], count' \in Nat, Accounted',
         count' = count \/ (owner = None /\ count > 0 /\ count' > 0),
         UNCHANGED <<initialized, owner, objectVars, threadVars, updateVars, graphVars,
                     teardownVars>>
  PROVE  ContextInv'
  <1>1. /\ TypeOK /\ AtRest /\ pending <= updates
        /\ \A u \in Threads : SettingUp(u) /\ TearingDown(u) /\ Reporting(u)
        /\ pc \in [Threads -> Holding \cup {"idle", "increment", "add_node", "decrement"}]
    BY DEF ContextInv, TypeOK
  <1>2. /\ pc'[t] = q /\ q \notin Holding
        /\ \A u \in Threads : u # t => pc'[u] = pc[u]
    BY <1>1 DEF Holding
  <1>3. TypeOK' /\ pending' <= updates'
    <2>1. pc' \in [Threads -> Holding \cup {"idle", "increment", "add_node", "decrement"}]
      BY <1>1
    <2>2. \A u \in Threads : pc'[u] \in Holding <=> owner' = u
      BY <1>1, <1>2 DEF TypeOK
    <2> QED
      BY <1>1, <2>1, <2>2
      DEF TypeOK, objectVars, threadVars, updateVars, graphVars, teardownVars
  <1>4. AtRest' /\ Finalized'
    BY <1>1
    DEF AtRest, Finalized, Bare, Whole, objectVars, threadVars, graphVars, TypeOK
  <1>5. ASSUME NEW u \in Threads
        PROVE  SettingUp(u)' /\ TearingDown(u)' /\ Reporting(u)'
    <2>1. CASE pc'[u] \notin Holding
      BY <2>1 DEF SettingUp, TearingDown, Reporting, Joining, Holding
    <2>2. CASE pc'[u] \in Holding
      <3>1. u # t /\ pc'[u] = pc[u] /\ pc[u] \in Holding
        BY <1>2, <2>2
      <3>2. owner # None
        BY <1>1, <3>1, Mutex
      <3>3. count' = count
        BY <3>2
      <3> QED
        BY <1>1, <3>1, <3>3
        DEF SettingUp, TearingDown, Reporting, Whole,
            objectVars, threadVars, graphVars, teardownVars
    <2> QED
      BY <2>1, <2>2
  <1> QED
    BY <1>3, <1>4, <1>5 DEF ContextInv

------------------------------------------------------------------------------
(***************************************************************************)
(* One lemma for each action, or each group of alike ones.                 *)
(***************************************************************************)

\* Init.
LEMMA InitContextInv == Init => ContextInv
  <1> SUFFICES ASSUME Init PROVE ContextInv
    OBVIOUS
  <1>1. TypeOK /\ pending <= updates
    <2>1. /\ nodes \in [Threads -> Nat]
          /\ pc \in [Threads -> Holding \cup {"idle", "increment", "add_node", "decrement"}]
      BY DEF Init
    <2>2. \A t \in Threads : pc[t] \notin Holding /\ owner # t
      BY ContextAssumption DEF Init, Holding
    <2>3. /\ initialized \in BOOLEAN /\ is_shutdown \in BOOLEAN /\ thread_is_running \in BOOLEAN
          /\ woken \in BOOLEAN /\ dataStatus \in BOOLEAN /\ on_change \in BOOLEAN
          /\ in_graph \in BOOLEAN
      BY Zenon DEF Init
    <2>4. /\ calls \in 0..MaxCalls /\ updates \in 0..MaxUpdates /\ pending \in 0..MaxUpdates
          /\ count \in Nat /\ pending <= updates
      BY ContextAssumption DEF Init
    <2>5. /\ owner = None /\ objects = {} /\ leaked = {} /\ listener = None
          /\ ret \in {"ok", "reader", "writer"} /\ failures = {}
      BY DEF Init
    <2> QED
      BY <2>1, <2>2, <2>3, <2>4, <2>5 DEF TypeOK
  <1>2. Accounted
    <2>1. \A t \in Threads : Referring(t) = 0
      BY DEF Init, Referring
    <2>2. References = {}
      BY <2>1, ReferencesAre
    <2> QED
      BY <2>2, FS_EmptySet DEF Init, Accounted
  <1>3. AtRest /\ Finalized
    BY DEF Init, AtRest, Finalized, Bare, NoCalls
  <1>4. \A t \in Threads : SettingUp(t) /\ TearingDown(t) /\ Reporting(t)
    BY DEF Init, SettingUp, TearingDown, Reporting, Joining
  <1> QED
    BY <1>1, <1>2, <1>3, <1>4 DEF ContextInv

\* What the application does with the context as a whole.
LEMMA ApplicationStep ==
  ASSUME ContextInv, RmwInit \/ RmwShutdown \/ RmwContextFini
  PROVE  ContextInv'
  <1>1. /\ calls' \in 0..MaxCalls /\ initialized' \in BOOLEAN /\ is_shutdown' \in BOOLEAN
        /\ ~initialized' => NoCalls /\ count = 0
        /\ UNCHANGED <<countVars, pc, objectVars, threadVars, updateVars, graphVars,
                       teardownVars>>
    <2>1. /\ calls \in 0..MaxCalls /\ initialized \in BOOLEAN /\ is_shutdown \in BOOLEAN
          /\ MaxCalls \in Nat
      BY ContextAssumption DEF ContextInv, TypeOK
    <2>2. calls' \in 0..MaxCalls
      BY <2>1 DEF RmwInit, RmwShutdown, RmwContextFini, Call
    <2>3. initialized' \in BOOLEAN /\ is_shutdown' \in BOOLEAN
      BY <2>1, Zenon DEF RmwInit, RmwShutdown, RmwContextFini
    <2>4. UNCHANGED <<countVars, pc, objectVars, threadVars, updateVars, graphVars,
                      teardownVars>>
      BY DEF RmwInit, RmwShutdown, RmwContextFini
    <2>5. ~initialized' => NoCalls /\ count = 0
      <3>1. CASE RmwInit
        BY <3>1, Zenon DEF RmwInit
      <3>2. CASE RmwShutdown
        BY <3>2, Zenon DEF RmwShutdown
      <3>3. CASE RmwContextFini
        BY <3>3, Zenon DEF RmwContextFini
      <3> QED
        BY <3>1, <3>2, <3>3
    <2> QED
      BY <2>2, <2>3, <2>4, <2>5
  <1>2. TypeOK' /\ pending' <= updates'
    BY <1>1
    DEF ContextInv, TypeOK, countVars, objectVars, threadVars, updateVars, graphVars,
        teardownVars
  <1>3. Accounted'
    BY <1>1, SameReferences DEF ContextInv, Referring, countVars
  <1>4. AtRest' /\ Finalized'
    BY <1>1
    DEF ContextInv, AtRest, Finalized, NoCalls, Bare, Whole, countVars, objectVars,
        threadVars, graphVars
  <1>5. ASSUME NEW t \in Threads PROVE SettingUp(t)' /\ TearingDown(t)' /\ Reporting(t)'
    BY <1>1
    DEF ContextInv, SettingUp, TearingDown, Reporting, Whole, countVars, objectVars,
        threadVars, graphVars, teardownVars
  <1> QED
    BY <1>2, <1>3, <1>4, <1>5 DEF ContextInv

\* The listener thread and the other participants: no stage depends on where the listener
\* thread is, only on whether it is there.
LEMMA OthersStep ==
  ASSUME ContextInv, ListenerStep \/ WaitFails \/ UpdateArrives
  PROVE  ContextInv'
  <1>1. /\ listener' = None <=> listener = None
        /\ listener' \in Serving \cup {None, "exited"}
        /\ UNCHANGED <<callVars, countVars, pc, objectVars, thread_is_running, graphVars,
                       teardownVars>>
    <2>1. CASE ListenerStep \/ WaitFails
      BY <2>1
      DEF ListenerStep, WaitFails, CreateWaitSet, Check, Wait, Take, End, Listen, Serving, None
    <2>2. CASE UpdateArrives
      BY <2>2 DEF ContextInv, TypeOK, UpdateArrives, threadVars
    <2> QED
      BY <2>1, <2>2
  <1>2. /\ updates' \in 0..MaxUpdates /\ pending' \in 0..MaxUpdates /\ pending' <= updates'
        /\ woken' \in BOOLEAN /\ dataStatus' \in BOOLEAN
    <2>1. CASE ListenerStep \/ WaitFails
      <3>1. /\ updates \in 0..MaxUpdates /\ pending \in 0..MaxUpdates /\ pending <= updates
            /\ woken \in BOOLEAN /\ dataStatus \in BOOLEAN
        BY DEF ContextInv, TypeOK
      <3>2. /\ updates' = updates
            /\ pending' = pending \/ pending' = IF pending > 0 THEN pending - 1 ELSE 0
            /\ woken' = woken \/ woken' = FALSE
            /\ dataStatus' = dataStatus \/ dataStatus' = FALSE
        BY <2>1 DEF ListenerStep, WaitFails, CreateWaitSet, Check, Wait, Take, End, Listen
      <3>3. woken' \in BOOLEAN /\ dataStatus' \in BOOLEAN
        BY <3>1, <3>2, Zenon
      <3>4. updates' \in 0..MaxUpdates /\ pending' \in 0..MaxUpdates /\ pending' <= updates'
        BY <3>1, <3>2, ContextAssumption
      <3> QED
        BY <3>3, <3>4
    <2>2. CASE UpdateArrives
      BY <2>2, ContextAssumption DEF ContextInv, TypeOK, UpdateArrives, threadVars
    <2> QED
      BY <2>1, <2>2
  <1>3. TypeOK'
    BY <1>1, <1>2
    DEF ContextInv, TypeOK, callVars, countVars, objectVars, graphVars, teardownVars
  <1>4. Accounted'
    BY <1>1, SameReferences DEF ContextInv, Referring, countVars
  <1>5. AtRest' /\ Finalized'
    BY <1>1
    DEF ContextInv, AtRest, Finalized, NoCalls, Bare, Whole, callVars, countVars, objectVars,
        graphVars
  <1>6. ASSUME NEW t \in Threads PROVE SettingUp(t)' /\ TearingDown(t)' /\ Reporting(t)'
    BY <1>1
    DEF ContextInv, SettingUp, TearingDown, Reporting, Whole, countVars, objectVars,
        graphVars, teardownVars
  <1> QED
    BY <1>2, <1>3, <1>4, <1>5, <1>6 DEF ContextInv

\* rmw_create_node is called.
LEMMA CreateNodeStep ==
  ASSUME ContextInv, NEW t \in Threads, CreateNode(t)
  PROVE  ContextInv'
  <1>1. pc[t] = "idle" /\ pc' = [pc EXCEPT ![t] = "increment"] /\ initialized
    BY DEF CreateNode, Go
  <1>2. \A u \in Threads : Referring(u)' = Referring(u)
    BY <1>1 DEF ContextInv, TypeOK, CreateNode, Referring, countVars
  <1>3. Accounted'
    BY <1>2, SameReferences DEF ContextInv, CreateNode, countVars
  <1>4. calls' \in 0..MaxCalls
    BY ContextAssumption DEF ContextInv, TypeOK, CreateNode, Call
  <1>5. pc[t] \notin Holding
    BY <1>1 DEF Holding
  <1> QED
    BY <1>1, <1>3, <1>4, <1>5, OutsideStep DEF ContextInv, TypeOK, CreateNode, countVars

\* increment_context_impl_ref_count takes the mutex: nothing is there for the first
\* reference, and everything for a later one.
LEMMA IncrementStep ==
  ASSUME ContextInv, NEW t \in Threads, Increment(t)
  PROVE  ContextInv'
  <1> DEFINE q == IF count = 0 THEN "set_up" ELSE "count"
  <1>1. /\ pc[t] = "increment" /\ pc' = [pc EXCEPT ![t] = q]
        /\ owner = None /\ owner' = t
        /\ UNCHANGED <<callVars, count, nodes, objectVars, threadVars, updateVars, graphVars,
                       teardownVars>>
    BY DEF Increment, Go
  <1>2. /\ TypeOK /\ Accounted /\ pending <= updates
        /\ IF count = 0 THEN Bare ELSE Whole
        /\ pc \in [Threads -> Holding \cup {"idle", "increment", "add_node", "decrement"}]
        /\ q \in Holding
    BY <1>1 DEF ContextInv, AtRest, TypeOK, Holding
  <1>3. \A u \in Threads : pc[u] \notin Holding
    BY <1>1, <1>2, Mutex
  <1>4. pc'[t] = q /\ \A u \in Threads : u # t => pc'[u] = pc[u]
    BY <1>1, <1>2
  <1>5. TypeOK' /\ pending' <= updates'
    <2>1. pc' \in [Threads -> Holding \cup {"idle", "increment", "add_node", "decrement"}]
      BY <1>1, <1>2
    <2>2. \A u \in Threads : pc'[u] \in Holding <=> owner' = u
      BY <1>1, <1>2, <1>3, <1>4
    <2> QED
      BY <1>1, <1>2, <2>1, <2>2
      DEF TypeOK, callVars, objectVars, threadVars, updateVars, graphVars, teardownVars
  <1>6. Accounted'
    <2>1. \A u \in Threads : Referring(u)' = Referring(u)
      BY <1>1, <1>4 DEF Referring
    <2> QED
      BY <1>1, <1>2, <2>1, SameReferences
  <1>7. AtRest' /\ Finalized'
    <2>1. initialized
      BY <1>1 DEF ContextInv, Finalized, NoCalls
    <2> QED
      BY <1>1, <2>1, ContextAssumption DEF AtRest, Finalized, callVars
  <1>8. ASSUME NEW u \in Threads PROVE SettingUp(u)' /\ TearingDown(u)' /\ Reporting(u)'
    <2>1. CASE u # t
      <3>1. pc'[u] \notin Holding
        BY <1>3, <1>4, <2>1
      <3> QED
        BY <3>1 DEF SettingUp, TearingDown, Reporting, Joining, Holding
    <2>2. CASE u = t /\ count = 0
      <3>1. objects = First(0) /\ 0 \in 0..Len(Order)
        BY <1>2, <2>2, Prefixes DEF Bare, Order
      <3> QED
        BY <1>1, <1>2, <1>4, <2>2, <3>1
        DEF SettingUp, TearingDown, Reporting, Joining, Bare, First, objectVars, threadVars,
            graphVars
    <2>3. CASE u = t /\ count # 0
      BY <1>1, <1>2, <1>4, <2>3
      DEF SettingUp, TearingDown, Reporting, Joining, Whole, objectVars, threadVars, graphVars
    <2> QED
      BY <2>1, <2>2, <2>3
  <1> QED
    BY <1>5, <1>6, <1>7, <1>8 DEF ContextInv

\* The set-up makes the next object, or fails.
LEMMA SetUpStep ==
  ASSUME ContextInv, NEW t \in Threads, SetUp(t)
  PROVE  ContextInv'
  <1>1. /\ pc[t] = "set_up" /\ pc[t] \in Holding
        /\ Cardinality(Made) < 5
        /\ UNCHANGED <<callVars, countVars, leaked, threadVars, updateVars, graphVars,
                       teardownVars>>
    BY DEF SetUp, Holding, Order
  <1>2. /\ SettingUp(t) /\ DataOK
        /\ pc \in [Threads -> Holding \cup {"idle", "increment", "add_node", "decrement"}]
    BY ContextInvData DEF ContextInv, TypeOK
  <1>3. PICK k \in 0..5 : objects = First(k)
    BY <1>1, <1>2 DEF SettingUp, Order
  <1>4. k < 5 /\ Cardinality(Made) = k /\ objects \cup {Order[k + 1]} = First(k + 1)
    BY <1>1, <1>3, MadeOfPrefix
  <1>5. First(k + 1) \subseteq Objects
    <2>1. k + 1 \in {1, 2, 3, 4, 5}
      BY <1>4
    <2> QED
      BY <2>1, Prefixes DEF Objects
  <1>6. CASE objects' = First(k + 1) /\ UNCHANGED pc
    <2>1. DataOK' /\ pc' = [pc EXCEPT ![t] = "set_up"]
      BY <1>1, <1>2, <1>5, <1>6
      DEF DataOK, threadVars, updateVars, graphVars, teardownVars
    <2>2. k + 1 \in 0..5
      BY <1>4
    <2>3. SettingUp(t)'
      BY <1>1, <1>2, <1>6, <2>2 DEF SettingUp, First, Order, threadVars, graphVars, countVars
    <2>4. TearingDown(t)' /\ Reporting(t)'
      BY <1>1, <1>6 DEF TearingDown, Reporting, Joining
    <2> QED
      BY <1>1, <2>1, <2>3, <2>4, HolderStep
  <1>7. CASE pc' = [pc EXCEPT ![t] = "unwind"] /\ UNCHANGED objects
    <2>1. DataOK'
      BY <1>1, <1>2, <1>7 DEF DataOK, threadVars, updateVars, graphVars, teardownVars
    <2>2. pc'[t] = "unwind" /\ "unwind" \in Holding
      BY <1>2, <1>7 DEF Holding
    <2>3. SettingUp(t)'
      BY <1>1, <1>2, <1>7, <2>2 DEF SettingUp, First, Order, threadVars, graphVars, countVars
    <2>4. TearingDown(t)' /\ Reporting(t)'
      BY <2>2 DEF TearingDown, Reporting, Joining
    <2> QED
      BY <1>1, <1>7, <2>1, <2>2, <2>3, <2>4, HolderStep
  <1>8. \/ objects' = First(k + 1) /\ UNCHANGED pc
        \/ pc' = [pc EXCEPT ![t] = "unwind"] /\ UNCHANGED objects
    <2>1. \/ objects' = objects \cup {Order[Cardinality(Made) + 1]} /\ UNCHANGED pc
          \/ pc' = [pc EXCEPT ![t] = "unwind"] /\ UNCHANGED objects
      BY Zenon DEF SetUp, Go
    <2> QED
      BY <1>4, <2>1
  <1> QED
    BY <1>6, <1>7, <1>8

\* run_listener_thread, the last part of the set-up.
LEMMA RunListenerThreadStep ==
  ASSUME ContextInv, NEW t \in Threads, RunListenerThread(t)
  PROVE  ContextInv'
  <1>1. /\ pc[t] = "set_up" /\ pc[t] \in Holding
        /\ Cardinality(Made) = 5
        /\ UNCHANGED <<callVars, countVars, leaked, updateVars, graphVars, teardownVars>>
    BY DEF RunListenerThread, Go, Holding, Order
  <1>2. /\ SettingUp(t) /\ DataOK
        /\ pc \in [Threads -> Holding \cup {"idle", "increment", "add_node", "decrement"}]
    BY ContextInvData DEF ContextInv, TypeOK
  <1>3. PICK k \in 0..5 : objects = First(k)
    BY <1>1, <1>2 DEF SettingUp, Order
  <1>4. k = 5 /\ objects \cup {"listener_gc"} = Objects
    BY <1>1, <1>3, MadeOfPrefix, Prefixes DEF Objects
  <1>5. CASE /\ pc' = [pc EXCEPT ![t] = "hook"]
             /\ objects' = Objects /\ listener' = "starting"
             /\ thread_is_running' = TRUE /\ woken' = FALSE
    <2>1. thread_is_running' \in BOOLEAN /\ woken' \in BOOLEAN
      BY <1>5, Zenon
    <2>2. DataOK'
      BY <1>1, <1>2, <1>5, <2>1 DEF DataOK, updateVars, graphVars, teardownVars, Serving
    <2>3. pc'[t] = "hook" /\ "hook" \in Holding
      BY <1>2, <1>5 DEF Holding
    <2>4. SettingUp(t)'
      BY <1>1, <1>2, <1>5, <2>3 DEF SettingUp, graphVars, countVars, None
    <2>5. TearingDown(t)' /\ Reporting(t)'
      BY <2>3 DEF TearingDown, Reporting, Joining
    <2> QED
      BY <1>1, <1>5, <2>2, <2>3, <2>4, <2>5, HolderStep
  <1>6. CASE /\ pc' = [pc EXCEPT ![t] = "unwind"]
             /\ thread_is_running' = FALSE
             /\ UNCHANGED <<objects, listener, woken>>
    <2>1. thread_is_running' \in BOOLEAN
      BY <1>6, Zenon
    <2>2. DataOK'
      BY <1>1, <1>2, <1>6, <2>1 DEF DataOK, updateVars, graphVars, teardownVars
    <2>3. pc'[t] = "unwind" /\ "unwind" \in Holding
      BY <1>2, <1>6 DEF Holding
    <2>4. SettingUp(t)'
      BY <1>1, <1>2, <1>6, <2>3 DEF SettingUp, First, Order, graphVars, countVars
    <2>5. TearingDown(t)' /\ Reporting(t)'
      BY <2>3 DEF TearingDown, Reporting, Joining
    <2> QED
      BY <1>1, <1>6, <2>2, <2>3, <2>4, <2>5, HolderStep
  <1> QED
    BY <1>4, <1>5, <1>6 DEF RunListenerThread, Go

\* A failed set-up releases the last object made, or the mutex when there is none.
LEMMA UnwindStep ==
  ASSUME ContextInv, NEW t \in Threads, Unwind(t)
  PROVE  ContextInv'
  <1>1. /\ pc[t] = "unwind" /\ pc[t] \in Holding
        /\ UNCHANGED <<callVars, count, nodes, leaked, threadVars, updates, graphVars,
                       teardownVars>>
        /\ pending' = pending \/ pending' = 0
        /\ dataStatus' = (dataStatus /\ "subscription" \in objects')
    BY DEF Unwind, Holding
  <1>2. /\ SettingUp(t) /\ DataOK /\ Accounted
        /\ pc \in [Threads -> Holding \cup {"idle", "increment", "add_node", "decrement"}]
    BY ContextInvData DEF ContextInv, TypeOK
  <1>3. PICK k \in 0..5 : objects = First(k)
    BY <1>1, <1>2 DEF SettingUp, Order
  <1>4. Made = 1..k /\ Cardinality(Made) = k /\ (k > 0 => objects \ {Order[k]} = First(k - 1))
    BY <1>3, MadeOfPrefix
  <1>5. Made = {} <=> k = 0
    BY <1>4
  <1>6. dataStatus' \in BOOLEAN
    BY <1>1, Zenon
  <1>7. CASE k = 0
    <2>1. objects' = {} /\ owner' = None /\ pc' = [pc EXCEPT ![t] = "idle"]
      BY <1>3, <1>5, <1>7, Prefixes DEF Unwind, Go
    <2>2. DataOK'
      BY <1>1, <1>2, <1>6, <2>1, ContextAssumption DEF DataOK, threadVars, graphVars, teardownVars
    <2>3. Bare' /\ count' = 0
      BY <1>1, <1>2, <2>1 DEF SettingUp, Bare, threadVars, graphVars
    <2>4. Accounted'
      <3>1. \A u \in Threads : Referring(u)' = Referring(u)
        BY <1>1, <1>2, <2>1 DEF Referring
      <3> QED
        BY <1>1, <1>2, <3>1, SameReferences
    <2>5. (IF count' = 0 THEN Bare' ELSE Whole') /\ count' \in Nat
      BY <2>3
    <2>6. UNCHANGED <<callVars, nodes>>
      BY <1>1
    <2> QED
      BY <1>1, <2>1, <2>2, <2>4, <2>5, <2>6, Release
  <1>8. CASE k > 0
    <2>1. objects' = First(k - 1) /\ UNCHANGED <<pc, owner>>
      <3>1. Made # {}
        BY <1>5, <1>8
      <3>2. objects' = objects \ {Order[Cardinality(Made)]} /\ UNCHANGED <<pc, owner>>
        BY <3>1, Zenon DEF Unwind
      <3> QED
        BY <1>4, <1>8, <3>2
    <2>2. objects' \subseteq Objects
      BY <1>2, <1>4, <1>8, <2>1 DEF DataOK
    <2>3. DataOK'
      BY <1>1, <1>2, <1>6, <2>2, ContextAssumption DEF DataOK, threadVars, graphVars, teardownVars
    <2>4. k - 1 \in 0..5
      BY <1>8
    <2>5. SettingUp(t)'
      BY <1>1, <1>2, <2>1, <2>4 DEF SettingUp, First, Order, threadVars, graphVars
    <2>6. TearingDown(t)' /\ Reporting(t)' /\ pc' = [pc EXCEPT ![t] = "unwind"]
      BY <1>1, <1>2, <2>1 DEF TearingDown, Reporting, Joining
    <2> QED
      BY <1>1, <2>1, <2>3, <2>5, <2>6, HolderStep DEF countVars
  <1> QED
    BY <1>7, <1>8

\* The hooks of the graph cache.
LEMMA HookStep ==
  ASSUME ContextInv, NEW t \in Threads, Hook(t)
  PROVE  ContextInv'
  <1>1. /\ UNCHANGED <<callVars, countVars, objectVars, threadVars, updateVars, teardownVars>>
        /\ SettingUp(t) /\ DataOK
        /\ pc \in [Threads -> Holding \cup {"idle", "increment", "add_node", "decrement"}]
    BY ContextInvData DEF ContextInv, TypeOK, Hook
  <1>2. CASE /\ pc[t] = "hook" /\ pc' = [pc EXCEPT ![t] = "enter"]
             /\ on_change' = TRUE /\ UNCHANGED in_graph
    <2>1. pc'[t] = "enter" /\ {"hook", "enter"} \subseteq Holding
      BY <1>1, <1>2 DEF Holding
    <2>2. on_change' \in BOOLEAN
      BY <1>2, Zenon
    <2>3. DataOK'
      BY <1>1, <1>2, <2>2 DEF DataOK, objectVars, threadVars, updateVars, teardownVars
    <2>4. SettingUp(t)' /\ TearingDown(t)' /\ Reporting(t)'
      BY <1>1, <1>2, <2>1
      DEF SettingUp, TearingDown, Reporting, Joining, countVars, objectVars, threadVars
    <2> QED
      BY <1>1, <1>2, <2>1, <2>3, <2>4, HolderStep
  <1>3. CASE /\ pc[t] = "enter" /\ pc' = [pc EXCEPT ![t] = "count"]
             /\ in_graph' = TRUE /\ UNCHANGED on_change
    <2>1. pc'[t] = "count" /\ {"enter", "count"} \subseteq Holding
      BY <1>1, <1>3 DEF Holding
    <2>2. in_graph' \in BOOLEAN
      BY <1>3, Zenon
    <2>3. DataOK'
      BY <1>1, <1>3, <2>2 DEF DataOK, objectVars, threadVars, updateVars, teardownVars
    <2>4. SettingUp(t)' /\ TearingDown(t)' /\ Reporting(t)'
      BY <1>1, <1>3, <2>1
      DEF SettingUp, TearingDown, Reporting, Joining, Whole, countVars, objectVars, threadVars
    <2> QED
      BY <1>1, <1>3, <2>1, <2>3, <2>4, HolderStep
  <1> QED
    BY <1>2, <1>3 DEF Hook, Go

\* The reference is counted and the mutex is released.
LEMMA CountStep ==
  ASSUME ContextInv, NEW t \in Threads, Count(t)
  PROVE  ContextInv'
  <1>1. /\ pc[t] = "count" /\ pc' = [pc EXCEPT ![t] = "add_node"] /\ pc[t] \in Holding
        /\ count' = count + 1 /\ owner' = None
        /\ UNCHANGED <<callVars, nodes, objectVars, threadVars, updateVars, graphVars,
                       teardownVars>>
    BY DEF Count, Go, Holding
  <1>2. /\ SettingUp(t) /\ DataOK /\ TypeOK /\ Accounted /\ count \in Nat
        /\ nodes \in [Threads -> Nat]
        /\ pc \in [Threads -> Holding \cup {"idle", "increment", "add_node", "decrement"}]
    BY ContextInvData DEF ContextInv, TypeOK
  <1>3. DataOK'
    BY <1>1, <1>2 DEF DataOK, objectVars, threadVars, updateVars, graphVars, teardownVars
  <1>4. Whole' /\ count' # 0 /\ count' \in Nat
    BY <1>1, <1>2 DEF SettingUp, Whole, objectVars, threadVars, graphVars
  <1>5. Accounted'
    <2>1. Referring(t)' = Referring(t) + 1
      BY <1>1, <1>2 DEF Referring
    <2>2. \A u \in Threads \ {t} : Referring(u)' = Referring(u)
      BY <1>1, <1>2 DEF Referring
    <2> QED
      BY <1>1, <1>2, <2>1, <2>2, OneMore
  <1> QED
    BY <1>1, <1>3, <1>4, <1>5, Release

\* The node gets the reference of the call, or the call gives it back.
LEMMA AddNodeStep ==
  ASSUME ContextInv, NEW t \in Threads, AddNode(t)
  PROVE  ContextInv'
  <1>1. /\ pc[t] = "add_node" /\ pc[t] \notin Holding
        /\ UNCHANGED <<callVars, owner, count, objectVars, threadVars, updateVars, graphVars,
                       teardownVars>>
    BY DEF AddNode, Go, Holding
  <1>2. /\ TypeOK /\ Accounted /\ Finalized
        /\ count \in Nat /\ nodes \in [Threads -> Nat]
        /\ calls \in 0..MaxCalls /\ is_shutdown \in BOOLEAN
        /\ pc \in [Threads -> Holding \cup {"idle", "increment", "add_node", "decrement"}]
    BY DEF ContextInv, TypeOK
  <1>3. initialized
    BY <1>1, <1>2 DEF Finalized, NoCalls
  <1>4. PICK q \in {"idle", "decrement"} :
          /\ pc' = [pc EXCEPT ![t] = q]
          /\ nodes' = IF q = "idle" THEN [nodes EXCEPT ![t] = @ + 1] ELSE nodes
    BY DEF AddNode, Go
  <1>5. \A u \in Threads : Referring(u)' = Referring(u)
    <2>1. ASSUME NEW u \in Threads, u # t PROVE Referring(u)' = Referring(u)
      BY <1>2, <1>4, <2>1 DEF Referring
    <2>2. Referring(t)' = Referring(t)
      BY <1>1, <1>2, <1>4 DEF Referring
    <2> QED
      BY <2>1, <2>2
  <1>6. Accounted'
    BY <1>1, <1>2, <1>5, SameReferences
  <1>7. nodes' \in [Threads -> Nat]
    BY <1>2, <1>4
  <1> QED
    BY <1>1, <1>2, <1>3, <1>4, <1>6, <1>7, OutsideStep DEF callVars

\* rmw_destroy_node: the call keeps the reference of the node.
LEMMA DestroyNodeStep ==
  ASSUME ContextInv, NEW t \in Threads, DestroyNode(t)
  PROVE  ContextInv'
  <1>1. /\ pc[t] = "idle" /\ pc[t] \notin Holding
        /\ pc' = [pc EXCEPT ![t] = "decrement"]
        /\ nodes[t] > 0 /\ nodes' = [nodes EXCEPT ![t] = @ - 1]
        /\ calls < MaxCalls /\ calls' = calls + 1
        /\ UNCHANGED <<initialized, is_shutdown, owner, count, objectVars, threadVars,
                       updateVars, graphVars, teardownVars>>
    BY DEF DestroyNode, Go, Call, Holding
  <1>2. /\ TypeOK /\ Accounted /\ Finalized
        /\ count \in Nat /\ nodes \in [Threads -> Nat]
        /\ calls \in 0..MaxCalls /\ is_shutdown \in BOOLEAN
        /\ pc \in [Threads -> Holding \cup {"idle", "increment", "add_node", "decrement"}]
    BY DEF ContextInv, TypeOK
  <1>3. initialized
    <2>1. Referring(t) > 0
      BY <1>1, <1>2 DEF Referring
    <2>2. count > 0
      BY <1>2, <2>1, ReferringIsCounted
    <2> QED
      BY <2>2 DEF ContextInv, Finalized
  <1>4. \A u \in Threads : Referring(u)' = Referring(u)
    <2>1. ASSUME NEW u \in Threads, u # t PROVE Referring(u)' = Referring(u)
      BY <1>1, <1>2, <2>1 DEF Referring
    <2>2. Referring(t)' = Referring(t)
      BY <1>1, <1>2 DEF Referring
    <2> QED
      BY <2>1, <2>2
  <1>5. Accounted'
    BY <1>1, <1>2, <1>4, SameReferences
  <1>6. nodes' \in [Threads -> Nat] /\ calls' \in 0..MaxCalls
    BY <1>1, <1>2, ContextAssumption
  <1> QED
    BY <1>1, <1>2, <1>3, <1>5, <1>6, OutsideStep

\* What the teardown has left, stage by stage.
LEMMA LeftIs ==
  /\ \A p \in Joining : Left(p) = Objects
  /\ Left("leave") = Objects \ {"listener_gc"} /\ Left("reader") = Objects \ {"listener_gc"}
  /\ Left("writer") = {"common", "participant", "publisher", "graph_guard"}
  /\ Left("participant") = {"common", "participant", "graph_guard"}
  /\ Left("clear") = {"common", "graph_guard"}
  BY DEF Left, Joining

\* decrement_context_impl_ref_count: the last reference starts the teardown, with the mutex.
LEMMA DecrementStep ==
  ASSUME ContextInv, NEW t \in Threads, Decrement(t)
  PROVE  ContextInv'
  <1>1. /\ pc[t] = "decrement" /\ pc[t] \notin Holding
        /\ owner = None /\ count' = count - 1
        /\ UNCHANGED <<callVars, nodes, objectVars, threadVars, updateVars, graphVars>>
    BY DEF Decrement, Go, Holding
  <1>2. /\ TypeOK /\ DataOK /\ Accounted /\ AtRest /\ Finalized
        /\ count \in Nat /\ nodes \in [Threads -> Nat]
        /\ calls \in 0..MaxCalls /\ is_shutdown \in BOOLEAN
        /\ pc \in [Threads -> Holding \cup {"idle", "increment", "add_node", "decrement"}]
    BY ContextInvData DEF ContextInv, TypeOK
  <1>3. Referring(t) = nodes[t] + 1 /\ nodes[t] \in Nat
    BY <1>1, <1>2 DEF Referring
  <1>4. count > 0 /\ Whole
    BY <1>1, <1>2, <1>3, ReferringIsCounted DEF AtRest
  <1>5. initialized
    BY <1>4 DEF ContextInv, Finalized
  <1>6. ASSUME NEW q \in {"idle", "stop"}, pc' = [pc EXCEPT ![t] = q] PROVE Accounted'
    <2>1. Referring(t)' = nodes[t]
      BY <1>1, <1>2, <1>6 DEF Referring
    <2>2. \A u \in Threads \ {t} : Referring(u)' = Referring(u)
      BY <1>1, <1>2, <1>6 DEF Referring
    <2>3. Referring(t) > 0 /\ Referring(t)' = Referring(t) - 1
      BY <1>3, <2>1
    <2> QED
      BY <1>1, <1>2, <2>2, <2>3, OneLess
  <1>7. CASE count > 1
    <2>1. /\ pc' = [pc EXCEPT ![t] = "idle"]
          /\ UNCHANGED <<owner, teardownVars>>
      BY <1>7 DEF Decrement, Go
    <2>2. Accounted' /\ count' \in Nat /\ count' > 0
      BY <1>1, <1>2, <1>6, <1>7, <2>1
    <2>3. UNCHANGED <<initialized, owner, objectVars, threadVars, updateVars, graphVars,
                      teardownVars>>
      BY <1>1, <2>1 DEF callVars
    <2>4. calls' \in 0..MaxCalls /\ is_shutdown' \in BOOLEAN /\ nodes' \in [Threads -> Nat]
      BY <1>1, <1>2 DEF callVars
    <2> QED
      BY <1>1, <1>4, <1>5, <2>1, <2>2, <2>3, <2>4, OutsideStep
  <1>8. CASE count = 1
    <2>1. /\ pc' = [pc EXCEPT ![t] = "stop"] /\ owner' = t
          /\ ret' = "ok" /\ failures' = {} /\ count' = 0
      BY <1>1, <1>8 DEF Decrement, Go
    <2>2. /\ pc'[t] = "stop" /\ "stop" \in Holding
          /\ \A u \in Threads : u # t => pc'[u] = pc[u] /\ pc[u] \notin Holding
      BY <1>1, <1>2, <2>1, Mutex DEF Holding
    <2>3. DataOK'
      BY <1>1, <1>2, <2>1 DEF DataOK, objectVars, threadVars, updateVars, graphVars
    <2>4. TypeOK'
      <3>1. pc' \in [Threads -> Holding \cup {"idle", "increment", "add_node", "decrement"}]
        BY <1>2, <2>1, <2>2
      <3>2. \A u \in Threads : pc'[u] \in Holding <=> owner' = u
        BY <2>1, <2>2
      <3> QED
        BY <1>1, <1>2, <2>1, <2>3, <3>1, <3>2 DEF TypeOK, DataOK, callVars
    <2>5. AtRest' /\ Finalized' /\ Accounted'
      <3>1. owner' # None /\ initialized'
        BY <1>1, <1>5, <2>1, ContextAssumption DEF callVars
      <3> QED
        BY <1>6, <2>1, <3>1 DEF AtRest, Finalized
    <2>6. ASSUME NEW u \in Threads, u # t
          PROVE  SettingUp(u)' /\ TearingDown(u)' /\ Reporting(u)'
      <3>1. pc'[u] \notin Holding
        BY <2>2, <2>6
      <3> QED
        BY <3>1 DEF SettingUp, TearingDown, Reporting, Joining, Holding
    <2>7. SettingUp(t)' /\ TearingDown(t)' /\ Reporting(t)'
      BY <1>1, <1>4, <2>1, <2>2, LeftIs
      DEF SettingUp, TearingDown, Reporting, Joining, Whole, objectVars, threadVars, graphVars
    <2> QED
      BY <2>3, <2>4, <2>5, <2>6, <2>7 DEF ContextInv, DataOK
  <1> QED
    BY <1>2, <1>4, <1>7, <1>8

\* What a stage of the teardown starts from, and what it must leave.
LEMMA StageStep ==
  ASSUME ContextInv, NEW t \in Threads, pc[t] \in Holding \ {"set_up", "unwind", "hook", "enter"},
         NEW q \in Joining \cup {"leave", "reader", "writer", "participant", "clear", "delete"},
         pc' = [pc EXCEPT ![t] = q],
         UNCHANGED <<callVars, countVars>>, DataOK', TearingDown(t)', Reporting(t)'
  PROVE  ContextInv'
  <1>1. q \in Holding
    BY DEF Holding, Joining
  <1>2. pc'[t] = q
    BY DEF ContextInv, TypeOK
  <1>3. SettingUp(t)'
    BY <1>2 DEF SettingUp, Joining
  <1> QED
    BY <1>1, <1>3, HolderStep

\* join_listener_thread: clear the flag, wake the thread.
LEMMA StopListenerStep ==
  ASSUME ContextInv, NEW t \in Threads, StopListener(t)
  PROVE  ContextInv'
  <1>1. /\ UNCHANGED <<callVars, countVars, objectVars, listener, updateVars, graphVars,
                       teardownVars>>
        /\ TearingDown(t) /\ Reporting(t) /\ DataOK
        /\ pc \in [Threads -> Holding \cup {"idle", "increment", "add_node", "decrement"}]
    BY ContextInvData DEF ContextInv, TypeOK, StopListener
  <1>2. PICK q \in {"trigger", "join"} :
          /\ pc' = [pc EXCEPT ![t] = q] /\ pc[t] \in {"stop", "trigger"}
    BY DEF StopListener, Go
  <1>3. thread_is_running' \in BOOLEAN /\ woken' \in BOOLEAN
    BY <1>1, Zenon DEF StopListener, DataOK
  <1>4. DataOK'
    BY <1>1, <1>3 DEF DataOK, objectVars, updateVars, graphVars, teardownVars
  <1>5. pc'[t] = q /\ q \in Joining /\ pc[t] \in Joining
    BY <1>1, <1>2 DEF Joining
  <1>6. objects' = Objects /\ on_change' /\ in_graph' /\ listener' # None /\ count' = 0
    BY <1>1, <1>5, LeftIs DEF TearingDown, countVars, objectVars, graphVars
  <1>7. TearingDown(t)' /\ Reporting(t)'
    BY <1>1, <1>2, <1>5, <1>6, LeftIs DEF TearingDown, Reporting, Joining, teardownVars
  <1>8. pc[t] \in Holding \ {"set_up", "unwind", "hook", "enter"}
    BY <1>2 DEF Holding
  <1> QED
    BY <1>1, <1>2, <1>4, <1>5, <1>7, <1>8, StageStep

\* The listener thread is joined, and its guard condition deleted.
LEMMA JoinStep ==
  ASSUME ContextInv, NEW t \in Threads, Join(t)
  PROVE  ContextInv'
  <1>1. /\ pc[t] = "join" /\ pc' = [pc EXCEPT ![t] = "leave"]
        /\ listener' = None /\ objects' = objects \ {"listener_gc"}
        /\ UNCHANGED <<callVars, countVars, leaked, thread_is_running, woken, updateVars,
                       graphVars, teardownVars>>
    BY DEF Join, Go
  <1>2. /\ TearingDown(t) /\ Reporting(t) /\ DataOK
        /\ pc \in [Threads -> Holding \cup {"idle", "increment", "add_node", "decrement"}]
    BY ContextInvData DEF ContextInv, TypeOK
  <1>3. DataOK'
    BY <1>1, <1>2 DEF DataOK, updateVars, graphVars, teardownVars
  <1>4. pc'[t] = "leave"
    BY <1>1, <1>2
  <1>5. TearingDown(t)' /\ Reporting(t)'
    BY <1>1, <1>2, <1>4, LeftIs
    DEF TearingDown, Reporting, Joining, countVars, graphVars, teardownVars
  <1>6. pc[t] \in Holding \ {"set_up", "unwind", "hook", "enter"}
    BY <1>1 DEF Holding
  <1> QED
    BY <1>1, <1>3, <1>5, <1>6, StageStep

\* The participant leaves the graph.
LEMMA LeaveGraphStep ==
  ASSUME ContextInv, NEW t \in Threads, LeaveGraph(t)
  PROVE  ContextInv'
  <1>1. /\ pc[t] = "leave" /\ pc' = [pc EXCEPT ![t] = "reader"]
        /\ in_graph' = FALSE
        /\ UNCHANGED <<callVars, countVars, objectVars, threadVars, updateVars, on_change,
                       teardownVars>>
    BY DEF LeaveGraph, Go
  <1>2. /\ TearingDown(t) /\ Reporting(t) /\ DataOK
        /\ pc \in [Threads -> Holding \cup {"idle", "increment", "add_node", "decrement"}]
    BY ContextInvData DEF ContextInv, TypeOK
  <1>3. in_graph' \in BOOLEAN
    BY <1>1, Zenon
  <1>4. DataOK'
    BY <1>1, <1>2, <1>3 DEF DataOK, objectVars, threadVars, updateVars, teardownVars
  <1>5. pc'[t] = "reader"
    BY <1>1, <1>2
  <1>6. TearingDown(t)' /\ Reporting(t)'
    BY <1>1, <1>2, <1>5, LeftIs
    DEF TearingDown, Reporting, Joining, countVars, objectVars, threadVars, teardownVars
  <1>7. pc[t] \in Holding \ {"set_up", "unwind", "hook", "enter"}
    BY <1>1 DEF Holding
  <1> QED
    BY <1>1, <1>4, <1>6, <1>7, StageStep

\* The reader is deleted: an error is kept in ret.
LEMMA DestroySubscriptionStep ==
  ASSUME ContextInv, NEW t \in Threads, DestroySubscription(t)
  PROVE  ContextInv'
  <1>1. /\ pc[t] = "reader" /\ pc' = [pc EXCEPT ![t] = "writer"]
        /\ objects' = objects \ {"subscription"}
        /\ \/ UNCHANGED <<leaked, failures>>
           \/ /\ leaked' = leaked \cup {"subscription"}
              /\ failures' = failures \cup {"reader"}
        /\ ret' = IF failures' = failures THEN "ok" ELSE "reader"
        /\ pending' = 0 /\ dataStatus' = FALSE
        /\ UNCHANGED <<callVars, countVars, threadVars, updates, graphVars>>
    BY DEF DestroySubscription, Delete, Go
  <1>2. /\ TearingDown(t) /\ Reporting(t) /\ DataOK
        /\ pc \in [Threads -> Holding \cup {"idle", "increment", "add_node", "decrement"}]
    BY ContextInvData DEF ContextInv, TypeOK
  <1>3. dataStatus' \in BOOLEAN
    BY <1>1, Zenon
  <1>4. DataOK'
    <2>1. objects' \subseteq Objects /\ leaked' \subseteq {"publisher", "subscription"}
      BY <1>1, <1>2 DEF DataOK
    <2>2. ret' \in {"ok", "reader", "writer"} /\ failures' \subseteq {"reader", "writer"}
      BY <1>1, <1>2 DEF DataOK
    <2>3. pending' \in 0..MaxUpdates /\ updates' \in 0..MaxUpdates /\ pending' <= updates'
      BY <1>1, <1>2, ContextAssumption DEF DataOK
    <2> QED
      BY <1>1, <1>2, <1>3, <2>1, <2>2, <2>3 DEF DataOK, threadVars, graphVars
  <1>5. pc'[t] = "writer"
    BY <1>1, <1>2
  <1>6. objects' = Left("writer")
    BY <1>1, <1>2, LeftIs DEF TearingDown, Objects
  <1>7. TearingDown(t)'
    BY <1>1, <1>2, <1>5, <1>6 DEF TearingDown, Joining, countVars, threadVars, graphVars
  <1>8. Reporting(t)'
    <2>1. failures = {}
      BY <1>1, <1>2 DEF Reporting
    <2>2. ret' = "ok" => failures' = {}
      BY <1>1, <2>1
    <2> QED
      BY <1>5, <2>2 DEF Reporting, Joining
  <1>9. pc[t] \in Holding \ {"set_up", "unwind", "hook", "enter"}
    BY <1>1 DEF Holding
  <1> QED
    BY <1>1, <1>4, <1>7, <1>8, <1>9, StageStep

\* The writer is deleted: its error is kept only if there was one already.
LEMMA DestroyPublisherStep ==
  ASSUME ContextInv, NEW t \in Threads, DestroyPublisher(t)
  PROVE  ContextInv'
  <1>1. /\ pc[t] = "writer" /\ pc' = [pc EXCEPT ![t] = "participant"]
        /\ objects' = objects \ {"publisher"}
        /\ \/ UNCHANGED <<leaked, failures>>
           \/ /\ leaked' = leaked \cup {"publisher"}
              /\ failures' = failures \cup {"writer"}
        /\ ret' = IF ret # "ok" /\ failures' # failures THEN "writer" ELSE ret
        /\ UNCHANGED <<callVars, countVars, threadVars, updateVars, graphVars>>
    BY DEF DestroyPublisher, Delete, Go
  <1>2. /\ TearingDown(t) /\ Reporting(t) /\ DataOK
        /\ pc \in [Threads -> Holding \cup {"idle", "increment", "add_node", "decrement"}]
    BY ContextInvData DEF ContextInv, TypeOK
  <1>3. DataOK'
    BY <1>1, <1>2 DEF DataOK, threadVars, updateVars, graphVars
  <1>4. pc'[t] = "participant"
    BY <1>1, <1>2
  <1>5. objects' = Left("participant")
    BY <1>1, <1>2, LeftIs DEF TearingDown, Objects
  <1>6. TearingDown(t)'
    BY <1>1, <1>2, <1>4, <1>5 DEF TearingDown, Joining, countVars, threadVars, graphVars
  <1>7. Reporting(t)'
    <2>1. ret' = "ok" => ret = "ok"
      BY <1>1
    <2>2. ret = "ok" => failures' \subseteq {"writer"}
      BY <1>1, <1>2 DEF Reporting
    <2> QED
      BY <1>4, <2>1, <2>2 DEF Reporting, Joining
  <1>8. pc[t] \in Holding \ {"set_up", "unwind", "hook", "enter"}
    BY <1>1 DEF Holding
  <1> QED
    BY <1>1, <1>3, <1>6, <1>7, <1>8, StageStep

\* The participant is deleted.
LEMMA DestroyParticipantStep ==
  ASSUME ContextInv, NEW t \in Threads, DestroyParticipant(t)
  PROVE  ContextInv'
  <1>1. /\ pc[t] = "participant" /\ pc' = [pc EXCEPT ![t] = "clear"]
        /\ objects' = objects \ {"participant"}
        /\ UNCHANGED <<callVars, countVars, leaked, threadVars, updateVars, graphVars,
                       teardownVars>>
    BY DEF DestroyParticipant, Go
  <1>2. /\ TearingDown(t) /\ Reporting(t) /\ DataOK
        /\ pc \in [Threads -> Holding \cup {"idle", "increment", "add_node", "decrement"}]
    BY ContextInvData DEF ContextInv, TypeOK
  <1>3. DataOK'
    BY <1>1, <1>2 DEF DataOK, threadVars, updateVars, graphVars, teardownVars
  <1>4. pc'[t] = "clear"
    BY <1>1, <1>2
  <1>5. objects' = Left("clear")
    BY <1>1, <1>2, LeftIs DEF TearingDown, Objects
  <1>6. TearingDown(t)' /\ Reporting(t)'
    BY <1>1, <1>2, <1>4, <1>5
    DEF TearingDown, Reporting, Joining, countVars, threadVars, graphVars, teardownVars
  <1>7. pc[t] \in Holding \ {"set_up", "unwind", "hook", "enter"}
    BY <1>1 DEF Holding
  <1> QED
    BY <1>1, <1>3, <1>6, <1>7, StageStep

\* The callback of the graph cache is cleared.
LEMMA ClearOnChangeStep ==
  ASSUME ContextInv, NEW t \in Threads, ClearOnChange(t)
  PROVE  ContextInv'
  <1>1. /\ pc[t] = "clear" /\ pc' = [pc EXCEPT ![t] = "delete"]
        /\ on_change' = FALSE
        /\ UNCHANGED <<callVars, countVars, objectVars, threadVars, updateVars, in_graph,
                       teardownVars>>
    BY DEF ClearOnChange, Go
  <1>2. /\ TearingDown(t) /\ Reporting(t) /\ DataOK
        /\ pc \in [Threads -> Holding \cup {"idle", "increment", "add_node", "decrement"}]
    BY ContextInvData DEF ContextInv, TypeOK
  <1>3. on_change' \in BOOLEAN
    BY <1>1, Zenon
  <1>4. DataOK'
    BY <1>1, <1>2, <1>3 DEF DataOK, objectVars, threadVars, updateVars, teardownVars
  <1>5. pc'[t] = "delete"
    BY <1>1, <1>2
  <1>6. TearingDown(t)' /\ Reporting(t)'
    BY <1>1, <1>2, <1>5, LeftIs
    DEF TearingDown, Reporting, Joining, countVars, objectVars, threadVars, teardownVars
  <1>7. pc[t] \in Holding \ {"set_up", "unwind", "hook", "enter"}
    BY <1>1 DEF Holding
  <1> QED
    BY <1>1, <1>4, <1>6, <1>7, StageStep

\* The last objects are deleted and the mutex is released.
LEMMA DeleteCommonStep ==
  ASSUME ContextInv, NEW t \in Threads, DeleteCommon(t)
  PROVE  ContextInv'
  <1>1. /\ pc[t] = "delete" /\ pc[t] \in Holding
        /\ UNCHANGED <<callVars, count, nodes, leaked, threadVars, updateVars, graphVars,
                       teardownVars>>
    BY DEF DeleteCommon, Go, Holding
  <1>2. /\ TearingDown(t) /\ Reporting(t) /\ DataOK /\ Accounted
        /\ pc \in [Threads -> Holding \cup {"idle", "increment", "add_node", "decrement"}]
    BY ContextInvData DEF ContextInv, TypeOK
  <1>3. CASE /\ "graph_guard" \in objects /\ objects' = objects \ {"graph_guard"}
             /\ UNCHANGED <<pc, owner>>
    <2>1. DataOK'
      BY <1>1, <1>2, <1>3 DEF DataOK, threadVars, updateVars, graphVars, teardownVars
    <2>2. objects' = {"common"}
      BY <1>1, <1>2, <1>3 DEF TearingDown
    <2>3. TearingDown(t)' /\ Reporting(t)'
      BY <1>1, <1>2, <1>3, <2>2
      DEF TearingDown, Reporting, Joining, threadVars, graphVars, teardownVars
    <2>4. pc' = [pc EXCEPT ![t] = "delete"]
      BY <1>1, <1>2, <1>3
    <2> QED
      BY <1>1, <1>3, <2>1, <2>3, <2>4, StageStep DEF countVars
  <1>4. CASE /\ "graph_guard" \notin objects /\ objects' = objects \ {"common"}
             /\ pc' = [pc EXCEPT ![t] = "idle"] /\ owner' = None
    <2>1. DataOK'
      BY <1>1, <1>2, <1>4 DEF DataOK, threadVars, updateVars, graphVars, teardownVars
    <2>2. Bare' /\ count' = 0
      BY <1>1, <1>2, <1>4 DEF TearingDown, Bare, threadVars, graphVars
    <2>3. Accounted'
      <3>1. \A u \in Threads : Referring(u)' = Referring(u)
        BY <1>1, <1>2, <1>4 DEF Referring
      <3> QED
        BY <1>1, <1>2, <3>1, SameReferences
    <2>4. (IF count' = 0 THEN Bare' ELSE Whole') /\ count' \in Nat
      BY <2>2
    <2>5. UNCHANGED <<callVars, nodes>>
      BY <1>1
    <2> QED
      BY <1>1, <1>4, <2>1, <2>3, <2>4, <2>5, Release
  <1> QED
    BY <1>3, <1>4 DEF DeleteCommon, Go

------------------------------------------------------------------------------
(***************************************************************************)
(* The theorems.                                                           *)
(***************************************************************************)

\* A step in which nothing changes.
LEMMA StutterStep ==
  ASSUME ContextInv, UNCHANGED vars
  PROVE  ContextInv'
  <1>1. UNCHANGED <<calls, initialized, is_shutdown, owner, count, nodes, pc, objects, leaked,
                    listener, thread_is_running, woken, updates, pending, dataStatus, on_change,
                    in_graph, ret, failures>>
    BY DEF vars, callVars, countVars, objectVars, threadVars, updateVars, graphVars, teardownVars
  <1>2. TypeOK' /\ pending' <= updates'
    BY <1>1 DEF ContextInv, TypeOK
  <1>3. Accounted'
    BY <1>1, SameReferences DEF ContextInv, Referring
  <1>4. AtRest' /\ Finalized'
    BY <1>1 DEF ContextInv, AtRest, Finalized, NoCalls, Bare, Whole
  <1>5. ASSUME NEW t \in Threads PROVE SettingUp(t)' /\ TearingDown(t)' /\ Reporting(t)'
    BY <1>1 DEF ContextInv, SettingUp, TearingDown, Reporting, Whole
  <1> QED
    BY <1>2, <1>3, <1>4, <1>5 DEF ContextInv

\* Every step keeps the inductive invariant.
LEMMA NextContextInv ==
  ASSUME ContextInv, [Next]_vars
  PROVE  ContextInv'
  <1>1. CASE RmwInit \/ RmwShutdown \/ RmwContextFini
    BY <1>1, ApplicationStep
  <1>2. ASSUME NEW t \in Threads, CreateNode(t) \/ DestroyNode(t) PROVE ContextInv'
    BY <1>2, CreateNodeStep, DestroyNodeStep
  <1>3. ASSUME NEW t \in Threads, CreateStep(t) PROVE ContextInv'
    BY <1>3, IncrementStep, SetUpStep, RunListenerThreadStep, UnwindStep, HookStep, CountStep,
       AddNodeStep
    DEF CreateStep
  <1>4. ASSUME NEW t \in Threads, DestroyStep(t) PROVE ContextInv'
    BY <1>4, DecrementStep, StopListenerStep, JoinStep, LeaveGraphStep, DestroySubscriptionStep,
       DestroyPublisherStep, DestroyParticipantStep, ClearOnChangeStep, DeleteCommonStep
    DEF DestroyStep
  <1>5. CASE ListenerStep \/ WaitFails \/ UpdateArrives
    BY <1>5, OthersStep
  <1>6. CASE UNCHANGED vars
    BY <1>6, StutterStep
  <1> QED
    BY <1>1, <1>2, <1>3, <1>4, <1>5, <1>6 DEF Next, ThreadStep

\* ContextInv is an invariant: at each stage of the set-up and of the teardown exactly the
\* objects that the code has made, or has not deleted yet, are there.
THEOREM ContextInvariant == Spec => []ContextInv
  <1>1. ContextInv /\ [Next]_vars => ContextInv'
    BY NextContextInv
  <1> QED
    BY InitContextInv, <1>1, PTL DEF Spec

\* The types, for any threads and bounds; the holder of the mutex is the one in a stage.
THEOREM TypeCorrect == Spec => []TypeOK
  <1>1. ContextInv => TypeOK
    BY DEF ContextInv
  <1> QED
    BY ContextInvariant, <1>1, PTL

\* What each stage has is what NothingUsedIsGone asks for.
LEMMA StagesAreSafe == ContextInv => NothingUsedIsGone
  <1> SUFFICES ASSUME ContextInv PROVE NothingUsedIsGone
    OBVIOUS
  <1>1. CASE owner = None
    BY <1>1 DEF ContextInv, AtRest, Bare, Whole, NothingUsedIsGone, Objects, Serving, None
  <1>2. CASE owner # None
    <2>1. owner \in Threads /\ pc[owner] \in Holding
      BY <1>2 DEF ContextInv, TypeOK
    <2>2. SettingUp(owner) /\ TearingDown(owner) /\ None \notin Serving
      BY <2>1 DEF ContextInv, None, Serving
    <2>3. CASE pc[owner] \in {"set_up", "unwind"}
      <3>1. PICK k \in 0..5 : objects = First(k)
        BY <2>2, <2>3 DEF SettingUp, Order
      <3>2. k \in {0, 1, 2, 3, 4, 5}
        OBVIOUS
      <3>3. objects \cap {"participant", "publisher", "subscription"} # {} =>
              {"common", "participant"} \subseteq objects
        BY <3>1, <3>2, Prefixes DEF Objects
      <3> QED
        BY <2>2, <2>3, <3>3 DEF SettingUp, NothingUsedIsGone
    <2>4. CASE pc[owner] \in {"hook", "enter", "count"} \cup Joining
      <3>1. objects = Objects
        BY <2>2, <2>4, LeftIs DEF SettingUp, TearingDown, Whole
      <3> QED
        BY <3>1 DEF NothingUsedIsGone, Objects
    <2>5. CASE pc[owner] \in {"leave", "reader", "writer", "participant", "clear", "delete"}
      <3>1. listener = None
        BY <2>2, <2>5 DEF TearingDown, Joining
      <3>2. /\ objects \cap {"participant", "publisher", "subscription"} # {} =>
                 {"common", "participant"} \subseteq objects
            /\ on_change => {"common", "graph_guard"} \subseteq objects
        BY <2>2, <2>5, LeftIs DEF TearingDown, Joining, Objects
      <3> QED
        BY <2>2, <3>1, <3>2 DEF NothingUsedIsGone
    <2> QED
      BY <2>1, <2>3, <2>4, <2>5 DEF Holding, Joining
  <1> QED
    BY <1>1, <1>2

\* Neither the listener thread nor discovery nor the graph cache ever uses an object that the
\* set-up has not made or the teardown has deleted, whoever comes and goes meanwhile.
THEOREM NothingIsUsedAfterDeletion == Spec => []NothingUsedIsGone
  BY ContextInvariant, StagesAreSafe, PTL

\* The count is exactly the number of nodes and of calls with a reference, and whoever has
\* one has the whole context, though only increment and decrement take the mutex.
THEOREM ReferencesHaveContext == Spec => []UsersHaveContext
  <1>1. ContextInv => UsersHaveContext
    <2> SUFFICES ASSUME ContextInv, count > 0 PROVE Whole
      BY DEF ContextInv, Accounted, UsersHaveContext
    <2>1. CASE owner = None
      BY <2>1 DEF ContextInv, AtRest
    <2>2. CASE owner # None
      <3>1. owner \in Threads /\ pc[owner] \in Holding /\ count # 0
        BY <2>2 DEF ContextInv, TypeOK
      <3>2. SettingUp(owner) /\ TearingDown(owner)
        BY <3>1 DEF ContextInv
      <3>3. pc[owner] = "count"
        BY <3>1, <3>2 DEF SettingUp, TearingDown, Holding, Joining
      <3> QED
        BY <3>2, <3>3 DEF SettingUp
    <2> QED
      BY <2>1, <2>2
  <1> QED
    BY ContextInvariant, <1>1, PTL

\* After the last reference, after a failed set-up and after rmw_context_fini nothing is left.
THEOREM LeavesNothing == Spec => []NothingLeft
  <1>1. ContextInv => NothingLeft
    <2> SUFFICES ASSUME ContextInv, (owner = None /\ count = 0) \/ ~initialized PROVE Bare
      BY DEF NothingLeft
    <2>1. count = 0
      BY DEF ContextInv, Finalized
    <2>2. owner = None
      <3>1. CASE ~initialized
        <4>1. \A t \in Threads : pc[t] \notin Holding
          BY <3>1 DEF ContextInv, Finalized, NoCalls, Holding
        <4> QED
          BY <4>1 DEF ContextInv, TypeOK
      <3> QED
        BY <3>1
    <2> QED
      BY <2>1, <2>2 DEF ContextInv, AtRest
  <1> QED
    BY ContextInvariant, <1>1, PTL

\* The error of the teardown is returned, unless only the writer could not be deleted.
THEOREM ReturnsError == Spec => ErrorReturned
  <1>1. ContextInv /\ [Next]_vars =>
          [\A t \in Threads : pc[t] = "delete" /\ pc'[t] = "idle" /\ ret = "ok" =>
             failures \subseteq {"writer"}]_vars
    BY DEF ContextInv, Reporting
  <1> QED
    BY ContextInvariant, <1>1, PTL DEF Spec, ErrorReturned

=============================================================================
