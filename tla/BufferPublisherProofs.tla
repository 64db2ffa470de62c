------------------------ MODULE BufferPublisherProofs -------------------------
(***************************************************************************)
(* Proofs about BufferEndpointRegistry for any registrants, and about      *)
(* BufferPublisher for any subscribers and threads: the publisher uses its *)
(* registry only as the registry allows, so that what the registry         *)
(* promises holds for it; every call of its callback leaves exactly one    *)
(* entry; and at rest every matched subscriber gets what is published.     *)
(***************************************************************************)
EXTENDS BufferPublisher, FiniteSetTheorems, TLAPS

\* The registry, for any registrants, endpoints and topics.
Reg(Registrants, Endpoints, TopicOf) == INSTANCE BufferEndpointRegistry

------------------------------------------------------------------------------
(***************************************************************************)
(* The registry: a pair on one topic is called about once, neither twice   *)
(* nor never.                                                              *)
(***************************************************************************)

\* The inductive invariant: the two properties support each other, since a registrant is
\* called about what is known when it registers and about what becomes known later.
RegInv(Rs, Es, T) ==
  Reg(Rs, Es, T)!TypeOK /\ Reg(Rs, Es, T)!CalledAtMostOnce /\ Reg(Rs, Es, T)!NoPairMissed

\* It holds before anything is registered or discovered.
LEMMA InitRegInv ==
  ASSUME NEW Rs, NEW Es, NEW T, Reg(Rs, Es, T)!Init
  PROVE  RegInv(Rs, Es, T)
  <1>1. Reg(Rs, Es, T)!TypeOK
    BY DEF Reg!Init, Reg!TypeOK, Reg!Pairs
  <1>2. \A p \in Rs \X Es : calls[p] + fired[p] = 0
    BY DEF Reg!Init, Reg!Pairs
  <1>3. Reg(Rs, Es, T)!CalledAtMostOnce
    BY <1>2 DEF Reg!CalledAtMostOnce, Reg!Pairs
  <1>4. Reg(Rs, Es, T)!NoPairMissed
    BY DEF Reg!Init, Reg!NoPairMissed, Reg!Registered
  <1> QED
    BY <1>1, <1>3, <1>4 DEF RegInv

\* A registration decides the calls about everything known; no other pair of the
\* registrant has been called about before.
LEMMA RegisterStep ==
  ASSUME NEW Rs, NEW Es, NEW T, RegInv(Rs, Es, T), NEW r \in Rs, Reg(Rs, Es, T)!Register(r)
  PROVE  RegInv(Rs, Es, T)'
  <1> USE DEF RegInv
  <1>1. /\ calls' \in [Rs \X Es -> Nat]
        /\ \A p \in Rs \X Es :
             /\ p[1] = r /\ p[2] \in known /\ T[p[1]] = T[p[2]]
                  => calls'[p] = calls[p] + 1
             /\ ~(p[1] = r /\ p[2] \in known /\ T[p[1]] = T[p[2]])
                  => calls'[p] = calls[p]
    BY DEF Reg!Register, Reg!Call, Reg!TypeOK, Reg!Pairs
  <1>2. status' = [status EXCEPT ![r] = "registered"] /\ status[r] = "new"
        /\ UNCHANGED <<listening, discovered, known, fired>>
    BY DEF Reg!Register
  <1>3. Reg(Rs, Es, T)!TypeOK'
    BY <1>1, <1>2 DEF Reg!TypeOK, Reg!Pairs
  <1>4. \A p \in Rs \X Es : p[1] = r => calls[p] = 0 /\ fired[p] = 0
    <2>1. \A p \in Rs \X Es : calls[p] \in Nat /\ fired[p] \in Nat /\ calls[p] + fired[p] <= 1
      BY DEF Reg!TypeOK, Reg!CalledAtMostOnce, Reg!Pairs
    <2>2. \A p \in Rs \X Es : p[1] = r => calls[p] + fired[p] # 1
      BY <1>2 DEF Reg!CalledAtMostOnce, Reg!Pairs
    <2> QED
      BY <2>1, <2>2
  <1>5. Reg(Rs, Es, T)!CalledAtMostOnce'
    <2> SUFFICES ASSUME NEW p \in Rs \X Es
                 PROVE  /\ calls'[p] + fired'[p] <= 1
                        /\ calls'[p] + fired'[p] = 1 =>
                             p[2] \in known' /\ status'[p[1]] # "new"
                             /\ T[p[1]] = T[p[2]]
      BY DEF Reg!CalledAtMostOnce, Reg!Pairs
    <2>1. p[1] \in Rs /\ calls[p] \in Nat /\ fired[p] \in Nat
      BY DEF Reg!Pairs, Reg!TypeOK
    <2>2. CASE p[1] = r
      BY <1>1, <1>2, <1>4, <2>1, <2>2 DEF Reg!TypeOK, Reg!Pairs
    <2>3. CASE p[1] # r
      BY <1>1, <1>2, <2>1, <2>3 DEF Reg!TypeOK, Reg!CalledAtMostOnce, Reg!Pairs
    <2> QED
      BY <2>2, <2>3
  <1>6. Reg(Rs, Es, T)!NoPairMissed'
    <2> SUFFICES ASSUME NEW q \in Rs, status'[q] = "registered",
                        NEW e \in known', T[q] = T[e]
                 PROVE  calls'[<<q, e>>] + fired'[<<q, e>>] = 1
      BY DEF Reg!NoPairMissed, Reg!Registered
    <2>1. e \in known /\ <<q, e>> \in Rs \X Es
      BY <1>2 DEF Reg!TypeOK, Reg!Pairs
    <2>2. CASE q = r
      BY <1>1, <1>2, <1>4, <2>1, <2>2
    <2>3. CASE q # r
      BY <1>1, <1>2, <2>1, <2>3 DEF Reg!NoPairMissed, Reg!Registered, Reg!TypeOK, Reg!Pairs
    <2> QED
      BY <2>2, <2>3
  <1> QED
    BY <1>3, <1>5, <1>6

\* A discovery decides the calls of everybody registered, if it is the first.
LEMMA NotifyStep ==
  ASSUME NEW Rs, NEW Es, NEW T, RegInv(Rs, Es, T), NEW e \in Es, Reg(Rs, Es, T)!Notify(e)
  PROVE  RegInv(Rs, Es, T)'
  <1> USE DEF RegInv
  <1>1. CASE UNCHANGED <<known, calls>>
    BY <1>1 DEF Reg!Notify, Reg!TypeOK, Reg!CalledAtMostOnce, Reg!NoPairMissed,
                Reg!Registered, Reg!Pairs
  <1>2. CASE /\ listening /\ e \notin known /\ known' = known \cup {e}
             /\ Reg(Rs, Es, T)!Call(Reg(Rs, Es, T)!Registered, {e})
    <2>1. /\ calls' \in [Rs \X Es -> Nat]
          /\ \A p \in Rs \X Es :
               /\ p[1] \in Reg(Rs, Es, T)!Registered /\ p[2] = e /\ T[p[1]] = T[p[2]]
                    => calls'[p] = calls[p] + 1
               /\ ~(p[1] \in Reg(Rs, Es, T)!Registered /\ p[2] = e /\ T[p[1]] = T[p[2]])
                    => calls'[p] = calls[p]
      BY <1>2 DEF Reg!Call, Reg!TypeOK, Reg!Pairs
    <2>2. discovered' = discovered \cup {e} /\ UNCHANGED <<listening, status, fired>>
      BY DEF Reg!Notify
    <2>3. Reg(Rs, Es, T)!TypeOK'
      BY <1>2, <2>1, <2>2 DEF Reg!TypeOK, Reg!Pairs
    <2>4. \A p \in Rs \X Es : p[2] = e => calls[p] = 0 /\ fired[p] = 0
      <3>1. \A p \in Rs \X Es : calls[p] \in Nat /\ fired[p] \in Nat /\ calls[p] + fired[p] <= 1
        BY DEF Reg!TypeOK, Reg!CalledAtMostOnce, Reg!Pairs
      <3>2. \A p \in Rs \X Es : p[2] = e => calls[p] + fired[p] # 1
        BY <1>2 DEF Reg!CalledAtMostOnce, Reg!Pairs
      <3>3. \A m, n \in Nat : m + n <= 1 /\ m + n # 1 => m = 0 /\ n = 0
        OBVIOUS
      <3> QED
        BY <3>1, <3>2, <3>3
    <2>5. Reg(Rs, Es, T)!CalledAtMostOnce'
      <3> SUFFICES ASSUME NEW p \in Rs \X Es
                   PROVE  /\ calls'[p] + fired'[p] <= 1
                          /\ calls'[p] + fired'[p] = 1 =>
                               p[2] \in known' /\ status'[p[1]] # "new"
                               /\ T[p[1]] = T[p[2]]
        BY DEF Reg!CalledAtMostOnce, Reg!Pairs
      <3>1. p[1] \in Rs /\ calls[p] \in Nat /\ fired[p] \in Nat
        BY DEF Reg!Pairs, Reg!TypeOK
      <3>2. CASE p[2] = e
        BY <1>2, <2>1, <2>2, <2>4, <3>1, <3>2 DEF Reg!Registered
      <3>3. CASE p[2] # e
        BY <1>2, <2>1, <2>2, <3>1, <3>3 DEF Reg!CalledAtMostOnce, Reg!Pairs
      <3> QED
        BY <3>2, <3>3
    <2>6. Reg(Rs, Es, T)!NoPairMissed'
      <3> SUFFICES ASSUME NEW q \in Rs, status'[q] = "registered",
                          NEW d \in known', T[q] = T[d]
                   PROVE  calls'[<<q, d>>] + fired'[<<q, d>>] = 1
        BY DEF Reg!NoPairMissed, Reg!Registered
      <3>1. <<q, d>> \in Rs \X Es /\ q \in Reg(Rs, Es, T)!Registered
        BY <1>2, <2>2 DEF Reg!TypeOK, Reg!Pairs, Reg!Registered
      <3>2. CASE d = e
        BY <2>1, <2>2, <2>4, <3>1, <3>2
      <3>3. CASE d # e
        BY <1>2, <2>1, <2>2, <3>1, <3>3 DEF Reg!NoPairMissed
      <3> QED
        BY <3>2, <3>3
    <2> QED
      BY <2>3, <2>5, <2>6
  <1> QED
    BY <1>1, <1>2 DEF Reg!Notify

\* A call that is made moves from the decided ones to the made ones.
LEMMA FireStep ==
  ASSUME NEW Rs, NEW Es, NEW T, RegInv(Rs, Es, T), NEW r \in Rs, NEW e \in Es,
         Reg(Rs, Es, T)!Fire(r, e)
  PROVE  RegInv(Rs, Es, T)'
  <1> USE DEF RegInv
  <1>1. <<r, e>> \in Rs \X Es
    BY DEF Reg!Pairs
  <1>2. \A p \in Rs \X Es : calls[p] \in Nat /\ fired[p] \in Nat
    BY DEF Reg!TypeOK, Reg!Pairs
  <1>3. Reg(Rs, Es, T)!TypeOK'
    <2>1. calls[<<r, e>>] - 1 \in Nat /\ fired[<<r, e>>] + 1 \in Nat
      BY <1>1, <1>2 DEF Reg!Fire
    <2> QED
      BY <2>1 DEF Reg!Fire, Reg!TypeOK, Reg!Pairs
  <1>4. \A p \in Rs \X Es : calls'[p] + fired'[p] = calls[p] + fired[p]
    BY <1>1, <1>2 DEF Reg!Fire, Reg!TypeOK, Reg!Pairs
  <1>5. Reg(Rs, Es, T)!CalledAtMostOnce'
    BY <1>4 DEF Reg!CalledAtMostOnce, Reg!Fire, Reg!Pairs
  <1>6. Reg(Rs, Es, T)!NoPairMissed'
    BY <1>4 DEF Reg!NoPairMissed, Reg!Registered, Reg!Fire, Reg!TypeOK, Reg!Pairs
  <1> QED
    BY <1>3, <1>5, <1>6

\* Every step keeps the inductive invariant.
LEMMA RegStep ==
  ASSUME NEW Rs, NEW Es, NEW T, RegInv(Rs, Es, T), [Reg(Rs, Es, T)!Next]_registryVars
  PROVE  RegInv(Rs, Es, T)'
  <1>1. ASSUME Reg(Rs, Es, T)!SetDiscoveryCallback PROVE RegInv(Rs, Es, T)'
    BY <1>1 DEF RegInv, Reg!SetDiscoveryCallback, Reg!TypeOK, Reg!CalledAtMostOnce,
                Reg!NoPairMissed, Reg!Registered, Reg!Pairs
  <1>2. ASSUME NEW r \in Rs, Reg(Rs, Es, T)!Unregister(r) PROVE RegInv(Rs, Es, T)'
    <2>1. Reg(Rs, Es, T)!TypeOK'
      BY <1>2 DEF RegInv, Reg!Unregister, Reg!TypeOK, Reg!Pairs
    <2>2. Reg(Rs, Es, T)!CalledAtMostOnce'
      BY <1>2 DEF RegInv, Reg!Unregister, Reg!TypeOK, Reg!CalledAtMostOnce, Reg!Pairs
    <2>3. Reg(Rs, Es, T)!NoPairMissed'
      BY <1>2 DEF RegInv, Reg!Unregister, Reg!TypeOK, Reg!NoPairMissed, Reg!Registered, Reg!Pairs
    <2> QED
      BY <2>1, <2>2, <2>3 DEF RegInv
  <1>3. ASSUME UNCHANGED registryVars PROVE RegInv(Rs, Es, T)'
    BY <1>3 DEF RegInv, registryVars, Reg!TypeOK, Reg!CalledAtMostOnce, Reg!NoPairMissed,
                Reg!Registered, Reg!Pairs
  <1> QED
    BY <1>1, <1>2, <1>3, RegisterStep, NotifyStep, FireStep DEF Reg!Next

\* Every behaviour keeps it.
LEMMA RegInvariance ==
  ASSUME NEW CONSTANT Rs, NEW CONSTANT Es, NEW CONSTANT T
  PROVE  Reg(Rs, Es, T)!Spec => []RegInv(Rs, Es, T)
  <1>1. Reg(Rs, Es, T)!Init => RegInv(Rs, Es, T)
    BY InitRegInv
  <1>2. RegInv(Rs, Es, T) /\ [Reg(Rs, Es, T)!Next]_(Reg(Rs, Es, T)!registryVars)
          => RegInv(Rs, Es, T)'
    BY RegStep DEF Reg!registryVars, registryVars
  <1> QED
    BY <1>1, <1>2, PTL DEF Reg!Spec

\* For any registrants, endpoints and topics, no registrant is called twice about an
\* endpoint, nor about one of another topic.
THEOREM AtMostOnce ==
  ASSUME NEW CONSTANT Rs, NEW CONSTANT Es, NEW CONSTANT T
  PROVE  Reg(Rs, Es, T)!Spec => []Reg(Rs, Es, T)!CalledAtMostOnce
  <1>1. RegInv(Rs, Es, T) => Reg(Rs, Es, T)!CalledAtMostOnce
    BY DEF RegInv
  <1>2. Reg(Rs, Es, T)!Spec => []RegInv(Rs, Es, T)
    BY RegInvariance
  <1> QED
    BY <1>1, <1>2, PTL

\* For any registrants, endpoints and topics, the call about a known endpoint to a
\* registered callback of its topic has been decided or made.
THEOREM NoneMissed ==
  ASSUME NEW CONSTANT Rs, NEW CONSTANT Es, NEW CONSTANT T
  PROVE  Reg(Rs, Es, T)!Spec => []Reg(Rs, Es, T)!NoPairMissed
  <1>1. RegInv(Rs, Es, T) => Reg(Rs, Es, T)!NoPairMissed
    BY DEF RegInv
  <1>2. Reg(Rs, Es, T)!Spec => []RegInv(Rs, Es, T)
    BY RegInvariance
  <1> QED
    BY <1>1, <1>2, PTL

------------------------------------------------------------------------------
(***************************************************************************)
(* The registry under the publisher.                                       *)
(***************************************************************************)

\* Every step is one of the registry's, or none of them.
LEMMA RegistryStep == [Next]_vars => [Registry!Next]_registryVars
  <1> SUFFICES ASSUME [Next]_vars PROVE [Registry!Next]_registryVars
    OBVIOUS
  <1> USE DEF registryVars
  <1>1. CASE UNCHANGED vars
    BY <1>1 DEF vars
  <1>2. CASE SetDiscoveryCallback
    BY <1>2 DEF SetDiscoveryCallback, Registry!Next
  <1>3. ASSUME NEW s \in BufferAware \cup Foreign, Discover(s) PROVE Registry!Next
    BY <1>3 DEF Discover, Registry!Next
  <1>4. ASSUME NEW s \in BufferAware, EnterCallback(s) PROVE Registry!Next
    BY <1>4 DEF EnterCallback, Registry!Next
  <1>5. CASE RegisterPublisher
    BY <1>5 DEF RegisterPublisher, Registry!Next
  <1>6. CASE UnregisterPublisher
    BY <1>6 DEF UnregisterPublisher, Registry!Next
  <1>7. ASSUME NEW s \in Subscribers, Match(s) \/ Leave(s) PROVE UNCHANGED registryVars
    BY <1>7 DEF Match, Leave
  <1>8. ASSUME NEW s \in BufferAware, Link(s) \/ OnSubscriberDiscovered(s)
        PROVE  UNCHANGED registryVars
    BY <1>8 DEF Link, OnSubscriberDiscovered, LeaveCallback
  <1>9. ASSUME NEW t \in Threads,
               \/ StartPublish(t) \/ ChooseChannel(t) \/ WriteMain(t) \/ MovePending(t)
               \/ \E failed \in SUBSET {s \in BufferAware : endpoints[s] > 0} :
                    WriteBuffer(t, failed)
               \/ \E failed \in SUBSET {s \in BufferAware : batch[t][s] > 0} :
                    CreateWriters(t, failed)
        PROVE  UNCHANGED registryVars
    BY <1>9 DEF StartPublish, ChooseChannel, Decide, WriteMain, Written, MovePending,
                WriteBuffer, CreateWriters
  <1>10. CASE ClearState
    BY <1>10 DEF ClearState
  <1> QED
    BY <1>1, <1>2, <1>3, <1>4, <1>5, <1>6, <1>7, <1>8, <1>9, <1>10 DEF Next

\* What the publisher, the discovery and the threads do with the registry is a behaviour
\* of the registry.
THEOREM UsesRegistry == Spec => Registry!Spec
  <1>1. Init => Registry!Init
    BY DEF Init
  <1>2. [Next]_vars => [Registry!Next]_<<listening, discovered, known, status, calls, fired>>
    BY RegistryStep DEF registryVars
  <1> QED
    BY <1>1, <1>2, PTL DEF Spec, Registry!Spec, Registry!registryVars

\* The inductive invariant of the publisher's registry.
RegistryInv == Registry!TypeOK /\ Registry!CalledAtMostOnce /\ Registry!NoPairMissed

Topics == [x \in {Publisher} \cup BufferAware \cup Foreign |->
             IF x \in Foreign THEN "other" ELSE "topic"]

\* It is the general one, for the publisher alone and the topics of its subscribers.
LEMMA RegistryInvIs ==
  /\ RegistryInv <=> RegInv({Publisher}, BufferAware \cup Foreign, Topics)
  /\ RegistryInv' <=> RegInv({Publisher}, BufferAware \cup Foreign, Topics)'
  BY DEF RegistryInv, RegInv, Topics, Reg!TypeOK, Registry!TypeOK, Reg!Pairs, Registry!Pairs,
         Reg!CalledAtMostOnce, Registry!CalledAtMostOnce, Reg!NoPairMissed, Registry!NoPairMissed,
         Reg!Registered, Registry!Registered

\* The publisher's registry keeps its promises.
LEMMA RegistryInvariance == Spec => []RegistryInv
  <1> DEFINE Endpoints == BufferAware \cup Foreign
  <1>1. Init => RegistryInv
    <2>1. Registry!Init => Reg({Publisher}, Endpoints, Topics)!Init
      BY DEF Reg!Init, Registry!Init, Reg!Pairs, Registry!Pairs
    <2> QED
      BY <2>1, InitRegInv, RegistryInvIs DEF Init
  <1>2. RegistryInv /\ [Registry!Next]_registryVars => RegistryInv'
    <2>1. Registry!Next => Reg({Publisher}, Endpoints, Topics)!Next
      BY DEF Reg!Next, Registry!Next, Reg!SetDiscoveryCallback, Registry!SetDiscoveryCallback,
             Reg!Register, Registry!Register, Reg!Unregister, Registry!Unregister,
             Reg!Notify, Registry!Notify, Reg!Fire, Registry!Fire, Reg!Call, Registry!Call,
             Reg!Registered, Registry!Registered, Reg!Pairs, Registry!Pairs, Topics
    <2> QED
      BY <2>1, RegStep, RegistryInvIs
  <1> QED
    BY <1>1, <1>2, RegistryStep, PTL DEF Spec

\* Its types are those of the registry, before and after a step.
LEMMA RegistryTypes ==
  /\ RegistryInv => Registry!TypeOK
  /\ RegistryInv' => Registry!TypeOK'
  BY DEF RegistryInv

\* Through all that the publisher does, its callback is called at most once about a
\* subscriber, and only about known ones of its topic.
THEOREM CallsOnce == Spec => []CalledAtMostOnce
  <1>1. RegistryInv => CalledAtMostOnce
    BY DEF RegistryInv, CalledAtMostOnce
  <1> QED
    BY <1>1, RegistryInvariance, PTL

\* ... and the call about every known one of its topic has been decided or made.
THEOREM MissesNoPair == Spec => []NoPairMissed
  <1>1. RegistryInv => NoPairMissed
    BY DEF RegistryInv, NoPairMissed
  <1> QED
    BY <1>1, RegistryInvariance, PTL

------------------------------------------------------------------------------
(***************************************************************************)
(* The publisher's lists.                                                  *)
(***************************************************************************)

\* What the registry says of the call about s.
LEMMA CallOf ==
  ASSUME RegistryInv, NEW s \in BufferAware
  PROVE  /\ calls[<<Publisher, s>>] \in Nat /\ fired[<<Publisher, s>>] \in Nat
         /\ calls[<<Publisher, s>>] + fired[<<Publisher, s>>] <= 1
         /\ s \in known /\ status[Publisher] = "registered"
              => calls[<<Publisher, s>>] + fired[<<Publisher, s>>] = 1
  <1>1. <<Publisher, s>> \in Registry!Pairs
    BY DEF Registry!Pairs
  <1>2. s \notin Foreign /\ Publisher \notin Foreign
    BY BufferAssumption DEF Subscribers
  <1> QED
    BY <1>1, <1>2 DEF RegistryInv, Registry!TypeOK, Registry!CalledAtMostOnce,
                      Registry!NoPairMissed, Registry!Registered

\* The lists and the threads' batches hold numbers.
LEMMA Counts ==
  ASSUME TypeOK
  PROVE  /\ \A s \in BufferAware : /\ entered[s] \in Nat /\ endpoints[s] \in Nat
                                   /\ pending[s] \in Nat /\ cpu_only_subscribers[s] \in Nat
         /\ \A t \in Threads, s \in BufferAware : batch[t][s] \in Nat
  BY DEF TypeOK

\* Steps that change no list, no batch and no call leave the traces as they are.
LEMMA TracesKept ==
  ASSUME PublisherInv,
         UNCHANGED <<alive, entered, endpoints, pending, cpu_only_subscribers, dropped, fired,
                     batch>>
  PROVE  /\ \A t \in Threads, s \in CpuOnly : batch'[t][s] = 0
         /\ \A s \in BufferAware : OneTrace(s)'
  BY DEF PublisherInv, OneTrace, Listed, Batched

\* Init.
LEMMA InitPublisherInv == Init /\ RegistryInv => PublisherInv
  <1> SUFFICES ASSUME Init, RegistryInv PROVE PublisherInv
    OBVIOUS
  <1>1. TypeOK
    <2>1. MaxPublishes \in Nat
      BY BufferAssumption
    <2>2. Registry!TypeOK
      BY RegistryTypes
    <2> QED
      BY <2>1, <2>2 DEF Init, TypeOK, Nothing, BufferAware
  <1>2. \A s \in BufferAware : Listed(s) = 0 /\ ~Batched(s) /\ fired[<<Publisher, s>>] = 0
    <2>1. \A s \in BufferAware : <<Publisher, s>> \in Registry!Pairs
      BY DEF Registry!Pairs
    <2> QED
      BY <2>1 DEF Init, Registry!Init, Nothing, Listed, Batched
  <1>3. \A s \in BufferAware : OneTrace(s)
    BY <1>2 DEF OneTrace, Init, Nothing
  <1> QED
    BY <1>1, <1>3 DEF PublisherInv, Init, Nothing, BufferAware

\* Discovery, registration and matching change only what the publisher reads.
LEMMA OutsideStep ==
  ASSUME PublisherInv, RegistryInv',
         \/ SetDiscoveryCallback
         \/ \E s \in BufferAware \cup Foreign : Discover(s)
         \/ \E s \in BufferAware : Link(s)
         \/ \E s \in Subscribers : Match(s) \/ Leave(s)
         \/ RegisterPublisher
         \/ UnregisterPublisher
  PROVE  PublisherInv'
  <1>1. UNCHANGED <<stateVars, pc, total, batch, published, fired, missed, lost>>
    BY DEF SetDiscoveryCallback, Discover, Link, Match, Leave, RegisterPublisher,
           UnregisterPublisher, Unsettle, registryVars, stateVars, threadVars, historyVars,
           Registry!SetDiscoveryCallback, Registry!Notify, Registry!Register, Registry!Unregister
  <1>2. /\ destroying' \in {"no", "cleared", "done"}
        /\ settled' \in [Threads -> BOOLEAN]
    BY DEF SetDiscoveryCallback, Discover, Link, Match, Leave, RegisterPublisher,
           UnregisterPublisher, Unsettle, historyVars, PublisherInv, TypeOK
  <1>3. /\ matched' \subseteq Subscribers
        /\ left' \subseteq Leavers
        /\ linked' \subseteq BufferAware \ left'
        /\ due' \in [Threads -> SUBSET Subscribers]
    BY DEF SetDiscoveryCallback, Discover, Link, Match, Leave, RegisterPublisher,
           UnregisterPublisher, linkVars, historyVars, PublisherInv, TypeOK
  <1>4. TypeOK'
    BY <1>1, <1>2, <1>3, RegistryTypes DEF PublisherInv, TypeOK, stateVars
  <1> QED
    BY <1>1, <1>4, TracesKept DEF PublisherInv, stateVars, Nothing

\* A thread of Fast DDS enters the callback: it leaves the first trace, if the publisher is
\* alive.
LEMMA EnterStep ==
  ASSUME PublisherInv, RegistryInv, RegistryInv', NEW s \in BufferAware, EnterCallback(s)
  PROVE  PublisherInv'
  <1>1. UNCHANGED <<linkVars, alive, endpoints, pending, cpu_only_subscribers, dropped,
                    destroying, threadVars, due, missed, lost>>
    BY DEF EnterCallback, Unsettle
  <1>2. /\ calls[<<Publisher, s>>] > 0
        /\ fired' = [fired EXCEPT ![<<Publisher, s>>] = @ + 1]
        /\ entered' = IF alive THEN [entered EXCEPT ![s] = @ + 1] ELSE entered
        /\ settled' = [t \in Threads |-> FALSE]
    BY DEF EnterCallback, Registry!Fire, Unsettle
  <1>3. /\ entered \in [BufferAware -> Nat]
        /\ fired \in [Registry!Pairs -> Nat]
        /\ \A r \in BufferAware : <<Publisher, r>> \in Registry!Pairs
    BY RegistryTypes DEF PublisherInv, TypeOK, Registry!TypeOK, Registry!Pairs
  <1>4. TypeOK'
    BY <1>1, <1>2, <1>3, RegistryTypes DEF PublisherInv, TypeOK, linkVars, threadVars
  <1>5. fired[<<Publisher, s>>] = 0 /\ Listed(s) = 0 /\ ~Batched(s)
    <2>1. fired[<<Publisher, s>>] = 0
      BY <1>2, CallOf
    <2>2. Listed(s) \in Nat
      BY Counts DEF PublisherInv, Listed
    <2> QED
      BY <2>1, <2>2 DEF PublisherInv, OneTrace
  <1>6. ASSUME NEW r \in BufferAware PROVE OneTrace(r)'
    <2>1. /\ batch' = batch /\ alive' = alive /\ dropped' = dropped
          /\ Batched(r)' = Batched(r)
      BY <1>1 DEF Batched, threadVars
    <2>2. CASE r = s
      <3>1. fired'[<<Publisher, s>>] = 1
        BY <1>2, <1>3, <1>5
      <3>2. Listed(s)' = IF alive THEN 1 ELSE 0
        BY <1>1, <1>2, <1>3, <1>5, Counts DEF Listed, PublisherInv
      <3> QED
        BY <2>1, <2>2, <3>1, <3>2, <1>5 DEF OneTrace, PublisherInv
    <2>3. CASE r # s
      <3>1. fired'[<<Publisher, r>>] = fired[<<Publisher, r>>]
        BY <1>2, <1>3, <2>3
      <3>2. Listed(r)' = Listed(r)
        BY <1>1, <1>2, <1>3, <2>3 DEF Listed
      <3> QED
        BY <2>1, <3>1, <3>2 DEF OneTrace, PublisherInv
    <2> QED
      BY <2>2, <2>3
  <1> QED
    BY <1>1, <1>4, <1>6 DEF PublisherInv, threadVars, Nothing

\* The callback adds the subscriber: it finds it on no list, since its own call is the one
\* trace there is.
LEMMA DiscoveredStep ==
  ASSUME PublisherInv, RegistryInv', NEW s \in BufferAware, OnSubscriberDiscovered(s)
  PROVE  PublisherInv'
  <1>1. /\ UNCHANGED <<registryVars, linkVars, alive, endpoints, dropped, destroying,
                       threadVars, due, missed, lost>>
        /\ entered[s] > 0
        /\ entered' = [entered EXCEPT ![s] = @ - 1]
        /\ settled' = [t \in Threads |-> FALSE]
    BY DEF OnSubscriberDiscovered, LeaveCallback, Unsettle
  <1>2. /\ entered[s] = 1 /\ endpoints[s] = 0 /\ pending[s] = 0 /\ cpu_only_subscribers[s] = 0
        /\ ~Batched(s)
    <2>1. OneTrace(s)
      BY DEF PublisherInv
    <2>2. Listed(s) <= 1 /\ (Batched(s) => Listed(s) = 0)
      BY <2>1 DEF OneTrace
    <2> QED
      BY <1>1, <2>2, Counts DEF Listed, PublisherInv
  <1>3. /\ pending' \in [BufferAware -> Nat]
        /\ cpu_only_subscribers' \in [BufferAware -> Nat]
        /\ \A r \in BufferAware \ {s} : /\ pending'[r] = pending[r]
                                        /\ cpu_only_subscribers'[r] = cpu_only_subscribers[r]
        /\ pending'[s] + cpu_only_subscribers'[s] = IF alive THEN 1 ELSE 0
        /\ s \in CpuOnly => pending'[s] = 0
        /\ s \in Accelerated => cpu_only_subscribers'[s] = 0
    <2>1. pending \in [BufferAware -> Nat] /\ cpu_only_subscribers \in [BufferAware -> Nat]
      BY DEF PublisherInv, TypeOK
    <2>2. CASE ~alive
      BY <1>2, <2>1, <2>2 DEF OnSubscriberDiscovered
    <2>3. CASE alive /\ s \in CpuOnly
      <3>1. s \notin Accelerated
        BY <2>3, BufferAssumption
      <3>2. /\ cpu_only_subscribers' = [cpu_only_subscribers EXCEPT ![s] = @ + 1]
            /\ pending' = pending
        BY <1>2, <2>3, <3>1 DEF OnSubscriberDiscovered, AddSubscriber, PushBack
      <3> QED
        BY <1>2, <2>1, <2>3, <3>1, <3>2
    <2>4. CASE alive /\ s \in Accelerated
      <3>1. s \notin CpuOnly
        BY <2>4, BufferAssumption
      <3>2. /\ pending' = [pending EXCEPT ![s] = @ + 1]
            /\ cpu_only_subscribers' = cpu_only_subscribers
        BY <1>2, <2>4, <3>1 DEF OnSubscriberDiscovered, AddSubscriber, PushBack
      <3> QED
        BY <1>2, <2>1, <2>4, <3>1, <3>2
    <2> QED
      BY <2>2, <2>3, <2>4 DEF BufferAware
  <1>4. entered' \in [BufferAware -> Nat]
    BY <1>1, <1>2 DEF PublisherInv, TypeOK
  <1>5. TypeOK'
    <2>1. \A r \in CpuOnly : endpoints'[r] = 0 /\ pending'[r] = 0
      BY <1>1, <1>3 DEF PublisherInv, TypeOK, BufferAware
    <2>2. \A r \in Accelerated : cpu_only_subscribers'[r] = 0
      BY <1>3 DEF PublisherInv, TypeOK, BufferAware
    <2> QED
      BY <1>1, <1>3, <1>4, <2>1, <2>2, RegistryTypes
      DEF PublisherInv, TypeOK, linkVars, threadVars
  <1>6. ASSUME NEW r \in BufferAware PROVE OneTrace(r)'
    <2>1. /\ batch' = batch /\ alive' = alive /\ dropped' = dropped /\ fired' = fired
          /\ Batched(r)' = Batched(r)
      BY <1>1 DEF Batched, threadVars, registryVars
    <2>2. CASE r = s
      <3>1. Listed(s)' = IF alive THEN 1 ELSE 0
        BY <1>1, <1>2, <1>3, <1>4 DEF Listed, PublisherInv, TypeOK
      <3>2. Listed(s) > 0
        BY <1>2 DEF Listed
      <3> QED
        BY <1>2, <2>1, <2>2, <3>1, <3>2 DEF OneTrace, PublisherInv
    <2>3. CASE r # s
      <3>1. Listed(r)' = Listed(r)
        BY <1>1, <1>3, <2>3 DEF Listed, PublisherInv, TypeOK
      <3> QED
        BY <2>1, <3>1 DEF OneTrace, PublisherInv
    <2> QED
      BY <2>2, <2>3
  <1> QED
    BY <1>1, <1>5, <1>6 DEF PublisherInv, threadVars, Nothing

\* The steps of a publishing thread that touch neither lists nor batches.
LEMMA ThreadStep ==
  ASSUME PublisherInv, RegistryInv', NEW t \in Threads,
         \/ StartPublish(t) \/ ChooseChannel(t) \/ WriteMain(t)
         \/ \E failed \in SUBSET {s \in BufferAware : endpoints[s] > 0} : WriteBuffer(t, failed)
  PROVE  PublisherInv'
  <1>1. UNCHANGED <<registryVars, linkVars, stateVars, destroying, batch>>
    BY DEF StartPublish, ChooseChannel, Decide, WriteMain, Written, WriteBuffer
  <1>2. PICK place \in {"idle", "count", "main", "move", "write"} :
          pc[t] # "create" /\ pc' = [pc EXCEPT ![t] = place]
    <2>1. CASE ChooseChannel(t)
      BY <2>1 DEF ChooseChannel, Decide
    <2> QED
      BY <2>1 DEF StartPublish, WriteMain, Written, WriteBuffer
  <1>3. total' \in [Threads -> Nat]
    <2>1. Cardinality(matched) \in Nat
      BY BufferAssumption, FS_Subset, FS_CardinalityType DEF PublisherInv, TypeOK
    <2> QED
      BY <2>1 DEF StartPublish, ChooseChannel, Decide, WriteMain, Written, WriteBuffer,
                  PublisherInv, TypeOK
  <1>4. published' \in 0..MaxPublishes
    BY BufferAssumption DEF StartPublish, ChooseChannel, Decide, WriteMain, Written, WriteBuffer,
                            PublisherInv, TypeOK
  <1>5. /\ settled' \in [Threads -> BOOLEAN]
        /\ due' \in [Threads -> SUBSET Subscribers]
        /\ missed' \subseteq Subscribers
        /\ lost' \subseteq missed'
    <2>1. CASE StartPublish(t)
      <3>1. AllSettled \in BOOLEAN
        BY DEF AllSettled
      <3> QED
        BY <2>1, <3>1 DEF StartPublish, PublisherInv, TypeOK
    <2>2. CASE ChooseChannel(t)
      BY <2>2 DEF ChooseChannel, Decide, historyVars, PublisherInv, TypeOK
    <2>3. ASSUME NEW reached, NEW failed, Written(t, reached, failed)
          PROVE  /\ settled' \in [Threads -> BOOLEAN]
                 /\ due' \in [Threads -> SUBSET Subscribers]
                 /\ missed' \subseteq Subscribers
                 /\ lost' \subseteq missed'
      BY <2>3 DEF Written, PublisherInv, TypeOK
    <2> QED
      BY <2>1, <2>2, <2>3 DEF WriteMain, WriteBuffer
  <1>6. TypeOK'
    <2>1. pc' \in [Threads -> {"idle", "count", "main", "move", "create", "write"}]
      BY <1>2 DEF PublisherInv, TypeOK
    <2>2. Registry!TypeOK'
      BY RegistryTypes
    <2> QED
      BY <1>1, <1>3, <1>4, <1>5, <2>1, <2>2
      DEF PublisherInv, TypeOK, linkVars, stateVars
  <1>7. \A u \in Threads : pc'[u] # "create" => batch'[u] = Nothing
    BY <1>1, <1>2 DEF PublisherInv, TypeOK
  <1> QED
    BY <1>1, <1>6, <1>7, TracesKept DEF PublisherInv, stateVars, registryVars, Nothing

\* The pending list moves into the thread's hands: the thread had nothing in them.
LEMMA MoveStep ==
  ASSUME PublisherInv, RegistryInv', NEW t \in Threads, MovePending(t)
  PROVE  PublisherInv'
  <1>1. /\ UNCHANGED <<registryVars, linkVars, alive, entered, endpoints, cpu_only_subscribers,
                       dropped, destroying, total, published, historyVars>>
        /\ pc[t] = "move"
        /\ batch' = [batch EXCEPT ![t] = pending]
        /\ pending' = Nothing
        /\ pc' = [pc EXCEPT ![t] = IF pending = Nothing THEN "write" ELSE "create"]
    BY DEF MovePending
  <1>2. /\ pending \in [BufferAware -> Nat] /\ Nothing \in [BufferAware -> Nat]
        /\ batch \in [Threads -> [BufferAware -> Nat]]
        /\ batch[t] = Nothing
        /\ \A s \in BufferAware : batch[t][s] = 0
    BY <1>1 DEF PublisherInv, TypeOK, Nothing
  <1>3. TypeOK'
    <2>1. \A s \in CpuOnly : endpoints'[s] = 0 /\ pending'[s] = 0
      BY <1>1 DEF PublisherInv, TypeOK, Nothing, BufferAware
    <2>2. pc' \in [Threads -> {"idle", "count", "main", "move", "create", "write"}]
      BY <1>1 DEF PublisherInv, TypeOK
    <2>3. Registry!TypeOK'
      BY RegistryTypes
    <2> QED
      BY <1>1, <1>2, <2>1, <2>2, <2>3 DEF PublisherInv, TypeOK, linkVars, historyVars
  <1>4. \A u \in Threads : pc'[u] # "create" => batch'[u] = Nothing
    BY <1>1, <1>2 DEF PublisherInv, TypeOK
  <1>5. \A u \in Threads, s \in CpuOnly : batch'[u][s] = 0
    BY <1>1, <1>2 DEF PublisherInv, TypeOK
  <1>6. ASSUME NEW s \in BufferAware PROVE OneTrace(s)'
    <2>1. /\ alive' = alive /\ dropped' = dropped /\ fired' = fired
          /\ OneTrace(s)
      BY <1>1 DEF registryVars, PublisherInv
    <2>2. /\ batch'[t][s] = pending[s]
          /\ \A u \in Threads \ {t} : batch'[u][s] = batch[u][s]
      BY <1>1, <1>2
    <2>3. Listed(s)' = Listed(s) - pending[s] /\ Listed(s) \in Nat /\ pending[s] \in Nat
          /\ pending[s] <= Listed(s)
      BY <1>1, <1>2, Counts DEF Listed, PublisherInv, Nothing
    <2>4. CASE pending[s] = 0
      <3>1. \A u \in Threads : batch'[u][s] = batch[u][s]
        BY <1>2, <2>2, <2>4
      <3>2. Listed(s)' = Listed(s)
        BY <2>3, <2>4
      <3> QED
        BY <2>1, <3>1, <3>2 DEF OneTrace, Batched
    <2>5. CASE pending[s] > 0
      <3>1. Listed(s) = 1 /\ pending[s] = 1
        BY <2>1, <2>3, <2>5 DEF OneTrace
      <3>2. \A u \in Threads \ {t} : batch'[u][s] = 0
        BY <2>1, <2>2, <3>1, Counts DEF OneTrace, Batched, PublisherInv
      <3>3. Listed(s)' = 0 /\ Batched(s)'
        BY <2>2, <2>3, <3>1 DEF Batched
      <3>4. fired[<<Publisher, s>>] > 0
        BY <2>1, <3>1 DEF OneTrace
      <3> QED
        BY <2>1, <2>2, <3>1, <3>2, <3>3, <3>4 DEF OneTrace
    <2> QED
      BY <2>3, <2>4, <2>5
  <1> QED
    BY <1>3, <1>4, <1>5, <1>6 DEF PublisherInv, Nothing

\* What a thread had in its hands becomes an endpoint, or is dropped.
LEMMA CreateStep ==
  ASSUME PublisherInv, RegistryInv', NEW t \in Threads,
         NEW failed \in SUBSET {s \in BufferAware : batch[t][s] > 0}, CreateWriters(t, failed)
  PROVE  PublisherInv'
  <1>1. /\ UNCHANGED <<registryVars, linkVars, alive, entered, pending, cpu_only_subscribers,
                       destroying, total, published, historyVars>>
        /\ endpoints' = [s \in BufferAware |->
                           endpoints[s] + IF s \in failed THEN 0 ELSE batch[t][s]]
        /\ dropped' = dropped \cup failed
        /\ batch' = [batch EXCEPT ![t] = Nothing]
        /\ pc' = [pc EXCEPT ![t] = "write"]
    BY DEF CreateWriters
  <1>2. /\ Nothing \in [BufferAware -> Nat]
        /\ batch \in [Threads -> [BufferAware -> Nat]]
        /\ \A s \in BufferAware : Nothing[s] = 0 /\ batch[t][s] \in Nat /\ endpoints[s] \in Nat
    BY DEF PublisherInv, TypeOK, Nothing
  <1>3. TypeOK'
    <2>1. endpoints' \in [BufferAware -> Nat]
      BY <1>1, <1>2
    <2>2. \A s \in CpuOnly : endpoints'[s] = 0 /\ pending'[s] = 0
      BY <1>1, <1>2 DEF PublisherInv, TypeOK, BufferAware
    <2>3. dropped' \subseteq Accelerated
      BY <1>1, <1>2 DEF PublisherInv, TypeOK, BufferAware
    <2>4. /\ pc' \in [Threads -> {"idle", "count", "main", "move", "create", "write"}]
          /\ batch' \in [Threads -> [BufferAware -> Nat]]
      BY <1>1, <1>2 DEF PublisherInv, TypeOK
    <2>5. Registry!TypeOK'
      BY RegistryTypes
    <2> QED
      BY <1>1, <2>1, <2>2, <2>3, <2>4, <2>5 DEF PublisherInv, TypeOK, linkVars, historyVars
  <1>4. \A u \in Threads : pc'[u] # "create" => batch'[u] = Nothing
    BY <1>1, <1>2 DEF PublisherInv, TypeOK
  <1>5. \A u \in Threads, s \in CpuOnly : batch'[u][s] = 0
    BY <1>1, <1>2 DEF PublisherInv, TypeOK, BufferAware
  <1>6. ASSUME NEW s \in BufferAware PROVE OneTrace(s)'
    <2>1. /\ alive' = alive /\ fired' = fired /\ OneTrace(s)
          /\ s \in dropped' <=> s \in dropped \/ s \in failed
      BY <1>1 DEF registryVars, PublisherInv
    <2>2. /\ batch'[t][s] = 0
          /\ \A u \in Threads \ {t} : batch'[u][s] = batch[u][s]
      BY <1>1, <1>2
    <2>3. /\ Listed(s)' = Listed(s) + IF s \in failed THEN 0 ELSE batch[t][s]
          /\ Listed(s) \in Nat
      BY <1>1, <1>2, Counts DEF Listed, PublisherInv
    <2>4. CASE batch[t][s] = 0
      <3>1. \A u \in Threads : batch'[u][s] = batch[u][s]
        BY <2>2, <2>4
      <3>2. Listed(s)' = Listed(s)
        BY <2>3, <2>4
      <3> QED
        BY <2>1, <3>1, <3>2 DEF OneTrace, Batched
    <2>5. CASE batch[t][s] > 0
      <3>1. batch[t][s] = 1 /\ Listed(s) = 0 /\ fired[<<Publisher, s>>] > 0
        BY <2>1, <2>5, <1>2 DEF OneTrace, Batched
      <3>2. \A u \in Threads : batch'[u][s] = 0
        BY <2>1, <2>2, <2>5, Counts DEF OneTrace, PublisherInv
      <3>3. ~Batched(s)'
        BY <3>2 DEF Batched
      <3>4. Listed(s)' = IF s \in failed THEN 0 ELSE 1
        BY <2>3, <3>1
      <3> QED
        BY <2>1, <3>1, <3>2, <3>3, <3>4 DEF OneTrace
    <2> QED
      BY <1>2, <2>4, <2>5
  <1> QED
    BY <1>3, <1>4, <1>5, <1>6 DEF PublisherInv, Nothing

\* A publisher that dies forgets its lists; the callbacks that are inside it stay.
LEMMA ClearStep ==
  ASSUME PublisherInv, RegistryInv', ClearState
  PROVE  PublisherInv'
  <1>1. /\ UNCHANGED <<registryVars, linkVars, entered, dropped, threadVars, historyVars>>
        /\ destroying' = "cleared"
        /\ alive' = FALSE
        /\ endpoints' = Nothing
        /\ pending' = Nothing
        /\ cpu_only_subscribers' = Nothing
        /\ \A t \in Threads : pc[t] = "idle"
    BY DEF ClearState
  <1>2. Nothing \in [BufferAware -> Nat] /\ \A s \in BufferAware : Nothing[s] = 0
    BY DEF Nothing
  <1>3. TypeOK'
    <2>1. Registry!TypeOK'
      BY RegistryTypes
    <2> QED
      BY <1>1, <1>2, <2>1
      DEF PublisherInv, TypeOK, BufferAware, linkVars, threadVars, historyVars
  <1>4. ASSUME NEW s \in BufferAware PROVE OneTrace(s)'
    <2>1. \A t \in Threads : batch'[t][s] = 0
      BY <1>1, <1>2 DEF PublisherInv, threadVars
    <2>2. Listed(s)' = entered[s] /\ entered[s] <= Listed(s) /\ Listed(s) \in Nat
      BY <1>1, <1>2, Counts DEF Listed, PublisherInv
    <2>3. fired' = fired /\ OneTrace(s) /\ entered[s] \in Nat
      BY <1>1, Counts DEF registryVars, PublisherInv
    <2> QED
      BY <1>1, <2>1, <2>2, <2>3 DEF OneTrace, Batched
  <1> QED
    BY <1>1, <1>3, <1>4 DEF PublisherInv, threadVars, Nothing

\* The invariant is inductive beside the registry's.
LEMMA PublisherInvariance == Spec => []PublisherInv
  <1>1. PublisherInv /\ RegistryInv /\ RegistryInv' /\ [Next]_vars => PublisherInv'
    <2> SUFFICES ASSUME PublisherInv, RegistryInv, RegistryInv', [Next]_vars
                 PROVE  PublisherInv'
      OBVIOUS
    <2>1. CASE UNCHANGED vars
      <3>1. TypeOK'
        BY <2>1, RegistryTypes
        DEF vars, linkVars, stateVars, threadVars, historyVars, PublisherInv, TypeOK
      <3> QED
        BY <2>1, <3>1, TracesKept
        DEF vars, registryVars, stateVars, threadVars, PublisherInv, Nothing
    <2>2. CASE Next
      BY <2>2, OutsideStep, EnterStep, DiscoveredStep, ThreadStep, MoveStep, CreateStep,
         ClearStep DEF Next
    <2> QED
      BY <2>1, <2>2
  <1> QED
    BY <1>1, InitPublisherInv, RegistryInvariance, PTL DEF Spec

\* The types hold in every behaviour.
THEOREM TypeCorrect == Spec => []TypeOK
  <1>1. PublisherInv => TypeOK
    BY DEF PublisherInv
  <1> QED
    BY <1>1, PublisherInvariance, PTL

\* While the publisher is alive, every known subscriber of its topic is, exactly once, on its
\* way to the lists, on one of them, or in the hands of a thread, unless its writer could not
\* be created.
THEOREM ReachesKnown == Spec => []KnownReached
  <1>1. PublisherInv /\ RegistryInv => KnownReached
    <2> SUFFICES ASSUME PublisherInv, RegistryInv, alive, status[Publisher] = "registered",
                        NEW s \in known \ (dropped \cup Foreign)
                 PROVE  calls[<<Publisher, s>>] + entered[s] + Entries(s) = 1
      BY DEF KnownReached
    <2> DEFINE holders == {t \in Threads : batch[t][s] > 0}
    <2>1. s \in BufferAware
      BY RegistryTypes DEF Registry!TypeOK
    <2>2. /\ calls[<<Publisher, s>>] \in Nat /\ fired[<<Publisher, s>>] \in Nat
          /\ calls[<<Publisher, s>>] + fired[<<Publisher, s>>] = 1
      BY <2>1, CallOf
    <2>3. /\ entered[s] \in Nat /\ endpoints[s] \in Nat /\ pending[s] \in Nat
          /\ cpu_only_subscribers[s] \in Nat
      BY <2>1, Counts DEF PublisherInv
    <2>4. OneTrace(s)
      BY <2>1 DEF PublisherInv
    <2>5. CASE Batched(s)
      <3>1. PICK t \in Threads : batch[t][s] > 0
        BY <2>5 DEF Batched
      <3>2. holders = {t}
        BY <2>4, <3>1 DEF OneTrace
      <3>3. Cardinality(holders) = 1
        BY <3>2, FS_Singleton
      <3>4. Listed(s) = 0 /\ fired[<<Publisher, s>>] > 0
        BY <2>4, <2>5 DEF OneTrace
      <3> QED
        BY <2>2, <2>3, <3>3, <3>4 DEF Entries, Listed
    <2>6. CASE ~Batched(s)
      <3>1. holders = {}
        BY <2>6 DEF Batched
      <3>2. Cardinality(holders) = 0
        BY <3>1, FS_EmptySet
      <3>3. /\ Listed(s) <= 1
            /\ Listed(s) > 0 <=> fired[<<Publisher, s>>] > 0
        BY <2>4, <2>6 DEF OneTrace
      <3> QED
        BY <2>2, <2>3, <3>2, <3>3 DEF Entries, Listed
    <2> QED
      BY <2>5, <2>6
  <1> QED
    BY <1>1, PublisherInvariance, RegistryInvariance, PTL

------------------------------------------------------------------------------
(***************************************************************************)
(* What a message misses.                                                  *)
(***************************************************************************)

\* While nothing moves under the call of a thread, all stays settled, and the thread chooses
\* the buffer channels only if every subscriber has one.
SettledInv ==
  /\ lost = {}
  /\ destroying # "no" => \A t \in Threads : pc[t] = "idle"
  /\ \A t \in Threads : settled[t] =>
       /\ pc[t] # "idle"
       /\ AllSettled
       /\ due[t] = matched
       /\ pc[t] = "count" => total[t] = Cardinality(matched)
       /\ pc[t] \in {"move", "create", "write"} => matched \subseteq BufferAware

\* A list without double entries has one for each subscriber on it.
LEMMA SizeOf ==
  ASSUME NEW list \in [BufferAware -> Nat], \A s \in BufferAware : list[s] \in {0, 1}
  PROVE  /\ IsFiniteSet({s \in BufferAware : list[s] = 1})
         /\ Size(list) = Cardinality({s \in BufferAware : list[s] = 1})
  <1> DEFINE listed == {s \in BufferAware : list[s] = 1}
             pairs  == UNION {{s} \X (1..list[s]) : s \in BufferAware}
             pair   == [s \in listed |-> <<s, 1>>]
  <1>1. IsFiniteSet(listed)
    <2>1. listed \subseteq Subscribers
      BY DEF Subscribers
    <2> QED
      BY <2>1, BufferAssumption, FS_Subset
  <1>2. pairs = {<<s, 1>> : s \in listed}
    <2>1. ASSUME NEW s \in BufferAware PROVE 1..list[s] = IF list[s] = 1 THEN {1} ELSE {}
      <3>1. 1..1 = {1} /\ 1..0 = {}
        OBVIOUS
      <3>2. list[s] = 0 \/ list[s] = 1
        OBVIOUS
      <3> QED
        BY <3>1, <3>2
    <2>2. ASSUME NEW p \in pairs PROVE p \in {<<s, 1>> : s \in listed}
      <3>1. PICK s \in BufferAware : p \in {s} \X (1..list[s])
        <4>1. \E some \in {{s} \X (1..list[s]) : s \in BufferAware} : p \in some
          OBVIOUS
        <4> QED
          BY <4>1
      <3>2. list[s] = 1 /\ p \in {s} \X {1}
        BY <2>1, <3>1
      <3> QED
        BY <3>2
    <2>3. ASSUME NEW s \in listed PROVE <<s, 1>> \in pairs
      <3>1. <<s, 1>> \in {s} \X (1..list[s])
        BY <2>1
      <3> QED
        BY <3>1
    <2> QED
      BY <2>2, <2>3
  <1>3. pair \in Bijection(listed, pairs)
    <2>1. pair \in [listed -> pairs]
      BY <1>2
    <2>2. \A r, s \in listed : pair[r] = pair[s] => r = s
      OBVIOUS
    <2>3. \A p \in pairs : \E s \in listed : pair[s] = p
      BY <1>2
    <2> HIDE DEF pair, pairs, listed
    <2> QED
      BY <2>1, <2>2, <2>3 DEF Bijection, Injection, Surjection, IsInjective
  <1>4. Cardinality(pairs) = Cardinality(listed)
    <2> HIDE DEF pair, pairs, listed
    <2> QED
      BY <1>1, <1>3, FS_Bijection DEF ExistsBijection
  <1> QED
    BY <1>1, <1>4 DEF Size

\* When all is settled, the publisher's lists count the buffer-aware subscribers that are
\* matched: there are no fewer entries than matches only if all are buffer-aware.
LEMMA EntriesCountMatches ==
  ASSUME TypeOK, AllSettled,
         Cardinality(matched) <= Size(endpoints) + Size(pending) + Size(cpu_only_subscribers)
  PROVE  matched \subseteq BufferAware
  <1> DEFINE aware   == matched \cap BufferAware
             written == {s \in BufferAware : endpoints[s] = 1}
             shared  == {s \in BufferAware : cpu_only_subscribers[s] = 1}
             none    == {s \in BufferAware : pending[s] = 1}
  <1>1. \A s \in BufferAware :
          /\ endpoints[s] \in Nat /\ cpu_only_subscribers[s] \in Nat
          /\ endpoints[s] + cpu_only_subscribers[s] = IF s \in aware THEN 1 ELSE 0
    <2>1. known \ Foreign = aware
      BY DEF AllSettled
    <2>2. \A s \in BufferAware : s \notin Foreign
      BY BufferAssumption DEF Subscribers
    <2> QED
      BY <2>1, <2>2, Counts DEF AllSettled
  <1>2. \A s \in BufferAware : endpoints[s] \in {0, 1} /\ cpu_only_subscribers[s] \in {0, 1}
    BY <1>1
  <1>3. written \cup shared = aware /\ written \cap shared = {}
    BY <1>1, <1>2
  <1>4. /\ IsFiniteSet(written) /\ Size(endpoints) = Cardinality(written)
        /\ IsFiniteSet(shared) /\ Size(cpu_only_subscribers) = Cardinality(shared)
    BY <1>2, SizeOf DEF TypeOK
  <1>5. Size(pending) = 0
    <2>1. \A s \in BufferAware : pending[s] = 0
      BY DEF AllSettled, Nothing
    <2>2. none = {}
      BY <2>1
    <2>3. Size(pending) = Cardinality(none)
      BY <2>1, SizeOf DEF TypeOK
    <2> QED
      BY <2>2, <2>3, FS_EmptySet
  <1>6. /\ Cardinality(aware) = Cardinality(written) + Cardinality(shared)
        /\ Cardinality(written) \in Nat /\ Cardinality(shared) \in Nat
    <2>1. Cardinality(written \cap shared) = 0
      BY <1>3, FS_EmptySet
    <2>2. /\ Cardinality(written \cup shared)
               = Cardinality(written) + Cardinality(shared) - Cardinality(written \cap shared)
          /\ Cardinality(written) \in Nat /\ Cardinality(shared) \in Nat
      BY <1>4, FS_Union, FS_CardinalityType
    <2> HIDE DEF aware, written, shared
    <2>3. Cardinality(written \cup shared) = Cardinality(aware)
      BY <1>3, Zenon
    <2> QED
      BY <2>1, <2>2, <2>3
  <1>7. IsFiniteSet(matched) /\ Cardinality(matched) \in Nat
    BY BufferAssumption, FS_Subset, FS_CardinalityType DEF TypeOK
  <1>8. Cardinality(matched) <= Cardinality(aware)
    BY <1>4, <1>5, <1>6
  <1>9. /\ Cardinality(aware) <= Cardinality(matched)
        /\ Cardinality(matched) = Cardinality(aware) => matched = aware
    BY <1>7, FS_Subset
  <1> QED
    BY <1>6, <1>7, <1>8, <1>9

\* When all is settled, the buffer channels reach every buffer-aware subscriber.
LEMMA BufferReachesAll ==
  ASSUME TypeOK, AllSettled, NEW s \in matched \cap BufferAware
  PROVE  \/ s \in linked \cap CpuOnly /\ Size(cpu_only_subscribers) > 0
         \/ s \in linked \cap Accelerated /\ endpoints[s] > 0
  <1>1. /\ s \in known \ Foreign /\ s \in linked
        /\ endpoints[s] + cpu_only_subscribers[s] = 1
        /\ endpoints[s] \in Nat /\ cpu_only_subscribers[s] \in Nat
    BY Counts DEF AllSettled
  <1>2. CASE s \in Accelerated
    BY <1>1, <1>2 DEF TypeOK
  <1>3. CASE s \in CpuOnly
    <2>1. cpu_only_subscribers[s] = 1
      BY <1>1, <1>3 DEF TypeOK
    <2>2. \A r \in BufferAware : cpu_only_subscribers[r] \in {0, 1}
      <3>1. \A r \in BufferAware : /\ endpoints[r] + cpu_only_subscribers[r] \in {0, 1}
                                   /\ endpoints[r] \in Nat /\ cpu_only_subscribers[r] \in Nat
        <4>1. \A r \in BufferAware : r \notin Foreign
          BY BufferAssumption DEF Subscribers
        <4> QED
          BY <4>1, Counts DEF AllSettled
      <3> QED
        BY <3>1
    <2> DEFINE shared == {r \in BufferAware : cpu_only_subscribers[r] = 1}
    <2>3. IsFiniteSet(shared) /\ Size(cpu_only_subscribers) = Cardinality(shared)
      BY <2>2, SizeOf DEF TypeOK
    <2>4. shared # {}
      BY <2>1
    <2>5. Cardinality(shared) \in Nat /\ Cardinality(shared) # 0
      <3> HIDE DEF shared
      <3> QED
        BY <2>3, <2>4, FS_EmptySet, FS_CardinalityType
    <2> QED
      BY <1>1, <1>3, <2>3, <2>5
  <1> QED
    BY <1>2, <1>3 DEF BufferAware

\* What is settled does not depend on the threads but for what they hold.
LEMMA SettledKept ==
  ASSUME UNCHANGED <<known, matched, linked, endpoints, cpu_only_subscribers, pending, batch>>
  PROVE  AllSettled' <=> AllSettled
  BY DEF AllSettled, Nothing

\* A step that moves something unsettles every call.
LEMMA UnsettlingStep ==
  ASSUME SettledInv,
         \/ SetDiscoveryCallback
         \/ \E s \in BufferAware \cup Foreign : Discover(s)
         \/ \E s \in BufferAware : Link(s) \/ EnterCallback(s) \/ OnSubscriberDiscovered(s)
         \/ \E s \in Subscribers : Match(s) \/ Leave(s)
         \/ RegisterPublisher
  PROVE  SettledInv'
  <1>1. UNCHANGED <<destroying, pc>> /\ Unsettle
    BY DEF SetDiscoveryCallback, Discover, Link, EnterCallback, OnSubscriberDiscovered,
           LeaveCallback, Match, Leave, RegisterPublisher, threadVars
  <1> QED
    BY <1>1 DEF Unsettle, SettledInv

\* The publisher is destroyed while no thread publishes.
LEMMA DestroyingStep ==
  ASSUME SettledInv, ClearState \/ UnregisterPublisher
  PROVE  SettledInv'
  <1>1. UNCHANGED <<pc, settled, lost>> /\ \A t \in Threads : pc[t] = "idle"
    BY DEF ClearState, UnregisterPublisher, threadVars, historyVars, SettledInv
  <1> QED
    BY <1>1 DEF SettledInv

\* Publishing moves nothing that the settled calls of other threads rely on.
LEMMA PublishingStep ==
  ASSUME PublisherInv, SettledInv, NEW t \in Threads,
         \/ StartPublish(t) \/ ChooseChannel(t) \/ WriteMain(t) \/ MovePending(t)
         \/ \E failed \in SUBSET {s \in BufferAware : endpoints[s] > 0} : WriteBuffer(t, failed)
         \/ \E failed \in SUBSET {s \in BufferAware : batch[t][s] > 0} : CreateWriters(t, failed)
  PROVE  SettledInv'
  <1>types. /\ TypeOK /\ lost = {}
            /\ pc \in [Threads -> {"idle", "count", "main", "move", "create", "write"}]
            /\ total \in [Threads -> Nat] /\ due \in [Threads -> SUBSET Subscribers]
            /\ settled \in [Threads -> BOOLEAN]
    BY DEF PublisherInv, TypeOK, SettledInv
  <1>1. CASE StartPublish(t)
    <2>1. /\ UNCHANGED <<known, matched, linked, endpoints, cpu_only_subscribers, pending, batch,
                         destroying, lost>>
          /\ destroying = "no"
          /\ total' = [total EXCEPT ![t] = Cardinality(matched)]
          /\ pc' = [pc EXCEPT ![t] = "count"]
          /\ due' = [due EXCEPT ![t] = matched]
          /\ settled' = [settled EXCEPT ![t] = AllSettled]
      BY <1>1 DEF StartPublish, registryVars, linkVars, stateVars
    <2>2. AllSettled' <=> AllSettled
      BY <2>1, SettledKept
    <2> QED
      BY <1>types, <2>1, <2>2 DEF SettledInv
  <1>2. CASE ChooseChannel(t)
    <2>1. /\ UNCHANGED <<known, matched, linked, endpoints, cpu_only_subscribers, pending, batch,
                         destroying, due, settled, lost>>
          /\ pc[t] = "count"
          /\ pc' = [pc EXCEPT ![t] =
               IF total[t] <= Size(endpoints) + Size(pending) + Size(cpu_only_subscribers)
               THEN "move" ELSE "main"]
          /\ total' = [total EXCEPT ![t] = 0]
      BY <1>2 DEF ChooseChannel, Decide, registryVars, linkVars, stateVars, historyVars
    <2>2. AllSettled' <=> AllSettled
      BY <2>1, SettledKept
    <2>3. settled[t] /\ pc'[t] = "move" => matched \subseteq BufferAware
      BY <1>types, <2>1, EntriesCountMatches DEF SettledInv
    <2> QED
      BY <1>types, <2>1, <2>2, <2>3 DEF SettledInv
  <1>written. ASSUME NEW reached, NEW failed, Written(t, reached, failed), pc[t] # "idle",
                     settled[t] => matched \subseteq reached \cup failed
              PROVE  SettledInv'
    <2>1. /\ UNCHANGED <<known, matched, linked, endpoints, cpu_only_subscribers, pending, batch,
                         destroying, total>>
          /\ pc' = [pc EXCEPT ![t] = "idle"]
          /\ lost' = IF settled[t] THEN lost \cup (due[t] \ (reached \cup failed)) ELSE lost
          /\ due' = [due EXCEPT ![t] = {}]
          /\ settled' = [settled EXCEPT ![t] = FALSE]
      BY <1>written DEF Written, registryVars, linkVars, stateVars
    <2>2. lost' = {}
      BY <1>written, <1>types, <2>1 DEF SettledInv
    <2>3. AllSettled' <=> AllSettled
      BY <2>1, SettledKept
    <2> QED
      BY <1>types, <2>1, <2>2, <2>3 DEF SettledInv
  <1>3. CASE WriteMain(t)
    BY <1>3, <1>written DEF WriteMain
  <1>4. ASSUME NEW failed \in SUBSET {s \in BufferAware : endpoints[s] > 0}, WriteBuffer(t, failed)
        PROVE  SettledInv'
    <2> DEFINE reached == {s \in linked \cap CpuOnly : Size(cpu_only_subscribers) > 0} \cup
                          {s \in (linked \cap Accelerated) \ failed : endpoints[s] > 0}
    <2>1. pc[t] = "write" /\ Written(t, reached, failed)
      BY <1>4 DEF WriteBuffer
    <2>2. ASSUME settled[t] PROVE matched \subseteq reached \cup failed
      <3>1. AllSettled /\ matched \subseteq BufferAware
        BY <2>1, <2>2 DEF SettledInv
      <3> QED
        BY <1>types, <3>1, BufferReachesAll
    <2> QED
      BY <1>written, <2>1, <2>2
  <1>5. CASE MovePending(t)
    <2>1. /\ UNCHANGED <<known, matched, linked, endpoints, cpu_only_subscribers, destroying,
                         total, due, settled, lost>>
          /\ pc[t] = "move"
          /\ batch' = [batch EXCEPT ![t] = pending]
          /\ pending' = Nothing
          /\ pc' = [pc EXCEPT ![t] = IF pending = Nothing THEN "write" ELSE "create"]
      BY <1>5 DEF MovePending, registryVars, linkVars, historyVars
    <2>2. ASSUME NEW u \in Threads, settled[u] PROVE AllSettled'
      <3>1. AllSettled
        BY <2>2 DEF SettledInv
      <3>2. pending' = pending /\ batch' = batch
        BY <2>1, <3>1 DEF AllSettled, PublisherInv, TypeOK
      <3> QED
        BY <2>1, <3>1, <3>2, SettledKept
    <2> QED
      BY <1>types, <2>1, <2>2 DEF SettledInv
  <1>6. ASSUME NEW failed \in SUBSET {s \in BufferAware : batch[t][s] > 0}, CreateWriters(t, failed)
        PROVE  SettledInv'
    <2>1. /\ UNCHANGED <<known, matched, linked, pending, cpu_only_subscribers, destroying,
                         total, due, settled, lost>>
          /\ pc[t] = "create"
          /\ endpoints' = [s \in BufferAware |->
                             endpoints[s] + IF s \in failed THEN 0 ELSE batch[t][s]]
          /\ batch' = [batch EXCEPT ![t] = Nothing]
          /\ pc' = [pc EXCEPT ![t] = "write"]
      BY <1>6 DEF CreateWriters, registryVars, linkVars, historyVars
    <2>2. ASSUME NEW u \in Threads, settled[u] PROVE AllSettled'
      <3>1. AllSettled
        BY <2>2 DEF SettledInv
      <3>2. batch' = batch /\ \A s \in BufferAware : batch[t][s] = 0
        BY <2>1, <3>1 DEF AllSettled, PublisherInv, TypeOK, Nothing
      <3>3. \A s \in BufferAware : endpoints'[s] = endpoints[s]
        BY <2>1, <3>2, Counts, <1>types
      <3>4. endpoints' = endpoints
        BY <2>1, <3>3 DEF PublisherInv, TypeOK
      <3> QED
        BY <2>1, <3>1, <3>2, <3>4, SettledKept
    <2> QED
      BY <1>types, <2>1, <2>2 DEF SettledInv
  <1> QED
    BY <1>1, <1>2, <1>3, <1>4, <1>5, <1>6

\* For any subscribers and threads: if discovery, matching and creation of writers are at
\* rest when a message is published, and stay so until it is written, every matched
\* subscriber gets it, unless it cannot be serialized for that subscriber.
THEOREM SettledLoseNothing == Spec => []SettledGetAll
  <1>1. Init => SettledInv
    BY DEF Init, SettledInv
  <1>2. PublisherInv /\ SettledInv /\ [Next]_vars => SettledInv'
    <2> SUFFICES ASSUME PublisherInv, SettledInv, [Next]_vars PROVE SettledInv'
      OBVIOUS
    <2>1. CASE UNCHANGED vars
      <3>1. AllSettled' <=> AllSettled
        BY <2>1, SettledKept DEF vars, registryVars, linkVars, stateVars, threadVars
      <3> QED
        BY <2>1, <3>1 DEF vars, linkVars, threadVars, historyVars, SettledInv
    <2>2. CASE Next
      BY <2>2, UnsettlingStep, DestroyingStep, PublishingStep DEF Next
    <2> QED
      BY <2>1, <2>2
  <1>3. SettledInv => SettledGetAll
    BY DEF SettledInv, SettledGetAll
  <1> QED
    BY <1>1, <1>2, <1>3, PublisherInvariance, PTL DEF Spec
================================================================================
