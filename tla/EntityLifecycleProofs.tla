------------------------ MODULE EntityLifecycleProofs -------------------------
(***************************************************************************)
(* Proofs about EntityLifecycle for any entities, topics and types.        *)
(***************************************************************************)
EXTENDS EntityLifecycle, FiniteSetTheorems, TLAPS

(***************************************************************************)
(* What the list of steps a call still has to take looks like, and what it *)
(* says of the things the entity has.  These are predicates of one entity: *)
(* how is its call, s its list, h what it has, w the step that failed, m   *)
(* the slots whose endpoint was muted.                                     *)
(***************************************************************************)
Gettings == {"creating", "reopening"}

\* A thing a needs a thing b: b is there while a is.
Needs(a, b) ==
  \/ /\ a[1] = "endpoint" /\ a[2] # "channel"
     /\ b \in {Listener(a[2]), Topic(a[2]), Type(a[2])}
  \/ a = Endpoint("channel") /\ b = Topic("channel")
  \/ a \in {Endpoint("channel"), Topic("channel")} /\ b \in {Topic("main"), Type("main"), Event}
  \/ a \in {Topic("main"), Endpoint("main")} /\ b = Event
  \/ a = Filter /\ b = Topic("main")

\* In a creation, step b may come after step a.
MayFollow(e, a, b) ==
  /\ a # b /\ ~Needs(a, b)
  /\ b # Lock /\ (b = Check => a = Lock)
  /\ a = Endpoint("channel") => b \in {Unlock, Graph}
  /\ a = Graph => (b = Unlock /\ Is(e, Rpc))
  /\ a = Unlock => (b = Graph /\ Is(e, PubSub))

Gettable(e, how, s) ==
  \A i, j \in 1..Len(s) :
    i < j => ~Needs(s[i], s[j]) /\ (how = "creating" => MayFollow(e, s[i], s[j]))

Releasable(s) ==
  \A i, j \in 1..Len(s) : i < j => s[i] # s[j] /\ ~Needs(s[j], s[i])

\* Steps that only the holder of entity_creation_mutex_ takes.
Critical(e, how) ==
  IF how = "creating"
  THEN (Things \ (IF Is(e, PubSub) THEN {Graph} ELSE {})) \cup {Check}
  ELSE ({"topic", "type"} \X (Slots \ {"channel"})) \cup {Check}
         \cup (IF how \in {"destroying", "adding", "dropping"}
               THEN {"endpoint"} \X (Slots \ {"channel"}) ELSE {})

\* The lock is taken before them and released after them.
Guarded(s, steps) ==
  /\ \A i \in 1..Len(s) : s[i] \in steps \cup {Lock} => Unlock \in ToSet(s)
  /\ \A i, j \in 1..Len(s) :
       i < j => /\ s[j] = Lock => s[i] \notin steps \cup {Lock}
                /\ s[i] = Unlock => s[j] \notin steps \cup {Lock, Unlock}

Orderly(e, how, s, h) ==
  /\ how \in Gettings => Gettable(e, how, s)
  /\ how \notin Gettings => Releasable(s)
  /\ how = "creating" => \A a \in h : \A b \in ToSet(s) : MayFollow(e, a, b)
  /\ Guarded(s, Critical(e, how))

\* Whatever e can have.
MayHave(e) ==
  (IF Is(e, PubSub)
   THEN {Type("main"), Event, Listener("main"), Topic("main"), Endpoint("main"), Handle,
         Topic("channel"), Endpoint("channel"), Graph}
   ELSE ({"type", "listener", "topic", "endpoint"} \X {"request", "response"}) \cup {Handle, Graph})
  \cup (IF Is(e, {"subscription"}) THEN {Filter} ELSE {})
  \cup (IF package = "dynamic"
        THEN IF Is(e, PubSub) THEN {Support("main")} ELSE {Support("request"), Support("response")}
        ELSE {})

\* What the steps of each call can be about.
Contents(e, how, s, h) ==
  /\ h \subseteq MayHave(e)
  /\ how \in Gettings => ToSet(s) \cap Things \subseteq MayHave(e)
  /\ Check \in ToSet(s) => how = "creating"
  /\ how \in {"adding", "dropping", "reopening", "breaking"} => Is(e, {"subscription"})
  /\ how \in {"adding", "dropping"} => ToSet(s) \subseteq {Graph, Lock, Endpoint("main"), Filter, Unlock}
  /\ how \in {"reopening", "breaking"} => ToSet(s) \subseteq {Graph, Endpoint("main"), Filter}
  /\ how = "refusing" => ToSet(s) \subseteq {Unlock}
  /\ how \in {None, "live", "gone", "refused", "broken"} => s = <<>>
  /\ how = None => h = {}

\* Nothing has failed in calls that get things, or release all of them.
Course(e, how, w, m) ==
  /\ how \notin {"undoing", "gone", "breaking", "broken"} => w = Nothing
  /\ m # {} => how \in {"destroying", "gone"} /\ Is(e, Rpc)

Leaves(e, w, m) ==
  (IF w \notin {Nothing, Graph} THEN {Filter} ELSE {})
    \cup (IF w = Graph /\ Is(e, PubSub)
          THEN {Topic("channel"), Endpoint("channel"), Support("main")} ELSE {})
    \cup {Endpoint(x) : x \in m}

\* What is needed is there, or will be; what is there will be released, or is forgotten.
Closed(e, how, s, h, w, m) ==
  /\ \A a \in h : \A b \in Things : Needs(a, b) => b \in h \/ a \in Leaves(e, w, m)
  /\ how \in Gettings =>
       \A a \in ToSet(s) \cap Things : \A b \in Things : Needs(a, b) => b \in h \cup ToSet(s)
  /\ how \in {"undoing", "destroying", "gone"} => h \subseteq ToSet(s) \cup Leaves(e, w, m)

\* What is forgotten is not among the steps that are left.
Apart(e, how, s, w, m) == how \notin Gettings => ToSet(s) \cap Leaves(e, w, m) = {}

Shape(e, how, s, h, w, m) ==
  /\ Orderly(e, how, s, h) /\ Contents(e, how, s, h)
  /\ Course(e, how, w, m) /\ Closed(e, how, s, h, w, m) /\ Apart(e, how, s, w, m)

\* An entity that is made or in use has the things of a plan, or will: but for a filter that may
\* have come or gone, and for what a change of filter has taken away.
Owed(how) == {Filter} \cup (IF how \in {"adding", "dropping"} THEN {Graph, Endpoint("main")} ELSE {})
ToGet(how, s) == IF how \in Gettings THEN ToSet(s) \cap Things ELSE {}

Whole(how, s, h, plans) ==
  how \in {"creating", "live", "adding", "dropping", "reopening"} =>
    \E plan \in plans : h \cup ToGet(how, s) \cup Owed(how) = ToSet(plan) \cup {Graph} \cup Owed(how)

Muted(e) == {x \in Slots : <<e, x>> \in muted}

\* Who has released the lock, or has not taken it yet, does not hold it.
HasLock(e) == lock = e <=> (Unlock \in ToSet(todo[e]) /\ Lock \notin ToSet(todo[e]))

EntityInv(e) ==
  /\ Shape(e, call[e], todo[e], has[e], failed[e], Muted(e))
  /\ Whole(call[e], todo[e], has[e], Plans(e, type[e]))
  /\ HasLock(e)

\* A complete creation: what its steps acquire, all they need and nothing else.
CreationSteps(e, plan) ==
  <<Lock, Check>> \o plan \o <<Unlock>> \o If(Is(e, PubSub), <<Graph>>)

USE DEF Support, Type, Event, Listener, Topic, Filter, Endpoint, Handle, Graph, Lock, Check, Unlock

------------------------------------------------------------------------------
(***************************************************************************)
(* Plans.  A place for each step of a creation shows their order: plans    *)
(* are put together from parts whose places do not overlap.                *)
(***************************************************************************)
Second(e) ==
  {Support("response"), Type("response")}
    \cup (IF Is(e, {"client"}) THEN {Listener("request"), Topic("request"), Endpoint("request")}
          ELSE {Listener("response"), Topic("response"), Endpoint("response")})

Place(e, a) ==
  [lock |-> 0, check |-> 1, support |-> 2, type |-> 4, event |-> 6, listener |-> 7, topic |-> 9,
   filter |-> 11, endpoint |-> 12, handle |-> 14, graph |-> 41,
   unlock |-> IF Is(e, PubSub) THEN 40 ELSE 42][a[1]]
  + (IF a[2] = "channel" THEN 20 ELSE 0) + (IF a \in Second(e) THEN 1 ELSE 0)

\* Where the types of a plan begin, its endpoints, and what comes after the plan.
SupportsAt == 2
TypesAt == 4
EndpointsAt == 12
End(e) == IF Is(e, PubSub) THEN 40 ELSE 42

Sorted(e, s, low, high) ==
  /\ s \in Seq(Steps)
  /\ \A i \in 1..Len(s) : low <= Place(e, s[i]) /\ Place(e, s[i]) < high
  /\ \A i, j \in 1..Len(s) : i < j => Place(e, s[i]) < Place(e, s[j])

LEMMA Concat ==
  ASSUME NEW s \in Seq(Steps), NEW t \in Seq(Steps)
  PROVE  s \o t \in Seq(Steps) /\ ToSet(s \o t) = ToSet(s) \cup ToSet(t)
<1>1. /\ s \o t \in Seq(Steps) /\ Len(s \o t) = Len(s) + Len(t)
      /\ \A i \in 1..Len(s) : (s \o t)[i] = s[i]
      /\ \A i \in 1..Len(t) : (s \o t)[Len(s) + i] = t[i]
  BY SMT
<1>2. \A i \in 1..(Len(s) + Len(t)) : i \in 1..Len(s) \/ (i - Len(s) \in 1..Len(t) /\ i = Len(s) + (i - Len(s)))
  BY SMT
<1>3. ToSet(s \o t) = ToSet(s) \cup ToSet(t)
  <2>0. /\ DOMAIN s = 1..Len(s) /\ DOMAIN t = 1..Len(t)
        /\ DOMAIN (s \o t) = 1..(Len(s) + Len(t)) /\ Len(s) \in Nat /\ Len(t) \in Nat
    BY <1>1, SMT
  <2>1. ASSUME NEW x \in ToSet(s \o t) PROVE x \in ToSet(s) \cup ToSet(t)
    <3>1. PICK i \in 1..(Len(s) + Len(t)) : x = (s \o t)[i]
      BY <2>0 DEF ToSet
    <3>2. CASE i \in 1..Len(s)
      BY <1>1, <2>0, <3>1, <3>2 DEF ToSet
    <3>3. CASE i - Len(s) \in 1..Len(t) /\ i = Len(s) + (i - Len(s))
      <4>1. (s \o t)[i] = t[i - Len(s)]
        BY <1>1, <3>3
      <4> QED
        BY <2>0, <3>1, <3>3, <4>1 DEF ToSet
    <3> QED
      BY <1>2, <3>2, <3>3
  <2>2. ASSUME NEW i \in 1..Len(s) PROVE s[i] \in ToSet(s \o t)
    BY <1>1, <2>0, SMT DEF ToSet
  <2>3. ASSUME NEW i \in 1..Len(t) PROVE t[i] \in ToSet(s \o t)
    <3>1. Len(s) + i \in 1..(Len(s) + Len(t)) /\ (s \o t)[Len(s) + i] = t[i]
      BY <1>1, <2>0, SMT
    <3> QED
      BY <2>0, <3>1 DEF ToSet
  <2>4. \A x \in ToSet(s) : x \in ToSet(s \o t)
    BY <2>0, <2>2 DEF ToSet
  <2>5. \A x \in ToSet(t) : x \in ToSet(s \o t)
    BY <2>0, <2>3 DEF ToSet
  <2> QED
    BY <2>1, <2>4, <2>5
<1> QED
  BY <1>1, <1>3

LEMMA SortedConcat ==
  ASSUME NEW e, NEW low \in Nat, NEW mid \in Nat, NEW high \in Nat, NEW s, NEW t, low <= mid, mid <= high,
         Sorted(e, s, low, mid), Sorted(e, t, mid, high), \A a \in Steps : Place(e, a) \in Nat
  PROVE  Sorted(e, s \o t, low, high)
<1> DEFINE p(a) == Place(e, a)
<1>0. s \in Seq(Steps) /\ t \in Seq(Steps)
  BY DEF Sorted
<1>1. /\ s \o t \in Seq(Steps) /\ Len(s \o t) = Len(s) + Len(t)
      /\ \A i \in 1..Len(s) : (s \o t)[i] = s[i]
      /\ \A i \in 1..Len(t) : (s \o t)[Len(s) + i] = t[i]
  BY <1>0, SMT
<1>2. \A i \in 1..Len(s \o t) :
        \/ i \in 1..Len(s) /\ (s \o t)[i] = s[i]
        \/ (i - Len(s) \in 1..Len(t) /\ (s \o t)[i] = t[i - Len(s)])
  BY <1>0, <1>1, SMT
<1>3. /\ \A i \in 1..Len(s) : low <= p(s[i]) /\ p(s[i]) < mid
      /\ \A i \in 1..Len(t) : mid <= p(t[i]) /\ p(t[i]) < high
      /\ \A i, j \in 1..Len(s) : i < j => p(s[i]) < p(s[j])
      /\ \A i, j \in 1..Len(t) : i < j => p(t[i]) < p(t[j])
  BY DEF Sorted
<1>4. /\ \A i \in 1..Len(s) : p(s[i]) \in Nat
      /\ \A i \in 1..Len(t) : p(t[i]) \in Nat
  BY <1>0
<1> HIDE DEF p
<1>5. \A i \in 1..Len(s \o t) : low <= p((s \o t)[i]) /\ p((s \o t)[i]) < high
  BY <1>2, <1>3, <1>4, SMT
<1>6. \A i, j \in 1..Len(s \o t) : i < j => p((s \o t)[i]) < p((s \o t)[j])
  <2> SUFFICES ASSUME NEW i \in 1..Len(s \o t), NEW j \in 1..Len(s \o t), i < j
               PROVE  p((s \o t)[i]) < p((s \o t)[j])
    OBVIOUS
  <2>1. CASE i \in 1..Len(s) /\ j \in 1..Len(s)
    BY <1>1, <1>3, <2>1, SMT
  <2>2. CASE i \in 1..Len(s) /\ j \notin 1..Len(s)
    <3>1. (s \o t)[i] = s[i] /\ p(s[i]) < mid /\ p(s[i]) \in Nat
      BY <1>1, <1>3, <1>4, <2>2
    <3>2. j - Len(s) \in 1..Len(t) /\ (s \o t)[j] = t[j - Len(s)]
      BY <1>2, <2>2
    <3>3. mid <= p(t[j - Len(s)]) /\ p(t[j - Len(s)]) \in Nat
      BY <1>3, <1>4, <3>2
    <3> QED
      BY <3>1, <3>2, <3>3, SMT
  <2>3. CASE i \notin 1..Len(s)
    <3>1. i - Len(s) \in 1..Len(t) /\ (s \o t)[i] = t[i - Len(s)]
      BY <1>2, <2>3
    <3>2. j \notin 1..Len(s)
      BY <1>0, <1>1, <2>3, SMT
    <3>3. j - Len(s) \in 1..Len(t) /\ (s \o t)[j] = t[j - Len(s)]
      BY <1>2, <3>2
    <3>4. i - Len(s) < j - Len(s)
      BY <1>0, <1>1, SMT
    <3> QED
      BY <1>3, <3>1, <3>3, <3>4
  <2> QED
    BY <2>1, <2>2, <2>3
<1> QED
  BY <1>1, <1>5, <1>6 DEF Sorted, p

LEMMA Places ==
  ASSUME NEW e
  PROVE  \A a \in Steps : Place(e, a) \in Nat
BY SMT DEF Place, Steps, Things, Slots

LEMMA PlacesOrder ==
  ASSUME NEW e, Is(e, Kinds), NEW a \in MayHave(e) \cup {Lock, Check, Unlock},
         NEW b \in MayHave(e) \cup {Lock, Check, Unlock}, Place(e, a) < Place(e, b)
  PROVE  MayFollow(e, a, b)
BY SMT DEF Place, MayHave, MayFollow, Needs, Second, Is, Kinds, PubSub, Rpc

PubSubThings == {Type("main"), Event, Listener("main"), Topic("main"), Endpoint("main"), Handle}
RpcThings    == ({"type", "listener", "topic", "endpoint"} \X {"request", "response"}) \cup {Handle, Graph}

\* The steps of a plan are in order, and these.
PlanOf(e, plan) ==
  /\ Sorted(e, plan, SupportsAt, End(e))
  /\ Is(e, PubSub) =>
       \E some \in SUBSET {"filter", "channel"} :
         /\ "filter" \in some => Is(e, {"subscription"})
         /\ ToSet(plan) = PubSubThings
              \cup (IF package = "dynamic" THEN {Support("main")} ELSE {})
              \cup (IF "filter" \in some THEN {Filter} ELSE {})
              \cup (IF "channel" \in some THEN {Topic("channel"), Endpoint("channel")} ELSE {})
  /\ Is(e, Rpc) =>
       ToSet(plan) = RpcThings
         \cup (IF package = "dynamic" THEN {Support("request"), Support("response")} ELSE {})

\* q has the steps of s and those of t.
Joins(q, s, t) == ToSet(q) = ToSet(s) \cup ToSet(t)

\* Two parts, one after the other.
LEMMA Joined ==
  ASSUME NEW e, NEW low \in Nat, NEW mid \in Nat, NEW high \in Nat, low <= mid, mid <= high,
         NEW s, NEW t, Sorted(e, s, low, mid), Sorted(e, t, mid, high)
  PROVE  Sorted(e, s \o t, low, high) /\ Joins(s \o t, s, t)
<1>1. Sorted(e, s \o t, low, high)
  BY Places, SortedConcat
<1>2. s \in Seq(Steps) /\ t \in Seq(Steps)
  BY DEF Sorted
<1> QED
  BY <1>1, <1>2, Concat DEF Joins

LEMMA Bounds ==
  ASSUME NEW e
  PROVE  /\ SupportsAt \in Nat /\ TypesAt \in Nat /\ EndpointsAt \in Nat /\ End(e) \in Nat
         /\ SupportsAt <= TypesAt /\ TypesAt <= EndpointsAt /\ EndpointsAt <= End(e)
         /\ SupportsAt <= EndpointsAt /\ TypesAt <= End(e) /\ SupportsAt <= End(e)
BY SMT DEF SupportsAt, TypesAt, EndpointsAt, End

LEMMA JoinedParts ==
  ASSUME NEW e
  PROVE  /\ \A s, t : Sorted(e, s, SupportsAt, TypesAt) /\ Sorted(e, t, TypesAt, EndpointsAt)
              => Sorted(e, s \o t, SupportsAt, EndpointsAt) /\ Joins(s \o t, s, t)
         /\ \A s, t : Sorted(e, s, TypesAt, EndpointsAt) /\ Sorted(e, t, EndpointsAt, End(e))
              => Sorted(e, s \o t, TypesAt, End(e)) /\ Joins(s \o t, s, t)
         /\ \A s, t : Sorted(e, s, SupportsAt, EndpointsAt) /\ Sorted(e, t, EndpointsAt, End(e))
              => Sorted(e, s \o t, SupportsAt, End(e)) /\ Joins(s \o t, s, t)
<1>1. ASSUME NEW s, NEW t, Sorted(e, s, SupportsAt, TypesAt), Sorted(e, t, TypesAt, EndpointsAt)
      PROVE  Sorted(e, s \o t, SupportsAt, EndpointsAt) /\ Joins(s \o t, s, t)
  <2>1. SupportsAt \in Nat /\ TypesAt \in Nat /\ EndpointsAt \in Nat
    BY Bounds
  <2>2. SupportsAt <= TypesAt /\ TypesAt <= EndpointsAt
    BY Bounds
  <2> QED
    BY <1>1, <2>1, <2>2, Joined
<1>2. ASSUME NEW s, NEW t, Sorted(e, s, TypesAt, EndpointsAt), Sorted(e, t, EndpointsAt, End(e))
      PROVE  Sorted(e, s \o t, TypesAt, End(e)) /\ Joins(s \o t, s, t)
  BY <1>2, Bounds, Joined
<1>3. ASSUME NEW s, NEW t, Sorted(e, s, SupportsAt, EndpointsAt), Sorted(e, t, EndpointsAt, End(e))
      PROVE  Sorted(e, s \o t, SupportsAt, End(e)) /\ Joins(s \o t, s, t)
  BY <1>3, Bounds, Joined
<1> QED
  BY <1>1, <1>2, <1>3

\* Type supports come first; a plan may have none.
LEMMA ThreeParts ==
  ASSUME NEW e, NEW a, NEW r, NEW w, Sorted(e, a, SupportsAt, TypesAt),
         Sorted(e, r, TypesAt, EndpointsAt), Sorted(e, w, EndpointsAt, End(e))
  PROVE  /\ Sorted(e, r \o w, SupportsAt, End(e)) /\ Joins(r \o w, r, w)
         /\ Sorted(e, (a \o r) \o w, SupportsAt, End(e))
         /\ Joins(a \o r, a, r)
         /\ Joins((a \o r) \o w, a \o r, w)
<1> DEFINE q   == r \o w
           ar  == a \o r
           all == ar \o w
<1>1. Sorted(e, q, TypesAt, End(e)) /\ Joins(q, r, w)
  BY JoinedParts
<1>2. Sorted(e, ar, SupportsAt, EndpointsAt) /\ Joins(ar, a, r)
  BY JoinedParts
<1> HIDE DEF q, ar
<1>3. Sorted(e, q, SupportsAt, End(e))
  BY <1>1, Places, SMT DEF Sorted, SupportsAt, TypesAt
<1>4. Sorted(e, all, SupportsAt, End(e)) /\ Joins(all, ar, w)
  BY <1>2, JoinedParts
<1> QED
  BY <1>1, <1>2, <1>3, <1>4, Zenon DEF q, ar

\* The parts of publishers and subscriptions.
LEMMA PubSubTopicPart ==
  ASSUME NEW e, NEW f \in BOOLEAN
  PROVE  /\ Sorted(e, CppPublisherTopic, TypesAt, EndpointsAt)
         /\ ToSet(CppPublisherTopic) = {Type("main"), Event, Listener("main"), Topic("main")}
         /\ Sorted(e, CppSubscriptionTopic(f), TypesAt, EndpointsAt)
         /\ ToSet(CppSubscriptionTopic(f)) =
              {Type("main"), Event, Listener("main"), Topic("main")} \cup (IF f THEN {Filter} ELSE {})
<1> USE DEF CppPublisherTopic, CppSubscriptionTopic, If
<1>1. Sorted(e, CppPublisherTopic, TypesAt, EndpointsAt)
  BY SMT DEF Place, Sorted, Second, Steps, Things, Slots, TypesAt, EndpointsAt
<1>2. ToSet(CppPublisherTopic) = {Type("main"), Event, Listener("main"), Topic("main")}
  BY SMT DEF ToSet
<1>3. CASE f
  <2>1. Sorted(e, CppSubscriptionTopic(f), TypesAt, EndpointsAt)
    BY <1>3, SMT DEF Place, Sorted, Second, Steps, Things, Slots, TypesAt, EndpointsAt
  <2>2. ToSet(CppSubscriptionTopic(f)) = {Type("main"), Event, Listener("main"), Topic("main"), Filter}
    BY <1>3, SMT DEF ToSet
  <2>3. ToSet(CppSubscriptionTopic(f)) =
          {Type("main"), Event, Listener("main"), Topic("main")} \cup (IF f THEN {Filter} ELSE {})
    BY <1>3, <2>2, SMT
  <2> QED
    BY <1>1, <1>2, <2>1, <2>3, Zenon
<1>4. CASE ~f
  <2>1. Sorted(e, CppSubscriptionTopic(f), TypesAt, EndpointsAt)
    BY <1>4, SMT DEF Place, Sorted, Second, Steps, Things, Slots, TypesAt, EndpointsAt
  <2>2. ToSet(CppSubscriptionTopic(f)) = {Type("main"), Event, Listener("main"), Topic("main")}
    BY <1>4, SMT DEF ToSet
  <2>3. ToSet(CppSubscriptionTopic(f)) =
          {Type("main"), Event, Listener("main"), Topic("main")} \cup (IF f THEN {Filter} ELSE {})
    BY <1>4, <2>2, SMT
  <2> QED
    BY <1>1, <1>2, <2>1, <2>3, Zenon
<1> QED
  BY <1>3, <1>4

LEMMA PubSubEndpointPart ==
  ASSUME NEW e, Is(e, PubSub), NEW c \in BOOLEAN, NEW w, w = CppPublisherWriter(c)
  PROVE  /\ Sorted(e, w, EndpointsAt, End(e))
         /\ ToSet(w) = {Endpoint("main"), Handle}
                         \cup (IF c THEN {Topic("channel"), Endpoint("channel")} ELSE {})
<1> USE DEF CppPublisherWriter, If, Channel
<1>1. CASE c
  <2>1. Sorted(e, w, EndpointsAt, End(e))
    BY <1>1, SMT DEF Place, Sorted, Second, Steps, Things, Slots, EndpointsAt, End
  <2>2. ToSet(w) = {Endpoint("main"), Handle, Topic("channel"), Endpoint("channel")}
    BY <1>1, SMT DEF ToSet
  <2> QED
    BY <1>1, <2>1, <2>2, SMT
<1>2. CASE ~c
  <2>1. Sorted(e, w, EndpointsAt, End(e))
    BY <1>2, SMT DEF Place, Sorted, Second, Steps, Things, Slots, EndpointsAt, End
  <2>2. ToSet(w) = {Endpoint("main"), Handle}
    BY <1>2, SMT DEF ToSet
  <2> QED
    BY <1>2, <2>1, <2>2, SMT
<1> QED
  BY <1>1, <1>2

LEMMA SupportPart ==
  ASSUME NEW e
  PROVE  /\ Sorted(e, <<Support("main")>>, SupportsAt, TypesAt)
         /\ Sorted(e, <<Support("request"), Support("response")>>, SupportsAt, TypesAt)
         /\ ToSet(<<Support("main")>>) = {Support("main")}
         /\ ToSet(<<Support("request"), Support("response")>>) = {Support("request"), Support("response")}
<1>1. Sorted(e, <<Support("main")>>, SupportsAt, TypesAt)
  BY SMT DEF Place, Sorted, Second, Steps, Things, Slots, SupportsAt, TypesAt
<1>2. Sorted(e, <<Support("request"), Support("response")>>, SupportsAt, TypesAt)
  BY SMT DEF Place, Sorted, Second, Steps, Things, Slots, SupportsAt, TypesAt
<1>3. /\ ToSet(<<Support("main")>>) = {Support("main")}
      /\ ToSet(<<Support("request"), Support("response")>>) = {Support("request"), Support("response")}
  BY SMT DEF ToSet
<1> QED
  BY <1>1, <1>2, <1>3, Zenon

\* The parts of clients and services.
LEMMA ClientParts ==
  ASSUME NEW e, Is(e, {"client"})
  PROVE  /\ Sorted(e, CppClientTopics, TypesAt, EndpointsAt)
         /\ Sorted(e, CppClientEndpoints, EndpointsAt, End(e))
         /\ ToSet(CppClientTopics) = {"type", "listener", "topic"} \X {"request", "response"}
         /\ ToSet(CppClientEndpoints) = ({"endpoint"} \X {"request", "response"}) \cup {Handle, Graph}
<1> USE DEF CppClientTopics, CppClientEndpoints
<1>1. Sorted(e, CppClientTopics, TypesAt, EndpointsAt)
  BY SMT DEF Place, Sorted, Second, Steps, Things, Slots, Is, TypesAt, EndpointsAt
<1>2. Sorted(e, CppClientEndpoints, EndpointsAt, End(e))
  BY SMT DEF Place, Sorted, Second, Steps, Things, Slots, Is, PubSub, EndpointsAt, End
<1>3. ToSet(CppClientTopics) = {"type", "listener", "topic"} \X {"request", "response"}
  BY SMT DEF ToSet
<1>4. ToSet(CppClientEndpoints) = ({"endpoint"} \X {"request", "response"}) \cup {Handle, Graph}
  BY SMT DEF ToSet
<1> QED
  BY <1>1, <1>2, <1>3, <1>4, Zenon

LEMMA ServiceParts ==
  ASSUME NEW e, Is(e, {"service"})
  PROVE  /\ Sorted(e, CppServiceTopics, TypesAt, EndpointsAt)
         /\ Sorted(e, CppServiceEndpoints, EndpointsAt, End(e))
         /\ ToSet(CppServiceTopics) = {"type", "listener", "topic"} \X {"request", "response"}
         /\ ToSet(CppServiceEndpoints) = ({"endpoint"} \X {"request", "response"}) \cup {Handle, Graph}
<1> USE DEF CppServiceTopics, CppServiceEndpoints
<1>1. Sorted(e, CppServiceTopics, TypesAt, EndpointsAt)
  BY SMT DEF Place, Sorted, Second, Steps, Things, Slots, Is, TypesAt, EndpointsAt
<1>2. Sorted(e, CppServiceEndpoints, EndpointsAt, End(e))
  BY SMT DEF Place, Sorted, Second, Steps, Things, Slots, Is, PubSub, EndpointsAt, End
<1>3. ToSet(CppServiceTopics) = {"type", "listener", "topic"} \X {"request", "response"}
  BY SMT DEF ToSet
<1>4. ToSet(CppServiceEndpoints) = ({"endpoint"} \X {"request", "response"}) \cup {Handle, Graph}
  BY SMT DEF ToSet
<1> QED
  BY <1>1, <1>2, <1>3, <1>4, Zenon

LEMMA PubSubPlan ==
  ASSUME NEW e, Is(e, PubSub), NEW f \in BOOLEAN, NEW c \in BOOLEAN, f => Is(e, {"subscription"}),
         NEW r, NEW w, Sorted(e, r, TypesAt, EndpointsAt), Sorted(e, w, EndpointsAt, End(e)), NEW plan
  PROVE  /\ ToSet(r) = {Type("main"), Event, Listener("main"), Topic("main")}
                         \cup (IF f THEN {Filter} ELSE {})
         /\ ToSet(w) = {Endpoint("main"), Handle}
                         \cup (IF c THEN {Topic("channel"), Endpoint("channel")} ELSE {})
         /\ \/ package = "cpp" /\ plan = r \o w
            \/ package = "dynamic" /\ plan = (<<Support("main")>> \o r) \o w
         => PlanOf(e, plan)
<1> DEFINE a == <<Support("main")>>
<1>1. Sorted(e, a, SupportsAt, TypesAt)
  BY SupportPart
<1>2. ToSet(a) = {Support("main")}
  BY SupportPart
<1> HIDE DEF a
<1>3. /\ Sorted(e, r \o w, SupportsAt, End(e)) /\ Joins(r \o w, r, w)
      /\ Sorted(e, (a \o r) \o w, SupportsAt, End(e))
      /\ Joins(a \o r, a, r)
      /\ Joins((a \o r) \o w, a \o r, w)
  BY <1>1, ThreeParts
<1>0. HAVE /\ ToSet(r) = {Type("main"), Event, Listener("main"), Topic("main")}
                            \cup (IF f THEN {Filter} ELSE {})
           /\ ToSet(w) = {Endpoint("main"), Handle}
                            \cup (IF c THEN {Topic("channel"), Endpoint("channel")} ELSE {})
           /\ \/ package = "cpp" /\ plan = r \o w
              \/ package = "dynamic" /\ plan = (<<Support("main")>> \o r) \o w
<1>4. Sorted(e, plan, SupportsAt, End(e))
  BY <1>0, <1>3, Zenon DEF a
<1>5. ToSet(plan) = (IF package = "dynamic" THEN {Support("main")} ELSE {}) \cup ToSet(r) \cup ToSet(w)
  <2>1. CASE package = "cpp"
    BY <1>0, <1>3, <2>1, Zenon DEF Joins
  <2>2. CASE package = "dynamic"
    <3>1. plan = (a \o r) \o w
      BY <1>0, <2>2 DEF a
    <3>2. ToSet(plan) = ToSet(a \o r) \cup ToSet(w)
      BY <1>3, <3>1, Zenon DEF Joins
    <3>3. ToSet(a \o r) = ToSet(a) \cup ToSet(r)
      BY <1>3, Zenon DEF Joins
    <3> QED
      BY <1>2, <2>2, <3>2, <3>3
  <2> QED
    BY <1>0, <2>1, <2>2
<1>6. PICK some \in SUBSET {"filter", "channel"} : ("filter" \in some <=> f) /\ ("channel" \in some <=> c)
  <2>1. {x \in {"filter", "channel"} : (x = "filter" /\ f) \/ (x = "channel" /\ c)}
          \in SUBSET {"filter", "channel"}
    OBVIOUS
  <2> QED
    BY <2>1
<1>7. ToSet(plan) = PubSubThings
        \cup (IF package = "dynamic" THEN {Support("main")} ELSE {})
        \cup (IF "filter" \in some THEN {Filter} ELSE {})
        \cup (IF "channel" \in some THEN {Topic("channel"), Endpoint("channel")} ELSE {})
  BY <1>0, <1>5, <1>6, Zenon DEF PubSubThings
<1>8. ~Is(e, Rpc)
  BY DEF Is, PubSub, Rpc
<1> QED
  BY <1>4, <1>6, <1>7, <1>8, Zenon DEF PlanOf

LEMMA RpcPlan ==
  ASSUME NEW e, Is(e, Rpc), NEW r, NEW w, Sorted(e, r, TypesAt, EndpointsAt), Sorted(e, w, EndpointsAt, End(e)),
         NEW plan
  PROVE  /\ ToSet(r) = {"type", "listener", "topic"} \X {"request", "response"}
         /\ ToSet(w) = ({"endpoint"} \X {"request", "response"}) \cup {Handle, Graph}
         /\ \/ package = "cpp" /\ plan = r \o w
            \/ package = "dynamic" /\ plan = (<<Support("request"), Support("response")>> \o r) \o w
         => PlanOf(e, plan)
<1> DEFINE a == <<Support("request"), Support("response")>>
<1>1. Sorted(e, a, SupportsAt, TypesAt)
  BY SupportPart
<1>2. ToSet(a) = {Support("request"), Support("response")}
  BY SupportPart
<1> HIDE DEF a
<1>3. /\ Sorted(e, r \o w, SupportsAt, End(e)) /\ Joins(r \o w, r, w)
      /\ Sorted(e, (a \o r) \o w, SupportsAt, End(e))
      /\ Joins(a \o r, a, r)
      /\ Joins((a \o r) \o w, a \o r, w)
  BY <1>1, ThreeParts
<1>0. HAVE /\ ToSet(r) = {"type", "listener", "topic"} \X {"request", "response"}
           /\ ToSet(w) = ({"endpoint"} \X {"request", "response"}) \cup {Handle, Graph}
           /\ \/ package = "cpp" /\ plan = r \o w
              \/ package = "dynamic" /\ plan = (<<Support("request"), Support("response")>> \o r) \o w
<1>4. Sorted(e, plan, SupportsAt, End(e))
  BY <1>0, <1>3, Zenon DEF a
<1>5. ToSet(r) \cup ToSet(w) = RpcThings
  BY <1>0, SMT DEF RpcThings
<1>6. ToSet(plan) = RpcThings
        \cup (IF package = "dynamic" THEN {Support("request"), Support("response")} ELSE {})
  <2>1. CASE package = "cpp"
    BY <1>0, <1>3, <1>5, <2>1, Zenon DEF Joins
  <2>2. CASE package = "dynamic"
    <3>1. plan = (a \o r) \o w
      BY <1>0, <2>2 DEF a
    <3>2. ToSet(plan) = ToSet(a \o r) \cup ToSet(w)
      BY <1>3, <3>1, Zenon DEF Joins
    <3>3. ToSet(a \o r) = ToSet(a) \cup ToSet(r)
      BY <1>3, Zenon DEF Joins
    <3>4. ToSet(plan) = ToSet(a) \cup (ToSet(r) \cup ToSet(w))
      BY <3>2, <3>3, Zenon
    <3>5. ToSet(plan) = ToSet(a) \cup RpcThings
      BY <1>5, <3>4, Zenon
    <3> QED
      BY <1>2, <2>2, <3>5
  <2> QED
    BY <1>0, <2>1, <2>2
<1>7. ~Is(e, PubSub)
  BY DEF Is, PubSub, Rpc
<1> QED
  BY <1>4, <1>6, <1>7, Zenon DEF PlanOf

\* Every way to create an entity is such a plan.
LEMMA CreationPlans ==
  ASSUME package \in {"cpp", "dynamic"}, NEW e \in Entities, NEW t, NEW plan \in Plans(e, t)
  PROVE  PlanOf(e, plan)
<1>1. Kind[e] \in Kinds
  BY EntityAssumption
<1>2. CASE Kind[e] = "publisher"
  <2>1. Is(e, PubSub) /\ Is(e, {"publisher"})
    BY <1>2 DEF Is, PubSub
  <2>2. PICK c \in BOOLEAN :
          \/ package = "cpp" /\ plan = CppPublisherTopic \o CppPublisherWriter(c)
          \/ package = "dynamic" /\ c = FALSE
             /\ plan = (<<Support("main")>> \o CppPublisherTopic) \o CppPublisherWriter(c)
    <3>1. CASE package = "cpp"
      <4>1. plan = CppPublisherTopic \o CppPublisherWriter(t \in BufferAware)
        BY <1>2, <3>1, SMT DEF Plans, CppPlans
      <4>2. (t \in BufferAware) \in BOOLEAN
        OBVIOUS
      <4> QED
        BY <3>1, <4>1, <4>2, Zenon
    <3>2. CASE package = "dynamic"
      <4>1. plan = (<<Support("main")>> \o CppPublisherTopic) \o CppPublisherWriter(FALSE)
        <5>1. plan = DynamicPublisherTopic \o DynamicPublisherWriter
          BY <1>2, <3>2, SMT DEF Plans, DynamicPlans
        <5> QED
          BY <5>1, Zenon DEF DynamicPublisherTopic, DynamicPublisherWriter
      <4> QED
        BY <3>2, <4>1, Zenon
    <3> QED
      BY <3>1, <3>2
  <2> DEFINE r == CppPublisherTopic
             w == CppPublisherWriter(c)
  <2>3. Sorted(e, r, TypesAt, EndpointsAt)
        /\ ToSet(r) = {Type("main"), Event, Listener("main"), Topic("main")}
                          \cup (IF FALSE THEN {Filter} ELSE {})
    BY PubSubTopicPart
  <2>4. Sorted(e, w, EndpointsAt, End(e))
        /\ ToSet(w) = {Endpoint("main"), Handle}
                        \cup (IF c THEN {Topic("channel"), Endpoint("channel")} ELSE {})
    BY <2>1, PubSubEndpointPart
  <2> HIDE DEF r, w
  <2>5. \/ package = "cpp" /\ plan = r \o w
        \/ package = "dynamic" /\ plan = (<<Support("main")>> \o r) \o w
    BY <2>2 DEF r, w
  <2> QED
    BY <2>1, <2>3, <2>4, <2>5, PubSubPlan, Zenon
<1>3. CASE Kind[e] = "subscription"
  <2>1. Is(e, PubSub) /\ Is(e, {"subscription"})
    BY <1>3 DEF Is, PubSub
  <2>2. PICK f \in BOOLEAN, c \in BOOLEAN :
          \/ package = "cpp" /\ plan = CppSubscriptionTopic(f) \o CppPublisherWriter(c)
          \/ package = "dynamic"
             /\ plan = (<<Support("main")>> \o CppSubscriptionTopic(f)) \o CppPublisherWriter(c)
    <3>1. CASE package = "cpp"
      <4>1. PICK f \in BOOLEAN, c \in BOOLEAN : plan = CppSubscriptionTopic(f) \o CppSubscriptionReader(c)
        <5>1. plan \in CppPlans("subscription", t \in BufferAware)
          BY <1>3, <3>1 DEF Plans
        <5>2. CppPlans("subscription", t \in BufferAware) =
                {CppSubscriptionTopic(f) \o CppSubscriptionReader(t \in BufferAware) : f \in BOOLEAN}
                  \cup {RuntimeSubscriptionTopic(f) \o RuntimeSubscriptionReader : f \in BOOLEAN}
          BY DEF CppPlans
        <5>3. (t \in BufferAware) \in BOOLEAN
          OBVIOUS
        <5>4. CASE plan \in {CppSubscriptionTopic(f) \o CppSubscriptionReader(t \in BufferAware)
                               : f \in BOOLEAN}
          BY <5>3, <5>4, Zenon
        <5>5. CASE plan \in {RuntimeSubscriptionTopic(f) \o RuntimeSubscriptionReader : f \in BOOLEAN}
          BY <5>5, Zenon DEF RuntimeSubscriptionTopic, RuntimeSubscriptionReader
        <5> QED
          BY <5>1, <5>2, <5>4, <5>5, Zenon
      <4> QED
        BY <3>1, <4>1, Zenon DEF CppSubscriptionReader, CppPublisherWriter
    <3>2. CASE package = "dynamic"
      <4>1. plan = (<<Support("main")>> \o CppSubscriptionTopic(FALSE)) \o CppPublisherWriter(FALSE)
        <5>1. plan = DynamicSubscriptionTopic \o DynamicSubscriptionReader
          BY <1>3, <3>2, SMT DEF Plans, DynamicPlans
        <5> QED
          BY <5>1, Zenon DEF DynamicSubscriptionTopic, DynamicSubscriptionReader,
                             CppSubscriptionReader, CppPublisherWriter
      <4> QED
        BY <3>2, <4>1
    <3> QED
      BY <3>1, <3>2
  <2> DEFINE r == CppSubscriptionTopic(f)
             w == CppPublisherWriter(c)
  <2>3. Sorted(e, r, TypesAt, EndpointsAt)
        /\ ToSet(r) = {Type("main"), Event, Listener("main"), Topic("main")} \cup (IF f THEN {Filter} ELSE {})
    BY PubSubTopicPart
  <2>4. Sorted(e, w, EndpointsAt, End(e))
        /\ ToSet(w) = {Endpoint("main"), Handle}
                        \cup (IF c THEN {Topic("channel"), Endpoint("channel")} ELSE {})
    BY <2>1, PubSubEndpointPart
  <2> HIDE DEF r, w
  <2>5. \/ package = "cpp" /\ plan = r \o w
        \/ package = "dynamic" /\ plan = (<<Support("main")>> \o r) \o w
    BY <2>2 DEF r, w
  <2> QED
    BY <2>1, <2>3, <2>4, <2>5, PubSubPlan, Zenon
<1>4. CASE Kind[e] = "client"
  <2>1. Is(e, Rpc) /\ Is(e, {"client"})
    BY <1>4 DEF Is, Rpc
  <2> DEFINE r == CppClientTopics
             w == CppClientEndpoints
  <2>2. \/ package = "cpp" /\ plan = r \o w
        \/ package = "dynamic" /\ plan = (<<Support("request"), Support("response")>> \o r) \o w
    BY <1>4, SMT DEF Plans, CppPlans, DynamicPlans, DynamicClientTopics, DynamicClientEndpoints
  <2> HIDE DEF r, w
  <2>3. Sorted(e, r, TypesAt, EndpointsAt) /\ Sorted(e, w, EndpointsAt, End(e))
        /\ ToSet(r) = {"type", "listener", "topic"} \X {"request", "response"}
        /\ ToSet(w) = ({"endpoint"} \X {"request", "response"}) \cup {Handle, Graph}
    BY <2>1, ClientParts DEF r, w
  <2> QED
    BY <2>1, <2>2, <2>3, RpcPlan, Zenon
<1>5. CASE Kind[e] = "service"
  <2>1. Is(e, Rpc) /\ Is(e, {"service"})
    BY <1>5 DEF Is, Rpc
  <2> DEFINE r == CppServiceTopics
             w == CppServiceEndpoints
  <2>2. \/ package = "cpp" /\ plan = r \o w
        \/ package = "dynamic" /\ plan = (<<Support("request"), Support("response")>> \o r) \o w
    BY <1>5, SMT DEF Plans, CppPlans, DynamicPlans, DynamicServiceTopics, DynamicServiceEndpoints
  <2> HIDE DEF r, w
  <2>3. Sorted(e, r, TypesAt, EndpointsAt) /\ Sorted(e, w, EndpointsAt, End(e))
        /\ ToSet(r) = {"type", "listener", "topic"} \X {"request", "response"}
        /\ ToSet(w) = ({"endpoint"} \X {"request", "response"}) \cup {Handle, Graph}
    BY <2>1, ServiceParts DEF r, w
  <2> QED
    BY <2>1, <2>2, <2>3, RpcPlan, Zenon
<1> QED
  BY <1>1, <1>2, <1>3, <1>4, <1>5 DEF Kinds

\* The lock is taken before a plan and released after it; publishers and subscriptions enter the
\* graph after that.
LEMMA CreationSorted ==
  ASSUME NEW e, NEW plan, Sorted(e, plan, SupportsAt, End(e))
  PROVE  /\ Sorted(e, CreationSteps(e, plan), 0, 44)
         /\ \A a : a \in ToSet(CreationSteps(e, plan))
                     <=> a \in ToSet(plan) \/ a \in {Lock, Check, Unlock} \/ (Is(e, PubSub) /\ a = Graph)
<1> DEFINE lc   == <<Lock, Check>>
           u    == <<Unlock>>
           g    == If(Is(e, PubSub), <<Graph>>)
           lp   == lc \o plan
           lpu  == lp \o u
           after == End(e) + 1
           end  == 44
<1>1. Sorted(e, lc, 0, SupportsAt) /\ ToSet(lc) = {Lock, Check}
  <2>1. Sorted(e, lc, 0, SupportsAt)
    BY SMT DEF Sorted, Place, Second, Steps, SupportsAt
  <2>2. ToSet(lc) = {Lock, Check}
    BY SMT DEF ToSet
  <2> QED
    BY <2>1, <2>2
<1>2. Sorted(e, u, End(e), after) /\ ToSet(u) = {Unlock}
  <2>1. Sorted(e, u, End(e), after)
    <3>1. /\ u \in Seq(Steps) /\ Len(u) = 1 /\ u[1] = Unlock
          /\ \A i, j \in 1..Len(u) : ~(i < j) /\ u[i] = Unlock
      BY SMT DEF Steps
    <3>2. Place(e, Unlock) = End(e)
      BY SMT DEF Place, Second, End
    <3>3. End(e) <= End(e) /\ End(e) < after
      BY SMT DEF End
    <3> HIDE DEF u, after
    <3> QED
      BY <3>1, <3>2, <3>3, Zenon DEF Sorted
  <2>2. ToSet(u) = {Unlock}
    BY SMT DEF ToSet
  <2> QED
    BY <2>1, <2>2
<1>3. Sorted(e, g, after, end)
  <2>1. CASE Is(e, PubSub)
    BY <2>1, SMT DEF Sorted, Place, Second, Steps, Things, Slots, End, If
  <2>2. CASE ~Is(e, PubSub)
    BY <2>2, SMT DEF Sorted, Place, Second, Steps, Things, Slots, End, If
  <2> QED
    BY <2>1, <2>2
<1>4. \A a : a \in ToSet(g) <=> (Is(e, PubSub) /\ a = Graph)
  <2>1. CASE Is(e, PubSub)
    <3>1. ToSet(g) = {Graph}
      BY <2>1, SMT DEF If, ToSet
    <3> QED
      BY <2>1, <3>1
  <2>2. CASE ~Is(e, PubSub)
    <3>1. ToSet(g) = {}
      BY <2>2, SMT DEF If, ToSet
    <3> QED
      BY <2>2, <3>1
  <2> QED
    BY <2>1, <2>2
<1>5. /\ SupportsAt \in Nat /\ End(e) \in Nat /\ after \in Nat /\ 0 \in Nat /\ end \in Nat
      /\ 0 <= SupportsAt /\ SupportsAt <= End(e) /\ 0 <= End(e) /\ End(e) <= after /\ 0 <= after /\ after <= end
  BY SMT DEF SupportsAt, End
<1> HIDE DEF lc, u, g, after, end
<1>6. Sorted(e, lp, 0, End(e)) /\ Joins(lp, lc, plan)
  BY <1>1, <1>5, Joined
<1> HIDE DEF lp
<1>7. Sorted(e, lpu, 0, after) /\ Joins(lpu, lp, u)
  BY <1>2, <1>5, <1>6, Joined
<1> HIDE DEF lpu
<1>8. Sorted(e, lpu \o g, 0, end) /\ Joins(lpu \o g, lpu, g)
  BY <1>3, <1>5, <1>7, Joined
<1>9. CreationSteps(e, plan) = lpu \o g
  BY Zenon DEF CreationSteps, lpu, lp, lc, u, g
<1>10. \A a : a \in ToSet(lpu \o g)
                <=> a \in {Lock, Check} \/ a \in ToSet(plan) \/ a \in {Unlock} \/ a \in ToSet(g)
  BY <1>1, <1>2, <1>6, <1>7, <1>8, Zenon DEF Joins
<1> QED
  BY <1>4, <1>8, <1>9, <1>10, Zenon DEF end

\* Sorted steps come in the order that a creation needs, and keep to the lock.
LEMMA CreationOrderly ==
  ASSUME NEW e, Is(e, Kinds), NEW s, Sorted(e, s, 0, 44), Unlock \in ToSet(s),
         ToSet(s) \subseteq MayHave(e) \cup {Lock, Check, Unlock}
  PROVE  Gettable(e, "creating", s) /\ Guarded(s, Critical(e, "creating"))
<1> DEFINE p(a) == Place(e, a)
           all  == MayHave(e) \cup {Lock, Check, Unlock}
<1>1. s \in Seq(Steps) /\ \A i, j \in 1..Len(s) : i < j => p(s[i]) < p(s[j])
  BY DEF Sorted
<1>2. \A i \in 1..Len(s) : s[i] \in all
  <2>1. \A i \in 1..Len(s) : s[i] \in ToSet(s)
    BY <1>1, SMT DEF ToSet
  <2> QED
    BY <2>1
<1>3. \A a \in all, b \in all : p(a) < p(b) => MayFollow(e, a, b)
  BY PlacesOrder
<1>4. \A a \in all, b \in all : p(a) < p(b) => ~Needs(a, b)
  BY <1>3 DEF MayFollow
<1>5. \A a \in all : ~(p(a) < p(Lock))
  BY SMT DEF Place, MayHave, Second, Is, Kinds, PubSub
<1>6. \A a \in all : p(Unlock) < p(a) => a = Graph /\ Is(e, PubSub)
  BY <1>3 DEF MayFollow
<1> HIDE DEF p, all
<1>7. Gettable(e, "creating", s)
  BY <1>1, <1>2, <1>3, <1>4 DEF Gettable
<1>8. Guarded(s, Critical(e, "creating"))
  <2>1. \A i, j \in 1..Len(s) : i < j => s[j] # Lock
    BY <1>1, <1>2, <1>5
  <2>2. \A i, j \in 1..Len(s) : i < j /\ s[i] = Unlock => s[j] = Graph /\ Is(e, PubSub)
    BY <1>1, <1>2, <1>6
  <2>3. Is(e, PubSub) => Graph \notin Critical(e, "creating") \cup {Lock, Unlock}
    BY DEF Critical
  <2> QED
    BY <2>1, <2>2, <2>3 DEF Guarded
<1> QED
  BY <1>7, <1>8

\* What a plan acquires is whole.
LEMMA PlanWhole ==
  ASSUME package \in {"cpp", "dynamic"}, NEW e, Is(e, Kinds), NEW plan, PlanOf(e, plan)
  PROVE  /\ ToSet(plan) \subseteq MayHave(e)
         /\ \A a \in ToSet(plan) \cup {Graph} : \A b \in Things : Needs(a, b) => b \in ToSet(plan)
         /\ Is(e, Rpc) => Graph \in ToSet(plan)
         /\ Is(e, PubSub) => Endpoint("main") \in ToSet(plan)
         /\ ToSet(plan) \subseteq Things
<1>1. CASE Is(e, PubSub)
  <2>1. PICK some \in SUBSET {"filter", "channel"} :
          /\ "filter" \in some => Is(e, {"subscription"})
          /\ ToSet(plan) = PubSubThings
               \cup (IF package = "dynamic" THEN {Support("main")} ELSE {})
               \cup (IF "filter" \in some THEN {Filter} ELSE {})
               \cup (IF "channel" \in some THEN {Topic("channel"), Endpoint("channel")} ELSE {})
    BY <1>1 DEF PlanOf
  <2> DEFINE t == ToSet(plan)
  <2>2. t = PubSubThings
               \cup (IF package = "dynamic" THEN {Support("main")} ELSE {})
               \cup (IF "filter" \in some THEN {Filter} ELSE {})
               \cup (IF "channel" \in some THEN {Topic("channel"), Endpoint("channel")} ELSE {})
    BY <2>1
  <2>3. ~Is(e, Rpc)
    BY <1>1 DEF Is, PubSub, Rpc
  <2> HIDE DEF t
  <2>4. t \subseteq MayHave(e)
    BY <1>1, <2>1, <2>2, SMT DEF PubSubThings, MayHave
  <2>5. \A a \in t \cup {Graph} : \A b \in Things : Needs(a, b) => b \in t
    BY <2>2, SMT DEF Needs, PubSubThings
  <2>6. Endpoint("main") \in t /\ t \subseteq Things
    BY <2>2, SMT DEF PubSubThings, Things, Slots
  <2> QED
    BY <2>3, <2>4, <2>5, <2>6 DEF t
<1>2. CASE Is(e, Rpc)
  <2> DEFINE t == ToSet(plan)
  <2>2. t = RpcThings \cup (IF package = "dynamic" THEN {Support("request"), Support("response")} ELSE {})
    BY <1>2 DEF PlanOf
  <2>3. ~Is(e, PubSub)
    BY <1>2 DEF Is, PubSub, Rpc
  <2> HIDE DEF t
  <2>4. t \subseteq MayHave(e)
    BY <2>2, <2>3, SMT DEF RpcThings, MayHave
  <2>5. \A a \in t \cup {Graph} : \A b \in Things : Needs(a, b) => b \in t
    BY <2>2, SMT DEF Needs, RpcThings
  <2>6. Graph \in t /\ t \subseteq Things
    BY <2>2, SMT DEF RpcThings, Things, Slots
  <2> QED
    BY <2>3, <2>4, <2>5, <2>6 DEF t
<1> QED
  BY <1>1, <1>2 DEF Is, Kinds, PubSub, Rpc

LEMMA CreationShape ==
  ASSUME package \in {"cpp", "dynamic"}, NEW e \in Entities, NEW t, NEW plan \in Plans(e, t), NEW s,
         s = CreationSteps(e, plan)
  PROVE  /\ s \in Seq(Steps) /\ Lock \in ToSet(s) /\ ToSet(s) \cap Things = ToSet(plan) \cup {Graph}
         /\ Shape(e, "creating", s, {}, Nothing, {})
<1>1. Is(e, Kinds) /\ Is(e, PubSub \cup Rpc)
  BY EntityAssumption DEF Is, Kinds, PubSub, Rpc
<1>2. PlanOf(e, plan)
  BY CreationPlans
<1>3. /\ Sorted(e, s, 0, 44)
      /\ \A a : a \in ToSet(s)
                  <=> a \in ToSet(plan) \/ a \in {Lock, Check, Unlock} \/ (Is(e, PubSub) /\ a = Graph)
  BY <1>2, CreationSorted DEF PlanOf
<1>4. /\ ToSet(plan) \subseteq MayHave(e)
      /\ \A a \in ToSet(plan) \cup {Graph} : \A b \in Things : Needs(a, b) => b \in ToSet(plan)
      /\ Is(e, Rpc) => Graph \in ToSet(plan)
      /\ ToSet(plan) \subseteq Things
  BY <1>1, <1>2, PlanWhole
<1>5. Graph \in MayHave(e) /\ Graph \in Things /\ Lock \notin Things /\ Check \notin Things
      /\ Unlock \notin Things
  BY SMT DEF MayHave, Things
<1>6. /\ s \in Seq(Steps) /\ Lock \in ToSet(s) /\ Check \in ToSet(s) /\ Unlock \in ToSet(s)
      /\ ToSet(s) \subseteq MayHave(e) \cup {Lock, Check, Unlock}
  BY <1>3, <1>4, <1>5 DEF Sorted
<1>7. ToSet(s) \cap Things = ToSet(plan) \cup {Graph}
  <2>1. Is(e, PubSub) \/ Graph \in ToSet(plan)
    BY <1>1, <1>4 DEF Is
  <2> QED
    BY <1>3, <1>4, <1>5, <2>1
<1>8. Gettable(e, "creating", s) /\ Guarded(s, Critical(e, "creating"))
  BY <1>1, <1>3, <1>6, CreationOrderly
<1>9. Shape(e, "creating", s, {}, Nothing, {})
  <2>1. Orderly(e, "creating", s, {})
    BY <1>8 DEF Orderly, Gettings
  <2>2. Contents(e, "creating", s, {})
    BY <1>4, <1>5, <1>6, <1>7 DEF Contents, Gettings, None
  <2>3. Course(e, "creating", Nothing, {})
    BY DEF Course
  <2>4. Closed(e, "creating", s, {}, Nothing, {})
    BY <1>4, <1>7 DEF Closed, Gettings
  <2> QED
    BY <2>1, <2>2, <2>3, <2>4 DEF Shape, Apart, Gettings
<1> QED
  BY <1>6, <1>7, <1>9

------------------------------------------------------------------------------
(***************************************************************************)
(* The lists that release things: their order, their lock, and what they   *)
(* leave out.                                                              *)
(***************************************************************************)
LEMMA UndoLists ==
  ASSUME package \in {"cpp", "dynamic"}, NEW e \in Entities, NEW s, s = Append(Undo(e), Unlock)
  PROVE  /\ s \in Seq(Steps) /\ Releasable(s) /\ Guarded(s, Critical(e, "undoing"))
         /\ Unlock \in ToSet(s) /\ Lock \notin ToSet(s) /\ Check \notin ToSet(s) /\ Filter \notin ToSet(s)
         /\ MayHave(e) \subseteq ToSet(s) \cup {Graph, Filter, Endpoint("channel")}
<1>1. Kind[e] \in Kinds
  BY EntityAssumption
<1>2. CASE Kind[e] = "publisher"
  <2> USE <1>2 DEF Undo, UndoPublisher
  <2>1. s \in Seq(Steps)
    BY SMT DEF Steps, Things, Slots
  <2>2. Releasable(s)
    BY SMT DEF Releasable, Needs
  <2>3. Guarded(s, Critical(e, "undoing"))
    BY SMT DEF Guarded, Critical, ToSet, Slots
  <2>4. /\ Unlock \in ToSet(s) /\ Lock \notin ToSet(s) /\ Check \notin ToSet(s)
        /\ Filter \notin ToSet(s)
        /\ MayHave(e) \subseteq ToSet(s) \cup {Graph, Filter, Endpoint("channel")}
    BY SMT DEF ToSet, MayHave, Is, PubSub
  <2> QED
    BY <2>1, <2>2, <2>3, <2>4, Zenon
<1>3. CASE Kind[e] = "subscription"
  <2> USE <1>3 DEF Undo, UndoSubscription
  <2>1. s \in Seq(Steps)
    BY SMT DEF Steps, Things, Slots
  <2>2. Releasable(s)
    BY SMT DEF Releasable, Needs
  <2>3. Guarded(s, Critical(e, "undoing"))
    BY SMT DEF Guarded, Critical, ToSet, Slots
  <2>4. /\ Unlock \in ToSet(s) /\ Lock \notin ToSet(s) /\ Check \notin ToSet(s)
        /\ Filter \notin ToSet(s)
        /\ MayHave(e) \subseteq ToSet(s) \cup {Graph, Filter, Endpoint("channel")}
    BY SMT DEF ToSet, MayHave, Is, PubSub
  <2> QED
    BY <2>1, <2>2, <2>3, <2>4, Zenon
<1>4. CASE Kind[e] = "client"
  <2> USE <1>4 DEF Undo, UndoClient
  <2>1. s \in Seq(Steps)
    BY SMT DEF Steps, Things, Slots
  <2>2. Releasable(s)
    BY SMT DEF Releasable, Needs
  <2>3. Guarded(s, Critical(e, "undoing"))
    BY SMT DEF Guarded, Critical, ToSet, Slots
  <2>4. /\ Unlock \in ToSet(s) /\ Lock \notin ToSet(s) /\ Check \notin ToSet(s)
        /\ Filter \notin ToSet(s)
        /\ MayHave(e) \subseteq ToSet(s) \cup {Graph, Filter, Endpoint("channel")}
    BY SMT DEF ToSet, MayHave, Is, PubSub
  <2> QED
    BY <2>1, <2>2, <2>3, <2>4, Zenon
<1>5. CASE Kind[e] = "service"
  <2> USE <1>5 DEF Undo, UndoService
  <2>1. s \in Seq(Steps)
    BY SMT DEF Steps, Things, Slots
  <2>2. Releasable(s)
    BY SMT DEF Releasable, Needs
  <2>3. Guarded(s, Critical(e, "undoing"))
    BY SMT DEF Guarded, Critical, ToSet, Slots
  <2>4. /\ Unlock \in ToSet(s) /\ Lock \notin ToSet(s) /\ Check \notin ToSet(s)
        /\ Filter \notin ToSet(s)
        /\ MayHave(e) \subseteq ToSet(s) \cup {Graph, Filter, Endpoint("channel")}
    BY SMT DEF ToSet, MayHave, Is, PubSub
  <2> QED
    BY <2>1, <2>2, <2>3, <2>4, Zenon
<1> QED
  BY <1>1, <1>2, <1>3, <1>4, <1>5 DEF Kinds

LEMMA SharedLists ==
  ASSUME package \in {"cpp", "dynamic"}, NEW e \in Entities, Is(e, PubSub), NEW s, s = DestroyShared(e)
  PROVE  /\ s \in Seq(Steps) /\ Releasable(s) /\ Guarded(s, Critical(e, "undoing"))
         /\ Lock \in ToSet(s) /\ Check \notin ToSet(s)
         /\ ToSet(s) \cap {Topic("channel"), Endpoint("channel"), Support("main")} = {}
         /\ MayHave(e) \subseteq
              ToSet(s) \cup {Graph, Topic("channel"), Endpoint("channel"), Support("main")}
<1>1. Kind[e] \in PubSub
  BY DEF Is
<1>2. CASE Kind[e] = "publisher"
  <2> USE <1>2 DEF DestroyShared, Is, DestroyPublisher
  <2>1. s \in Seq(Steps)
    BY SMT DEF Steps, Things, Slots
  <2>2. Releasable(s)
    BY SMT DEF Releasable, Needs
  <2>3. Guarded(s, Critical(e, "undoing"))
    BY SMT DEF Guarded, Critical, ToSet, Slots
  <2>4. /\ Lock \in ToSet(s) /\ Check \notin ToSet(s)
        /\ ToSet(s) \cap {Topic("channel"), Endpoint("channel"), Support("main")} = {}
        /\ MayHave(e) \subseteq
             ToSet(s) \cup {Graph, Topic("channel"), Endpoint("channel"), Support("main")}
    BY SMT DEF ToSet, MayHave, Is, PubSub
  <2> QED
    BY <2>1, <2>2, <2>3, <2>4, Zenon
<1>3. CASE Kind[e] = "subscription"
  <2> USE <1>3 DEF DestroyShared, Is, DestroySubscription
  <2>1. s \in Seq(Steps)
    BY SMT DEF Steps, Things, Slots
  <2>2. Releasable(s)
    BY SMT DEF Releasable, Needs
  <2>3. Guarded(s, Critical(e, "undoing"))
    BY SMT DEF Guarded, Critical, ToSet, Slots
  <2>4. /\ Lock \in ToSet(s) /\ Check \notin ToSet(s)
        /\ ToSet(s) \cap {Topic("channel"), Endpoint("channel"), Support("main")} = {}
        /\ MayHave(e) \subseteq
             ToSet(s) \cup {Graph, Topic("channel"), Endpoint("channel"), Support("main")}
    BY SMT DEF ToSet, MayHave, Is, PubSub
  <2> QED
    BY <2>1, <2>2, <2>3, <2>4, Zenon
<1> QED
  BY <1>1, <1>2, <1>3 DEF PubSub

LEMMA DestroyLists ==
  ASSUME package \in {"cpp", "dynamic"}, NEW e \in Entities, NEW s,
         s = If(package = "dynamic", DynamicReturn(e)) \o DestroySteps(e)
  PROVE  /\ s \in Seq(Steps) /\ Releasable(s) /\ Guarded(s, Critical(e, "destroying"))
         /\ Lock \in ToSet(s) /\ Check \notin ToSet(s) /\ MayHave(e) \subseteq ToSet(s)
<1>1. Kind[e] \in Kinds
  BY EntityAssumption
<1>2. CASE Kind[e] = "publisher" /\ package = "cpp"
  <2> USE <1>2 DEF If, DestroySteps, CppDestroyPublisher, DestroyPublisher
  <2>1. s \in Seq(Steps)
    BY SMT DEF Steps, Things, Slots
  <2>2. Releasable(s)
    BY SMT DEF Releasable, Needs
  <2>3. Guarded(s, Critical(e, "destroying"))
    BY SMT DEF Guarded, Critical, ToSet, Slots
  <2>4. Lock \in ToSet(s) /\ Check \notin ToSet(s) /\ MayHave(e) \subseteq ToSet(s)
    BY SMT DEF ToSet, MayHave, Is, PubSub
  <2> QED
    BY <2>1, <2>2, <2>3, <2>4, Zenon
<1>3. CASE Kind[e] = "publisher" /\ package = "dynamic"
  <2> USE <1>3 DEF If, DestroySteps, CppDestroyPublisher, DestroyPublisher, DynamicReturn, Is, PubSub
  <2>1. s \in Seq(Steps)
    BY SMT DEF Steps, Things, Slots
  <2>2. Releasable(s)
    BY SMT DEF Releasable, Needs
  <2>3. Guarded(s, Critical(e, "destroying"))
    BY SMT DEF Guarded, Critical, ToSet, Slots
  <2>4. Lock \in ToSet(s) /\ Check \notin ToSet(s) /\ MayHave(e) \subseteq ToSet(s)
    BY SMT DEF ToSet, MayHave, Is, PubSub
  <2> QED
    BY <2>1, <2>2, <2>3, <2>4, Zenon
<1>4. CASE Kind[e] = "subscription" /\ package = "cpp"
  <2> USE <1>4 DEF If, DestroySteps, CppDestroySubscription, DestroySubscription
  <2>1. s \in Seq(Steps)
    BY SMT DEF Steps, Things, Slots
  <2>2. Releasable(s)
    BY SMT DEF Releasable, Needs
  <2>3. Guarded(s, Critical(e, "destroying"))
    BY SMT DEF Guarded, Critical, ToSet, Slots
  <2>4. Lock \in ToSet(s) /\ Check \notin ToSet(s) /\ MayHave(e) \subseteq ToSet(s)
    BY SMT DEF ToSet, MayHave, Is, PubSub
  <2> QED
    BY <2>1, <2>2, <2>3, <2>4, Zenon
<1>5. CASE Kind[e] = "subscription" /\ package = "dynamic"
  <2> USE <1>5 DEF If, DestroySteps, CppDestroySubscription, DestroySubscription, DynamicReturn, Is, PubSub
  <2>1. s \in Seq(Steps)
    BY SMT DEF Steps, Things, Slots
  <2>2. Releasable(s)
    BY SMT DEF Releasable, Needs
  <2>3. Guarded(s, Critical(e, "destroying"))
    BY SMT DEF Guarded, Critical, ToSet, Slots
  <2>4. Lock \in ToSet(s) /\ Check \notin ToSet(s) /\ MayHave(e) \subseteq ToSet(s)
    BY SMT DEF ToSet, MayHave, Is, PubSub
  <2> QED
    BY <2>1, <2>2, <2>3, <2>4, Zenon
<1>6. CASE Kind[e] = "client" /\ package = "cpp"
  <2> USE <1>6 DEF If, DestroySteps, DestroyClient
  <2>1. s \in Seq(Steps)
    BY SMT DEF Steps, Things, Slots
  <2>2. Releasable(s)
    BY SMT DEF Releasable, Needs
  <2>3. Guarded(s, Critical(e, "destroying"))
    BY SMT DEF Guarded, Critical, ToSet, Slots
  <2>4. Lock \in ToSet(s) /\ Check \notin ToSet(s) /\ MayHave(e) \subseteq ToSet(s)
    BY SMT DEF ToSet, MayHave, Is, PubSub
  <2> QED
    BY <2>1, <2>2, <2>3, <2>4, Zenon
<1>7. CASE Kind[e] = "client" /\ package = "dynamic"
  <2> USE <1>7 DEF If, DestroySteps, DestroyClient, DynamicReturn, Is, PubSub
  <2>1. s \in Seq(Steps)
    BY SMT DEF Steps, Things, Slots
  <2>2. Releasable(s)
    BY SMT DEF Releasable, Needs
  <2>3. Guarded(s, Critical(e, "destroying"))
    BY SMT DEF Guarded, Critical, ToSet, Slots
  <2>4. Lock \in ToSet(s) /\ Check \notin ToSet(s) /\ MayHave(e) \subseteq ToSet(s)
    BY SMT DEF ToSet, MayHave, Is, PubSub
  <2> QED
    BY <2>1, <2>2, <2>3, <2>4, Zenon
<1>8. CASE Kind[e] = "service" /\ package = "cpp"
  <2> USE <1>8 DEF If, DestroySteps, DestroyService
  <2>1. s \in Seq(Steps)
    BY SMT DEF Steps, Things, Slots
  <2>2. Releasable(s)
    BY SMT DEF Releasable, Needs
  <2>3. Guarded(s, Critical(e, "destroying"))
    BY SMT DEF Guarded, Critical, ToSet, Slots
  <2>4. Lock \in ToSet(s) /\ Check \notin ToSet(s) /\ MayHave(e) \subseteq ToSet(s)
    BY SMT DEF ToSet, MayHave, Is, PubSub
  <2> QED
    BY <2>1, <2>2, <2>3, <2>4, Zenon
<1>9. CASE Kind[e] = "service" /\ package = "dynamic"
  <2> USE <1>9 DEF If, DestroySteps, DestroyService, DynamicReturn, Is, PubSub
  <2>1. s \in Seq(Steps)
    BY SMT DEF Steps, Things, Slots
  <2>2. Releasable(s)
    BY SMT DEF Releasable, Needs
  <2>3. Guarded(s, Critical(e, "destroying"))
    BY SMT DEF Guarded, Critical, ToSet, Slots
  <2>4. Lock \in ToSet(s) /\ Check \notin ToSet(s) /\ MayHave(e) \subseteq ToSet(s)
    BY SMT DEF ToSet, MayHave, Is, PubSub
  <2> QED
    BY <2>1, <2>2, <2>3, <2>4, Zenon
<1> QED
  BY <1>1, <1>2, <1>3, <1>4, <1>5, <1>6, <1>7, <1>8, <1>9 DEF Kinds

------------------------------------------------------------------------------
(***************************************************************************)
(* One step of a list is taken.                                            *)
(***************************************************************************)
Splits(s, a, q) ==
  /\ q \in Seq(Steps) /\ a \in Steps
  /\ 1 \in 1..Len(s) /\ a = s[1]
  /\ \A i \in 1..Len(q) : q[i] = s[i + 1] /\ i + 1 \in 1..Len(s) /\ 1 < i + 1
  /\ \A i, j \in 1..Len(q) : i < j => i + 1 < j + 1
  /\ \A b : b \in ToSet(q) <=> \E i \in 1..Len(q) : b = q[i]
  /\ \A b : b \in ToSet(s) <=> b = a \/ b \in ToSet(q)

LEMMA Tails ==
  ASSUME NEW s \in Seq(Steps), s # <<>>, NEW a, a = Head(s), NEW q, q = Tail(s)
  PROVE  Splits(s, a, q)
<1>1. /\ q \in Seq(Steps) /\ Len(s) \in Nat /\ Len(s) >= 1 /\ Len(q) = Len(s) - 1 /\ a = s[1]
      /\ 1 \in 1..Len(s)
      /\ \A i \in 1..Len(q) : q[i] = s[i + 1] /\ i + 1 \in 1..Len(s) /\ 1 < i + 1
      /\ \A i \in 1..Len(s) : i = 1 \/ (i - 1 \in 1..Len(q) /\ s[i] = q[i - 1])
      /\ \A i, j \in 1..Len(q) : i < j => i + 1 < j + 1
  BY SMT
<1>2. a \in Steps
  BY <1>1
<1>3. /\ \A b : b \in ToSet(s) <=> \E i \in 1..Len(s) : b = s[i]
      /\ \A b : b \in ToSet(q) <=> \E i \in 1..Len(q) : b = q[i]
  <2>1. DOMAIN s = 1..Len(s) /\ DOMAIN q = 1..Len(q)
    BY <1>1, SMT
  <2> QED
    BY <2>1 DEF ToSet
<1>4. \A b : b \in ToSet(s) <=> b = a \/ b \in ToSet(q)
  <2>1. ASSUME NEW b \in ToSet(s) PROVE b = a \/ b \in ToSet(q)
    <3>1. PICK i \in 1..Len(s) : b = s[i]
      BY <1>3, Zenon
    <3>2. i = 1 \/ (i - 1 \in 1..Len(q) /\ s[i] = q[i - 1])
      BY <1>1
    <3> QED
      BY <1>1, <1>3, <3>1, <3>2, Zenon
  <2>2. a \in ToSet(s) /\ \A b \in ToSet(q) : b \in ToSet(s)
    BY <1>1, <1>3
  <2> QED
    BY <2>1, <2>2, Zenon
<1> QED
  BY <1>1, <1>2, <1>3, <1>4 DEF Splits

LEMMA GettableTail ==
  ASSUME NEW e, NEW how, NEW s \in Seq(Steps), s # <<>>, NEW a, a = Head(s), NEW q, q = Tail(s),
         Gettable(e, how, s)
  PROVE  /\ Gettable(e, how, q)
         /\ \A b \in ToSet(q) : ~Needs(a, b) /\ (how = "creating" => MayFollow(e, a, b))
<1>1. Splits(s, a, q)
  BY Tails
<1>2. Gettable(e, how, q)
  BY <1>1 DEF Splits, Gettable
<1>3. ASSUME NEW b \in ToSet(q)
      PROVE  ~Needs(a, b) /\ (how = "creating" => MayFollow(e, a, b))
  <2>1. PICK i \in 1..Len(q) : b = q[i]
    BY <1>1, Zenon DEF Splits
  <2>2. i + 1 \in 1..Len(s) /\ 1 < i + 1 /\ b = s[i + 1]
    BY <1>1, <2>1 DEF Splits
  <2> QED
    BY <1>1, <2>2 DEF Splits, Gettable
<1> QED
  BY <1>2, <1>3

LEMMA ReleasableTail ==
  ASSUME NEW s \in Seq(Steps), s # <<>>, NEW a, a = Head(s), NEW q, q = Tail(s), Releasable(s)
  PROVE  Releasable(q) /\ \A b \in ToSet(q) : a # b /\ ~Needs(b, a)
<1>1. Splits(s, a, q)
  BY Tails
<1>2. Releasable(q)
  BY <1>1 DEF Splits, Releasable
<1>3. \A b \in ToSet(q) : a # b /\ ~Needs(b, a)
  BY <1>1 DEF Splits, Releasable
<1> QED
  BY <1>2, <1>3

LEMMA GuardedTail ==
  ASSUME NEW s \in Seq(Steps), s # <<>>, NEW steps, NEW a, a = Head(s), NEW q, q = Tail(s),
         Guarded(s, steps)
  PROVE  /\ Guarded(q, steps)
         /\ a \in steps \cup {Lock} => Unlock \in ToSet(s)
         /\ Lock \in ToSet(q) => a \notin steps \cup {Lock}
         /\ a = Unlock => \A b \in ToSet(q) : b \notin steps \cup {Lock, Unlock}
<1>1. Splits(s, a, q)
  BY Tails
<1>2. /\ a \in steps \cup {Lock} => Unlock \in ToSet(s)
      /\ Lock \in ToSet(q) => a \notin steps \cup {Lock}
      /\ a = Unlock => \A b \in ToSet(q) : b \notin steps \cup {Lock, Unlock}
  <2>1. a \in steps \cup {Lock} => Unlock \in ToSet(s)
    BY <1>1 DEF Splits, Guarded
  <2>2. ASSUME NEW b \in ToSet(q)
        PROVE  /\ b = Lock => a \notin steps \cup {Lock}
               /\ a = Unlock => b \notin steps \cup {Lock, Unlock}
    <3>1. PICK i \in 1..Len(q) : b = q[i]
      BY <1>1, Zenon DEF Splits
    <3>2. 1 \in 1..Len(s) /\ i + 1 \in 1..Len(s) /\ 1 < i + 1 /\ b = s[i + 1] /\ a = s[1]
      BY <1>1, <3>1 DEF Splits
    <3> QED
      BY <3>2 DEF Guarded
  <2> QED
    BY <2>1, <2>2
<1>3. ASSUME NEW i \in 1..Len(q), q[i] \in steps \cup {Lock}
      PROVE  Unlock \in ToSet(q)
  <2>1. Unlock \in ToSet(s)
    BY <1>1, <1>3 DEF Splits, Guarded
  <2>2. q[i] \in ToSet(q)
    BY <1>1 DEF Splits
  <2> QED
    BY <1>1, <1>2, <1>3, <2>1, <2>2 DEF Splits
<1>4. \A i, j \in 1..Len(q) :
        i < j => /\ q[j] = Lock => q[i] \notin steps \cup {Lock}
                 /\ q[i] = Unlock => q[j] \notin steps \cup {Lock, Unlock}
  BY <1>1 DEF Splits, Guarded
<1> QED
  BY <1>2, <1>3, <1>4 DEF Guarded

\* Nothing needs itself, and nothing needs what a change of filter takes away.
LEMMA NeedsOthers ==
  /\ \A a : ~Needs(a, a)
  /\ \A a : ~Needs(a, Graph) /\ ~Needs(a, Filter) /\ ~Needs(a, Endpoint("main"))
  /\ \A a \in {Graph, Lock, Check, Unlock} : \A b : ~Needs(a, b)
BY SMT DEF Needs

LEMMA StepsApart ==
  /\ Lock \notin Things /\ Check \notin Things /\ Unlock \notin Things
  /\ Lock # Check /\ Lock # Unlock /\ Check # Unlock
  /\ Steps = Things \cup {Lock, Check, Unlock}
  /\ {Graph, Filter, Endpoint("main")} \subseteq Things /\ Graph # Filter /\ Graph # Endpoint("main")
  /\ Nothing \notin Steps /\ Check # Graph /\ Check # Nothing
BY SMT DEF Things, Slots, Steps, Nothing, None

LEMMA LeavesNothing ==
  \A e : Leaves(e, Nothing, {}) = {}
<1>1. Nothing # Graph
  BY SMT DEF Nothing, None
<1> QED
  BY <1>1 DEF Leaves

\* A step that changes nothing the entity has.
LEMMA PassShape ==
  ASSUME NEW e, NEW how, NEW s \in Seq(Steps), s # <<>>, NEW h, NEW w, NEW m, NEW q, q = Tail(s),
         Shape(e, how, s, h, w, m), Head(s) \notin h, how \in Gettings => Head(s) \notin Things
  PROVE  Shape(e, how, q, h, w, m)
<1> DEFINE a == Head(s)
           steps == Critical(e, how)
<1>0. a \notin h /\ (how \in Gettings => a \notin Things)
  OBVIOUS
<1>1. /\ q \in Seq(Steps) /\ (\A b : b \in ToSet(s) <=> b = a \/ b \in ToSet(q))
  BY Tails DEF Splits
<1>a. /\ Gettable(e, how, s) => Gettable(e, how, q)
      /\ Releasable(s) => Releasable(q)
      /\ Guarded(s, steps) => Guarded(q, steps)
  BY GettableTail, ReleasableTail, GuardedTail
<1> HIDE DEF a, steps
<1>2. Orderly(e, how, q, h)
  BY <1>1, <1>a DEF Shape, Orderly, steps
<1>3. Contents(e, how, q, h)
  <2>1. how \notin {None, "live", "gone", "refused", "broken"}
    BY DEF Shape, Contents
  <2> QED
    BY <1>1, <2>1 DEF Shape, Contents
<1>4. Closed(e, how, q, h, w, m)
  <2>1. how \in Gettings => a \notin Things
    BY <1>0
  <2>2. /\ \A x \in h : \A b \in Things : Needs(x, b) => b \in h \/ x \in Leaves(e, w, m)
        /\ how \in Gettings =>
             \A x \in ToSet(s) \cap Things : \A b \in Things : Needs(x, b) => b \in h \cup ToSet(s)
        /\ how \in {"undoing", "destroying", "gone"} => h \subseteq ToSet(s) \cup Leaves(e, w, m)
    BY DEF Shape, Closed
  <2>3. how \in Gettings =>
          \A x \in ToSet(q) \cap Things : \A b \in Things : Needs(x, b) => b \in h \cup ToSet(q)
    BY <1>1, <2>1, <2>2
  <2>4. how \in {"undoing", "destroying", "gone"} => h \subseteq ToSet(q) \cup Leaves(e, w, m)
    BY <1>0, <1>1, <2>2
  <2> QED
    BY <2>2, <2>3, <2>4 DEF Closed
<1> QED
  BY <1>1, <1>2, <1>3, <1>4 DEF Shape, Apart

\* A thing is acquired.
LEMMA GetShape ==
  ASSUME NEW e, NEW how \in Gettings, NEW s \in Seq(Steps), s # <<>>, NEW h, NEW w, NEW m,
         NEW a, a = Head(s), NEW q, q = Tail(s), Shape(e, how, s, h, w, m), a \in Things
  PROVE  Shape(e, how, q, h \cup {a}, w, m)
<1> DEFINE steps == Critical(e, how)
           g == h \cup {a}
<1>1. /\ q \in Seq(Steps) /\ (\A b : b \in ToSet(s) <=> b = a \/ b \in ToSet(q))
  BY Tails DEF Splits
<1>a. /\ Gettable(e, how, s) =>
           /\ Gettable(e, how, q)
           /\ \A b \in ToSet(q) : ~Needs(a, b) /\ (how = "creating" => MayFollow(e, a, b))
      /\ Guarded(s, steps) => Guarded(q, steps)
  BY GettableTail, GuardedTail
<1>2. Orderly(e, how, q, g)
  BY <1>1, <1>a DEF Shape, Orderly
<1> HIDE DEF steps
<1>3. Contents(e, how, q, g)
  <2>1. how \notin {None, "live", "gone", "refused", "broken", "refusing"}
    BY DEF Gettings, None
  <2>2. a \in MayHave(e)
    BY <1>1 DEF Shape, Contents
  <2> QED
    BY <1>1, <2>1, <2>2 DEF Shape, Contents
<1>4. Closed(e, how, q, g, w, m)
  <2>1. how \notin {"undoing", "destroying", "gone"}
    BY DEF Gettings
  <2>2. /\ \A x \in h : \A b \in Things : Needs(x, b) => b \in h \/ x \in Leaves(e, w, m)
        /\ \A x \in ToSet(s) \cap Things : \A b \in Things : Needs(x, b) => b \in h \cup ToSet(s)
    BY DEF Shape, Closed
  <2>3. \A b \in ToSet(q) : ~Needs(a, b)
    BY <1>1, <1>a DEF Shape, Orderly
  <2>4. \A b \in Things : Needs(a, b) => b \in h
    BY <1>1, <2>2, <2>3, NeedsOthers
  <2>5. \A x \in g : \A b \in Things : Needs(x, b) => b \in g \/ x \in Leaves(e, w, m)
    BY <2>2, <2>4
  <2>6. \A x \in ToSet(q) \cap Things : \A b \in Things : Needs(x, b) => b \in g \cup ToSet(q)
    BY <1>1, <2>2
  <2> QED
    BY <2>1, <2>5, <2>6 DEF Closed
<1> QED
  BY <1>1, <1>2, <1>3, <1>4 DEF Shape, Apart

\* A thing is released: nothing that is kept needs it.
LEMMA PutShape ==
  ASSUME NEW e, NEW how, how \notin Gettings, NEW s \in Seq(Steps), s # <<>>, NEW h, NEW w, NEW m,
         NEW a, a = Head(s), NEW q, q = Tail(s), Shape(e, how, s, h, w, m), a \in Things,
         how \in {"undoing", "destroying", "adding", "dropping", "refusing", "breaking"}
  PROVE  Shape(e, how, q, h \ {a}, w, m)
<1> DEFINE steps == Critical(e, how)
           g == h \ {a}
<1>1. /\ q \in Seq(Steps) /\ (\A b : b \in ToSet(s) <=> b = a \/ b \in ToSet(q))
  BY Tails DEF Splits
<1>a. /\ Releasable(s) => Releasable(q) /\ \A b \in ToSet(q) : a # b /\ ~Needs(b, a)
      /\ Guarded(s, steps) => Guarded(q, steps)
  BY ReleasableTail, GuardedTail
<1>2. Orderly(e, how, q, g)
  BY <1>1, <1>a DEF Shape, Orderly, Gettings
<1> HIDE DEF steps
<1>3. Contents(e, how, q, g)
  <2>1. how \notin {None, "live", "gone", "refused", "broken"}
    BY DEF None
  <2> QED
    BY <1>1, <2>1 DEF Shape, Contents
<1>4. Closed(e, how, q, g, w, m)
  <2>2. /\ \A x \in h : \A b \in Things : Needs(x, b) => b \in h \/ x \in Leaves(e, w, m)
        /\ how \in {"undoing", "destroying", "gone"} => h \subseteq ToSet(s) \cup Leaves(e, w, m)
    BY DEF Shape, Closed
  <2>3. \A b \in ToSet(q) : ~Needs(b, a)
    BY <1>1, <1>a DEF Shape, Orderly
  <2>4. \A x \in g : Needs(x, a) => x \in Leaves(e, w, m)
    <3>1. CASE how \in {"undoing", "destroying"}
      BY <1>1, <2>2, <2>3, <3>1
    <3>2. CASE how \notin {"undoing", "destroying"}
      <4>0. a \in ToSet(s) /\ a # Lock /\ a # Unlock
        BY <1>1, StepsApart
      <4>1. a \in {Graph, Filter, Endpoint("main")}
        BY <3>2, <4>0 DEF Shape, Contents
      <4> QED
        BY <4>1, NeedsOthers
    <3> QED
      BY <3>1, <3>2
  <2>5. \A x \in g : \A b \in Things : Needs(x, b) => b \in g \/ x \in Leaves(e, w, m)
    BY <2>2, <2>4
  <2> QED
    BY <1>1, <2>2, <2>5 DEF Closed
<1> QED
  BY <1>1, <1>2, <1>3, <1>4 DEF Shape, Apart

\* The endpoint in slot x stays behind, without its listener.
LEMMA MuteShape ==
  ASSUME NEW e, Is(e, Rpc), NEW s \in Seq(Steps), s # <<>>, NEW h, NEW w, NEW m, NEW x,
         Head(s) = Endpoint(x), NEW q, q = Tail(s), Shape(e, "destroying", s, h, w, m)
  PROVE  Shape(e, "destroying", q, h, w, m \cup {x})
<1> DEFINE a == Head(s)
           steps == Critical(e, "destroying")
           n == m \cup {x}
<1>0. a = Endpoint(x)
  OBVIOUS
<1>1. /\ q \in Seq(Steps) /\ (\A b : b \in ToSet(s) <=> b = a \/ b \in ToSet(q))
  BY Tails DEF Splits
<1>a. /\ Releasable(s) => Releasable(q) /\ \A b \in ToSet(q) : a # b /\ ~Needs(b, a)
      /\ Guarded(s, steps) => Guarded(q, steps)
  BY ReleasableTail, GuardedTail
<1>2. Orderly(e, "destroying", q, h)
  BY <1>1, <1>a DEF Shape, Orderly, Gettings
<1> HIDE DEF a, steps
<1>3. Contents(e, "destroying", q, h)
  BY <1>1 DEF Shape, Contents, None, Gettings
<1>4. Leaves(e, w, m) \subseteq Leaves(e, w, n) /\ a \in Leaves(e, w, n)
  BY <1>0 DEF Leaves
<1>5. Closed(e, "destroying", q, h, w, n)
  BY <1>1, <1>4 DEF Shape, Closed, Gettings
<1>6. Course(e, "destroying", w, n)
  BY DEF Shape, Course
<1>7. Apart(e, "destroying", q, w, n)
  <2>1. a \notin ToSet(q)
    BY <1>a DEF Shape, Orderly, Gettings
  <2>2. ToSet(s) \cap Leaves(e, w, m) = {}
    BY DEF Shape, Apart, Gettings
  <2>3. \A b \in Leaves(e, w, n) : b \in Leaves(e, w, m) \/ b = a
    BY <1>0 DEF Leaves
  <2> QED
    BY <1>1, <2>1, <2>2, <2>3 DEF Apart
<1> QED
  BY <1>2, <1>3, <1>5, <1>6, <1>7 DEF Shape

------------------------------------------------------------------------------
(***************************************************************************)
(* A call begins, fails or returns.                                        *)
(***************************************************************************)
LEMMA DestroyShape ==
  ASSUME package \in {"cpp", "dynamic"}, NEW e \in Entities, NEW how \in {"live", "refused"}, NEW s, NEW h,
         NEW w, NEW m, Shape(e, how, s, h, w, m), NEW q,
         q = If(package = "dynamic", DynamicReturn(e)) \o DestroySteps(e)
  PROVE  Shape(e, "destroying", q, h, w, m) /\ q \in Seq(Steps) /\ Lock \in ToSet(q)
<1>1. /\ q \in Seq(Steps) /\ Releasable(q) /\ Guarded(q, Critical(e, "destroying"))
      /\ Lock \in ToSet(q) /\ Check \notin ToSet(q) /\ MayHave(e) \subseteq ToSet(q)
  BY DestroyLists
<1>2. Orderly(e, "destroying", q, h)
  BY <1>1 DEF Orderly, Gettings
<1>3. Contents(e, "destroying", q, h)
  BY <1>1 DEF Shape, Contents, Gettings, None
<1>4. Closed(e, "destroying", q, h, w, m)
  BY <1>1 DEF Shape, Contents, Closed, Gettings
<1>5. Course(e, "destroying", w, m)
  BY DEF Shape, Course
<1>6. Apart(e, "destroying", q, w, m)
  BY LeavesNothing DEF Shape, Course, Apart
<1> QED
  BY <1>1, <1>2, <1>3, <1>4, <1>5, <1>6 DEF Shape

\* rmw_subscription_set_content_filter closes the reader ...
LEMMA CloseShape ==
  ASSUME NEW e, Is(e, {"subscription"}), NEW how \in {"adding", "dropping"}, NEW s, NEW h, NEW w, NEW m,
         Shape(e, "live", s, h, w, m)
  PROVE  Shape(e, how, CloseReader, h, w, m) /\ CloseReader \in Seq(Steps) /\ Lock \in ToSet(CloseReader)
<1>1. CloseReader \in Seq(Steps)
  BY SMT DEF CloseReader, Steps, Things, Slots
<1>2. ToSet(CloseReader) = {Graph, Lock, Endpoint("main"), Filter, Unlock}
  BY SMT DEF CloseReader, ToSet
<1>3. Releasable(CloseReader)
  BY SMT DEF CloseReader, Releasable, Needs
<1>4. Guarded(CloseReader, Critical(e, how))
  BY SMT DEF CloseReader, Guarded, Critical, ToSet, Slots
<1> DEFINE q == CloseReader
<1> HIDE DEF q
<1>5. /\ ToSet(q) = {Graph, Lock, Endpoint("main"), Filter, Unlock}
      /\ Releasable(q) /\ Guarded(q, Critical(e, how))
  BY <1>2, <1>3, <1>4 DEF q
<1>6. Orderly(e, how, q, h)
  BY <1>5 DEF Orderly, Gettings
<1>7. Contents(e, how, q, h)
  BY <1>5, StepsApart, SMT DEF Shape, Contents, Gettings, None
<1>8. Closed(e, how, q, h, w, m)
  BY DEF Shape, Closed, Gettings
<1>9. Course(e, how, w, m)
  BY DEF Shape, Course
<1>10. Shape(e, how, q, h, w, m)
  BY <1>6, <1>7, <1>8, <1>9, LeavesNothing DEF Shape, Apart, Course
<1> QED
  BY <1>1, <1>2, <1>10 DEF q

\* ... and opens it again: what the reader needs is still there.
LEMMA ReopenShape ==
  ASSUME package \in {"cpp", "dynamic"}, NEW e \in Entities, NEW t, NEW how \in {"adding", "dropping"}, NEW h,
         NEW w, NEW m, Shape(e, how, <<>>, h, w, m), Whole(how, <<>>, h, Plans(e, t)),
         NEW q, q = If(how = "adding", <<Filter>>) \o ReopenReader
  PROVE  /\ Shape(e, "reopening", q, h, w, m) /\ q \in Seq(Steps) /\ Lock \notin ToSet(q)
         /\ Unlock \notin ToSet(q)
         /\ Whole("reopening", q, h, Plans(e, t))
<1>1. Is(e, {"subscription"}) /\ Is(e, Kinds) /\ Is(e, PubSub)
  BY DEF Shape, Contents, Is, Kinds, PubSub
<1>2. q \in Seq(Steps)
  <2>1. CASE how = "adding"
    BY <2>1, SMT DEF If, ReopenReader, Steps, Things, Slots
  <2>2. CASE how # "adding"
    BY <2>2, SMT DEF If, ReopenReader, Steps, Things, Slots
  <2> QED
    BY <2>1, <2>2
<1>3. \A b : b \in ToSet(q) <=> b \in {Endpoint("main"), Graph} \/ (how = "adding" /\ b = Filter)
  <2>1. CASE how = "adding"
    <3>1. ToSet(q) = {Filter, Endpoint("main"), Graph}
      BY <2>1, SMT DEF If, ReopenReader, ToSet
    <3> QED
      BY <2>1, <3>1
  <2>2. CASE how # "adding"
    <3>1. ToSet(q) = {Endpoint("main"), Graph}
      BY <2>2, SMT DEF If, ReopenReader, ToSet
    <3> QED
      BY <2>2, <3>1
  <2> QED
    BY <2>1, <2>2
<1>4. Gettable(e, "reopening", q)
  BY SMT DEF If, ReopenReader, Gettable, Needs
<1>5. Guarded(q, Critical(e, "reopening"))
  BY SMT DEF If, ReopenReader, Guarded, Critical, ToSet, Slots
<1> HIDE DEF Support, Type, Event, Listener, Topic, Filter, Endpoint, Handle, Graph, Lock, Check, Unlock
<1>6. Orderly(e, "reopening", q, h)
  BY <1>4, <1>5 DEF Orderly, Gettings
<1>7. PICK plan \in Plans(e, t) :
        /\ h \cup Owed(how) = ToSet(plan) \cup {Graph} \cup Owed(how)
        /\ Owed(how) = {Filter, Graph, Endpoint("main")}
  <2>1. ToGet(how, <<>>) = {}
    BY DEF ToGet, Gettings
  <2>2. Owed(how) = {Filter, Graph, Endpoint("main")}
    BY DEF Owed
  <2>3. \E plan \in Plans(e, t) :
          h \cup ToGet(how, <<>>) \cup Owed(how) = ToSet(plan) \cup {Graph} \cup Owed(how)
    BY DEF Whole
  <2> QED
    BY <2>1, <2>2, <2>3
<1>8. /\ ToSet(plan) \subseteq MayHave(e) /\ ToSet(plan) \subseteq Things /\ Endpoint("main") \in ToSet(plan)
      /\ \A a \in ToSet(plan) \cup {Graph} : \A b \in Things : Needs(a, b) => b \in ToSet(plan)
  BY <1>1, CreationPlans, PlanWhole
<1>9. \A b : b \in h \/ b \in {Filter, Graph, Endpoint("main")}
             <=> b \in ToSet(plan) \/ b \in {Filter, Graph, Endpoint("main")}
  BY <1>7
<1>10. Filter \in MayHave(e) /\ Graph \in MayHave(e)
  BY <1>1 DEF MayHave
<1>11. Contents(e, "reopening", q, h)
  <2>1. ToSet(q) \subseteq {Graph, Endpoint("main"), Filter}
    BY <1>3
  <2>2. ToSet(q) \cap Things \subseteq MayHave(e)
    BY <1>8, <1>10, <2>1
  <2>3. Check \notin ToSet(q)
    BY <2>1, StepsApart
  <2>4. h \subseteq MayHave(e)
    BY DEF Shape, Contents
  <2> QED
    BY <1>1, <2>1, <2>2, <2>3, <2>4 DEF Contents, None
<1>12. Closed(e, "reopening", q, h, w, m)
  <2>1. \A a \in ToSet(q) \cap Things : \A b \in Things : Needs(a, b) => b \in h
    <3> SUFFICES ASSUME NEW a \in ToSet(q), NEW b \in Things, Needs(a, b) PROVE b \in h
      OBVIOUS
    <3>1. b \notin {Filter, Graph, Endpoint("main")}
      BY NeedsOthers
    <3>2. CASE a \in {Graph, Endpoint("main")}
      BY <1>8, <1>9, <3>1, <3>2
    <3>3. CASE a = Filter
      <4>1. b = Topic("main") /\ Needs(Endpoint("main"), b)
        BY <3>3, SMT DEF Needs, Support, Type, Event, Listener, Topic, Filter, Endpoint
      <4> QED
        BY <1>8, <1>9, <3>1, <4>1
    <3> QED
      BY <1>3, <3>2, <3>3
  <2> QED
    BY <2>1 DEF Shape, Closed, Gettings
<1>13. Course(e, "reopening", w, m)
  BY DEF Shape, Course
<1>14. Lock \notin ToSet(q) /\ Unlock \notin ToSet(q)
  BY <1>3, StepsApart
<1>15. Whole("reopening", q, h, Plans(e, t))
  <2>1. Owed("reopening") = {Filter} /\ ToGet("reopening", q) = ToSet(q) \cap Things
    BY DEF Owed, ToGet, Gettings
  <2>2. \A b : b \in h \/ b \in ToSet(q) \cap Things \/ b = Filter
                 <=> b \in ToSet(plan) \/ b = Graph \/ b = Filter
    BY <1>3, <1>8, <1>9, StepsApart
  <2>3. h \cup ToGet("reopening", q) \cup Owed("reopening") = ToSet(plan) \cup {Graph} \cup Owed("reopening")
    BY <2>1, <2>2
  <2> QED
    BY <2>3 DEF Whole
<1>16. Apart(e, "reopening", q, w, m)
  BY DEF Apart, Gettings
<1> QED
  BY <1>2, <1>6, <1>11, <1>12, <1>13, <1>14, <1>15, <1>16 DEF Shape

\* find_and_check_topic_and_type fails before anything is acquired.
LEMMA CheckFailsShape ==
  ASSUME NEW e, NEW s \in Seq(Steps), s # <<>>, Head(s) = Check, NEW h \in SUBSET Things, NEW w, NEW m,
         Shape(e, "creating", s, h, w, m)
  PROVE  /\ Shape(e, "undoing", <<Unlock>>, h, Check, m)
         /\ Unlock \in ToSet(s) /\ Lock \notin ToSet(s)
<1>1. Splits(s, Check, Tail(s))
  BY Tails
<1>2. h = {}
  BY <1>1, StepsApart DEF Splits, Shape, Orderly, MayFollow
<1>3. Guarded(s, Critical(e, "creating")) /\ Check \in Critical(e, "creating")
  BY DEF Shape, Orderly, Critical
<1>4. Unlock \in ToSet(s) /\ Lock \notin ToSet(s)
  <2> DEFINE steps == Critical(e, "creating")
             q == Tail(s)
  <2>1. Guarded(s, steps) /\ Check \in steps
    BY <1>3
  <2> HIDE DEF steps, q
  <2>2. /\ Check \in steps \cup {Lock} => Unlock \in ToSet(s)
        /\ Lock \in ToSet(q) => Check \notin steps \cup {Lock}
    BY <2>1, GuardedTail DEF q
  <2> QED
    BY <1>1, <2>1, <2>2, StepsApart DEF Splits, q
<1>5. <<Unlock>> \in Seq(Steps) /\ ToSet(<<Unlock>>) = {Unlock} /\ Releasable(<<Unlock>>)
  BY SMT DEF Steps, ToSet, Releasable
<1>6. Guarded(<<Unlock>>, Critical(e, "undoing"))
  BY SMT DEF Guarded, Critical, ToSet
<1> DEFINE q == <<Unlock>>
<1> HIDE DEF q
<1>7. Releasable(q) /\ Guarded(q, Critical(e, "undoing")) /\ ToSet(q) = {Unlock}
  BY <1>5, <1>6 DEF q
<1>8. Orderly(e, "undoing", q, h)
  BY <1>7 DEF Orderly, Gettings
<1>9. Contents(e, "undoing", q, h)
  BY <1>2, <1>7, StepsApart DEF Contents, Gettings, None
<1>10. Closed(e, "undoing", q, h, Check, m)
  BY <1>2 DEF Closed, Gettings
<1>11. Course(e, "undoing", Check, m)
  BY DEF Shape, Course
<1>a. Apart(e, "undoing", q, Check, m)
  <2>1. m = {}
    BY DEF Shape, Course
  <2>2. \A b \in Leaves(e, Check, m) : b = Filter
    BY <2>1, StepsApart DEF Leaves
  <2> QED
    BY <1>7, <2>2, StepsApart DEF Apart
<1>12. Shape(e, "undoing", q, h, Check, m)
  BY <1>8, <1>9, <1>10, <1>11, <1>a DEF Shape
<1> QED
  BY <1>4, <1>12 DEF q

\* Nothing is forgotten before something has failed.
LEMMA StillClosed ==
  ASSUME NEW e, NEW how, how \notin {"undoing", "gone", "breaking", "broken", "destroying"}, NEW s, NEW h,
         NEW w, NEW m, Shape(e, how, s, h, w, m)
  PROVE  /\ w = Nothing /\ m = {}
         /\ \A a \in h : \A b \in Things : Needs(a, b) => b \in h
<1>1. w = Nothing /\ m = {}
  BY DEF Shape, Course
<1>2. \A a \in h : \A b \in Things : Needs(a, b) => b \in h \/ a \in Leaves(e, w, m)
  BY DEF Shape, Closed
<1> QED
  BY <1>1, <1>2, LeavesNothing

\* A step of a creation fails under the lock.
LEMMA CreationFailsShape ==
  ASSUME package \in {"cpp", "dynamic"}, NEW e \in Entities, NEW s \in Seq(Steps), s # <<>>, NEW a,
         a = Head(s), NEW h, NEW w, NEW m, Shape(e, "creating", s, h, w, m), a \in Things,
         Unlock \in ToSet(s), NEW q, q = Append(Undo(e), Unlock)
  PROVE  Shape(e, "undoing", q, h, a, m) /\ q \in Seq(Steps) /\ Unlock \in ToSet(q) /\ Lock \notin ToSet(q)
<1>1. /\ q \in Seq(Steps) /\ Releasable(q) /\ Guarded(q, Critical(e, "undoing"))
      /\ Unlock \in ToSet(q) /\ Lock \notin ToSet(q) /\ Check \notin ToSet(q) /\ Filter \notin ToSet(q)
      /\ MayHave(e) \subseteq ToSet(q) \cup {Graph, Filter, Endpoint("channel")}
  BY UndoLists
<1> DEFINE r == Tail(s)
<1>2. \A b : b \in ToSet(s) <=> b = a \/ b \in ToSet(r)
  BY Tails DEF Splits
<1>3. \A b \in ToSet(r) : MayFollow(e, a, b)
  <2>1. Gettable(e, "creating", s)
    BY DEF Shape, Orderly, Gettings
  <2> QED
    BY <2>1, GettableTail
<1> HIDE DEF r
<1>4. a \in ToSet(s) /\ a # Unlock
  BY <1>2, StepsApart
<1>5. \A b \in h : MayFollow(e, b, a) /\ MayFollow(e, b, Unlock)
  BY <1>4 DEF Shape, Orderly
<1>6. a = Graph => Is(e, Rpc)
  BY <1>2, <1>3, <1>4 DEF MayFollow
<1>7. h \subseteq MayHave(e)
  BY DEF Shape, Contents
<1>8. Is(e, Rpc) => Filter \notin MayHave(e) /\ Endpoint("channel") \notin MayHave(e)
  BY SMT DEF MayHave, Is, PubSub, Rpc
<1>9. Graph \notin h /\ Endpoint("channel") \notin h
  <2>1. Graph \notin h
    BY <1>4, <1>5 DEF MayFollow
  <2>2. Endpoint("channel") \in h => a = Graph
    BY <1>4, <1>5 DEF MayFollow
  <2> QED
    BY <1>6, <1>7, <1>8, <2>1, <2>2
<1>10. Filter \in h => Filter \in Leaves(e, a, m)
  <2>1. a # Nothing
    BY StepsApart
  <2> QED
    BY <1>6, <1>7, <1>8, <2>1 DEF Leaves
<1>11. Closed(e, "undoing", q, h, a, m)
  <2>1. \A x \in h : \A b \in Things : Needs(x, b) => b \in h
    BY StillClosed
  <2>2. h \subseteq ToSet(q) \cup Leaves(e, a, m)
    BY <1>1, <1>7, <1>9, <1>10
  <2> QED
    BY <2>1, <2>2 DEF Closed, Gettings
<1>12. Orderly(e, "undoing", q, h)
  BY <1>1 DEF Orderly, Gettings
<1>13. Contents(e, "undoing", q, h)
  BY <1>1, <1>7 DEF Contents, Gettings, None
<1>14. Course(e, "undoing", a, m)
  BY StillClosed DEF Course
<1>15. Apart(e, "undoing", q, a, m)
  <2>1. m = {} /\ (a = Graph => ~Is(e, PubSub))
    BY <1>6, StillClosed DEF Is, PubSub, Rpc
  <2>2. \A b \in Leaves(e, a, m) : b = Filter
    BY <2>1 DEF Leaves
  <2> QED
    BY <1>1, <2>2 DEF Apart
<1> QED
  BY <1>1, <1>11, <1>12, <1>13, <1>14, <1>15 DEF Shape

\* A publisher or subscription fails to enter the graph.
LEMMA GraphFailsShape ==
  ASSUME package \in {"cpp", "dynamic"}, NEW e \in Entities, NEW s \in Seq(Steps), s # <<>>, NEW a,
         a = Head(s), NEW h, NEW w, NEW m, Shape(e, "creating", s, h, w, m), a \in Things,
         ~(Unlock \in ToSet(s) /\ Lock \notin ToSet(s)), NEW q, q = DestroyShared(e)
  PROVE  /\ a = Graph /\ Is(e, PubSub)
         /\ Shape(e, "undoing", q, h, a, m) /\ q \in Seq(Steps) /\ Lock \in ToSet(q)
<1> DEFINE r == Tail(s)
           steps == Critical(e, "creating")
<1>1. \A b : b \in ToSet(s) <=> b = a \/ b \in ToSet(r)
  BY Tails DEF Splits
<1>2. Guarded(s, steps)
  BY DEF Shape, Orderly
<1> HIDE DEF r, steps
<1>3. /\ a \in steps \cup {Lock} => Unlock \in ToSet(s)
      /\ Lock \in ToSet(r) => a \notin steps \cup {Lock}
  BY <1>2, GuardedTail DEF r
<1>4. a \notin steps
  BY <1>1, <1>3, StepsApart
<1>5. a = Graph /\ Is(e, PubSub)
  BY <1>4 DEF steps, Critical
<1>6. /\ q \in Seq(Steps) /\ Releasable(q) /\ Guarded(q, Critical(e, "undoing"))
      /\ Lock \in ToSet(q) /\ Check \notin ToSet(q)
      /\ ToSet(q) \cap {Topic("channel"), Endpoint("channel"), Support("main")} = {}
      /\ MayHave(e) \subseteq ToSet(q) \cup {Graph, Topic("channel"), Endpoint("channel"), Support("main")}
  BY <1>5, SharedLists
<1>7. h \subseteq MayHave(e)
  BY DEF Shape, Contents
<1>8. Graph \notin h
  BY <1>1, <1>5 DEF Shape, Orderly, MayFollow
<1>9. {Topic("channel"), Endpoint("channel"), Support("main")} \subseteq Leaves(e, a, m)
  BY <1>5 DEF Leaves
<1>10. Closed(e, "undoing", q, h, a, m)
  <2>1. \A x \in h : \A b \in Things : Needs(x, b) => b \in h
    BY StillClosed
  <2>2. h \subseteq ToSet(q) \cup Leaves(e, a, m)
    BY <1>6, <1>7, <1>8, <1>9
  <2> QED
    BY <2>1, <2>2 DEF Closed, Gettings
<1>11. Orderly(e, "undoing", q, h)
  BY <1>6 DEF Orderly, Gettings
<1>12. Contents(e, "undoing", q, h)
  BY <1>6, <1>7 DEF Contents, Gettings, None
<1>13. Course(e, "undoing", a, m)
  BY StillClosed DEF Course
<1>14. Apart(e, "undoing", q, a, m)
  <2>1. m = {}
    BY StillClosed
  <2>2. \A b \in Leaves(e, a, m) : b \in {Topic("channel"), Endpoint("channel"), Support("main")}
    BY <1>5, <2>1 DEF Leaves
  <2> QED
    BY <1>6, <2>2 DEF Apart
<1> QED
  BY <1>5, <1>6, <1>10, <1>11, <1>12, <1>13, <1>14 DEF Shape

\* The reader of a subscription is not opened again.
LEMMA ReopenFailsShape ==
  ASSUME NEW e, NEW s, NEW a, NEW h, NEW w, NEW m, Shape(e, "reopening", s, h, w, m)
  PROVE  /\ Shape(e, "breaking", <<Endpoint("main")>>, h, a, m) /\ <<Endpoint("main")>> \in Seq(Steps)
         /\ Lock \notin ToSet(<<Endpoint("main")>>) /\ Unlock \notin ToSet(<<Endpoint("main")>>)
<1> DEFINE q == <<Endpoint("main")>>
<1>1. q \in Seq(Steps) /\ ToSet(q) = {Endpoint("main")} /\ Releasable(q)
  BY SMT DEF Steps, Things, Slots, ToSet, Releasable
<1>2. Guarded(q, Critical(e, "breaking"))
  BY SMT DEF Guarded, Critical, ToSet
<1> HIDE DEF q
<1>3. Lock \notin ToSet(q) /\ Unlock \notin ToSet(q) /\ Check \notin ToSet(q)
  BY <1>1, StepsApart
<1>4. Orderly(e, "breaking", q, h)
  BY <1>1, <1>2 DEF Orderly, Gettings
<1>5. Contents(e, "breaking", q, h)
  BY <1>1, <1>3 DEF Shape, Contents, Gettings, None
<1>6. Course(e, "breaking", a, m)
  BY StillClosed DEF Course
<1>7. Closed(e, "breaking", q, h, a, m)
  BY StillClosed DEF Closed, Gettings
<1>a. Apart(e, "breaking", q, a, m)
  <2>1. m = {}
    BY StillClosed
  <2>2. Endpoint("main") \notin Leaves(e, a, m)
    BY <2>1, SMT DEF Leaves
  <2> QED
    BY <1>1, <2>2 DEF Apart
<1>8. Shape(e, "breaking", q, h, a, m)
  BY <1>4, <1>5, <1>6, <1>7, <1>a DEF Shape
<1> QED
  BY <1>1, <1>3, <1>8 DEF q

\* Fast DDS does not delete the endpoint of a publisher or subscription.
LEMMA GiveUpShape ==
  ASSUME NEW e, Is(e, PubSub), NEW how \in {"destroying", "adding", "dropping"}, NEW s \in Seq(Steps),
         s # <<>>, NEW x \in Slots \ {"channel"}, Head(s) = Endpoint(x), NEW h, NEW w, NEW m,
         Shape(e, how, s, h, w, m)
  PROVE  /\ Shape(e, "refusing", <<Unlock>>, h, w, m) /\ <<Unlock>> \in Seq(Steps)
         /\ Unlock \in ToSet(<<Unlock>>) /\ Lock \notin ToSet(<<Unlock>>)
         /\ Unlock \in ToSet(s) /\ Lock \notin ToSet(s)
<1> DEFINE q == <<Unlock>>
           steps == Critical(e, how)
           r == Tail(s)
           a == Endpoint(x)
<1>1. q \in Seq(Steps) /\ ToSet(q) = {Unlock} /\ Releasable(q)
  BY SMT DEF Steps, ToSet, Releasable
<1>2. Guarded(q, Critical(e, "refusing"))
  BY SMT DEF Guarded, Critical, ToSet
<1>3. Guarded(s, steps) /\ a \in steps
  BY DEF Shape, Orderly, Critical
<1>4. \A b : b \in ToSet(s) <=> b = a \/ b \in ToSet(r)
  BY Tails DEF Splits
<1>5. a = Head(s) /\ a # Lock
  BY SMT
<1> HIDE DEF q, steps, r, a
<1>6. /\ a \in steps \cup {Lock} => Unlock \in ToSet(s)
      /\ Lock \in ToSet(r) => a \notin steps \cup {Lock}
  BY <1>3, <1>5, GuardedTail DEF r
<1>7. Unlock \in ToSet(s) /\ Lock \notin ToSet(s)
  BY <1>3, <1>4, <1>5, <1>6
<1>8. Lock \notin ToSet(q) /\ Unlock \in ToSet(q) /\ Check \notin ToSet(q)
  BY <1>1, StepsApart
<1>9. w = Nothing /\ m = {}
  BY DEF Shape, Course, Is, PubSub, Rpc
<1>10. Orderly(e, "refusing", q, h)
  BY <1>1, <1>2 DEF Orderly, Gettings
<1>11. Contents(e, "refusing", q, h)
  BY <1>1, <1>8 DEF Shape, Contents, Gettings, None
<1>12. Course(e, "refusing", w, m)
  BY <1>9 DEF Course
<1>13. Closed(e, "refusing", q, h, w, m)
  BY DEF Shape, Closed, Gettings
<1>14. Shape(e, "refusing", q, h, w, m)
  BY <1>9, <1>10, <1>11, <1>12, <1>13, LeavesNothing DEF Shape, Apart
<1> QED
  BY <1>1, <1>7, <1>8, <1>14 DEF q

LEMMA FinishShape ==
  ASSUME NEW e, NEW how \in DOMAIN Returned, NEW h, NEW w, NEW m, Shape(e, how, <<>>, h, w, m)
  PROVE  Shape(e, Returned[how], <<>>, h, w, m)
<1>1. Returned[how] = (IF how \in Gettings THEN "live" ELSE IF how \in {"undoing", "destroying"} THEN "gone"
                       ELSE IF how = "refusing" THEN "refused" ELSE "broken")
      /\ how \in {"creating", "reopening", "undoing", "destroying", "refusing", "breaking"}
  BY SMT DEF Returned, Gettings
<1> DEFINE now == Returned[how]
           s == <<>>
<1>2. Releasable(s) /\ \A steps : Guarded(s, steps)
  BY SMT DEF Releasable, Guarded
<1>3. ToSet(s) = {} /\ s = <<>>
  BY SMT DEF ToSet
<1>4. now \in {"live", "gone", "refused", "broken"}
  BY <1>1
<1>5. Shape(e, how, s, h, w, m)
  OBVIOUS
<1> HIDE DEF now, s
<1>6. Orderly(e, now, s, h)
  BY <1>2, <1>4 DEF Orderly, Gettings
<1>7. Contents(e, now, s, h)
  BY <1>3, <1>4, <1>5 DEF Shape, Contents, Gettings, None
<1>8. Course(e, now, w, m)
  BY <1>1, <1>5 DEF now, Shape, Course, Gettings
<1>9. Closed(e, now, s, h, w, m)
  BY <1>1, <1>5 DEF now, Shape, Closed, Gettings
<1>10. Apart(e, now, s, w, m)
  BY <1>3 DEF Apart
<1> QED
  BY <1>6, <1>7, <1>8, <1>9, <1>10 DEF Shape, now, s

(***************************************************************************)
(* The things of a plan.                                                   *)
(***************************************************************************)
LEMMA WholeSteps ==
  ASSUME NEW how, NEW s \in Seq(Steps), s # <<>>, NEW h, NEW plans, Whole(how, s, h, plans),
         NEW a, a = Head(s), NEW q, q = Tail(s)
  PROVE  /\ how \in Gettings /\ a \in Things => Whole(how, q, h \cup {a}, plans)
         /\ how \notin Gettings \/ a \notin Things => Whole(how, q, h, plans)
         /\ how \notin Gettings \cup {"live"}
            /\ (how \in {"adding", "dropping"} => a \in Owed(how) \/ a \notin h)
              => Whole(how, q, h \ {a}, plans)
<1>1. \A b : b \in ToSet(s) <=> b = a \/ b \in ToSet(q)
  BY Tails DEF Splits
<1>2. CASE how \in {"creating", "live", "adding", "dropping", "reopening"}
  <2>1. PICK plan \in plans : h \cup ToGet(how, s) \cup Owed(how) = ToSet(plan) \cup {Graph} \cup Owed(how)
    BY <1>2 DEF Whole
  <2>2. ASSUME how \in Gettings, a \in Things PROVE Whole(how, q, h \cup {a}, plans)
    <3>1. h \cup {a} \cup ToGet(how, q) = h \cup ToGet(how, s)
      BY <1>1, <2>2 DEF ToGet
    <3> QED
      BY <2>1, <3>1 DEF Whole
  <2>3. ASSUME how \notin Gettings \/ a \notin Things PROVE Whole(how, q, h, plans)
    <3>1. ToGet(how, q) = ToGet(how, s)
      BY <1>1, <2>3 DEF ToGet
    <3> QED
      BY <2>1, <3>1 DEF Whole
  <2>4. ASSUME how \notin Gettings \cup {"live"},
               how \in {"adding", "dropping"} => a \in Owed(how) \/ a \notin h
        PROVE  Whole(how, q, h \ {a}, plans)
    <3>1. how \in {"adding", "dropping"}
      BY <1>2, <2>4 DEF Gettings
    <3>2. (h \ {a}) \cup Owed(how) = h \cup Owed(how)
      BY <2>4, <3>1
    <3>3. ToGet(how, q) = {} /\ ToGet(how, s) = {}
      BY <2>4 DEF ToGet
    <3> QED
      BY <2>1, <3>2, <3>3 DEF Whole
  <2> QED
    BY <2>2, <2>3, <2>4
<1>3. CASE how \notin {"creating", "live", "adding", "dropping", "reopening"}
  BY <1>3 DEF Whole
<1> QED
  BY <1>2, <1>3

LEMMA WholeReturns ==
  ASSUME NEW h, NEW plans
  PROVE  /\ \A how \in DOMAIN Returned : Whole(how, <<>>, h, plans) => Whole(Returned[how], <<>>, h, plans)
         /\ \A how \in {"adding", "dropping"} : \A s, q : Whole("live", s, h, plans) => Whole(how, q, h, plans)
         /\ \A how \in {"undoing", "destroying", "breaking", "refusing"} : \A s : Whole(how, s, h, plans)
<1>1. ASSUME NEW how \in DOMAIN Returned, Whole(how, <<>>, h, plans)
      PROVE  Whole(Returned[how], <<>>, h, plans)
  <2>1. CASE how \in Gettings
    <3>1. Returned[how] = "live" /\ how \in {"creating", "reopening"}
      BY <2>1, SMT DEF Returned, Gettings
    <3>2. ToGet(how, <<>>) = {} /\ ToGet("live", <<>>) = {}
      BY SMT DEF ToGet, ToSet, Gettings
    <3>3. Owed(how) = {Filter} /\ Owed("live") = {Filter}
      BY <3>1 DEF Owed
    <3> QED
      BY <1>1, <3>1, <3>2, <3>3 DEF Whole
  <2>2. CASE how \notin Gettings
    <3>1. Returned[how] \in {"gone", "refused", "broken"}
      BY <1>1, <2>2, SMT DEF Returned, Gettings
    <3> QED
      BY <3>1 DEF Whole
  <2> QED
    BY <2>1, <2>2
<1>2. ASSUME NEW how \in {"adding", "dropping"}, NEW s, NEW q, Whole("live", s, h, plans)
      PROVE  Whole(how, q, h, plans)
  <2>1. PICK plan \in plans :
          h \cup ToGet("live", s) \cup Owed("live") = ToSet(plan) \cup {Graph} \cup Owed("live")
    BY <1>2 DEF Whole
  <2>2. ToGet("live", s) = {} /\ ToGet(how, q) = {}
    BY DEF ToGet, Gettings
  <2>3. Owed("live") = {Filter} /\ Owed(how) = {Filter, Graph, Endpoint("main")}
    BY DEF Owed
  <2>4. h \cup Owed(how) = ToSet(plan) \cup {Graph} \cup Owed(how)
    BY <2>1, <2>2, <2>3
  <2> QED
    BY <2>2, <2>4 DEF Whole
<1>3. \A how \in {"undoing", "destroying", "breaking", "refusing"} : \A s : Whole(how, s, h, plans)
  BY DEF Whole
<1> QED
  BY <1>1, <1>2, <1>3

LEMMA WholeCreation ==
  ASSUME NEW plans, NEW plan \in plans, NEW s, ToSet(s) \cap Things = ToSet(plan) \cup {Graph}
  PROVE  Whole("creating", s, {}, plans)
<1>1. ToGet("creating", s) = ToSet(plan) \cup {Graph}
  BY DEF ToGet, Gettings
<1>2. {} \cup ToGet("creating", s) \cup Owed("creating") = ToSet(plan) \cup {Graph} \cup Owed("creating")
  BY <1>1
<1> QED
  BY <1>2 DEF Whole

------------------------------------------------------------------------------
(***************************************************************************)
(* The invariant of each entity is kept by every step.                     *)
(***************************************************************************)
Calls ==
  {None, "adding", "dropping"} \cup DOMAIN Returned \cup {Returned[how] : how \in DOMAIN Returned}

Typed ==
  /\ package \in {"cpp", "dynamic"}
  /\ call \in [Entities -> Calls]
  /\ todo \in [Entities -> Seq(Steps)]
  /\ type \in [Entities -> Types \cup {None}]
  /\ has \in [Entities -> SUBSET Things]
  /\ lock \in Entities \cup {None}
  /\ muted \subseteq Entities \X Slots /\ refused \subseteq Entities
  /\ failed \in [Entities -> Steps \cup {Nothing}]

EntitiesInv == Typed /\ \A e \in Entities : EntityInv(e)

\* Entity e becomes what the values say, and nothing changes for the others.
Becomes(e, how, s, h, w, m) ==
  /\ call' = [call EXCEPT ![e] = how]
  /\ todo' = [todo EXCEPT ![e] = s]
  /\ has' = [has EXCEPT ![e] = h]
  /\ failed' = [failed EXCEPT ![e] = w]
  /\ muted' = muted \cup ({e} \X m) /\ m \subseteq Slots

LockOf(s) == Unlock \in ToSet(s) /\ Lock \notin ToSet(s)

LEMMA EntityInvNext ==
  ASSUME package' = package, NEW f, NEW how, NEW s, NEW h, NEW w, NEW m,
         call'[f] = how, todo'[f] = s, has'[f] = h, failed'[f] = w, Muted(f)' = m,
         Shape(f, how, s, h, w, m), Whole(how, s, h, Plans(f, type'[f])), lock' = f <=> LockOf(s)
  PROVE  EntityInv(f)'
<1>1. MayHave(f)' = MayHave(f)
  BY DEF MayHave
<1>2. Plans(f, type[f])' = Plans(f, type'[f])
  BY DEF Plans
<1>3. Shape(f, call[f], todo[f], has[f], failed[f], Muted(f))'
  <2>1. Orderly(f, call[f], todo[f], has[f])'
    BY DEF Shape, Orderly
  <2>2. Contents(f, call[f], todo[f], has[f])'
    BY <1>1 DEF Shape, Contents
  <2>3. Course(f, call[f], failed[f], Muted(f))'
    BY DEF Shape, Course
  <2>4. Closed(f, call[f], todo[f], has[f], failed[f], Muted(f))'
    BY DEF Shape, Closed
  <2>5. Apart(f, call[f], todo[f], failed[f], Muted(f))'
    BY DEF Shape, Apart
  <2> QED
    BY <2>1, <2>2, <2>3, <2>4, <2>5 DEF Shape
<1>4. Whole(call[f], todo[f], has[f], Plans(f, type[f]))'
  BY <1>2 DEF Whole
<1>5. HasLock(f)'
  BY DEF HasLock, LockOf
<1> QED
  BY <1>3, <1>4, <1>5 DEF EntityInv

LEMMA BecomesInv ==
  ASSUME EntitiesInv, package' = package, NEW e \in Entities, NEW how, NEW s \in Seq(Steps),
         NEW h \in SUBSET Things, NEW w \in Steps \cup {Nothing}, NEW m \in SUBSET Slots,
         Becomes(e, how, s, h, w, m),
         how \in Calls,
         type' \in [Entities -> Types \cup {None}], \A f \in Entities \ {e} : type'[f] = type[f],
         lock' \in Entities \cup {None}, lock' = e <=> LockOf(s),
         \A f \in Entities \ {e} : lock' = f <=> lock = f, refused' \subseteq Entities,
         Shape(e, how, s, h, w, Muted(e) \cup m), Whole(how, s, h, Plans(e, type'[e]))
  PROVE  EntitiesInv'
<1>1. Typed'
  BY DEF EntitiesInv, Typed, Becomes
<1>2. /\ call'[e] = how /\ todo'[e] = s /\ has'[e] = h /\ failed'[e] = w
      /\ Muted(e)' = Muted(e) \cup m
  BY DEF EntitiesInv, Typed, Becomes, Muted
<1>3. EntityInv(e)'
  BY <1>2, EntityInvNext
<1>4. ASSUME NEW f \in Entities \ {e} PROVE EntityInv(f)'
  <2>1. /\ call'[f] = call[f] /\ todo'[f] = todo[f] /\ has'[f] = has[f] /\ failed'[f] = failed[f]
        /\ Muted(f)' = Muted(f) /\ type'[f] = type[f]
    BY DEF EntitiesInv, Typed, Becomes, Muted
  <2>2. /\ Shape(f, call[f], todo[f], has[f], failed[f], Muted(f))
        /\ Whole(call[f], todo[f], has[f], Plans(f, type'[f]))
    BY <2>1 DEF EntitiesInv, EntityInv
  <2>3. lock' = f <=> LockOf(todo[f])
    BY DEF EntitiesInv, EntityInv, HasLock, LockOf
  <2> QED
    BY <2>1, <2>2, <2>3, EntityInvNext
<1> QED
  BY <1>1, <1>3, <1>4 DEF EntitiesInv

LEMMA CallNames ==
  Calls = {None, "creating", "live", "destroying", "gone", "undoing", "adding", "dropping", "reopening",
           "breaking", "broken", "refusing", "refused"}
<1>1. Returned = [creating |-> "live", reopening |-> "live", undoing |-> "gone", destroying |-> "gone",
                  refusing |-> "refused", breaking |-> "broken"]
  BY DEF Returned
<1>2. DOMAIN Returned = {"creating", "reopening", "undoing", "destroying", "refusing", "breaking"}
  BY <1>1
<1>3. /\ Returned["creating"] = "live" /\ Returned["reopening"] = "live" /\ Returned["undoing"] = "gone"
      /\ Returned["destroying"] = "gone" /\ Returned["refusing"] = "refused" /\ Returned["breaking"] = "broken"
  BY SMT DEF Returned
<1>4. {Returned[how] : how \in DOMAIN Returned} = {"live", "gone", "refused", "broken"}
  BY <1>2, <1>3
<1> QED
  BY <1>2, <1>4 DEF Calls

\* Taking the first step: what becomes of the lock.
LEMMA LockOfTail ==
  ASSUME NEW s \in Seq(Steps), s # <<>>, NEW steps, Guarded(s, steps), NEW a, a = Head(s), NEW q, q = Tail(s)
  PROVE  /\ q \in Seq(Steps) /\ a \in Steps
         /\ a \notin {Lock, Unlock} => (LockOf(q) <=> LockOf(s))
         /\ a = Lock => LockOf(q)
         /\ a = Unlock => LockOf(s) /\ ~LockOf(q)
<1>1. /\ q \in Seq(Steps) /\ a \in Steps
      /\ \A b : b \in ToSet(s) <=> b = a \/ b \in ToSet(q)
  BY Tails DEF Splits
<1>2. /\ a \in steps \cup {Lock} => Unlock \in ToSet(s)
      /\ Lock \in ToSet(q) => a \notin steps \cup {Lock}
      /\ a = Unlock => \A b \in ToSet(q) : b \notin steps \cup {Lock, Unlock}
  BY GuardedTail
<1>3. Lock # Unlock
  BY StepsApart
<1> QED
  BY <1>1, <1>2, <1>3 DEF LockOf

ThingKinds == {"support", "type", "listener", "topic", "endpoint", "event", "filter", "handle", "graph"}

LEMMA KindsOfSteps ==
  \A a \in Steps : /\ a[1] \in ThingKinds <=> a \in Things
                   /\ a[1] = "lock" <=> a = Lock
                   /\ a[1] = "unlock" <=> a = Unlock
                   /\ a[1] = "check" <=> a = Check
BY SMT DEF Steps, Things, Slots, ThingKinds

\* Where entity e stands before a step.
LEMMA Before ==
  ASSUME EntitiesInv, NEW e \in Entities
  PROVE  /\ call[e] \in Calls /\ todo[e] \in Seq(Steps) /\ has[e] \in SUBSET Things
         /\ failed[e] \in Steps \cup {Nothing} /\ Muted(e) \in SUBSET Slots
         /\ Shape(e, call[e], todo[e], has[e], failed[e], Muted(e))
         /\ Whole(call[e], todo[e], has[e], Plans(e, type[e]))
         /\ lock = e <=> LockOf(todo[e])
         /\ Guarded(todo[e], Critical(e, call[e]))
         /\ todo[e] # <<>> => call[e] \notin {None, "live", "gone", "refused", "broken"}
BY DEF EntitiesInv, EntityInv, Typed, Muted, HasLock, LockOf, Shape, Orderly, Contents

\* A step that leaves the lock alone.
LEMMA KeepsInv ==
  ASSUME EntitiesInv, UNCHANGED <<package, type, lock, refused, muted>>, NEW e \in Entities, NEW how \in Calls,
         NEW s \in Seq(Steps), NEW h \in SUBSET Things, NEW w \in Steps \cup {Nothing},
         call' = [call EXCEPT ![e] = how], todo' = [todo EXCEPT ![e] = s], has' = [has EXCEPT ![e] = h],
         failed' = [failed EXCEPT ![e] = w], LockOf(s) <=> LockOf(todo[e]),
         Shape(e, how, s, h, w, Muted(e)), Whole(how, s, h, Plans(e, type[e]))
  PROVE  EntitiesInv'
<1> DEFINE m == {}
<1>1. /\ type' \in [Entities -> Types \cup {None}] /\ \A f \in Entities \ {e} : type'[f] = type[f]
      /\ lock' \in Entities \cup {None} /\ \A f \in Entities \ {e} : lock' = f <=> lock = f
      /\ refused' \subseteq Entities
  BY DEF EntitiesInv, Typed
<1>2. lock' = e <=> LockOf(s)
  BY Before
<1>3. package' = package /\ type'[e] = type[e]
  OBVIOUS
<1>4. Muted(e) \cup m = Muted(e) /\ m \in SUBSET Slots /\ muted' = muted \cup ({e} \X m)
  OBVIOUS
<1>5. Becomes(e, how, s, h, w, m)
  BY <1>4 DEF Becomes
<1>6. Shape(e, how, s, h, w, Muted(e) \cup m)
  BY <1>4
<1>7. Whole(how, s, h, Plans(e, type'[e]))
  BY <1>3
<1> HIDE DEF m
<1> QED
  BY <1>1, <1>2, <1>3, <1>4, <1>5, <1>6, <1>7, BecomesInv

LEMMA AcquireInv ==
  ASSUME EntitiesInv, NEW e \in Entities, At(e, ThingKinds), Get(e),
         UNCHANGED <<call, lock, muted, failed, refused>>
  PROVE  EntitiesInv'
<1> DEFINE s == todo[e]
           a == Head(s)
           q == Tail(s)
           h == has[e]
           how == call[e]
           plans == Plans(e, type[e])
<1>1. /\ s \in Seq(Steps) /\ s # <<>> /\ h \in SUBSET Things /\ how \in Gettings /\ how \in Calls
      /\ Shape(e, how, s, h, failed[e], Muted(e)) /\ Guarded(s, Critical(e, how))
      /\ Whole(how, s, h, plans) /\ failed[e] \in Steps \cup {Nothing}
  BY Before DEF At, Get, Getting, Gettings
<1>2. a = Head(s) /\ q = Tail(s)
  OBVIOUS
<1>3. /\ call' = [call EXCEPT ![e] = how] /\ todo' = [todo EXCEPT ![e] = q]
      /\ has' = [has EXCEPT ![e] = h \cup {a}] /\ failed' = [failed EXCEPT ![e] = failed[e]]
  BY DEF EntitiesInv, Typed, Get, Step
<1>4. a[1] \in ThingKinds
  BY DEF At
<1> HIDE DEF a, q
<1>5. /\ q \in Seq(Steps) /\ a \in Steps
      /\ a \notin {Lock, Unlock} => (LockOf(q) <=> LockOf(s))
  BY <1>1, <1>2, LockOfTail
<1>6. a \in Things
  BY <1>4, <1>5, KindsOfSteps
<1>7. Shape(e, how, q, h \cup {a}, failed[e], Muted(e))
  BY <1>1, <1>2, <1>6, GetShape
<1>8. how \in Gettings /\ a \in Things => Whole(how, q, h \cup {a}, plans)
  <2> HIDE DEF s, h, how, plans
  <2> QED
    BY <1>1, <1>2, WholeSteps
<1>9. LockOf(q) <=> LockOf(todo[e])
  BY <1>5, <1>6, StepsApart
<1>10. UNCHANGED <<package, type, lock, refused, muted>>
  BY DEF Get, Step
<1>11. h \cup {a} \in SUBSET Things
  BY <1>1, <1>6
<1> QED
  BY <1>1, <1>3, <1>5, <1>6, <1>7, <1>8, <1>9, <1>10, <1>11, KeepsInv

LEMMA ReleaseInv ==
  ASSUME EntitiesInv, NEW e \in Entities, At(e, ThingKinds), Put(e),
         UNCHANGED <<call, lock, muted, failed, refused>>
  PROVE  EntitiesInv'
<1> DEFINE s == todo[e]
           a == Head(s)
           q == Tail(s)
           h == has[e]
           how == call[e]
           plans == Plans(e, type[e])
<1>1. /\ s \in Seq(Steps) /\ s # <<>> /\ h \in SUBSET Things /\ how \notin Gettings /\ how \in Calls
      /\ Shape(e, how, s, h, failed[e], Muted(e)) /\ Guarded(s, Critical(e, how))
      /\ Whole(how, s, h, plans) /\ failed[e] \in Steps \cup {Nothing}
      /\ how \notin {None, "live", "gone", "refused", "broken"}
  BY Before DEF At, Put, Getting, Gettings
<1>2. a = Head(s) /\ q = Tail(s)
  OBVIOUS
<1>3. /\ call' = [call EXCEPT ![e] = how] /\ todo' = [todo EXCEPT ![e] = q]
      /\ has' = [has EXCEPT ![e] = h \ {a}] /\ failed' = [failed EXCEPT ![e] = failed[e]]
  BY DEF EntitiesInv, Typed, Put, Step
<1>4. a[1] \in ThingKinds
  BY DEF At
<1> HIDE DEF a, q
<1>5. /\ q \in Seq(Steps) /\ a \in Steps
      /\ a \notin {Lock, Unlock} => (LockOf(q) <=> LockOf(s))
  BY <1>1, <1>2, LockOfTail
<1>6. a \in Things
  BY <1>4, <1>5, KindsOfSteps
<1>7. how \in {"undoing", "destroying", "adding", "dropping", "refusing", "breaking"}
  BY <1>1, CallNames DEF Gettings
<1>8. Shape(e, how, q, h \ {a}, failed[e], Muted(e))
  <2> HIDE DEF s, h, how
  <2> QED
    BY <1>1, <1>2, <1>6, <1>7, PutShape
<1>9. how \in {"adding", "dropping"} => a \in Owed(how)
  <2>1. a \in ToSet(s)
    BY <1>1, <1>2, Tails DEF Splits
  <2>2. how \in {"adding", "dropping"} => ToSet(s) \subseteq {Graph, Lock, Endpoint("main"), Filter, Unlock}
    BY <1>1 DEF Shape, Contents
  <2> QED
    BY <1>6, <2>1, <2>2, StepsApart DEF Owed
<1>10. how \notin Gettings \cup {"live"} /\ (how \in {"adding", "dropping"} => a \in Owed(how) \/ a \notin h)
         => Whole(how, q, h \ {a}, plans)
  <2> HIDE DEF s, h, how, plans
  <2> QED
    BY <1>1, <1>2, WholeSteps
<1>11. LockOf(q) <=> LockOf(todo[e])
  BY <1>5, <1>6, StepsApart
<1>12. UNCHANGED <<package, type, lock, refused, muted>>
  BY DEF Put, Step
<1>13. h \ {a} \in SUBSET Things
  BY <1>1
<1> QED
  BY <1>1, <1>3, <1>5, <1>7, <1>8, <1>9, <1>10, <1>11, <1>12, <1>13, KeepsInv

\* A step that is passed over.
LEMMA PassInv ==
  ASSUME EntitiesInv, NEW e \in Entities, todo[e] # <<>>, Step(e),
         UNCHANGED <<call, has, muted, failed, refused>>,
         Head(todo[e]) \notin has[e], call[e] \in Gettings => Head(todo[e]) \notin Things
  PROVE  /\ Shape(e, call[e], Tail(todo[e]), has[e], failed[e], Muted(e))
         /\ Whole(call[e], Tail(todo[e]), has[e], Plans(e, type[e]))
         /\ call' = [call EXCEPT ![e] = call[e]] /\ todo' = [todo EXCEPT ![e] = Tail(todo[e])]
         /\ has' = [has EXCEPT ![e] = has[e]] /\ failed' = [failed EXCEPT ![e] = failed[e]]
         /\ package' = package /\ type' = type /\ refused' = refused /\ muted' = muted
<1> DEFINE s == todo[e]
           a == Head(s)
           q == Tail(s)
           h == has[e]
           how == call[e]
           plans == Plans(e, type[e])
<1>1. /\ s \in Seq(Steps) /\ s # <<>> /\ Shape(e, how, s, h, failed[e], Muted(e)) /\ Whole(how, s, h, plans)
  BY Before
<1>2. a = Head(s) /\ q = Tail(s) /\ a \notin h /\ (how \in Gettings => a \notin Things)
  OBVIOUS
<1>3. Shape(e, how, q, h, failed[e], Muted(e))
  BY <1>1, <1>2, PassShape
<1>4. how \notin Gettings \/ a \notin Things => Whole(how, q, h, plans)
  <2> HIDE DEF s, h, how, plans, a, q
  <2> QED
    BY <1>1, <1>2, WholeSteps
<1>5. Whole(how, q, h, plans)
  BY <1>2, <1>4
<1>6. /\ call' = [call EXCEPT ![e] = call[e]] /\ todo' = [todo EXCEPT ![e] = Tail(todo[e])]
      /\ has' = [has EXCEPT ![e] = has[e]] /\ failed' = [failed EXCEPT ![e] = failed[e]]
      /\ package' = package /\ type' = type /\ refused' = refused /\ muted' = muted
  BY DEF EntitiesInv, Typed, Step
<1> QED
  BY <1>3, <1>5, <1>6

\* What the first step is.
LEMMA HeadOf ==
  ASSUME EntitiesInv, NEW e \in Entities, todo[e] # <<>>
  PROVE  /\ Tail(todo[e]) \in Seq(Steps) /\ Head(todo[e]) \in Steps /\ Head(todo[e]) \in ToSet(todo[e])
         /\ Head(todo[e]) \notin {Lock, Unlock} => (LockOf(Tail(todo[e])) <=> LockOf(todo[e]))
         /\ Head(todo[e]) = Lock => LockOf(Tail(todo[e]))
         /\ Head(todo[e]) = Unlock => LockOf(todo[e]) /\ ~LockOf(Tail(todo[e]))
         /\ \A kinds : At(e, kinds) <=> Head(todo[e])[1] \in kinds
<1> DEFINE s == todo[e]
           a == Head(s)
           q == Tail(s)
<1>1. s \in Seq(Steps) /\ s # <<>> /\ Guarded(s, Critical(e, call[e])) /\ a = Head(s) /\ q = Tail(s)
  BY Before
<1>2. \A kinds : At(e, kinds) <=> Head(todo[e])[1] \in kinds
  BY DEF At
<1> HIDE DEF s, a, q
<1>3. /\ q \in Seq(Steps) /\ a \in Steps
      /\ a \notin {Lock, Unlock} => (LockOf(q) <=> LockOf(s))
      /\ a = Lock => LockOf(q)
      /\ a = Unlock => LockOf(s) /\ ~LockOf(q)
  BY <1>1, LockOfTail
<1>4. a \in ToSet(s)
  BY <1>1, Tails DEF Splits
<1> QED
  BY <1>2, <1>3, <1>4 DEF s, a, q

LEMMA SkipInv ==
  ASSUME EntitiesInv, NEW e \in Entities, Skip(e)
  PROVE  EntitiesInv'
<1>1. /\ todo[e] # <<>> /\ Step(e) /\ UNCHANGED <<call, has, lock, muted, failed, refused>>
      /\ Head(todo[e]) \notin has[e] /\ call[e] \notin Gettings /\ ~At(e, {"lock", "unlock"})
  BY DEF Skip, Due, Getting, Gettings
<1> DEFINE s == todo[e]
           a == Head(s)
           q == Tail(s)
<1>2. q \in Seq(Steps) /\ (LockOf(q) <=> LockOf(s))
  BY <1>1, HeadOf, KindsOfSteps
<1>3. /\ Shape(e, call[e], q, has[e], failed[e], Muted(e))
      /\ Whole(call[e], q, has[e], Plans(e, type[e]))
      /\ call' = [call EXCEPT ![e] = call[e]] /\ todo' = [todo EXCEPT ![e] = q]
      /\ has' = [has EXCEPT ![e] = has[e]] /\ failed' = [failed EXCEPT ![e] = failed[e]]
      /\ UNCHANGED <<package, type, lock, refused, muted>>
  BY <1>1, PassInv
<1>4. /\ call[e] \in Calls /\ has[e] \in SUBSET Things /\ failed[e] \in Steps \cup {Nothing}
  BY Before
<1> HIDE DEF q
<1> QED
  BY <1>2, <1>3, <1>4, KeepsInv

LEMMA LockInv ==
  ASSUME EntitiesInv, NEW e \in Entities, TakeLock(e) \/ ReleaseLock(e)
  PROVE  EntitiesInv'
<1> DEFINE s == todo[e]
           a == Head(s)
           q == Tail(s)
           m == {}
<1>1. /\ s # <<>> /\ Step(e) /\ UNCHANGED <<call, has, muted, failed, refused>>
      /\ At(e, {"lock"}) \/ At(e, {"unlock"})
  BY DEF TakeLock, ReleaseLock, At
<1>2. a \in {Lock, Unlock} /\ a \notin Things
  BY <1>1, HeadOf, KindsOfSteps, StepsApart
<1>3. a \notin has[e]
  BY <1>2, Before
<1>4. /\ Shape(e, call[e], q, has[e], failed[e], Muted(e))
      /\ Whole(call[e], q, has[e], Plans(e, type[e]))
      /\ call' = [call EXCEPT ![e] = call[e]] /\ todo' = [todo EXCEPT ![e] = q]
      /\ has' = [has EXCEPT ![e] = has[e]] /\ failed' = [failed EXCEPT ![e] = failed[e]]
      /\ package' = package /\ type' = type /\ refused' = refused /\ muted' = muted
  BY <1>1, <1>2, <1>3, PassInv
<1>5. /\ call[e] \in Calls /\ has[e] \in SUBSET Things /\ failed[e] \in Steps \cup {Nothing}
      /\ lock = e <=> LockOf(s)
  BY Before
<1>6. lock' \in Entities \cup {None} /\ (lock' = e <=> LockOf(q))
      /\ \A f \in Entities \ {e} : lock' = f <=> lock = f
  <2>1. CASE TakeLock(e)
    <3>1. a = Lock /\ lock = None /\ lock' = e
      BY <2>1, <1>1, HeadOf, KindsOfSteps DEF TakeLock
    <3> QED
      BY <1>1, <3>1, HeadOf, EntityAssumption
  <2>2. CASE ReleaseLock(e)
    <3>1. a = Unlock /\ lock' = None
      BY <2>2, <1>1, HeadOf, KindsOfSteps DEF ReleaseLock
    <3>2. LockOf(s) /\ ~LockOf(q)
      BY <1>1, <3>1, HeadOf
    <3> QED
      BY <1>5, <3>1, <3>2, EntityAssumption
  <2> QED
    BY <2>1, <2>2
<1>7. q \in Seq(Steps)
  BY <1>1, HeadOf
<1>8. /\ type' \in [Entities -> Types \cup {None}] /\ \A f \in Entities \ {e} : type'[f] = type[f]
      /\ refused' \subseteq Entities /\ type'[e] = type[e]
  BY <1>4 DEF EntitiesInv, Typed
<1>9. Muted(e) \cup m = Muted(e) /\ m \in SUBSET Slots /\ muted' = muted \cup ({e} \X m)
  BY <1>4
<1> HIDE DEF s, q, m
<1>10. Becomes(e, call[e], q, has[e], failed[e], m)
  BY <1>4, <1>9 DEF Becomes
<1>11. Shape(e, call[e], q, has[e], failed[e], Muted(e) \cup m) /\ Whole(call[e], q, has[e], Plans(e, type'[e]))
  BY <1>4, <1>8, <1>9
<1> QED
  BY <1>4, <1>5, <1>6, <1>7, <1>8, <1>9, <1>10, <1>11, BecomesInv

LEMMA FindAndCheckInv ==
  ASSUME EntitiesInv, NEW e \in Entities, FindAndCheck(e)
  PROVE  EntitiesInv'
<1> DEFINE s == todo[e]
           h == has[e]
<1>1. s # <<>> /\ UNCHANGED <<has, lock, muted, refused>> /\ Head(s) = Check
  BY HeadOf, KindsOfSteps DEF FindAndCheck, At
<1>2. /\ s \in Seq(Steps) /\ h \in SUBSET Things /\ failed[e] \in Steps \cup {Nothing} /\ call[e] \in Calls
      /\ Shape(e, call[e], s, h, failed[e], Muted(e))
  BY Before
<1>3. call[e] = "creating"
  <2>1. Check \in ToSet(s)
    BY <1>1, HeadOf
  <2> QED
    BY <1>2, <2>1 DEF Shape, Contents
<1>4. CASE Incompatible(e)
  <2> DEFINE q == <<Unlock>>
  <2>1. /\ call' = [call EXCEPT ![e] = "undoing"] /\ todo' = [todo EXCEPT ![e] = q]
        /\ has' = [has EXCEPT ![e] = h] /\ failed' = [failed EXCEPT ![e] = Check]
        /\ UNCHANGED <<package, type, lock, refused, muted>>
    BY <1>1, <1>4 DEF FindAndCheck, EntitiesInv, Typed
  <2>2. /\ Shape(e, "undoing", q, h, Check, Muted(e))
        /\ Unlock \in ToSet(s) /\ Lock \notin ToSet(s)
    <3> HIDE DEF s, h
    <3> QED
      BY <1>1, <1>2, <1>3, CheckFailsShape
  <2>3. q \in Seq(Steps) /\ LockOf(q)
    <3>1. q \in Seq(Steps) /\ ToSet(q) = {Unlock}
      BY SMT DEF Steps, ToSet
    <3> QED
      BY <3>1, StepsApart DEF LockOf
  <2>4. "undoing" \in Calls /\ Check \in Steps
    BY CallNames, StepsApart
  <2>5. Whole("undoing", q, h, Plans(e, type[e]))
    BY WholeReturns
  <2> HIDE DEF q
  <2>6. LockOf(q) <=> LockOf(todo[e])
    BY <2>2, <2>3 DEF LockOf
  <2> QED
    BY <1>2, <2>1, <2>2, <2>3, <2>4, <2>5, <2>6, KeepsInv
<1>5. CASE ~Incompatible(e)
  <2> DEFINE q == Tail(s)
  <2>1. Step(e) /\ UNCHANGED <<call, failed>>
    BY <1>5 DEF FindAndCheck
  <2>2. Head(s) \notin h /\ Head(s) \notin Things
    BY <1>1, <1>2, StepsApart
  <2>3. /\ Shape(e, call[e], q, h, failed[e], Muted(e))
        /\ Whole(call[e], q, h, Plans(e, type[e]))
        /\ call' = [call EXCEPT ![e] = call[e]] /\ todo' = [todo EXCEPT ![e] = q]
        /\ has' = [has EXCEPT ![e] = h] /\ failed' = [failed EXCEPT ![e] = failed[e]]
        /\ UNCHANGED <<package, type, lock, refused, muted>>
    BY <1>1, <2>1, <2>2, PassInv
  <2>4. q \in Seq(Steps) /\ (LockOf(q) <=> LockOf(todo[e]))
    BY <1>1, HeadOf, StepsApart
  <2> HIDE DEF q
  <2> QED
    BY <1>2, <2>3, <2>4, KeepsInv
<1> QED
  BY <1>4, <1>5

LEMMA CreateInv ==
  ASSUME EntitiesInv, NEW e \in Entities, Create(e)
  PROVE  EntitiesInv'
<1>a. PICK t \in Types : \E plan \in Plans(e, t) :
        type' = [type EXCEPT ![e] = t] /\ todo' = [todo EXCEPT ![e] = CreationSteps(e, plan)]
  BY DEF Create, CreationSteps
<1>1. PICK plan \in Plans(e, t) :
        type' = [type EXCEPT ![e] = t] /\ todo' = [todo EXCEPT ![e] = CreationSteps(e, plan)]
  BY <1>a
<1> DEFINE s == CreationSteps(e, plan)
           h == {}
           m == {}
           w == failed[e]
<1>2. call[e] = None /\ call' = [call EXCEPT ![e] = "creating"]
      /\ UNCHANGED <<package, has, lock, muted, failed, refused>>
  BY DEF Create, history
<1>3. /\ s \in Seq(Steps) /\ Lock \in ToSet(s) /\ ToSet(s) \cap Things = ToSet(plan) \cup {Graph}
      /\ Shape(e, "creating", s, {}, Nothing, {})
  <2>1. package \in {"cpp", "dynamic"} /\ s = CreationSteps(e, plan)
    BY DEF EntitiesInv, Typed
  <2> HIDE DEF s
  <2> QED
    BY <2>1, CreationShape
<1>4. has[e] = {} /\ w = Nothing /\ Muted(e) = {} /\ todo[e] = <<>>
  BY <1>2, Before, SMT DEF Shape, Contents, Course, None
<1>5. lock # e
  <2>1. ~LockOf(<<>>)
    BY SMT DEF LockOf, ToSet
  <2> QED
    BY <1>4, <2>1, Before
<1>6. /\ type' \in [Entities -> Types \cup {None}] /\ type'[e] = t
      /\ \A f \in Entities \ {e} : type'[f] = type[f]
      /\ lock' \in Entities \cup {None} /\ \A f \in Entities \ {e} : lock' = f <=> lock = f
      /\ refused' \subseteq Entities /\ package' = package
  BY <1>1, <1>2 DEF EntitiesInv, Typed
<1>7. lock' = e <=> LockOf(s)
  BY <1>2, <1>3, <1>5 DEF LockOf
<1>8. Whole("creating", s, {}, Plans(e, type'[e]))
  BY <1>3, <1>6, WholeCreation
<1> HIDE DEF s, m, h, w
<1>9. w \in Steps \cup {Nothing} /\ m \in SUBSET Slots /\ h \in SUBSET Things /\ "creating" \in Calls
  BY <1>4, CallNames DEF m, h
<1>10. Becomes(e, "creating", s, h, w, m)
  BY <1>1, <1>2, <1>4 DEF Becomes, EntitiesInv, Typed, s, h, w, m
<1>11. Shape(e, "creating", s, h, w, Muted(e) \cup m) /\ Whole("creating", s, h, Plans(e, type'[e]))
  BY <1>3, <1>4, <1>8 DEF h, m
<1> QED
  BY <1>3, <1>6, <1>7, <1>9, <1>10, <1>11, BecomesInv

\* A call that begins after another has returned.
LEMMA BeginInv ==
  ASSUME EntitiesInv, NEW e \in Entities, Destroy(e) \/ SetContentFilter(e) \/ Reopen(e)
  PROVE  EntitiesInv'
<1> DEFINE h == has[e]
           w == failed[e]
           plans == Plans(e, type[e])
<1>1. /\ call[e] \in Calls /\ h \in SUBSET Things /\ w \in Steps \cup {Nothing}
      /\ Shape(e, call[e], todo[e], h, w, Muted(e)) /\ Whole(call[e], todo[e], h, plans)
      /\ package \in {"cpp", "dynamic"} /\ UNCHANGED <<package, type, lock, refused, muted>>
  BY Before DEF EntitiesInv, Typed, Destroy, SetContentFilter, Reopen, history
<1>2. has' = [has EXCEPT ![e] = h] /\ failed' = [failed EXCEPT ![e] = w]
  BY DEF EntitiesInv, Typed, Destroy, SetContentFilter, Reopen, history
<1>3. todo[e] = <<>> /\ ~LockOf(todo[e])
  <2>1. todo[e] = <<>>
    BY <1>1 DEF Destroy, SetContentFilter, Reopen, Shape, Contents, None
  <2>2. ~LockOf(<<>>)
    BY SMT DEF LockOf, ToSet
  <2> QED
    BY <2>1, <2>2
<1>4. CASE Destroy(e)
  <2> DEFINE q == If(package = "dynamic", DynamicReturn(e)) \o DestroySteps(e)
  <2>1. call' = [call EXCEPT ![e] = "destroying"] /\ todo' = [todo EXCEPT ![e] = q]
        /\ call[e] \in {"live", "refused"}
    BY <1>4 DEF Destroy
  <2>2. q = If(package = "dynamic", DynamicReturn(e)) \o DestroySteps(e)
    OBVIOUS
  <2> HIDE DEF q, h, w
  <2>3. Shape(e, "destroying", q, h, w, Muted(e)) /\ q \in Seq(Steps) /\ Lock \in ToSet(q)
    BY <1>1, <2>1, <2>2, DestroyShape
  <2>4. (LockOf(q) <=> LockOf(todo[e])) /\ "destroying" \in Calls /\ Whole("destroying", q, h, plans)
    BY <1>3, <2>3, CallNames, WholeReturns DEF LockOf
  <2> QED
    BY <1>1, <1>2, <2>1, <2>3, <2>4, KeepsInv
<1>5. CASE SetContentFilter(e)
  <2> DEFINE how == IF Filter \in has[e] THEN "dropping" ELSE "adding"
             q == CloseReader
  <2>1. /\ call' = [call EXCEPT ![e] = how] /\ todo' = [todo EXCEPT ![e] = q] /\ call[e] = "live"
        /\ Is(e, {"subscription"})
    BY <1>5 DEF SetContentFilter
  <2>2. how \in {"adding", "dropping"}
    OBVIOUS
  <2> HIDE DEF h, w, how
  <2>3. Shape(e, how, q, h, w, Muted(e)) /\ q \in Seq(Steps) /\ Lock \in ToSet(q)
    BY <1>1, <2>1, <2>2, CloseShape
  <2> HIDE DEF q, plans
  <2>4. (LockOf(q) <=> LockOf(todo[e])) /\ how \in Calls /\ Whole(how, q, h, plans)
    BY <1>1, <1>3, <2>1, <2>2, <2>3, CallNames, WholeReturns DEF LockOf
  <2> QED
    BY <1>1, <1>2, <2>1, <2>3, <2>4, KeepsInv DEF plans
<1>6. CASE Reopen(e)
  <2> DEFINE how == call[e]
             q == If(how = "adding", <<Filter>>) \o ReopenReader
  <2>1. /\ call' = [call EXCEPT ![e] = "reopening"] /\ todo' = [todo EXCEPT ![e] = q]
        /\ how \in {"adding", "dropping"}
    BY <1>6 DEF Reopen
  <2>2. q = If(how = "adding", <<Filter>>) \o ReopenReader
    OBVIOUS
  <2>3. Shape(e, how, <<>>, h, w, Muted(e)) /\ Whole(how, <<>>, h, Plans(e, type[e]))
    BY <1>1, <1>3
  <2> HIDE DEF q, h, w, how
  <2>4. /\ Shape(e, "reopening", q, h, w, Muted(e)) /\ q \in Seq(Steps)
        /\ Lock \notin ToSet(q) /\ Unlock \notin ToSet(q)
        /\ Whole("reopening", q, h, Plans(e, type[e]))
    BY <1>1, <2>1, <2>2, <2>3, ReopenShape
  <2>5. (LockOf(q) <=> LockOf(todo[e])) /\ "reopening" \in Calls
    BY <1>3, <2>4, CallNames DEF LockOf
  <2> QED
    BY <1>1, <1>2, <2>1, <2>4, <2>5, KeepsInv
<1> QED
  BY <1>4, <1>5, <1>6

LEMMA FinishInv ==
  ASSUME EntitiesInv, NEW e \in Entities, Finish(e)
  PROVE  EntitiesInv'
<1> DEFINE how == call[e]
           now == Returned[how]
           h == has[e]
           w == failed[e]
           s == <<>>
<1>1. /\ how \in DOMAIN Returned /\ todo[e] = s /\ call' = [call EXCEPT ![e] = now]
      /\ UNCHANGED <<package, type, lock, refused, muted>>
  BY DEF EntitiesInv, Typed, Finish, history
<1>2. /\ todo' = [todo EXCEPT ![e] = s] /\ has' = [has EXCEPT ![e] = h] /\ failed' = [failed EXCEPT ![e] = w]
  BY <1>1 DEF EntitiesInv, Typed, Finish, history
<1>3. /\ h \in SUBSET Things /\ w \in Steps \cup {Nothing}
      /\ Shape(e, how, <<>>, h, w, Muted(e)) /\ Whole(how, <<>>, h, Plans(e, type[e]))
  BY <1>1, Before
<1>4. Shape(e, now, <<>>, h, w, Muted(e))
  <2> HIDE DEF how, h, w
  <2> QED
    BY <1>1, <1>3, FinishShape
<1>5. Whole(now, <<>>, h, Plans(e, type[e]))
  BY <1>1, <1>3, WholeReturns
<1>6. now \in Calls
  BY <1>1 DEF Calls
<1>7. s \in Seq(Steps) /\ (LockOf(s) <=> LockOf(todo[e]))
  BY <1>1
<1> HIDE DEF now
<1> QED
  BY <1>1, <1>2, <1>3, <1>4, <1>5, <1>6, <1>7, KeepsInv

\* What fails is a step that gets a thing.
LEMMA FailsAt ==
  ASSUME EntitiesInv, NEW e \in Entities, Fails(e)
  PROVE  /\ todo[e] # <<>> /\ Head(todo[e]) \in Things
         /\ failed' = [failed EXCEPT ![e] = Head(todo[e])]
<1>1. todo[e] # <<>> /\ At(e, ThingKinds)
  <2>1. \A whats : At(e, whats) => todo[e] # <<>> /\ (whats \subseteq ThingKinds => At(e, ThingKinds))
    BY DEF At
  <2>2. \/ At(e, Own \cup {"support", "type", "endpoint"})
        \/ At(e, {"topic"})
        \/ At(e, {"endpoint"})
    BY DEF Fails, MayFail
  <2>3. /\ Own \cup {"support", "type", "endpoint"} \subseteq ThingKinds
        /\ {"topic"} \subseteq ThingKinds /\ {"endpoint"} \subseteq ThingKinds
    BY DEF Own, ThingKinds
  <2> QED
    BY <2>1, <2>2, <2>3
<1>2. Head(todo[e]) \in Things
  BY <1>1, HeadOf, KindsOfSteps
<1> QED
  BY <1>1, <1>2 DEF Fails

LEMMA FailsInv ==
  ASSUME EntitiesInv, NEW e \in Entities, CreationFails(e) \/ GraphFails(e) \/ ReopenFails(e)
  PROVE  EntitiesInv'
<1> DEFINE s == todo[e]
           a == Head(s)
           h == has[e]
           plans == Plans(e, type[e])
<1>1. /\ s \in Seq(Steps) /\ h \in SUBSET Things /\ s # <<>> /\ a \in Things /\ (lock = e <=> LockOf(s))
      /\ failed' = [failed EXCEPT ![e] = a] /\ Guarded(s, Critical(e, call[e]))
      /\ Shape(e, call[e], s, h, failed[e], Muted(e)) /\ package \in {"cpp", "dynamic"}
  BY Before, FailsAt DEF EntitiesInv, Typed, CreationFails, GraphFails, ReopenFails
<1>2. has' = [has EXCEPT ![e] = h] /\ UNCHANGED <<package, type, lock, refused, muted>>
  BY DEF EntitiesInv, Typed, CreationFails, GraphFails, ReopenFails, Return
<1>3. a = Head(s) /\ a \in Steps
  BY <1>1, HeadOf
<1>4. {"undoing", "breaking"} \subseteq Calls
  BY CallNames
<1> HIDE DEF a
<1>5. CASE CreationFails(e)
  <2> DEFINE q == Append(Undo(e), Unlock)
  <2>1. /\ call' = [call EXCEPT ![e] = "undoing"] /\ todo' = [todo EXCEPT ![e] = q]
        /\ call[e] = "creating" /\ lock = e
    BY <1>5 DEF CreationFails, Return
  <2>2. q = Append(Undo(e), Unlock)
    OBVIOUS
  <2> HIDE DEF q, s, h
  <2>3. Unlock \in ToSet(s) /\ LockOf(s)
    BY <1>1, <2>1 DEF LockOf
  <2>4. Shape(e, "undoing", q, h, a, Muted(e)) /\ q \in Seq(Steps) /\ Unlock \in ToSet(q)
        /\ Lock \notin ToSet(q)
    <3> HIDE DEF Lock, Unlock
    <3>1. /\ package \in {"cpp", "dynamic"} /\ s \in Seq(Steps) /\ s # <<>> /\ a \in Things
          /\ Shape(e, "creating", s, h, failed[e], Muted(e))
      BY <1>1, <2>1
    <3> QED
      BY <1>3, <2>2, <2>3, <3>1, CreationFailsShape
  <2>5. Whole("undoing", q, h, plans) /\ (LockOf(q) <=> LockOf(todo[e]))
    BY <2>3, <2>4, WholeReturns DEF LockOf, s
  <2> QED
    BY <1>1, <1>2, <1>3, <1>4, <2>1, <2>4, <2>5, KeepsInv
<1>6. CASE GraphFails(e)
  <2> DEFINE q == DestroyShared(e)
  <2>1. /\ call' = [call EXCEPT ![e] = "undoing"] /\ todo' = [todo EXCEPT ![e] = q]
        /\ call[e] = "creating" /\ lock # e
    BY <1>6 DEF GraphFails, Return
  <2>2. q = DestroyShared(e)
    OBVIOUS
  <2> HIDE DEF q, s, h
  <2>3. ~LockOf(s) /\ ~(Unlock \in ToSet(s) /\ Lock \notin ToSet(s))
    BY <1>1, <2>1 DEF LockOf
  <2>4. Shape(e, "undoing", q, h, a, Muted(e)) /\ q \in Seq(Steps) /\ Lock \in ToSet(q)
    BY <1>1, <1>3, <2>1, <2>2, <2>3, GraphFailsShape
  <2>5. Whole("undoing", q, h, plans) /\ (LockOf(q) <=> LockOf(todo[e]))
    BY <2>3, <2>4, WholeReturns DEF LockOf, s
  <2> QED
    BY <1>1, <1>2, <1>3, <1>4, <2>1, <2>4, <2>5, KeepsInv
<1>7. CASE ReopenFails(e)
  <2> DEFINE q == <<Endpoint("main")>>
  <2>1. /\ call' = [call EXCEPT ![e] = "breaking"] /\ todo' = [todo EXCEPT ![e] = q] /\ call[e] = "reopening"
    BY <1>7 DEF ReopenFails, Return
  <2>2. /\ Shape(e, "breaking", q, h, a, Muted(e)) /\ q \in Seq(Steps)
        /\ Lock \notin ToSet(q) /\ Unlock \notin ToSet(q)
    <3> HIDE DEF s, h
    <3> QED
      BY <1>1, <2>1, ReopenFailsShape
  <2> HIDE DEF q
  <2>3. ~LockOf(s)
    <3>1. ToSet(s) \subseteq {Graph, Endpoint("main"), Filter}
      BY <1>1, <2>1 DEF Shape, Contents
    <3>2. Unlock \notin {Graph, Endpoint("main"), Filter}
      BY SMT
    <3> HIDE DEF s
    <3> QED
      BY <3>1, <3>2 DEF LockOf
  <2>4. Whole("breaking", q, h, plans) /\ (LockOf(q) <=> LockOf(todo[e]))
    BY <2>2, <2>3, WholeReturns DEF LockOf
  <2> QED
    BY <1>1, <1>2, <1>3, <1>4, <2>1, <2>2, <2>4, KeepsInv
<1> QED
  BY <1>5, <1>6, <1>7

\* Fast DDS does not delete an endpoint.
LEMMA RefusalInv ==
  ASSUME EntitiesInv, NEW e \in Entities, GiveUp(e) \/ Mute(e)
  PROVE  EntitiesInv'
<1> DEFINE s == todo[e]
           a == Head(s)
           h == has[e]
           w == failed[e]
           how == call[e]
           x == Slot(e)
           plans == Plans(e, type[e])
<1>1. /\ how \in {"destroying", "adding", "dropping"} /\ At(e, {"endpoint"}) /\ x # "channel"
      /\ refused' = refused \cup {e} /\ UNCHANGED <<package, type, lock, has, failed>> /\ s # <<>>
  BY DEF GiveUp, Mute, Refusal, At
<1>2. a = Endpoint(x) /\ x \in Slots
  <2>1. a \in Things /\ a[1] = "endpoint" /\ x = a[2]
    BY <1>1, HeadOf, KindsOfSteps DEF Slot, ThingKinds
  <2>2. \A b \in Things : b[1] = "endpoint" => b = Endpoint(b[2]) /\ b[2] \in Slots
    BY SMT DEF Things, Slots
  <2> QED
    BY <2>1, <2>2
<1>3. /\ s \in Seq(Steps) /\ h \in SUBSET Things /\ w \in Steps \cup {Nothing} /\ (lock = e <=> LockOf(s))
      /\ Shape(e, how, s, h, w, Muted(e)) /\ Whole(how, s, h, plans) /\ Muted(e) \in SUBSET Slots
      /\ how \in Calls
  BY Before
<1>4. /\ type' \in [Entities -> Types \cup {None}] /\ \A f \in Entities \ {e} : type'[f] = type[f]
      /\ lock' \in Entities \cup {None} /\ \A f \in Entities \ {e} : lock' = f <=> lock = f
      /\ refused' \subseteq Entities /\ package' = package /\ type'[e] = type[e]
      /\ has' = [has EXCEPT ![e] = h] /\ failed' = [failed EXCEPT ![e] = w]
  BY <1>1 DEF EntitiesInv, Typed
<1>5. CASE GiveUp(e)
  <2> DEFINE q == <<Unlock>>
             m == {}
  <2>1. /\ call' = [call EXCEPT ![e] = "refusing"] /\ todo' = [todo EXCEPT ![e] = q] /\ Is(e, PubSub)
        /\ muted' = muted
    BY <1>5 DEF GiveUp
  <2>2. /\ Shape(e, "refusing", q, h, w, Muted(e)) /\ q \in Seq(Steps)
        /\ Unlock \in ToSet(q) /\ Lock \notin ToSet(q) /\ Unlock \in ToSet(s) /\ Lock \notin ToSet(s)
    <3>1. Head(s) = Endpoint(x) /\ x \in Slots \ {"channel"}
      BY <1>1, <1>2
    <3> HIDE DEF s, h, w, how, x
    <3> QED
      BY <1>1, <1>3, <2>1, <3>1, GiveUpShape
  <2> HIDE DEF q
  <2>3. Whole("refusing", q, h, Plans(e, type'[e])) /\ "refusing" \in Calls /\ (lock' = e <=> LockOf(q))
    <3>1. Whole("refusing", q, h, Plans(e, type'[e])) /\ "refusing" \in Calls
      BY WholeReturns, CallNames
    <3>2. lock' = lock
      BY <1>1
    <3> QED
      BY <1>3, <2>2, <3>1, <3>2 DEF LockOf
  <2>4. Muted(e) \cup m = Muted(e) /\ m \in SUBSET Slots /\ muted' = muted \cup ({e} \X m)
    BY <2>1
  <2> HIDE DEF m, s, h, w, how, x, plans
  <2>5. Becomes(e, "refusing", q, h, w, m) /\ Shape(e, "refusing", q, h, w, Muted(e) \cup m)
    BY <1>4, <2>1, <2>2, <2>4 DEF Becomes
  <2> QED
    BY <1>3, <1>4, <2>2, <2>3, <2>4, <2>5, BecomesInv
<1>6. CASE Mute(e)
  <2> DEFINE q == Tail(s)
             m == {x}
  <2>1. /\ call' = [call EXCEPT ![e] = how] /\ todo' = [todo EXCEPT ![e] = q] /\ Is(e, Rpc)
        /\ muted' = muted \cup ({e} \X m)
    BY <1>6 DEF Mute, EntitiesInv, Typed
  <2>2. how = "destroying"
    <3>1. how \in {"adding", "dropping"} => Is(e, {"subscription"})
      BY <1>3 DEF Shape, Contents
    <3> QED
      BY <1>1, <2>1, <3>1 DEF Is, Rpc
  <2>3. q \in Seq(Steps) /\ (LockOf(q) <=> LockOf(s))
    BY <1>1, <1>2, HeadOf, KindsOfSteps, StepsApart
  <2>4. Shape(e, how, q, h, w, Muted(e) \cup {x})
    <3>1. Head(s) = Endpoint(x) /\ q = Tail(s)
      BY <1>2
    <3> HIDE DEF s, h, w, how, x, q
    <3> QED
      BY <1>1, <1>3, <2>1, <2>2, <3>1, MuteShape
  <2>5. Whole(how, q, h, Plans(e, type'[e])) /\ (lock' = e <=> LockOf(q))
    <3>1. Whole(how, q, h, Plans(e, type'[e]))
      BY <2>2, WholeReturns
    <3>2. lock' = lock
      BY <1>1
    <3> QED
      BY <1>3, <2>3, <3>1, <3>2
  <2>6. m \in SUBSET Slots
    BY <1>2
  <2> HIDE DEF s, h, w, how, x, q, plans
  <2>7. Becomes(e, how, q, h, w, m) /\ Shape(e, how, q, h, w, Muted(e) \cup m)
    BY <1>4, <2>1, <2>4, <2>6 DEF Becomes
  <2> HIDE DEF m
  <2> QED
    BY <1>3, <1>4, <2>3, <2>5, <2>6, <2>7, BecomesInv
<1> QED
  BY <1>5, <1>6

LEMMA InitInv ==
  Init => EntitiesInv
<1> SUFFICES ASSUME Init PROVE EntitiesInv
  OBVIOUS
<1>1. None \in Calls /\ <<>> \in Seq(Steps)
  BY CallNames
<1>2. Typed
  BY <1>1 DEF Init, Typed
<1>3. ASSUME NEW e \in Entities PROVE EntityInv(e)
  <2> DEFINE s == <<>>
  <2>1. /\ call[e] = None /\ todo[e] = s /\ has[e] = {} /\ failed[e] = Nothing /\ Muted(e) = {} /\ lock # e
    BY EntityAssumption DEF Init, Muted
  <2>2. Releasable(s) /\ (\A steps : Guarded(s, steps)) /\ ToSet(s) = {} /\ s = <<>>
    BY SMT DEF Releasable, Guarded, ToSet
  <2> HIDE DEF s
  <2>3. Shape(e, None, s, {}, Nothing, {})
    <3>1. Orderly(e, None, s, {})
      BY <2>2, SMT DEF Orderly, Gettings, None
    <3>2. Contents(e, None, s, {})
      BY <2>2, SMT DEF Contents, Gettings, None
    <3>3. Course(e, None, Nothing, {}) /\ Closed(e, None, s, {}, Nothing, {})
      BY <2>2, SMT DEF Course, Closed, Gettings, None
    <3>4. Apart(e, None, s, Nothing, {})
      BY <2>2 DEF Apart
    <3> QED
      BY <3>1, <3>2, <3>3, <3>4 DEF Shape
  <2>4. Whole(None, s, {}, Plans(e, type[e]))
    BY SMT DEF Whole, None
  <2>5. HasLock(e)
    BY <2>1, <2>2 DEF HasLock
  <2> QED
    BY <2>1, <2>3, <2>4, <2>5 DEF EntityInv
<1> QED
  BY <1>2, <1>3 DEF EntitiesInv

LEMMA NextInv ==
  EntitiesInv /\ [Next]_vars => EntitiesInv'
<1> SUFFICES ASSUME EntitiesInv, [Next]_vars PROVE EntitiesInv'
  OBVIOUS
<1>1. CASE UNCHANGED vars
  <2>1. Typed'
    BY <1>1 DEF EntitiesInv, Typed, vars, history
  <2>2. ASSUME NEW f \in Entities PROVE EntityInv(f)'
    <3>1. /\ Shape(f, call[f], todo[f], has[f], failed[f], Muted(f)) /\ (lock = f <=> LockOf(todo[f]))
          /\ Whole(call[f], todo[f], has[f], Plans(f, type[f]))
      BY Before
    <3>2. /\ package' = package /\ call'[f] = call[f] /\ todo'[f] = todo[f] /\ has'[f] = has[f]
          /\ failed'[f] = failed[f] /\ Muted(f)' = Muted(f) /\ type'[f] = type[f] /\ lock' = lock
      BY <1>1 DEF vars, history, callVars, Muted
    <3> QED
      BY <3>1, <3>2, EntityInvNext
  <2> QED
    BY <2>1, <2>2 DEF EntitiesInv
<1>2. ASSUME NEW e \in Entities, EntityNext(e) PROVE EntitiesInv'
  <2>0. ASSUME NEW whats, whats \subseteq ThingKinds, At(e, whats) PROVE At(e, ThingKinds)
    BY <2>0 DEF At
  <2>1. CASE GetSupport(e) \/ GetType(e) \/ FindOrCreateTopic(e) \/ GetEndpoint(e) \/ GetOwn(e)
    <3>1. At(e, ThingKinds) /\ Get(e) /\ UNCHANGED <<call, lock, muted, failed, refused>>
      BY <2>0, <2>1 DEF GetSupport, GetType, FindOrCreateTopic, GetEndpoint, GetOwn, Own, ThingKinds
    <3> QED
      BY <3>1, AcquireInv
  <2>2. CASE PutSupport(e) \/ PutType(e) \/ DeleteTopic(e) \/ PutEndpoint(e) \/ PutOwn(e)
    <3>1. At(e, ThingKinds) /\ Put(e) /\ UNCHANGED <<call, lock, muted, failed, refused>>
      BY <2>0, <2>2 DEF PutSupport, PutType, DeleteTopic, PutEndpoint, PutOwn, Own, ThingKinds
    <3> QED
      BY <3>1, ReleaseInv
  <2> QED
    BY <1>2, <2>1, <2>2, CreateInv, BeginInv, FinishInv, SkipInv, LockInv, FindAndCheckInv, FailsInv, RefusalInv
       DEF EntityNext
<1> QED
  BY <1>1, <1>2 DEF Next

\* Whatever fails and in whatever order the threads run, what an entity has and what its call has left
\* to do fit together: what is needed is there, and what is there will be released or is forgotten.
THEOREM EntitiesFit == Spec => []EntitiesInv
BY InitInv, NextInv, PTL DEF Spec

------------------------------------------------------------------------------
(***************************************************************************)
(* What may be seen of the entities.                                       *)
(***************************************************************************)
\* Who watches a topic uses it.
Watching(w, f) == w = <<TopicName(f, "main"), f>> /\ Topic("main") \in has[f]
WatchersInv == \A w \in watchers : \E f \in Entities : Watching(w, f)

\* What a step does to the things of its entity, and to nobody else's.
LEMMA HasNext ==
  ASSUME EntitiesInv, NEW e \in Entities, EntityNext(e)
  PROVE  /\ \A f \in Entities \ {e} : has'[f] = has[f]
         /\ \/ has[e] \subseteq has'[e]
            \/ /\ has'[e] = has[e] \ {Head(todo[e])}
               /\ DeleteTopic(e) \/ Head(todo[e])[1] # "topic"
<1> DEFINE others == {"support", "type", "endpoint"} \cup Own
<1>0. \A whats : At(e, whats) /\ whats \subseteq others => At(e, others)
  BY DEF At
<1>a. {"support"} \subseteq others /\ {"type"} \subseteq others /\ {"endpoint"} \subseteq others
      /\ Own \subseteq others
  OBVIOUS
<1>b. \/ has' = has
      \/ Get(e)
      \/ Put(e)
         /\ (DeleteTopic(e) \/ At(e, {"support"}) \/ At(e, {"type"}) \/ At(e, {"endpoint"}) \/ At(e, Own))
  BY DEF EntityNext, Create, Destroy, SetContentFilter, Reopen, Finish, Skip, TakeLock, ReleaseLock,
         FindAndCheck, GetSupport, PutSupport, GetType, PutType, FindOrCreateTopic, DeleteTopic, GetEndpoint,
         PutEndpoint, GetOwn, PutOwn, CreationFails, GraphFails, ReopenFails, Return, GiveUp, Mute
<1> HIDE DEF others
<1>1. \/ has' = has
      \/ Get(e)
      \/ Put(e) /\ (DeleteTopic(e) \/ At(e, others))
  BY <1>0, <1>a, <1>b
<1>2. has \in [Entities -> SUBSET Things]
  BY DEF EntitiesInv, Typed
<1>3. At(e, others) => Head(todo[e])[1] # "topic"
  BY SMT DEF At, Own, others
<1> QED
  BY <1>1, <1>2, <1>3 DEF Get, Put

LEMMA WatchersNext ==
  EntitiesInv /\ WatchersInv /\ [Next]_vars => WatchersInv'
<1> SUFFICES ASSUME EntitiesInv, WatchersInv, [Next]_vars PROVE WatchersInv'
  OBVIOUS
<1>1. CASE UNCHANGED vars
  BY <1>1 DEF vars, sharedVars, WatchersInv, Watching
<1>2. ASSUME NEW e \in Entities, EntityNext(e) PROVE WatchersInv'
  <2>1. CASE DeleteTopic(e)
    <3> DEFINE x == Slot(e)
    <3>1. ASSUME NEW w \in watchers' PROVE \E f \in Entities : Watching(w, f)'
      <4>1. w \in watchers /\ w \notin Watches(e, x)
        BY <2>1, <3>1 DEF DeleteTopic
      <4>2. PICK f \in Entities : Watching(w, f)
        BY <4>1 DEF WatchersInv
      <4>3. Topic("main") \in has'[f]
        <5>1. CASE f # e
          BY <1>2, <4>2, <5>1, HasNext DEF Watching
        <5>2. CASE f = e
          <6>1. has[e] \subseteq MayHave(e)
            BY Before DEF Shape, Contents
          <6>2. Is(e, PubSub)
            BY <4>2, <5>2, <6>1, SMT DEF Watching, MayHave
          <6>3. x # "main"
            BY <4>1, <4>2, <5>2, <6>2 DEF Watching, Watches
          <6>4. Head(todo[e]) # Topic("main")
            BY <6>3, SMT DEF Slot
          <6> QED
            BY <1>2, <4>2, <5>2, <6>4, HasNext DEF Watching
        <5> QED
          BY <5>1, <5>2
      <4> QED
        BY <4>2, <4>3 DEF Watching
    <3> QED
      BY <3>1 DEF WatchersInv
  <2>2. CASE FindOrCreateTopic(e)
    <3>1. Head(todo[e]) = Topic(Slot(e))
      <4>1. At(e, {"topic"}) /\ todo[e] # <<>>
        BY <2>2 DEF FindOrCreateTopic, At
      <4>2. Head(todo[e])[1] = "topic" /\ Head(todo[e]) \in Steps
        BY <4>1, HeadOf
      <4> QED
        BY <4>2, SMT DEF Slot, Steps, Things, Slots
    <3>2. has' = [has EXCEPT ![e] = @ \cup {Head(todo[e])}] /\ has \in [Entities -> SUBSET Things]
      BY <2>2 DEF FindOrCreateTopic, Get, EntitiesInv, Typed
    <3>3. watchers' \subseteq watchers \cup Watches(e, Slot(e))
      BY <2>2 DEF FindOrCreateTopic
    <3>4. ASSUME NEW w \in Watches(e, Slot(e)) PROVE Watching(w, e)'
      BY <3>1, <3>2 DEF Watches, Watching
    <3>5. ASSUME NEW w \in watchers PROVE \E f \in Entities : Watching(w, f)'
      BY <3>2 DEF WatchersInv, Watching
    <3> QED
      BY <3>3, <3>4, <3>5 DEF WatchersInv
  <2>3. CASE ~DeleteTopic(e) /\ ~FindOrCreateTopic(e)
    <3>1. watchers' = watchers
        BY <1>2, <2>3 DEF EntityNext, Create, Destroy, SetContentFilter, Reopen, Finish, Skip, TakeLock,
           ReleaseLock, FindAndCheck, GetSupport, PutSupport, GetType, PutType, GetEndpoint, PutEndpoint,
           GetOwn, PutOwn, CreationFails, GraphFails, ReopenFails, Return, GiveUp, Mute, sharedVars
    <3>2. \A f \in Entities : Topic("main") \in has[f] => Topic("main") \in has'[f]
      <4>1. Topic("main")[1] = "topic"
        BY SMT
      <4> QED
        BY <1>2, <2>3, <4>1, HasNext
    <3> QED
      BY <3>1, <3>2 DEF WatchersInv, Watching
  <2> QED
    BY <2>1, <2>2, <2>3
<1> QED
  BY <1>1, <1>2 DEF Next

LEMMA Invariants == Spec => [](EntitiesInv /\ WatchersInv)
<1>1. Init => WatchersInv
  BY DEF Init, WatchersInv
<1> QED
  BY <1>1, InitInv, NextInv, WatchersNext, PTL DEF Spec

\* An entity that is gone leaves nothing but what the code is known to forget.
THEOREM NothingIsLeft == Spec => []GoneLeavesNothing
<1>1. EntitiesInv => GoneLeavesNothing
  <2> SUFFICES ASSUME EntitiesInv, NEW e \in Entities, call[e] = "gone" PROVE has[e] \subseteq Forgotten(e)
    BY DEF GoneLeavesNothing
  <2>1. todo[e] = <<>> /\ has[e] \subseteq ToSet(todo[e]) \cup Leaves(e, failed[e], Muted(e))
    BY Before DEF Shape, Contents, Closed
  <2>2. ToSet(<<>>) = {}
    BY SMT DEF ToSet
  <2>3. Forgotten(e) = Leaves(e, failed[e], Muted(e))
    BY DEF Forgotten, Leaves, Muted
  <2> QED
    BY <2>1, <2>2, <2>3
<1> QED
  BY <1>1, Invariants, PTL

\* Nothing Fast DDS may call is destroyed before what calls it.
THEOREM CallbacksAreThere == Spec => []NoDanglingListener
<1>1. EntitiesInv /\ WatchersInv => NoDanglingListener
  <2> SUFFICES ASSUME EntitiesInv, WatchersInv PROVE NoDanglingListener
    OBVIOUS
  <2>0. ASSUME NEW e \in Entities, NEW a \in has[e], NEW b \in Things, Needs(a, b)
        PROVE  b \in has[e] \/ a \in Leaves(e, failed[e], Muted(e))
    BY <2>0, Before DEF Shape, Closed
  <2>1. ASSUME NEW e \in Entities, NEW x \in Slots, Endpoint(x) \in has[e], <<e, x>> \notin muted
        PROVE  /\ x = "main" => {Listener("main"), Event} \subseteq has[e]
               /\ x = "channel" => Is(e, {"publisher"}) \/ failed[e] = Graph \/ Event \in has[e]
               /\ x \in {"request", "response"} => Listener(x) \in has[e]
    <3>1. Endpoint(x) \in Leaves(e, failed[e], Muted(e)) => x = "channel" /\ failed[e] = Graph
      <4>1. \A y : Endpoint(x) = Endpoint(y) => x = y
        BY SMT
      <4>2. Endpoint(x) # Filter /\ Endpoint(x) # Topic("channel") /\ Endpoint(x) # Support("main")
        BY SMT
      <4> QED
        BY <2>1, <4>1, <4>2 DEF Leaves, Muted
    <3>2. x = "main" => Needs(Endpoint(x), Listener("main")) /\ Needs(Endpoint(x), Event)
      BY SMT DEF Needs
    <3>3. x = "channel" => Needs(Endpoint(x), Event)
      BY SMT DEF Needs
    <3>4. x \in {"request", "response"} => Needs(Endpoint(x), Listener(x))
      BY SMT DEF Needs
    <3>5. Event \in Things /\ Listener(x) \in Things
      BY DEF Things
    <3> HIDE DEF Endpoint, Listener, Event
    <3> QED
      BY <2>0, <2>1, <3>1, <3>2, <3>3, <3>4, <3>5
  <2>2. ASSUME NEW w \in watchers
        PROVE  Event \in has[w[2]] /\ Topic("main") \in has[w[2]]
    <3>1. PICK f \in Entities : Watching(w, f)
      BY DEF WatchersInv
    <3>2. w[2] = f /\ Topic("main") \in has[f]
      BY <3>1 DEF Watching
    <3>3. Needs(Topic("main"), Event) /\ Event \in Things
      BY SMT DEF Needs, Things
    <3>4. Topic("main") \notin Leaves(f, failed[f], Muted(f))
      BY SMT DEF Leaves
    <3> QED
      BY <2>0, <3>2, <3>3, <3>4
  <2> QED
    BY <2>1, <2>2 DEF NoDanglingListener
<1> QED
  BY <1>1, Invariants, PTL

------------------------------------------------------------------------------
(***************************************************************************)
(* What a step does to what is shared.                                     *)
(***************************************************************************)
Gets(e) == GetSupport(e) \/ GetType(e) \/ FindOrCreateTopic(e) \/ GetEndpoint(e) \/ GetOwn(e)
Puts(e) == PutSupport(e) \/ PutType(e) \/ DeleteTopic(e) \/ PutEndpoint(e) \/ PutOwn(e)

LEMMA QuietStep ==
  ASSUME EntitiesInv, NEW e \in Entities, EntityNext(e), ~Gets(e), ~Puts(e)
  PROVE  /\ has' = has /\ UNCHANGED <<sharedVars, crashed>>
         /\ \A f \in Entities : has[f] # {} => type'[f] = type[f]
         /\ \/ type' = type
            \/ \E t \in Types : type' = [type EXCEPT ![e] = t]
         /\ \A f \in Entities : call'[f] # None => call[f] # None \/ type'[f] \in Types
         /\ refused \subseteq refused' /\ package' = package
<1>1. CASE Create(e)
  <2>1. PICK t \in Types : type' = [type EXCEPT ![e] = t]
    BY <1>1 DEF Create
  <2>2. has[e] = {}
    BY <1>1, Before DEF Create, Shape, Contents
  <2>3. type \in [Entities -> Types \cup {None}] /\ call \in [Entities -> Calls]
    BY DEF EntitiesInv, Typed
  <2> QED
    BY <1>1, <2>1, <2>2, <2>3 DEF Create, sharedVars, history
<1>2. CASE ~Create(e)
  <2>1. /\ has' = has /\ UNCHANGED <<sharedVars, crashed>> /\ type' = type
        /\ \A f \in Entities : call'[f] # None => call[f] # None
        /\ refused \subseteq refused' /\ package' = package
    <3>1. call \in [Entities -> Calls]
      BY DEF EntitiesInv, Typed
    <3>2. \/ Destroy(e) \/ SetContentFilter(e) \/ Reopen(e) \/ Finish(e)
          \/ Skip(e) \/ TakeLock(e) \/ ReleaseLock(e) \/ FindAndCheck(e)
          \/ CreationFails(e) \/ GraphFails(e) \/ ReopenFails(e) \/ GiveUp(e) \/ Mute(e)
      BY <1>2 DEF EntityNext, Gets, Puts
    <3>3. "live" # None /\ "refused" # None /\ "creating" # None /\ "reopening" # None /\ "adding" # None
          /\ "dropping" # None /\ "destroying" # None /\ None \notin DOMAIN Returned
      BY SMT DEF None, Returned
    <3>4. ASSUME NEW how, call' = [call EXCEPT ![e] = how], call[e] # None
          PROVE  \A f \in Entities : call'[f] # None => call[f] # None
      BY <3>1, <3>4
    <3>5. CASE Destroy(e) \/ SetContentFilter(e) \/ Reopen(e) \/ Finish(e)
      BY <3>3, <3>4, <3>5 DEF Destroy, SetContentFilter, Reopen, Finish, sharedVars, history
    <3>6. CASE Skip(e) \/ TakeLock(e) \/ ReleaseLock(e)
      BY <3>6 DEF Skip, TakeLock, ReleaseLock, Step, sharedVars
    <3>7. CASE FindAndCheck(e)
      <4>1. call[e] # None
        BY <3>7, Before DEF FindAndCheck, At
      <4> QED
        BY <3>4, <3>7, <4>1 DEF FindAndCheck, Step, sharedVars
    <3>8. CASE CreationFails(e) \/ GraphFails(e) \/ ReopenFails(e)
      BY <3>3, <3>4, <3>8 DEF CreationFails, GraphFails, ReopenFails, Return, sharedVars
    <3>9. CASE GiveUp(e) \/ Mute(e)
      BY <3>3, <3>4, <3>9 DEF GiveUp, Mute, Refusal, sharedVars
    <3> QED
      BY <3>2, <3>5, <3>6, <3>7, <3>8, <3>9
  <2> QED
    BY <2>1
<1> QED
  BY <1>1, <1>2

\* A step that acquires a thing: what it needs is there.
LEMMA GetFacts ==
  ASSUME EntitiesInv, NEW e \in Entities, Gets(e), NEW a, a = Head(todo[e])
  PROVE  /\ todo[e] # <<>> /\ a \in Things /\ a \in MayHave(e) /\ a \in ToSet(todo[e])
         /\ has' = [has EXCEPT ![e] = @ \cup {a}]
         /\ UNCHANGED <<package, call, type, lock, muted, failed, refused, faults>>
         /\ todo' = [todo EXCEPT ![e] = Tail(@)]
         /\ call[e] \in Gettings
         /\ \A b \in Things : Needs(a, b) => b \in has[e]
         /\ call[e] = "creating" => a \notin has[e]
         /\ call[e] = "reopening" => a \in {Graph, Endpoint("main"), Filter}
<1> DEFINE s == todo[e]
           q == Tail(s)
           h == has[e]
           how == call[e]
<1>1. /\ At(e, ThingKinds) /\ Get(e)
      /\ UNCHANGED <<package, call, type, lock, muted, failed, refused, faults>>
  <2>0. ASSUME NEW whats, whats \subseteq ThingKinds, At(e, whats) PROVE At(e, ThingKinds)
    BY <2>0 DEF At
  <2>1. {"support"} \subseteq ThingKinds /\ {"type"} \subseteq ThingKinds /\ {"topic"} \subseteq ThingKinds
        /\ {"endpoint"} \subseteq ThingKinds /\ Own \subseteq ThingKinds
    BY DEF ThingKinds, Own
  <2> QED
    BY <2>0, <2>1 DEF Gets, GetSupport, GetType, FindOrCreateTopic, GetEndpoint, GetOwn, Get, Step
<1>2. /\ s \in Seq(Steps) /\ s # <<>> /\ how \in Gettings /\ Shape(e, how, s, h, failed[e], Muted(e))
      /\ a = Head(s) /\ q = Tail(s)
  BY <1>1, Before DEF At, Get, Getting, Gettings
<1>3. a \in Things /\ a \in ToSet(s)
  BY <1>1, <1>2, HeadOf, KindsOfSteps
<1>4. has' = [has EXCEPT ![e] = @ \cup {a}] /\ todo' = [todo EXCEPT ![e] = Tail(@)]
  BY <1>1 DEF Get, Step
<1> HIDE DEF s, q, h, how
<1>5. a \in MayHave(e)
  BY <1>2, <1>3 DEF Shape, Contents
<1>6. \A b \in ToSet(q) : ~Needs(a, b)
  <2>1. Gettable(e, how, s)
    BY <1>2 DEF Shape, Orderly
  <2> QED
    BY <1>2, <2>1, GettableTail
<1>7. \A b : b \in ToSet(s) <=> b = a \/ b \in ToSet(q)
  BY <1>2, Tails DEF Splits
<1>8. \A b \in Things : Needs(a, b) => b \in h
  <2>1. \A b \in Things : Needs(a, b) => b \in h \cup ToSet(s)
    BY <1>2, <1>3 DEF Shape, Closed
  <2> QED
    BY <1>6, <1>7, <2>1, NeedsOthers
<1>9. how = "creating" => a \notin h
  BY <1>2, <1>3 DEF Shape, Orderly, MayFollow
<1>10. how = "reopening" => a \in {Graph, Endpoint("main"), Filter}
  BY <1>2, <1>3 DEF Shape, Contents
<1> QED
  BY <1>1, <1>2, <1>3, <1>4, <1>5, <1>8, <1>9, <1>10 DEF s, h, how

\* A step that releases a thing: so far it had what it needs.
LEMMA PutFacts ==
  ASSUME EntitiesInv, NEW e \in Entities, Puts(e), NEW a, a = Head(todo[e])
  PROVE  /\ todo[e] # <<>> /\ a \in Things /\ a \in ToSet(todo[e])
         /\ has' = [has EXCEPT ![e] = @ \ {a}]
         /\ UNCHANGED <<package, call, type, lock, muted, failed, refused, faults>>
         /\ todo' = [todo EXCEPT ![e] = Tail(@)]
         /\ call[e] \notin Gettings
         /\ a \in has[e] \/ (call[e] = "destroying" /\ a[1] = "support")
         /\ a \in has[e] => \A b \in Things : Needs(a, b) => b \in has[e]
<1> DEFINE s == todo[e]
           h == has[e]
           how == call[e]
<1>1. /\ At(e, ThingKinds) /\ Put(e)
      /\ UNCHANGED <<package, call, type, lock, muted, failed, refused, faults>>
  <2>0. ASSUME NEW whats, whats \subseteq ThingKinds, At(e, whats) PROVE At(e, ThingKinds)
    BY <2>0 DEF At
  <2>1. {"support"} \subseteq ThingKinds /\ {"type"} \subseteq ThingKinds /\ {"topic"} \subseteq ThingKinds
        /\ {"endpoint"} \subseteq ThingKinds /\ Own \subseteq ThingKinds
    BY DEF ThingKinds, Own
  <2> QED
    BY <2>0, <2>1 DEF Puts, PutSupport, PutType, DeleteTopic, PutEndpoint, PutOwn, Put, Step
<1>2. /\ s \in Seq(Steps) /\ s # <<>> /\ how \notin Gettings /\ Shape(e, how, s, h, failed[e], Muted(e))
      /\ a = Head(s)
  BY <1>1, Before DEF At, Put, Getting, Gettings
<1>3. a \in Things /\ a \in ToSet(s)
  BY <1>1, <1>2, HeadOf, KindsOfSteps
<1>4. has' = [has EXCEPT ![e] = @ \ {a}] /\ todo' = [todo EXCEPT ![e] = Tail(@)]
      /\ (a \in has[e] \/ (call[e] = "destroying" /\ a[1] = "support"))
  BY <1>1 DEF Put, Step, Due, At
<1> HIDE DEF s, h, how
<1>5. a \in h => \A b \in Things : Needs(a, b) => b \in h
  <2>1. a \notin Leaves(e, failed[e], Muted(e))
    BY <1>2, <1>3 DEF Shape, Apart
  <2> QED
    BY <1>2, <2>1 DEF Shape, Closed
<1> QED
  BY <1>1, <1>2, <1>3, <1>4, <1>5 DEF s, h, how

\* What the step is about, as its action says.
LEMMA Abouts ==
  ASSUME EntitiesInv, NEW e \in Entities, NEW what, At(e, {what}),
         what \in {"support", "type", "topic", "endpoint"}
  PROVE  Head(todo[e]) = <<what, Slot(e)>> /\ Slot(e) \in Slots
<1>1. Head(todo[e]) \in Steps /\ Head(todo[e])[1] = what
  <2>1. todo[e] # <<>>
    BY DEF At
  <2> QED
    BY <2>1, HeadOf
<1>2. \A a \in Steps : a[1] \in {"support", "type", "topic", "endpoint"} => a = <<a[1], a[2]>> /\ a[2] \in Slots
  BY SMT DEF Steps, Things, Slots
<1> QED
  BY <1>1, <1>2 DEF Slot

------------------------------------------------------------------------------
(***************************************************************************)
(* What is shared, its users and their number.                             *)
(***************************************************************************)

\* What the shared variables hold.
SharedTyped ==
  /\ types \subseteq TypeNames
  /\ topics \in [Names -> TypeNames \cup {Nothing}]
  /\ uses \in [Names -> Nat]
  /\ watchers \subseteq Names \X Entities
  /\ supports \in [TypeNames -> Nat]

\* How many steps failed, and what the library may have run into.
Marks == faults \in 0..MaxFaults /\ crashed \in {None, "null topic", "support"}

\* Every entity that is or was in use has a type.
TypeKnown == \A e \in Entities : call[e] # None => type[e] \in Types

\* A topic counts its uses.
Counted == crashed = None => \A n \in Names : uses[n] = Cardinality(Users(n))

\* Entities have finitely many slots, so what they have can be counted.
LEMMA FiniteUsers ==
  /\ \A n : IsFiniteSet(Users(n))
  /\ \A what, t : IsFiniteSet(HoldersOf(what, t))
<1>1. IsFiniteSet(Slots)
  <2>1. IsFiniteSet({"main"})
    BY FS_Singleton
  <2>2. IsFiniteSet({"main"} \cup {"channel"})
    BY <2>1, FS_AddElement
  <2>3. IsFiniteSet({"main"} \cup {"channel"} \cup {"request"})
    BY <2>2, FS_AddElement
  <2>4. IsFiniteSet({"main"} \cup {"channel"} \cup {"request"} \cup {"response"})
    BY <2>3, FS_AddElement
  <2>5. Slots = {"main"} \cup {"channel"} \cup {"request"} \cup {"response"}
    BY DEF Slots
  <2> QED
    BY <2>4, <2>5
<1>2. IsFiniteSet(Entities \X Slots)
  BY <1>1, EntityAssumption, FS_Product
<1> QED
  BY <1>2, FS_Subset DEF Users, HoldersOf

\* The names of an entity's topics and types.
LEMMA NamesOf ==
  ASSUME NEW e \in Entities, NEW x \in Slots
  PROVE  /\ TopicName(e, x) \in Names
         /\ type[e] \in Types => TypeName(e, x) \in TypeNames /\ TypeName(e, x) # Nothing
<1>1. TopicName(e, x) \in Names
  BY DEF TopicName, Names
<1>2. ASSUME type[e] \in Types PROVE TypeName(e, x) \in TypeNames /\ TypeName(e, x) # Nothing
  <2>1. TypeName(e, x) \in TypeNames
    BY <1>2, SMT DEF TypeName, TypeNames, Slots
  <2>2. type[e] # None
    BY <1>2, EntityAssumption
  <2> QED
    BY <2>1, <2>2, SMT DEF TypeName, Nothing
<1> QED
  BY <1>1, <1>2

\* Who has what after a step.
LEMMA GetHeld ==
  ASSUME EntitiesInv, NEW e \in Entities, Gets(e)
  PROVE  \A f \in Entities : \A b : b \in has'[f] <=> b \in has[f] \/ (f = e /\ b = Head(todo[e]))
<1>1. has' = [has EXCEPT ![e] = @ \cup {Head(todo[e])}]
  BY GetFacts
<1>2. has \in [Entities -> SUBSET Things]
  BY DEF EntitiesInv, Typed
<1> QED
  BY <1>1, <1>2

LEMMA PutHeld ==
  ASSUME EntitiesInv, NEW e \in Entities, Puts(e)
  PROVE  \A f \in Entities : \A b : b \in has'[f] <=> b \in has[f] /\ ~(f = e /\ b = Head(todo[e]))
<1>1. has' = [has EXCEPT ![e] = @ \ {Head(todo[e])}]
  BY PutFacts
<1>2. has \in [Entities -> SUBSET Things]
  BY DEF EntitiesInv, Typed
<1> QED
  BY <1>1, <1>2

\* The entities, and their slots, that have a thing of a kind.
Having(what) == {u \in Entities \X Slots : <<what, u[2]>> \in has[u[1]]}

\* Users and holders, by what an entity has and what it is called.
LEMMA HavingSets ==
  /\ \A n : Users(n) = {u \in Having("topic") : TopicName(u[1], u[2]) = n}
  /\ \A what, t : HoldersOf(what, t) = {u \in Having(what) : TypeName(u[1], u[2]) = t}
  /\ \A n : Users(n)' = {u \in Having("topic")' : TopicName(u[1], u[2]) = n}
  /\ \A what, t : HoldersOf(what, t)' = {u \in Having(what)' : TypeName(u[1], u[2])' = t}
<1>1. \A n : Users(n) = {u \in Having("topic") : TopicName(u[1], u[2]) = n}
  BY DEF Users, Having
<1>2. \A what, t : HoldersOf(what, t) = {u \in Having(what) : TypeName(u[1], u[2]) = t}
  BY DEF HoldersOf, Having
<1>3. \A n : Users(n)' = {u \in Having("topic")' : TopicName(u[1], u[2]) = n}
  BY DEF Users, Having, TopicName
<1>4. \A what, t : HoldersOf(what, t)' = {u \in Having(what)' : TypeName(u[1], u[2])' = t}
  BY DEF HoldersOf, Having
<1> QED
  BY <1>1, <1>2, <1>3, <1>4

\* A step adds or removes at most the one it is about.
LEMMA HavingNext ==
  ASSUME EntitiesInv, NEW e \in Entities, NEW what, NEW x \in Slots, Head(todo[e]) = <<what, x>>
  PROVE  /\ Gets(e) => /\ Having(what)' = Having(what) \cup {<<e, x>>}
                       /\ \A other : other # what => Having(other)' = Having(other)
         /\ Puts(e) => /\ Having(what)' = Having(what) \ {<<e, x>>}
                       /\ \A other : other # what => Having(other)' = Having(other)
<1>1. \A other : \A u \in Entities \X Slots :
        u[1] = e /\ <<other, u[2]>> = <<what, x>> <=> other = what /\ u = <<e, x>>
  OBVIOUS
<1>2. ASSUME Gets(e)
      PROVE  /\ Having(what)' = Having(what) \cup {<<e, x>>}
             /\ \A other : other # what => Having(other)' = Having(other)
  <2>1. \A other : \A u \in Entities \X Slots :
          u \in Having(other)' <=> u \in Having(other) \/ (other = what /\ u = <<e, x>>)
    BY <1>1, <1>2, GetHeld DEF Having
  <2>2. \A other : Having(other) \subseteq Entities \X Slots /\ Having(other)' \subseteq Entities \X Slots
    BY DEF Having
  <2> QED
    BY <2>1, <2>2
<1>3. ASSUME Puts(e)
      PROVE  /\ Having(what)' = Having(what) \ {<<e, x>>}
             /\ \A other : other # what => Having(other)' = Having(other)
  <2>1. \A other : \A u \in Entities \X Slots :
          u \in Having(other)' <=> u \in Having(other) /\ ~(other = what /\ u = <<e, x>>)
    BY <1>1, <1>3, PutHeld DEF Having
  <2>2. \A other : Having(other) \subseteq Entities \X Slots /\ Having(other)' \subseteq Entities \X Slots
    BY DEF Having
  <2> QED
    BY <2>1, <2>2
<1> QED
  BY <1>2, <1>3

\* Steps about other things leave the topics, the types and the type supports an entity has.
LEMMA OthersHave ==
  ASSUME EntitiesInv, NEW e \in Entities, Gets(e) \/ Puts(e)
  PROVE  /\ ~FindOrCreateTopic(e) /\ ~DeleteTopic(e) => Having("topic")' = Having("topic")
         /\ ~GetType(e) /\ ~PutType(e) => Having("type")' = Having("type")
         /\ ~GetSupport(e) /\ ~PutSupport(e) => Having("support")' = Having("support")
         /\ ~GetEndpoint(e) /\ ~PutEndpoint(e) => Having("endpoint")' = Having("endpoint")
<1>1. ASSUME NEW what, Head(todo[e])[1] # what PROVE Having(what)' = Having(what)
  <2>1. \A y : <<what, y>> # Head(todo[e])
    BY <1>1
  <2>2. \A u \in Entities \X Slots : <<what, u[2]>> \in has'[u[1]] <=> <<what, u[2]>> \in has[u[1]]
    BY <2>1, GetHeld, PutHeld
  <2> QED
    BY <2>2 DEF Having
<1>2. /\ Head(todo[e])[1] = "topic" => FindOrCreateTopic(e) \/ DeleteTopic(e)
      /\ Head(todo[e])[1] = "type" => GetType(e) \/ PutType(e)
      /\ Head(todo[e])[1] = "support" => GetSupport(e) \/ PutSupport(e)
      /\ Head(todo[e])[1] = "endpoint" => GetEndpoint(e) \/ PutEndpoint(e)
  <2>1. \/ At(e, {"support"}) /\ (GetSupport(e) \/ PutSupport(e))
        \/ At(e, {"type"}) /\ (GetType(e) \/ PutType(e))
        \/ At(e, {"topic"}) /\ (FindOrCreateTopic(e) \/ DeleteTopic(e))
        \/ At(e, {"endpoint"}) /\ (GetEndpoint(e) \/ PutEndpoint(e))
        \/ At(e, Own)
    BY DEF Gets, Puts, GetSupport, PutSupport, GetType, PutType, GetEndpoint, PutEndpoint, GetOwn, PutOwn,
           FindOrCreateTopic, DeleteTopic
  <2> QED
    BY <2>1, SMT DEF At, Own
<1> QED
  BY <1>1, <1>2

\* Steps that acquire and release nothing.
Quiet(e) == EntityNext(e) /\ ~Gets(e) /\ ~Puts(e)

\* They change no users and no holders.
LEMMA QuietSets ==
  ASSUME EntitiesInv, NEW e \in Entities, Quiet(e)
  PROVE  /\ has' = has /\ UNCHANGED <<sharedVars, crashed>>
         /\ \A n : Users(n)' = Users(n)
         /\ \A what, t : HoldersOf(what, t)' = HoldersOf(what, t)
<1>1. /\ has' = has /\ UNCHANGED <<sharedVars, crashed>>
      /\ \A f \in Entities : has[f] # {} => type'[f] = type[f]
  BY QuietStep DEF Quiet
<1>2. \A n : Users(n)' = Users(n)
  BY <1>1 DEF Users, TopicName
<1>3. \A what, t : HoldersOf(what, t)' = HoldersOf(what, t)
  BY <1>1 DEF HoldersOf, TypeName
<1> QED
  BY <1>1, <1>2, <1>3

\* Who is in the middle of a step has a type.
LEMMA TypedNow ==
  ASSUME EntitiesInv, TypeKnown, NEW e \in Entities, todo[e] # <<>> \/ has[e] # {}
  PROVE  type[e] \in Types
BY Before DEF TypeKnown, Shape, Contents

\* TypeKnown is kept by every step.
LEMMA TypeKnownNext ==
  ASSUME EntitiesInv, TypeKnown, NEW e \in Entities, EntityNext(e)
  PROVE  TypeKnown'
<1>1. CASE Gets(e) \/ Puts(e)
  BY <1>1, GetFacts, PutFacts DEF TypeKnown
<1>2. CASE ~Gets(e) /\ ~Puts(e)
  <2>1. /\ type' = type \/ \E t \in Types : type' = [type EXCEPT ![e] = t]
        /\ \A f \in Entities : call'[f] # None => call[f] # None \/ type'[f] \in Types
    BY <1>2, QuietStep
  <2>2. type \in [Entities -> Types \cup {None}]
    BY DEF EntitiesInv, Typed
  <2> QED
    BY <2>1, <2>2 DEF TypeKnown
<1> QED
  BY <1>1, <1>2

\* A user of a topic: what the count says of it.
LEMMA UsersCount ==
  ASSUME SharedTyped, Counted, crashed = None, NEW n \in Names
  PROVE  /\ uses[n] \in Nat /\ uses[n] = Cardinality(Users(n))
         /\ uses[n] = 0 => Users(n) = {}
         /\ uses[n] = 1 => \A u, v \in Users(n) : u = v
<1>1. uses[n] \in Nat /\ uses[n] = Cardinality(Users(n)) /\ IsFiniteSet(Users(n))
  BY FiniteUsers DEF SharedTyped, Counted
<1>2. uses[n] = 0 => Users(n) = {}
  BY <1>1, FS_EmptySet
<1>3. ASSUME uses[n] = 1, NEW u \in Users(n), NEW v \in Users(n) PROVE u = v
  <2>1. Cardinality(Users(n) \ {u}) = Cardinality(Users(n)) - 1 /\ IsFiniteSet(Users(n) \ {u})
    BY <1>1, <1>3, FS_RemoveElement
  <2>2. Users(n) \ {u} = {}
    BY <1>1, <1>3, <2>1, FS_EmptySet
  <2> QED
    BY <2>2
<1> QED
  BY <1>1, <1>2, <1>3

\* Every step that uses a topic, or ceases to, counts it.
LEMMA CountedNext ==
  ASSUME EntitiesInv, SharedTyped, Counted, crashed = None, NEW e \in Entities, EntityNext(e)
  PROVE  Counted'
<1> SUFFICES ASSUME crashed' = None, NEW n \in Names PROVE uses'[n] = Cardinality(Users(n)')
  BY DEF Counted
<1> DEFINE x == Slot(e)
           k == TopicName(e, x)
<1>0. uses[n] \in Nat /\ uses[n] = Cardinality(Users(n)) /\ IsFiniteSet(Users(n)) /\ uses \in [Names -> Nat]
  BY UsersCount, FiniteUsers DEF SharedTyped
<1>1. CASE FindOrCreateTopic(e)
  <2>1. Gets(e) /\ Head(todo[e]) = Topic(x) /\ x \in Slots
    BY <1>1, Abouts DEF FindOrCreateTopic, Gets
  <2>2. Having("topic")' = Having("topic") \cup {<<e, x>>}
    BY <2>1, HavingNext
  <2>3. <<e, x>> \notin Having("topic")
    <3>1. Topic(x) \notin {Graph, Endpoint("main"), Filter}
      BY SMT
    <3>2. call[e] \in Gettings /\ (call[e] = "creating" => Topic(x) \notin has[e])
          /\ (call[e] = "reopening" => Topic(x) \in {Graph, Endpoint("main"), Filter})
      BY <2>1, GetFacts
    <3> QED
      BY <3>1, <3>2 DEF Having, Gettings
  <2>4. uses' = [uses EXCEPT ![k] = @ + 1]
    <3>1. "null topic" # None
      BY DEF None
    <3> QED
      BY <1>1, <3>1 DEF FindOrCreateTopic
  <2>5. CASE n = k
    <3>1. Users(n)' = Users(n) \cup {<<e, x>>} /\ <<e, x>> \notin Users(n)
      BY <2>2, <2>3, <2>5, HavingSets DEF TopicName
    <3>2. Cardinality(Users(n)') = Cardinality(Users(n)) + 1
      BY <1>0, <3>1, FS_AddElement
    <3> QED
      BY <1>0, <2>4, <2>5, <3>2
  <2>6. CASE n # k
    <3>1. Users(n)' = Users(n)
      <4>1. TopicName(<<e, x>>[1], <<e, x>>[2]) = k
        OBVIOUS
      <4> HIDE DEF k, x
      <4> QED
        BY <2>2, <2>6, <4>1, HavingSets
    <3> QED
      BY <1>0, <2>4, <2>6, <3>1
  <2> QED
    BY <2>5, <2>6
<1>2. CASE DeleteTopic(e)
  <2>1. Puts(e) /\ Head(todo[e]) = Topic(x) /\ x \in Slots
    BY <1>2, Abouts DEF DeleteTopic, Puts
  <2>2. Having("topic")' = Having("topic") \ {<<e, x>>}
    BY <2>1, HavingNext
  <2>3. <<e, x>> \in Having("topic")
    <3>1. Topic(x)[1] # "support"
      BY SMT
    <3> QED
      BY <2>1, <3>1, PutFacts DEF Having
  <2>4. uses' = [uses EXCEPT ![k] = @ - 1]
    BY <1>2 DEF DeleteTopic
  <2>5. CASE n = k
    <3>1. Users(n)' = Users(n) \ {<<e, x>>} /\ <<e, x>> \in Users(n)
      BY <2>2, <2>3, <2>5, HavingSets DEF TopicName
    <3>2. Cardinality(Users(n)') = Cardinality(Users(n)) - 1
      BY <1>0, <3>1, FS_RemoveElement
    <3> QED
      BY <1>0, <2>4, <2>5, <3>2
  <2>6. CASE n # k
    <3>1. Users(n)' = Users(n)
      <4>1. TopicName(<<e, x>>[1], <<e, x>>[2]) = k
        OBVIOUS
      <4> HIDE DEF k, x
      <4> QED
        BY <2>2, <2>6, <4>1, HavingSets
    <3> QED
      BY <1>0, <2>4, <2>6, <3>1
  <2> QED
    BY <2>5, <2>6
<1>3. CASE (Gets(e) \/ Puts(e)) /\ ~FindOrCreateTopic(e) /\ ~DeleteTopic(e)
  <2>1. uses' = uses
    BY <1>3 DEF Gets, Puts, GetSupport, PutSupport, GetType, PutType, GetEndpoint, PutEndpoint, GetOwn, PutOwn,
                sharedVars
  <2>2. Having("topic")' = Having("topic")
    BY <1>3, OthersHave
  <2> QED
    BY <1>0, <2>1, <2>2, HavingSets DEF TopicName
<1>4. CASE Quiet(e)
  BY <1>0, <1>4, QuietSets DEF sharedVars
<1> QED
  BY <1>1, <1>2, <1>3, <1>4 DEF Quiet

\* What becomes of a topic that is used once more.
TopicUsed(e, x, n, t) ==
  /\ Gets(e) /\ Head(todo[e]) = Topic(x) /\ x \in Slots /\ n \in Names
  /\ t \in TypeNames /\ t # Nothing
  /\ UNCHANGED <<types, supports>>
  /\ call[e] = "creating" /\ <<e, x>> \notin Having("topic")
  /\ crashed' = None => uses' = [uses EXCEPT ![n] = @ + 1]
  /\ \A k \in Names : topics'[k] = topics[k] \/ (k = n /\ topics[k] = Nothing)
  /\ topics'[n] = IF topics[n] = Nothing THEN t ELSE topics[n]
  /\ uses' = uses \/ uses' = [uses EXCEPT ![n] = @ + 1]
  /\ topics' = topics \/ topics' = [topics EXCEPT ![n] = topics'[n]]
  /\ watchers' \subseteq watchers \cup Watches(e, x)

\* A topic is found or created, and counted.
LEMMA FindFacts ==
  ASSUME EntitiesInv, SharedTyped, TypeKnown, NEW e \in Entities, FindOrCreateTopic(e)
  PROVE  TopicUsed(e, Slot(e), TopicName(e, Slot(e)), TypeName(e, Slot(e)))
<1> SUFFICES ASSUME NEW x, x = Slot(e), NEW n, n = TopicName(e, x), NEW t, t = TypeName(e, x)
             PROVE  TopicUsed(e, x, n, t)
  OBVIOUS
<1>1. Gets(e) /\ Head(todo[e]) = Topic(x) /\ x \in Slots
  BY Abouts DEF FindOrCreateTopic, Gets
<1>2. todo[e] # <<>>
  BY <1>1, GetFacts
<1>3. n \in Names /\ t \in TypeNames /\ t # Nothing
  BY <1>1, <1>2, TypedNow, NamesOf
<1>4. call[e] = "creating" /\ <<e, x>> \notin Having("topic")
  <2>1. Topic(x) \notin {Graph, Endpoint("main"), Filter}
    BY SMT
  <2>2. call[e] \in Gettings /\ (call[e] = "creating" => Topic(x) \notin has[e])
        /\ (call[e] = "reopening" => Topic(x) \in {Graph, Endpoint("main"), Filter})
    BY <1>1, GetFacts
  <2> QED
    BY <2>1, <2>2 DEF Having, Gettings
<1>5. topics \in [Names -> TypeNames \cup {Nothing}]
  BY DEF SharedTyped
<1>6. "null topic" # None
  BY DEF None
<1>7. CASE uses[n] = 0 /\ topics[n] # Nothing
  <2>1. UNCHANGED <<types, supports, topics, uses, watchers>> /\ crashed' = "null topic"
    BY <1>7 DEF FindOrCreateTopic
  <2> QED
    BY <1>1, <1>3, <1>4, <1>5, <1>6, <1>7, <2>1 DEF TopicUsed
<1>8. CASE ~(uses[n] = 0 /\ topics[n] # Nothing)
  <2>1. topics' = [topics EXCEPT ![n] = IF @ = Nothing THEN t ELSE @]
    BY <1>8 DEF FindOrCreateTopic
  <2>2. /\ uses' = [uses EXCEPT ![n] = @ + 1] /\ watchers' = watchers \cup Watches(e, x)
        /\ UNCHANGED <<types, supports>>
    BY <1>8 DEF FindOrCreateTopic
  <2>3. /\ topics'[n] = IF topics[n] = Nothing THEN t ELSE topics[n]
        /\ \A k \in Names \ {n} : topics'[k] = topics[k]
        /\ topics' = [topics EXCEPT ![n] = topics'[n]]
    BY <1>3, <1>5, <2>1
  <2> QED
    BY <1>1, <1>3, <1>4, <1>5, <2>1, <2>2, <2>3 DEF TopicUsed
<1> QED
  BY <1>7, <1>8

\* What becomes of a topic that is used once less.
TopicLeft(e, x, n) ==
  /\ Puts(e) /\ Head(todo[e]) = Topic(x) /\ x \in Slots /\ n \in Names
  /\ UNCHANGED <<types, supports, crashed>>
  /\ <<e, x>> \in Having("topic") /\ <<e, x>> \in Users(n) /\ Topic(x) \in has[e]
  /\ uses[n] \in Nat \ {0} /\ uses' = [uses EXCEPT ![n] = @ - 1]
  /\ \A k \in Names : topics'[k] = topics[k] \/ (k = n /\ topics'[k] = Nothing)
  /\ topics'[n] = topics[n] \/ (uses[n] = 1 /\ ~ReferredTo(n) /\ \A u \in Users(n) : u = <<e, x>>)
  /\ uses[n] = 1 => topics'[n] = Nothing \/ ReferredTo(n)
  /\ topics' = [topics EXCEPT ![n] = topics'[n]]
  /\ watchers' \subseteq watchers

\* A topic is used once less, and deleted by its last user unless something refers to it.
LEMMA DeleteFacts ==
  ASSUME EntitiesInv, SharedTyped, TypeKnown, Counted, crashed = None, NEW e \in Entities, DeleteTopic(e)
  PROVE  TopicLeft(e, Slot(e), TopicName(e, Slot(e)))
<1> SUFFICES ASSUME NEW x, x = Slot(e), NEW n, n = TopicName(e, x)
             PROVE  TopicLeft(e, x, n)
  OBVIOUS
<1>1. Puts(e) /\ Head(todo[e]) = Topic(x) /\ x \in Slots
  BY Abouts DEF DeleteTopic, Puts
<1>2. todo[e] # <<>>
  BY <1>1, PutFacts
<1>3. n \in Names
  BY <1>1, NamesOf
<1>4. <<e, x>> \in Having("topic") /\ <<e, x>> \in Users(n) /\ Topic(x) \in has[e]
  <2>1. Topic(x)[1] # "support"
    BY SMT
  <2> QED
    BY <1>1, <2>1, PutFacts DEF Having, Users
<1>5. uses[n] \in Nat \ {0} /\ (uses[n] = 1 => \A u \in Users(n) : u = <<e, x>>)
  BY <1>3, <1>4, UsersCount
<1>6. /\ uses' = [uses EXCEPT ![n] = @ - 1]
      /\ topics' = [topics EXCEPT ![n] = IF uses[n] = 1 /\ ~ReferredTo(n) THEN Nothing ELSE @]
      /\ UNCHANGED <<types, supports, crashed>> /\ watchers' \subseteq watchers
  BY DEF DeleteTopic
<1>7. topics \in [Names -> TypeNames \cup {Nothing}]
  BY DEF SharedTyped
<1>8. topics'[n] = IF uses[n] = 1 /\ ~ReferredTo(n) THEN Nothing ELSE topics[n]
  BY <1>3, <1>6, <1>7
<1>9. \A k \in Names \ {n} : topics'[k] = topics[k]
  BY <1>6, <1>7
<1>10. topics' = [topics EXCEPT ![n] = topics'[n]]
  BY <1>6, <1>8
<1> QED
  BY <1>1, <1>3, <1>4, <1>5, <1>6, <1>8, <1>9, <1>10 DEF TopicLeft

\* Everything but the use of topics leaves topics and their counts alone.
LEMMA TopicsAlone ==
  ASSUME EntitiesInv, NEW e \in Entities, EntityNext(e), ~FindOrCreateTopic(e), ~DeleteTopic(e)
  PROVE  UNCHANGED <<topics, uses, watchers>> /\ \A n : Users(n)' = Users(n)
<1>1. CASE Gets(e) \/ Puts(e)
  <2>1. UNCHANGED <<topics, uses, watchers>>
    BY <1>1 DEF Gets, Puts, GetSupport, PutSupport, GetType, PutType, GetEndpoint, PutEndpoint, GetOwn, PutOwn,
                sharedVars
  <2>2. Having("topic")' = Having("topic")
    BY <1>1, OthersHave
  <2> QED
    BY <2>1, <2>2, HavingSets
<1>2. CASE Quiet(e)
  BY <1>2, QuietSets DEF sharedVars
<1> QED
  BY <1>1, <1>2 DEF Quiet

\* SharedTyped is kept by every step.
LEMMA SharedTypedNext ==
  ASSUME EntitiesInv, SharedTyped, TypeKnown, Counted, crashed = None, NEW e \in Entities, EntityNext(e)
  PROVE  SharedTyped'
<1>1. /\ types \subseteq TypeNames
      /\ topics \in [Names -> TypeNames \cup {Nothing}]
      /\ uses \in [Names -> Nat]
      /\ watchers \subseteq Names \X Entities
      /\ supports \in [TypeNames -> Nat]
  BY DEF SharedTyped
<1> SUFFICES ASSUME NEW x, x = Slot(e), NEW n, n = TopicName(e, x), NEW t, t = TypeName(e, x)
             PROVE  SharedTyped'
  OBVIOUS
<1>2. CASE FindOrCreateTopic(e)
  <2>1. /\ x \in Slots /\ n \in Names /\ t \in TypeNames
        /\ UNCHANGED <<types, supports>> /\ watchers' \subseteq watchers \cup Watches(e, x)
        /\ uses' = uses \/ uses' = [uses EXCEPT ![n] = @ + 1]
        /\ topics' = topics \/ topics' = [topics EXCEPT ![n] = topics'[n]]
        /\ topics'[n] = IF topics[n] = Nothing THEN t ELSE topics[n]
    <3>1. TopicUsed(e, x, n, t)
      BY <1>2, FindFacts
    <3> QED
      BY <3>1 DEF TopicUsed
  <2>2. Watches(e, x) \subseteq Names \X Entities
    BY <2>1 DEF Watches
  <2>3. topics'[n] \in TypeNames \cup {Nothing}
    BY <1>1, <2>1
  <2>4. uses' \in [Names -> Nat]
    BY <1>1, <2>1
  <2>5. topics' \in [Names -> TypeNames \cup {Nothing}]
    BY <1>1, <2>1, <2>3
  <2> QED
    BY <1>1, <2>1, <2>2, <2>4, <2>5 DEF SharedTyped
<1>3. CASE DeleteTopic(e)
  <2>1. /\ n \in Names /\ UNCHANGED <<types, supports>> /\ watchers' \subseteq watchers
        /\ uses[n] \in Nat \ {0} /\ uses' = [uses EXCEPT ![n] = @ - 1]
        /\ topics' = [topics EXCEPT ![n] = topics'[n]]
        /\ topics'[n] = topics[n] \/ topics'[n] = Nothing
    <3>1. TopicLeft(e, x, n)
      BY <1>3, DeleteFacts
    <3> QED
      BY <3>1 DEF TopicLeft
  <2>2. uses' \in [Names -> Nat]
    BY <1>1, <2>1
  <2>3. topics' \in [Names -> TypeNames \cup {Nothing}]
    BY <1>1, <2>1
  <2> QED
    BY <1>1, <2>1, <2>2, <2>3 DEF SharedTyped
<1>4. CASE ~FindOrCreateTopic(e) /\ ~DeleteTopic(e)
  <2>1. UNCHANGED <<topics, uses, watchers>>
    BY <1>4, TopicsAlone
  <2>2. types' \subseteq TypeNames /\ supports' \in [TypeNames -> Nat]
    <3>1. CASE GetType(e)
      <4>1. x \in Slots /\ todo[e] # <<>>
        BY <3>1, Abouts DEF GetType, At
      <4>2. t \in TypeNames
        BY <4>1, TypedNow, NamesOf
      <4> QED
        BY <1>1, <3>1, <4>2 DEF GetType
    <3>2. CASE PutType(e)
      BY <1>1, <3>2 DEF PutType
    <3>3. CASE GetSupport(e)
      <4>1. types' = types /\ supports' = [supports EXCEPT ![t] = @ + 1]
        BY <3>3 DEF GetSupport
      <4>2. x \in Slots /\ todo[e] # <<>>
        BY <3>3, Abouts DEF GetSupport, At
      <4>3. t \in TypeNames
        BY <4>2, TypedNow, NamesOf
      <4> QED
        BY <1>1, <4>1, <4>3
    <3>4. CASE PutSupport(e)
      <4>1. /\ types' = types
            /\ supports' = supports \/ (supports[t] # 0 /\ supports' = [supports EXCEPT ![t] = @ - 1])
        BY <3>4 DEF PutSupport
      <4>2. x \in Slots /\ todo[e] # <<>>
        BY <3>4, Abouts DEF PutSupport, At
      <4>3. t \in TypeNames
        BY <4>2, TypedNow, NamesOf
      <4> QED
        BY <1>1, <4>1, <4>3
    <3>5. CASE GetEndpoint(e) \/ PutEndpoint(e) \/ GetOwn(e) \/ PutOwn(e)
      BY <1>1, <3>5 DEF GetEndpoint, PutEndpoint, GetOwn, PutOwn, sharedVars
    <3>6. CASE Quiet(e)
      BY <1>1, <3>6, QuietSets DEF sharedVars
    <3> QED
      BY <1>4, <3>1, <3>2, <3>3, <3>4, <3>5, <3>6 DEF Quiet, Gets, Puts
  <2> QED
    BY <1>1, <2>1, <2>2 DEF SharedTyped
<1> QED
  BY <1>2, <1>3, <1>4

------------------------------------------------------------------------------
(***************************************************************************)
(* Topics.                                                                 *)
(***************************************************************************)
\* A topic exists while it is used, and then only while something refers to it.
TopicsKept ==
  crashed = None =>
    \A n \in Names :
      /\ uses[n] > 0 => topics[n] # Nothing
      /\ uses[n] = 0 /\ topics[n] # Nothing => ReferredTo(n)

\* An endpoint, or the filtered topic of a subscription, refers to the topic of its slot.
Refers(f, x) == Endpoint(x) \in has[f] \/ (x = "main" /\ Filter \in has[f])

\* ReferredTo, by who refers.
LEMMA ReferredBy ==
  \A n : ReferredTo(n) <=> \E f \in Entities : \E x \in Slots : TopicName(f, x) = n /\ Refers(f, x)
BY DEF ReferredTo, Refers

LEMMA ReferredByNext ==
  \A n : ReferredTo(n)' <=> \E f \in Entities : \E x \in Slots : TopicName(f, x) = n /\ Refers(f, x)'
BY DEF ReferredTo, Refers, TopicName

\* Who stops referring to a topic still uses it.
LEMMA RefersNext ==
  ASSUME EntitiesInv, NEW e \in Entities, EntityNext(e), NEW f \in Entities, NEW x \in Slots, Refers(f, x)
  PROVE  \/ Refers(f, x)'
         \/ ~FindOrCreateTopic(e) /\ ~DeleteTopic(e) /\ Topic(x) \in has[f]
<1>1. CASE Gets(e)
  BY <1>1, GetHeld DEF Refers
<1>2. CASE Puts(e)
  <2> SUFFICES ASSUME ~Refers(f, x)' PROVE ~FindOrCreateTopic(e) /\ ~DeleteTopic(e) /\ Topic(x) \in has[f]
    OBVIOUS
  <2>1. PICK a \in {Endpoint(x), Filter} : /\ a \in has[f] /\ a \notin has'[f]
                                           /\ a = Filter => x = "main"
    <3>1. Endpoint(x) # Filter
      BY SMT
    <3> QED
      BY <3>1 DEF Refers
  <2>2. f = e /\ a = Head(todo[e])
    BY <1>2, <2>1, PutHeld
  <2>3. Topic(x) \in Things /\ Needs(a, Topic(x))
    <3>1. Topic(x) \in Things
      BY DEF Things
    <3>2. Needs(Endpoint(x), Topic(x)) /\ (x = "main" => Needs(Filter, Topic(x)))
      BY SMT DEF Needs, Slots
    <3>3. CASE a = Endpoint(x)
      BY <3>1, <3>2, <3>3, Zenon
    <3>4. CASE a = Filter /\ x = "main"
      BY <3>1, <3>2, <3>4, Zenon
    <3> QED
      BY <2>1, <3>3, <3>4, Zenon
  <2>4. Topic(x) \in has[e]
    BY <1>2, <2>1, <2>2, <2>3, PutFacts
  <2>5. a[1] # "topic"
    BY <2>1, SMT
  <2>6. FindOrCreateTopic(e) \/ DeleteTopic(e) => Head(todo[e])[1] = "topic"
    <3>1. FindOrCreateTopic(e) \/ DeleteTopic(e) => At(e, {"topic"})
      BY DEF FindOrCreateTopic, DeleteTopic
    <3> QED
      BY <3>1 DEF At
  <2> QED
    BY <2>2, <2>4, <2>5, <2>6
<1>3. CASE Quiet(e)
  BY <1>3, QuietSets DEF Refers
<1> QED
  BY <1>1, <1>2, <1>3 DEF Quiet

\* Who has a topic is one of its users.
LEMMA UserOf ==
  ASSUME NEW f \in Entities, NEW x \in Slots
  PROVE  /\ <<f, x>> \in Users(TopicName(f, x)) <=> Topic(x) \in has[f]
         /\ <<f, x>> \in Having("topic") <=> Topic(x) \in has[f]
BY DEF Users, Having

\* A topic stays as long as it is used, and without users only while something refers to it.
LEMMA TopicsKeptNext ==
  ASSUME EntitiesInv, SharedTyped, TypeKnown, Counted, TopicsKept, crashed = None,
         NEW e \in Entities, EntityNext(e)
  PROVE  TopicsKept'
<1> SUFFICES ASSUME crashed' = None, NEW k \in Names
             PROVE  /\ uses'[k] > 0 => topics'[k] # Nothing
                    /\ uses'[k] = 0 /\ topics'[k] # Nothing => ReferredTo(k)'
  BY DEF TopicsKept
<1> SUFFICES ASSUME NEW x, x = Slot(e), NEW n, n = TopicName(e, x), NEW t, t = TypeName(e, x)
             PROVE  /\ uses'[k] > 0 => topics'[k] # Nothing
                    /\ uses'[k] = 0 /\ topics'[k] # Nothing => ReferredTo(k)'
  OBVIOUS
<1>1. /\ uses[k] > 0 => topics[k] # Nothing
      /\ uses[k] = 0 /\ topics[k] # Nothing => ReferredTo(k)
      /\ uses[k] \in Nat /\ uses \in [Names -> Nat]
  BY DEF TopicsKept, SharedTyped
<1>2. ASSUME ReferredTo(k), uses[k] = 0 \/ FindOrCreateTopic(e) \/ DeleteTopic(e)
      PROVE  ReferredTo(k)'
  <2>1. PICK f \in Entities, y \in Slots : TopicName(f, y) = k /\ Refers(f, y)
    BY <1>2, ReferredBy
  <2>2. Refers(f, y)'
    <3>1. CASE uses[k] = 0
      <4>1. Users(k) = {}
        BY <3>1, UsersCount
      <4>2. Topic(y) \notin has[f]
        BY <2>1, <4>1, UserOf
      <4> QED
        BY <2>1, <4>2, RefersNext
    <3>2. CASE FindOrCreateTopic(e) \/ DeleteTopic(e)
      BY <2>1, <3>2, RefersNext
    <3> QED
      BY <1>2, <3>1, <3>2
  <2> QED
    BY <2>1, <2>2, ReferredByNext
<1>3. CASE FindOrCreateTopic(e)
  <2>1. TopicUsed(e, x, n, t)
    BY <1>3, FindFacts
  <2>2. CASE k = n
    <3>1. topics'[k] # Nothing
      BY <2>1, <2>2 DEF TopicUsed
    <3>2. uses'[k] = uses[k] + 1
      BY <1>1, <2>1, <2>2 DEF TopicUsed
    <3>3. uses'[k] # 0
      BY <1>1, <3>2
    <3> QED
      BY <3>1, <3>3
  <2>3. CASE k # n
    <3>1. topics'[k] = topics[k] /\ uses'[k] = uses[k]
      BY <1>1, <2>1, <2>3 DEF TopicUsed
    <3> QED
      BY <1>1, <1>2, <1>3, <3>1
  <2> QED
    BY <2>2, <2>3
<1>4. CASE DeleteTopic(e)
  <2>1. TopicLeft(e, x, n)
    BY <1>4, DeleteFacts
  <2>2. CASE k = n
    <3>1. uses'[k] = uses[k] - 1
      BY <1>1, <2>1, <2>2 DEF TopicLeft
    <3>2. topics'[k] = topics[k] \/ uses[k] = 1
      BY <2>1, <2>2 DEF TopicLeft
    <3>3. uses[k] = 1 => topics'[k] = Nothing \/ ReferredTo(k)
      BY <2>1, <2>2 DEF TopicLeft
    <3>4. uses'[k] > 0 => uses[k] > 0 /\ uses[k] # 1
      BY <1>1, <3>1
    <3>5. uses'[k] = 0 => uses[k] = 1
      BY <1>1, <3>1
    <3> QED
      BY <1>1, <1>2, <1>4, <3>2, <3>3, <3>4, <3>5
  <2>3. CASE k # n
    <3>1. topics'[k] = topics[k] /\ uses'[k] = uses[k]
      BY <1>1, <2>1, <2>3 DEF TopicLeft
    <3> QED
      BY <1>1, <1>2, <1>4, <3>1
  <2> QED
    BY <2>2, <2>3
<1>5. CASE ~FindOrCreateTopic(e) /\ ~DeleteTopic(e)
  BY <1>1, <1>2, <1>5, TopicsAlone
<1> QED
  BY <1>3, <1>4, <1>5

\* The failure of a creation or of a change of filter is its end.
LEMMA FailedNext ==
  ASSUME EntitiesInv, NEW e \in Entities, EntityNext(e)
  PROVE  \/ failed' = failed
         \/ /\ failed[e] = Nothing
            /\ \/ failed' = [failed EXCEPT ![e] = Check]
               \/ Fails(e) /\ Quiet(e)
<1>1. CASE Gets(e) \/ Puts(e)
  BY <1>1, GetFacts, PutFacts
<1>2. CASE Create(e) \/ Destroy(e) \/ SetContentFilter(e) \/ Reopen(e) \/ Finish(e)
  BY <1>2 DEF Create, Destroy, SetContentFilter, Reopen, Finish, history
<1>3. CASE Skip(e) \/ TakeLock(e) \/ ReleaseLock(e) \/ GiveUp(e) \/ Mute(e)
  BY <1>3 DEF Skip, TakeLock, ReleaseLock, GiveUp, Mute
<1>4. CASE FindAndCheck(e)
  <2>1. call[e] = "creating"
    <3>1. todo[e] # <<>> /\ Head(todo[e])[1] = "check"
      BY <1>4 DEF FindAndCheck, At
    <3>2. Head(todo[e]) = Check /\ Head(todo[e]) \in ToSet(todo[e])
      BY <3>1, HeadOf, KindsOfSteps
    <3> QED
      BY <3>2, Before DEF Shape, Contents
  <2>2. failed[e] = Nothing
    BY <2>1, Before DEF Shape, Course
  <2> QED
    BY <1>4, <2>2 DEF FindAndCheck
<1>5. CASE CreationFails(e) \/ GraphFails(e) \/ ReopenFails(e)
  <2>1. Fails(e)
    BY <1>5 DEF CreationFails, GraphFails, ReopenFails
  <2>2. failed[e] = Nothing
    BY <2>1, Before DEF Fails, Getting, Shape, Course
  <2>3. ~Gets(e) /\ ~Puts(e)
    <3>1. call'[e] # call[e]
      <4>1. call \in [Entities -> Calls]
        BY DEF EntitiesInv, Typed
      <4> QED
        BY <1>5, <4>1 DEF CreationFails, GraphFails, ReopenFails, Return
    <3> QED
      BY <3>1, GetFacts, PutFacts
  <2> QED
    BY <2>1, <2>2, <2>3 DEF Quiet
<1> QED
  BY <1>1, <1>2, <1>3, <1>4, <1>5 DEF EntityNext, Gets, Puts

\* What is forgotten stays as it is.
LEMMA ForgottenStays ==
  ASSUME EntitiesInv, NEW e \in Entities, EntityNext(e), NEW f \in Entities, failed[f] # Nothing
  PROVE  /\ failed'[f] = failed[f]
         /\ \A b \in has[f] : b \in Leaves(f, failed[f], Muted(f)) => b \in has'[f]
         /\ \A b \in has'[f] : b \in has[f]
<1>1. failed'[f] = failed[f]
  <2>1. failed \in [Entities -> Steps \cup {Nothing}]
    BY DEF EntitiesInv, Typed
  <2>2. ASSUME Fails(e) PROVE failed'[f] = failed[f]
    BY <2>1, <2>2, FailedNext DEF Fails
  <2> QED
    BY <2>1, <2>2, FailedNext
<1>2. CASE Gets(e)
  <2>1. failed[e] = Nothing
    BY <1>2, GetFacts, Before DEF Gettings, Shape, Course
  <2> QED
    BY <1>1, <1>2, <2>1, GetHeld
<1>3. CASE Puts(e)
  <2>1. Head(todo[e]) \notin Leaves(e, failed[e], Muted(e))
    BY <1>3, PutFacts, Before DEF Shape, Apart
  <2> QED
    BY <1>1, <1>3, <2>1, PutHeld
<1>4. CASE Quiet(e)
  BY <1>1, <1>4, QuietSets
<1> QED
  BY <1>2, <1>3, <1>4 DEF Quiet

\* What the plan of an entity that is made or in use says of it.
LEMMA PlanNow ==
  ASSUME EntitiesInv, NEW e \in Entities, call[e] \in {"creating", "live", "adding", "dropping", "reopening"}
  PROVE  \E plan \in Plans(e, type[e]) :
           /\ PlanOf(e, plan)
           /\ \A b : b \notin Owed(call[e]) \cup {Graph} =>
                (b \in ToSet(plan) <=> b \in has[e] \cup ToGet(call[e], todo[e]))
<1>1. PICK plan \in Plans(e, type[e]) :
        has[e] \cup ToGet(call[e], todo[e]) \cup Owed(call[e]) = ToSet(plan) \cup {Graph} \cup Owed(call[e])
  BY Before DEF Whole
<1>2. PlanOf(e, plan)
  BY CreationPlans DEF EntitiesInv, Typed
<1> QED
  BY <1>1, <1>2

\* What a plan holds of topics and endpoints.
LEMMA PlanThings ==
  ASSUME NEW e, NEW plan, PlanOf(e, plan)
  PROVE  /\ Is(e, PubSub) => (Topic("channel") \in ToSet(plan) <=> Endpoint("channel") \in ToSet(plan))
         /\ package = "dynamic" /\ Is(e, PubSub) => Support("main") \in ToSet(plan)
         /\ package = "dynamic" /\ Is(e, Rpc) => {Support("request"), Support("response")} \subseteq ToSet(plan)
<1>1. ASSUME Is(e, PubSub)
      PROVE  /\ Topic("channel") \in ToSet(plan) <=> Endpoint("channel") \in ToSet(plan)
             /\ package = "dynamic" => Support("main") \in ToSet(plan)
  <2>1. PICK some \in SUBSET {"filter", "channel"} :
          ToSet(plan) = PubSubThings
            \cup (IF package = "dynamic" THEN {Support("main")} ELSE {})
            \cup (IF "filter" \in some THEN {Filter} ELSE {})
            \cup (IF "channel" \in some THEN {Topic("channel"), Endpoint("channel")} ELSE {})
    BY <1>1 DEF PlanOf
  <2>2. Topic("channel") \notin PubSubThings \cup {Support("main"), Filter}
        /\ Endpoint("channel") \notin PubSubThings \cup {Support("main"), Filter}
    BY SMT DEF PubSubThings
  <2> QED
    BY <2>1, <2>2
<1>2. ASSUME package = "dynamic", Is(e, Rpc)
      PROVE  {Support("request"), Support("response")} \subseteq ToSet(plan)
  BY <1>2 DEF PlanOf
<1> QED
  BY <1>1, <1>2

\* The channel of who could not enter the graph has both its topic and its endpoint.
Twins(f) == failed[f] = Graph => (Topic("channel") \in has[f] <=> Endpoint("channel") \in has[f])

\* Who fails to enter the graph has both the topic and the endpoint of its channel, or neither.
LEMMA GraphEnds ==
  ASSUME EntitiesInv, NEW e \in Entities, Fails(e), Head(todo[e]) = Graph
  PROVE  Topic("channel") \in has[e] <=> Endpoint("channel") \in has[e]
<1>1. todo[e] # <<>> /\ call[e] \in Gettings
  BY DEF Fails, Getting, Gettings, MayFail, At
<1>2. CASE ~Is(e, PubSub)
  <2>1. Topic("channel") \notin MayHave(e) /\ Endpoint("channel") \notin MayHave(e)
    BY <1>2, SMT DEF MayHave, Is, PubSub
  <2> QED
    BY <2>1, Before DEF Shape, Contents
<1>3. CASE Is(e, PubSub)
  <2>1. Topic("channel") \notin ToSet(todo[e]) /\ Endpoint("channel") \notin ToSet(todo[e])
    <3>1. CASE call[e] = "reopening"
      <4>1. ToSet(todo[e]) \subseteq {Graph, Endpoint("main"), Filter}
        BY <3>1, Before DEF Shape, Contents
      <4> QED
        BY <4>1, SMT
    <3>2. CASE call[e] = "creating"
      <4> DEFINE s == todo[e]
                 q == Tail(s)
      <4>1. s \in Seq(Steps) /\ s # <<>> /\ Gettable(e, "creating", s) /\ Graph = Head(s) /\ q = Tail(s)
        BY <1>1, <3>2, Before DEF Shape, Orderly
      <4> HIDE DEF s, q
      <4>2. \A b \in ToSet(q) : MayFollow(e, Graph, b)
        BY <4>1, GettableTail
      <4>3. ~Is(e, Rpc)
        BY <1>3 DEF Is, PubSub, Rpc
      <4>4. \A b \in ToSet(q) : FALSE
        BY <4>2, <4>3 DEF MayFollow
      <4>5. \A b : b \in ToSet(s) <=> b = Graph \/ b \in ToSet(q)
        BY <4>1, Tails DEF Splits
      <4>6. Topic("channel") # Graph /\ Endpoint("channel") # Graph
        BY SMT
      <4> QED
        BY <4>4, <4>5, <4>6 DEF s
    <3> QED
      BY <1>1, <3>1, <3>2 DEF Gettings
  <2>2. PICK plan \in Plans(e, type[e]) :
          /\ PlanOf(e, plan)
          /\ \A b : b \notin Owed(call[e]) \cup {Graph} =>
                (b \in ToSet(plan) <=> b \in has[e] \cup ToGet(call[e], todo[e]))
    BY <1>1, PlanNow DEF Gettings
  <2>3. {Topic("channel"), Endpoint("channel")} \cap (Owed(call[e]) \cup {Graph}) = {}
    BY <1>1, SMT DEF Owed, Gettings
  <2>4. {Topic("channel"), Endpoint("channel")} \cap ToGet(call[e], todo[e]) = {}
    BY <2>1 DEF ToGet
  <2>5. Topic("channel") \in ToSet(plan) <=> Endpoint("channel") \in ToSet(plan)
    BY <1>3, <2>2, PlanThings
  <2> QED
    BY <2>2, <2>3, <2>4, <2>5
<1> QED
  BY <1>2, <1>3

\* Twins is kept by every step.
LEMMA TwinsNext ==
  ASSUME EntitiesInv, NEW e \in Entities, EntityNext(e), NEW f \in Entities, Twins(f)
  PROVE  Twins(f)'
<1> SUFFICES ASSUME failed'[f] = Graph
             PROVE  Topic("channel") \in has'[f] <=> Endpoint("channel") \in has'[f]
  BY DEF Twins
<1>0. failed \in [Entities -> Steps \cup {Nothing}]
  BY DEF EntitiesInv, Typed
<1>1. CASE failed[f] = Graph
  <2>1. Graph # Nothing
    BY StepsApart
  <2>2. /\ \A b \in has[f] : b \in Leaves(f, failed[f], Muted(f)) => b \in has'[f]
        /\ \A b \in has'[f] : b \in has[f]
    BY <1>1, <2>1, ForgottenStays
  <2>3. CASE Is(f, PubSub)
    <3>1. {Topic("channel"), Endpoint("channel")} \subseteq Leaves(f, failed[f], Muted(f))
      BY <1>1, <2>3 DEF Leaves
    <3> QED
      BY <1>1, <2>2, <3>1 DEF Twins
  <2>4. CASE ~Is(f, PubSub)
    <3>1. Topic("channel") \notin MayHave(f) /\ Endpoint("channel") \notin MayHave(f)
      BY <2>4, SMT DEF MayHave, Is, PubSub
    <3> QED
      BY <2>2, <3>1, Before DEF Shape, Contents
  <2> QED
    BY <2>3, <2>4
<1>2. CASE failed[f] # Graph
  <2>1. Check # Graph
    BY StepsApart
  <2>2. Fails(e) /\ Quiet(e)
    BY <1>0, <1>2, <2>1, FailedNext
  <2>3. f = e /\ Head(todo[e]) = Graph
    BY <1>0, <1>2, <2>2 DEF Fails
  <2> QED
    BY <2>2, <2>3, GraphEnds, QuietSets
<1> QED
  BY <1>1, <1>2

\* A creation checks the types of its topics under the lock, before it uses them.
Checks(e) == call[e] = "creating" /\ Lock \in ToSet(todo[e]) => Check \in ToSet(todo[e])

\* Once it has checked, until it releases the lock, the topics it has yet to use have its types or none.
Compatible(e) ==
  call[e] = "creating" /\ Lock \notin ToSet(todo[e]) /\ Check \notin ToSet(todo[e]) =>
    \A x \in Slots \ {"channel"} :
      Topic(x) \in ToSet(todo[e]) => topics[TopicName(e, x)] \in {Nothing, TypeName(e, x)}

\* A topic has the type of its users, but for channels.
TopicTyped(e) ==
  \A x \in Slots \ {"channel"} : Topic(x) \in has[e] => topics[TopicName(e, x)] = TypeName(e, x)

\* What another entity has and has left to do.
LEMMA OthersStay ==
  ASSUME EntitiesInv, NEW e \in Entities, EntityNext(e), NEW f \in Entities \ {e}
  PROVE  call'[f] = call[f] /\ todo'[f] = todo[f] /\ type'[f] = type[f] /\ has'[f] = has[f]
<1>1. /\ call \in [Entities -> Calls] /\ todo \in [Entities -> Seq(Steps)]
      /\ type \in [Entities -> Types \cup {None}]
  BY DEF EntitiesInv, Typed
<1>2. has'[f] = has[f]
  BY HasNext
<1>3. CASE Gets(e) \/ Puts(e)
  BY <1>1, <1>2, <1>3, GetFacts, PutFacts
<1>4. CASE Create(e) \/ Destroy(e) \/ SetContentFilter(e) \/ Reopen(e) \/ Finish(e)
  BY <1>1, <1>2, <1>4 DEF Create, Destroy, SetContentFilter, Reopen, Finish
<1>5. CASE Skip(e) \/ TakeLock(e) \/ ReleaseLock(e) \/ FindAndCheck(e)
  BY <1>1, <1>2, <1>5 DEF Skip, TakeLock, ReleaseLock, FindAndCheck, Step
<1>6. CASE CreationFails(e) \/ GraphFails(e) \/ ReopenFails(e) \/ GiveUp(e) \/ Mute(e)
  BY <1>1, <1>2, <1>6 DEF CreationFails, GraphFails, ReopenFails, Return, GiveUp, Mute
<1> QED
  BY <1>3, <1>4, <1>5, <1>6 DEF EntityNext, Gets, Puts

\* The type of an entity changes only when it is created.
LEMMA TypeStays ==
  ASSUME EntitiesInv, NEW e \in Entities, EntityNext(e), NEW f \in Entities, has[f] # {}
  PROVE  type'[f] = type[f]
<1>1. CASE Gets(e) \/ Puts(e)
  BY <1>1, GetFacts, PutFacts
<1>2. CASE ~Gets(e) /\ ~Puts(e)
  BY <1>2, QuietStep
<1> QED
  BY <1>1, <1>2

\* A creation goes on.
LEMMA CreatingNext ==
  ASSUME EntitiesInv, NEW e \in Entities, EntityNext(e), call'[e] = "creating"
  PROVE  \/ Create(e)
         \/ /\ call[e] = "creating" /\ todo[e] # <<>> /\ todo'[e] = Tail(todo[e]) /\ type' = type
            /\ Lock \notin ToSet(todo'[e])
            /\ \A b : b \in ToSet(todo[e]) <=> b = Head(todo[e]) \/ b \in ToSet(todo'[e])
            /\ Head(todo[e]) = Check => FindAndCheck(e) /\ ~Incompatible(e)
<1> SUFFICES ASSUME ~Create(e)
             PROVE  /\ call[e] = "creating" /\ todo[e] # <<>> /\ todo'[e] = Tail(todo[e]) /\ type' = type
                    /\ Lock \notin ToSet(todo'[e])
                    /\ \A b : b \in ToSet(todo[e]) <=> b = Head(todo[e]) \/ b \in ToSet(todo'[e])
                    /\ Head(todo[e]) = Check => FindAndCheck(e) /\ ~Incompatible(e)
  OBVIOUS
<1>1. call \in [Entities -> Calls] /\ todo \in [Entities -> Seq(Steps)]
  BY DEF EntitiesInv, Typed
<1>2. ~Destroy(e) /\ ~SetContentFilter(e) /\ ~Reopen(e)
  BY <1>1, SMT DEF Destroy, SetContentFilter, Reopen
<1>3. ~Finish(e)
  BY <1>1, SMT DEF Finish, Returned
<1>4. ~CreationFails(e) /\ ~GraphFails(e) /\ ~ReopenFails(e) /\ ~GiveUp(e) /\ ~Mute(e)
  BY <1>1, SMT DEF CreationFails, GraphFails, ReopenFails, Return, GiveUp, Mute, Refusal
<1>5. ~Skip(e)
  BY <1>1 DEF Skip, Getting
<1>6. ~Puts(e)
  BY PutFacts DEF Gettings
<1>7. \/ Gets(e)
      \/ At(e, {"lock", "unlock"}) /\ Step(e) /\ call' = call
      \/ FindAndCheck(e) /\ Step(e) /\ call' = call /\ ~Incompatible(e) /\ At(e, {"check"})
  <2>1. Gets(e) \/ TakeLock(e) \/ ReleaseLock(e) \/ FindAndCheck(e)
    BY <1>2, <1>3, <1>4, <1>5, <1>6 DEF EntityNext, Gets, Puts
  <2>2. TakeLock(e) \/ ReleaseLock(e) => At(e, {"lock", "unlock"}) /\ Step(e) /\ call' = call
    BY DEF TakeLock, ReleaseLock, At
  <2>3. FindAndCheck(e) => Step(e) /\ call' = call /\ ~Incompatible(e) /\ At(e, {"check"})
    BY <1>1 DEF FindAndCheck
  <2> QED
    BY <2>1, <2>2, <2>3
<1>8. call[e] = "creating" /\ todo[e] # <<>> /\ todo'[e] = Tail(todo[e]) /\ type' = type
  BY <1>1, <1>7, GetFacts DEF Step, At
<1>9. Head(todo[e]) = Check => FindAndCheck(e) /\ ~Incompatible(e)
  <2>1. Check[1] = "check" /\ Check \notin Things
    BY StepsApart
  <2>2. Gets(e) => Head(todo[e]) \in Things
    BY GetFacts
  <2> QED
    BY <1>7, <2>1, <2>2 DEF At
<1> DEFINE s == todo[e]
           q == Tail(s)
<1>10. s \in Seq(Steps) /\ s # <<>> /\ Gettable(e, "creating", s) /\ q = Tail(s)
  BY <1>8, Before DEF Shape, Orderly, Gettings
<1> HIDE DEF s, q
<1>11. Lock \notin ToSet(q)
  BY <1>10, GettableTail DEF MayFollow
<1>12. \A b : b \in ToSet(s) <=> b = Head(s) \/ b \in ToSet(q)
  BY <1>10, Tails DEF Splits
<1> QED
  BY <1>8, <1>9, <1>11, <1>12 DEF s, q

\* Who uses a topic in its creation holds the lock and has checked.
LEMMA UserHolds ==
  ASSUME EntitiesInv, NEW e \in Entities, call[e] = "creating", NEW x \in Slots, Topic(x) \in ToSet(todo[e])
  PROVE  /\ Lock \notin ToSet(todo[e]) => lock = e
         /\ Head(todo[e]) = Topic(x) => Lock \notin ToSet(todo[e]) /\ Check \notin ToSet(todo[e])
<1> DEFINE s == todo[e]
           q == Tail(s)
<1>1. s \in Seq(Steps) /\ Gettable(e, "creating", s) /\ q = Tail(s) /\ Guarded(s, Critical(e, "creating"))
      /\ (lock = e <=> LockOf(s))
  BY Before DEF Shape, Orderly, Gettings
<1>2. s # <<>>
  BY SMT DEF ToSet
<1>3. Topic(x) \in Critical(e, "creating")
  <2>1. Topic(x) \in Things /\ Topic(x) # Graph
    BY SMT DEF Things
  <2> QED
    BY <2>1 DEF Critical
<1>4. Topic(x) \in ToSet(s)
  OBVIOUS
<1> HIDE DEF s, q
<1>5. Unlock \in ToSet(s)
  <2>1. DOMAIN s = 1..Len(s)
    BY <1>1, SMT
  <2>2. PICK i \in 1..Len(s) : s[i] = Topic(x)
    BY <1>4, <2>1 DEF ToSet
  <2> QED
    BY <1>1, <1>3, <2>2 DEF Guarded
<1>6. ASSUME Head(s) = Topic(x) PROVE Lock \notin ToSet(s) /\ Check \notin ToSet(s)
  <2>1. \A b \in ToSet(q) : MayFollow(e, Topic(x), b)
    BY <1>1, <1>2, <1>6, GettableTail
  <2>2. Topic(x) # Lock /\ Topic(x) # Check
    BY SMT
  <2>3. \A b : b \in ToSet(s) <=> b = Topic(x) \/ b \in ToSet(q)
    BY <1>1, <1>2, <1>6, Tails DEF Splits
  <2> QED
    BY <2>1, <2>2, <2>3 DEF MayFollow
<1> QED
  BY <1>1, <1>5, <1>6 DEF s, LockOf

\* What a creation begins with.
LEMMA CreateLocks ==
  ASSUME EntitiesInv, NEW e \in Entities, Create(e)
  PROVE  Lock \in ToSet(todo'[e]) /\ Check \in ToSet(todo'[e])
<1>1. PICK t \in Types : \E plan \in Plans(e, t) : todo' = [todo EXCEPT ![e] = CreationSteps(e, plan)]
  BY DEF Create, CreationSteps
<1>2. PICK plan \in Plans(e, t) : todo'[e] = CreationSteps(e, plan)
  BY <1>1 DEF EntitiesInv, Typed
<1>3. PlanOf(e, plan)
  BY CreationPlans DEF EntitiesInv, Typed
<1> QED
  BY <1>2, <1>3, CreationSorted DEF PlanOf

\* Checks is kept by every step.
LEMMA ChecksNext ==
  ASSUME EntitiesInv, NEW e \in Entities, EntityNext(e), NEW f \in Entities, Checks(f)
  PROVE  Checks(f)'
<1>1. CASE f # e
  BY <1>1, OthersStay DEF Checks
<1>2. CASE f = e
  BY <1>2, CreatingNext, CreateLocks DEF Checks
<1> QED
  BY <1>1, <1>2

\* The lock keeps what the check has found.
LEMMA CompatibleNext ==
  ASSUME EntitiesInv, SharedTyped, TypeKnown, Counted, crashed = None, NEW e \in Entities, EntityNext(e),
         NEW f \in Entities, Checks(f), Compatible(f)
  PROVE  Compatible(f)'
<1> SUFFICES ASSUME call'[f] = "creating", Lock \notin ToSet(todo'[f]), Check \notin ToSet(todo'[f]),
                    NEW y \in Slots \ {"channel"}, Topic(y) \in ToSet(todo'[f])
             PROVE  topics'[TopicName(f, y)] \in {Nothing, TypeName(f, y)'}
  BY DEF Compatible, TopicName
<1> SUFFICES ASSUME NEW x, x = Slot(e), NEW n, n = TopicName(e, x), NEW t, t = TypeName(e, x),
                    NEW k, k = TopicName(f, y)
             PROVE  topics'[k] \in {Nothing, TypeName(f, y)'}
  OBVIOUS
<1>1. k \in Names
  BY NamesOf
<1>2. CASE f # e
  <2>1. call[f] = "creating" /\ todo'[f] = todo[f] /\ TypeName(f, y)' = TypeName(f, y)
    BY <1>2, OthersStay DEF TypeName
  <2>2. topics[k] \in {Nothing, TypeName(f, y)}
    BY <2>1 DEF Compatible
  <2>3. lock = f
    BY <2>1, UserHolds
  <2>4. ~FindOrCreateTopic(e)
    <3> SUFFICES ASSUME FindOrCreateTopic(e) PROVE FALSE
      OBVIOUS
    <3>1. Gets(e) /\ Head(todo[e]) = Topic(x) /\ x \in Slots /\ call[e] = "creating"
      BY FindFacts DEF TopicUsed
    <3>2. Topic(x) \in ToSet(todo[e])
      BY <3>1, GetFacts
    <3> QED
      BY <1>2, <2>3, <3>1, <3>2, UserHolds
  <2>5. topics'[k] = topics[k] \/ topics'[k] = Nothing
    <3>1. CASE DeleteTopic(e)
      <4>1. TopicLeft(e, x, n)
        BY <3>1, DeleteFacts
      <4> QED
        BY <1>1, <4>1 DEF TopicLeft
    <3> QED
      BY <2>4, <3>1, TopicsAlone
  <2> QED
    BY <2>1, <2>2, <2>5
<1>3. CASE f = e
  <2>1. /\ call[e] = "creating" /\ todo[e] # <<>> /\ todo'[e] = Tail(todo[e]) /\ type' = type
        /\ \A b : b \in ToSet(todo[e]) <=> b = Head(todo[e]) \/ b \in ToSet(todo'[e])
        /\ Head(todo[e]) = Check => FindAndCheck(e) /\ ~Incompatible(e)
    BY <1>3, CreatingNext, CreateLocks
  <2>2. TypeName(f, y)' = TypeName(e, y)
    BY <1>3, <2>1 DEF TypeName
  <2>3. CASE Head(todo[e]) = Check
    <3>1. ~Incompatible(e) /\ topics' = topics
      BY <2>1, <2>3 DEF FindAndCheck, sharedVars
    <3>2. PICK plan \in Plans(e, type[e]) :
            \A b : b \notin Owed(call[e]) \cup {Graph} =>
              (b \in ToSet(plan) <=> b \in has[e] \cup ToGet(call[e], todo[e]))
      BY <2>1, PlanNow
    <3>3. Topic(y) \in ToGet(call[e], todo[e])
      <4>1. Topic(y) \in Things
        BY DEF Things
      <4> QED
        BY <1>3, <2>1, <4>1 DEF ToGet, Gettings
    <3>4. Topic(y) \notin Owed(call[e]) \cup {Graph}
      BY <2>1, SMT DEF Owed
    <3>5. Topic(y) \in ToSet(plan)
      BY <3>2, <3>3, <3>4
    <3>6. Topic(y) \in UNION {ToSet(p) : p \in Plans(e, type[e])}
      BY <3>5
    <3> QED
      BY <1>3, <2>2, <3>1, <3>6, Zenon DEF Incompatible
  <2>4. CASE Head(todo[e]) # Check
    <3>1. Check \notin ToSet(todo[e]) /\ Lock \notin ToSet(todo[e])
      <4>1. Check \notin ToSet(todo[e])
        BY <1>3, <2>1, <2>4
      <4> QED
        BY <1>3, <2>1, <4>1 DEF Checks
    <3>2. topics[k] \in {Nothing, TypeName(e, y)}
      BY <1>3, <2>1, <3>1 DEF Compatible
    <3>3. CASE FindOrCreateTopic(e)
      <4>1. TopicUsed(e, x, n, t)
        BY <3>3, FindFacts
      <4>2. CASE k = n
        <5>1. x = y
          BY <1>3, <4>2 DEF TopicName
        <5> QED
          BY <2>2, <3>2, <4>1, <4>2, <5>1 DEF TopicUsed
      <4>3. CASE k # n
        BY <1>1, <2>2, <3>2, <4>1, <4>3 DEF TopicUsed
      <4> QED
        BY <4>2, <4>3
    <3>4. CASE ~FindOrCreateTopic(e)
      <4>1. ~DeleteTopic(e)
        BY <2>1, DeleteFacts, PutFacts DEF TopicLeft, Gettings
      <4> QED
        BY <2>2, <3>2, <3>4, <4>1, TopicsAlone
    <3> QED
      BY <3>3, <3>4
  <2> QED
    BY <2>3, <2>4
<1> QED
  BY <1>2, <1>3

\* Who has a topic now and had it not has just found or created it.
LEMMA TopicGot ==
  ASSUME EntitiesInv, NEW e \in Entities, EntityNext(e), NEW f \in Entities, NEW y \in Slots,
         Topic(y) \in has'[f], Topic(y) \notin has[f]
  PROVE  Gets(e) /\ f = e /\ Head(todo[e]) = Topic(y) /\ FindOrCreateTopic(e) /\ Slot(e) = y
<1>1. Gets(e) /\ f = e /\ Head(todo[e]) = Topic(y)
  BY GetHeld, PutHeld, QuietSets DEF Quiet
<1>2. FindOrCreateTopic(e)
  <2>1. Head(todo[e])[1] = "topic" /\ Head(todo[e])[2] = y
    BY <1>1
  <2>2. GetSupport(e) => At(e, {"support"})
    BY DEF GetSupport
  <2>3. GetType(e) => At(e, {"type"})
    BY DEF GetType
  <2>4. GetEndpoint(e) => At(e, {"endpoint"})
    BY DEF GetEndpoint
  <2>5. GetOwn(e) => At(e, Own)
    BY DEF GetOwn
  <2>6. ~At(e, {"support"}) /\ ~At(e, {"type"}) /\ ~At(e, {"endpoint"}) /\ ~At(e, Own)
    BY <2>1, SMT DEF At, Own
  <2> QED
    BY <1>1, <2>1, <2>2, <2>3, <2>4, <2>5, <2>6 DEF Gets
<1> QED
  BY <1>1, <1>2 DEF Slot

\* TopicTyped is kept by every step.
LEMMA TopicTypedNext ==
  ASSUME EntitiesInv, SharedTyped, TypeKnown, Counted, crashed = None, NEW e \in Entities, EntityNext(e),
         NEW f \in Entities, Compatible(f), TopicTyped(f)
  PROVE  TopicTyped(f)'
<1> SUFFICES ASSUME NEW y \in Slots \ {"channel"}, Topic(y) \in has'[f]
             PROVE  topics'[TopicName(f, y)] = TypeName(f, y)'
  BY DEF TopicTyped, TopicName
<1> SUFFICES ASSUME NEW x, x = Slot(e), NEW n, n = TopicName(e, x), NEW t, t = TypeName(e, x),
                    NEW k, k = TopicName(f, y)
             PROVE  topics'[k] = TypeName(f, y)'
  OBVIOUS
<1>1. k \in Names
  BY NamesOf
<1>2. CASE Topic(y) \in has[f]
  <2>1. TypeName(f, y)' = TypeName(f, y) /\ type[f] \in Types
    BY <1>2, TypeStays, TypedNow DEF TypeName
  <2>2. topics[k] = TypeName(f, y) /\ topics[k] # Nothing
    BY <1>2, <2>1, NamesOf DEF TopicTyped
  <2>3. CASE FindOrCreateTopic(e)
    <3>1. TopicUsed(e, x, n, t)
      BY <2>3, FindFacts
    <3> QED
      BY <1>1, <2>1, <2>2, <3>1 DEF TopicUsed
  <2>4. CASE DeleteTopic(e)
    <3>1. TopicLeft(e, x, n)
      BY <2>4, DeleteFacts
    <3>2. <<f, y>> # <<e, x>>
      BY <3>1, PutHeld DEF TopicLeft
    <3>3. k = n => <<f, y>> \in Users(n)
      BY <1>2, UserOf
    <3>4. topics'[k] = topics[k]
      BY <1>1, <3>1, <3>2, <3>3 DEF TopicLeft
    <3> QED
      BY <2>1, <2>2, <3>4
  <2>5. CASE ~FindOrCreateTopic(e) /\ ~DeleteTopic(e)
    BY <2>1, <2>2, <2>5, TopicsAlone
  <2> QED
    BY <2>3, <2>4, <2>5
<1>3. CASE Topic(y) \notin has[f]
  <2>1. Gets(e) /\ f = e /\ Head(todo[e]) = Topic(y) /\ FindOrCreateTopic(e) /\ x = y
    BY <1>3, TopicGot
  <2>3. TopicUsed(e, x, n, t)
    BY <2>1, FindFacts
  <2>4. Topic(y) \in ToSet(todo[e]) /\ type' = type /\ call[e] = "creating"
    BY <2>1, <2>3, GetFacts DEF TopicUsed
  <2>5. Lock \notin ToSet(todo[e]) /\ Check \notin ToSet(todo[e])
    BY <2>1, <2>4, UserHolds
  <2>6. topics[k] \in {Nothing, t} /\ k = n /\ TypeName(f, y)' = t
    BY <2>1, <2>4, <2>5 DEF Compatible, TypeName
  <2> QED
    BY <2>3, <2>6 DEF TopicUsed
<1> QED
  BY <1>2, <1>3

\* A channel has the type of its users too, unless it was made before them by who could not enter
\* the graph.
Strayed(n) ==
  \E f \in Entities : failed[f] = Graph /\ Topic("channel") \in has[f] /\ TopicName(f, "channel") = n

\* A channel has the type of its users, or one who strayed has kept it.
ChannelTyped(e) ==
  Topic("channel") \in has[e] =>
    \/ topics[TopicName(e, "channel")] = TypeName(e, "channel")
    \/ Strayed(TopicName(e, "channel"))

\* Who has something of a channel publishes or subscribes.
LEMMA ChannelsOf ==
  ASSUME EntitiesInv, NEW e \in Entities, Topic("channel") \in has[e] \/ Endpoint("channel") \in has[e]
  PROVE  Is(e, PubSub)
<1>1. has[e] \subseteq MayHave(e)
  BY Before DEF Shape, Contents
<1>2. ~Is(e, PubSub) => Topic("channel") \notin MayHave(e) /\ Endpoint("channel") \notin MayHave(e)
  BY SMT DEF MayHave, Is, PubSub
<1> QED
  BY <1>1, <1>2

\* Who strayed keeps the channel.
LEMMA StrayedNext ==
  ASSUME EntitiesInv, NEW e \in Entities, EntityNext(e), NEW n, Strayed(n)
  PROVE  Strayed(n)'
<1>1. PICK f \in Entities : failed[f] = Graph /\ Topic("channel") \in has[f] /\ TopicName(f, "channel") = n
  BY DEF Strayed
<1>2. Topic("channel") \in Leaves(f, failed[f], Muted(f)) /\ failed[f] # Nothing
  BY <1>1, ChannelsOf, StepsApart DEF Leaves
<1>3. failed'[f] = Graph /\ Topic("channel") \in has'[f]
  BY <1>1, <1>2, ForgottenStays
<1> QED
  BY <1>1, <1>3 DEF Strayed, TopicName

\* A channel that exists has users.
LEMMA ChannelUsed ==
  ASSUME EntitiesInv, SharedTyped, Counted, TopicsKept, crashed = None, \A g \in Entities : Twins(g),
         NEW e \in Entities, NEW k, k = TopicName(e, "channel"), topics[k] # Nothing
  PROVE  \E g \in Entities : Topic("channel") \in has[g] /\ TopicName(g, "channel") = k
<1>0. k \in Names /\ "channel" \in Slots
  BY NamesOf DEF Slots
<1>1. CASE uses[k] # 0
  <2>1. uses[k] = Cardinality(Users(k))
    BY <1>0, UsersCount
  <2>2. Users(k) # {}
    BY <1>1, <2>1, FS_EmptySet
  <2>3. PICK u \in Entities \X Slots : Topic(u[2]) \in has[u[1]] /\ TopicName(u[1], u[2]) = k
    BY <2>2 DEF Users
  <2>4. u[2] = "channel"
    BY <2>3 DEF TopicName
  <2> QED
    BY <2>3, <2>4
<1>2. CASE uses[k] = 0
  <2>1. ReferredTo(k) /\ Users(k) = {}
    BY <1>0, <1>2, UsersCount DEF TopicsKept
  <2>2. PICK g \in Entities, z \in Slots : TopicName(g, z) = k /\ Refers(g, z)
    BY <2>1, ReferredBy
  <2>3. z = "channel" /\ Endpoint("channel") \in has[g]
    BY <2>2 DEF TopicName, Refers
  <2>4. Is(g, PubSub)
    BY <2>3, ChannelsOf
  <2>5. Topic("channel") \in has[g]
    <3>1. Needs(Endpoint("channel"), Topic("channel")) /\ Topic("channel") \in Things
      BY SMT DEF Needs, Things, Slots
    <3>2. Topic("channel") \in has[g] \/ Endpoint("channel") \in Leaves(g, failed[g], Muted(g))
      BY <2>3, <3>1, Before DEF Shape, Closed
    <3>3. Muted(g) = {}
      BY <2>4, Before DEF Shape, Course, Is, PubSub, Rpc
    <3>4. Endpoint("channel") # Filter
      BY SMT
    <3>5. Endpoint("channel") \in Leaves(g, failed[g], Muted(g)) => failed[g] = Graph
      BY <3>3, <3>4 DEF Leaves
    <3> QED
      BY <2>3, <3>2, <3>5 DEF Twins
  <2> QED
    BY <2>2, <2>3, <2>5
<1> QED
  BY <1>1, <1>2

\* Users of one channel have one type.
LEMMA OneType ==
  ASSUME EntitiesInv, NEW e \in Entities, NEW g \in Entities, TopicTyped(e), TopicTyped(g),
         Topic("main") \in has[e], Topic("main") \in has[g], TopicName(e, "channel") = TopicName(g, "channel")
  PROVE  TypeName(e, "channel") = TypeName(g, "channel")
<1>1. TopicName(e, "main") = TopicName(g, "main")
  BY DEF TopicName
<1>2. "main" \in Slots \ {"channel"}
  BY DEF Slots
<1>3. TypeName(e, "main") = TypeName(g, "main")
  BY <1>1, <1>2 DEF TopicTyped
<1> QED
  BY <1>3 DEF TypeName

\* ChannelTyped is kept by every step.
LEMMA ChannelTypedNext ==
  ASSUME EntitiesInv, SharedTyped, TypeKnown, Counted, TopicsKept, crashed = None,
         \A g \in Entities : Twins(g) /\ TopicTyped(g) /\ ChannelTyped(g),
         NEW e \in Entities, EntityNext(e), NEW f \in Entities
  PROVE  ChannelTyped(f)'
<1> SUFFICES ASSUME Topic("channel") \in has'[f], ~Strayed(TopicName(f, "channel"))'
             PROVE  topics'[TopicName(f, "channel")] = TypeName(f, "channel")'
  BY DEF ChannelTyped, TopicName
<1> SUFFICES ASSUME NEW x, x = Slot(e), NEW n, n = TopicName(e, x), NEW t, t = TypeName(e, x),
                    NEW k, k = TopicName(f, "channel")
             PROVE  topics'[k] = TypeName(f, "channel")'
  OBVIOUS
<1>1. k \in Names /\ "channel" \in Slots
  BY NamesOf DEF Slots
<1>2. ~Strayed(k)
  <2>1. Strayed(k) => Strayed(k)'
    BY StrayedNext
  <2> QED
    BY <2>1 DEF TopicName
<1>3. CASE Topic("channel") \in has[f]
  <2>1. TypeName(f, "channel")' = TypeName(f, "channel") /\ type[f] \in Types
    BY <1>3, TypeStays, TypedNow DEF TypeName
  <2>2. topics[k] = TypeName(f, "channel") /\ topics[k] # Nothing
    BY <1>1, <1>2, <1>3, <2>1, NamesOf DEF ChannelTyped
  <2>3. CASE FindOrCreateTopic(e)
    <3>1. TopicUsed(e, x, n, t)
      BY <2>3, FindFacts
    <3> QED
      BY <1>1, <2>1, <2>2, <3>1 DEF TopicUsed
  <2>4. CASE DeleteTopic(e)
    <3>1. TopicLeft(e, x, n)
      BY <2>4, DeleteFacts
    <3>2. <<f, "channel">> # <<e, x>>
      BY <3>1, PutHeld DEF TopicLeft
    <3>3. k = n => <<f, "channel">> \in Users(n)
      BY <1>1, <1>3, UserOf
    <3>4. topics'[k] = topics[k]
      BY <1>1, <3>1, <3>2, <3>3 DEF TopicLeft
    <3> QED
      BY <2>1, <2>2, <3>4
  <2>5. CASE ~FindOrCreateTopic(e) /\ ~DeleteTopic(e)
    BY <2>1, <2>2, <2>5, TopicsAlone
  <2> QED
    BY <2>3, <2>4, <2>5
<1>4. CASE Topic("channel") \notin has[f]
  <2>1. Gets(e) /\ f = e /\ FindOrCreateTopic(e) /\ x = "channel"
    BY <1>1, <1>4, TopicGot
  <2>2. TopicUsed(e, x, n, t) /\ k = n
    BY <2>1, FindFacts
  <2>3. TypeName(f, "channel")' = t
    BY <2>1, GetFacts DEF TypeName
  <2>4. CASE topics[k] = Nothing
    BY <2>2, <2>3, <2>4 DEF TopicUsed
  <2>5. CASE topics[k] # Nothing
    <3>1. PICK g \in Entities : Topic("channel") \in has[g] /\ TopicName(g, "channel") = k
      BY <2>5, ChannelUsed
    <3>2. topics[k] = TypeName(g, "channel") /\ failed[g] # Graph
      BY <1>2, <3>1 DEF ChannelTyped, Strayed
    <3>3. Needs(Topic("channel"), Topic("main")) /\ Topic("main") \in Things
      BY SMT DEF Needs, Things, Slots
    <3>4. Topic("main") \in has[e]
      BY <2>1, <2>2, <3>3, GetFacts DEF TopicUsed
    <3>5. Topic("main") \in has[g]
      <4>1. Topic("channel") \notin Leaves(g, failed[g], Muted(g))
        BY <3>2, SMT DEF Leaves
      <4> QED
        BY <3>1, <3>3, <4>1, Before DEF Shape, Closed
    <3>6. TypeName(g, "channel") = t
      BY <2>1, <3>1, <3>4, <3>5, OneType
    <3> QED
      BY <2>2, <2>3, <2>5, <3>2, <3>6 DEF TopicUsed
  <2> QED
    BY <2>4, <2>5
<1> QED
  BY <1>3, <1>4

------------------------------------------------------------------------------
(***************************************************************************)
(* Types.                                                                  *)
(***************************************************************************)
\* No endpoint lacks its type, and a type is registered only as long as someone keeps it.
EndpointTyped(e) == \A x \in Slots : Endpoint(x) \in has[e] => topics[TopicName(e, x)] \in types

\* An entity keeps a type: it registered it, or an endpoint of it uses a topic of the type.
Keeps(e, x, t) ==
  \/ Type(x) \in has[e] /\ TypeName(e, x) = t
  \/ Endpoint(x) \in has[e] /\ topics[TopicName(e, x)] = t

\* Every registered type is kept by an entity.
TypesKept == \A t \in types : \E f \in Entities : \E x \in Slots : Keeps(f, x, t)

\* EndpointTyped and TypesKept are what the property says of types.
LEMMA KeptTypes ==
  TypesKept /\ (\A e \in Entities : EndpointTyped(e)) <=> TypesWhileUsed
<1>1. ASSUME NEW t
      PROVE  HoldersOf("type", t) # {} \/ InUse(t) <=> \E f \in Entities : \E x \in Slots : Keeps(f, x, t)
  <2>1. ASSUME NEW f \in Entities, NEW x \in Slots, Type(x) \in has[f], TypeName(f, x) = t
        PROVE  HoldersOf("type", t) # {}
    <3>1. <<f, x>> \in HoldersOf("type", t)
      BY <2>1 DEF HoldersOf
    <3> QED
      BY <3>1
  <2>2. ASSUME HoldersOf("type", t) # {}
        PROVE  \E f \in Entities : \E x \in Slots : Type(x) \in has[f] /\ TypeName(f, x) = t
    BY <2>2 DEF HoldersOf
  <2> QED
    BY <2>1, <2>2, Zenon DEF InUse, Keeps
<1> QED
  BY <1>1, Zenon DEF TypesKept, EndpointTyped, TypesWhileUsed

\* Who has an endpoint now and had it not has just created it.
LEMMA EndpointGot ==
  ASSUME EntitiesInv, NEW e \in Entities, EntityNext(e), NEW f \in Entities, NEW y \in Slots,
         Endpoint(y) \in has'[f], Endpoint(y) \notin has[f]
  PROVE  f = e /\ Head(todo[e]) = Endpoint(y) /\ GetEndpoint(e) /\ Slot(e) = y
<1>1. Gets(e) /\ f = e /\ Head(todo[e]) = Endpoint(y)
  BY GetHeld, PutHeld, QuietSets DEF Quiet
<1>2. Having("endpoint")' # Having("endpoint")
  <2>1. <<f, y>> \in Having("endpoint")' /\ <<f, y>> \notin Having("endpoint")
    BY DEF Having
  <2> QED
    BY <2>1
<1>3. GetEndpoint(e) \/ PutEndpoint(e)
  BY <1>1, <1>2, OthersHave
<1>4. ~PutEndpoint(e)
  BY PutHeld DEF Puts
<1> QED
  BY <1>1, <1>3, <1>4 DEF Slot

\* A topic in use by an endpoint keeps its type.
LEMMA TypeOfUsed ==
  ASSUME EntitiesInv, SharedTyped, TypeKnown, Counted, crashed = None, NEW e \in Entities, EntityNext(e),
         NEW f \in Entities, NEW y \in Slots, Endpoint(y) \in has[f], topics[TopicName(f, y)] # Nothing
  PROVE  topics'[TopicName(f, y)] = topics[TopicName(f, y)]
<1> SUFFICES ASSUME NEW x, x = Slot(e), NEW n, n = TopicName(e, x), NEW t, t = TypeName(e, x),
                    NEW k, k = TopicName(f, y)
             PROVE  topics'[k] = topics[k]
  OBVIOUS
<1>1. k \in Names
  BY NamesOf
<1>2. CASE FindOrCreateTopic(e)
  <2>1. TopicUsed(e, x, n, t)
    BY <1>2, FindFacts
  <2> QED
    BY <1>1, <2>1 DEF TopicUsed
<1>3. CASE DeleteTopic(e)
  <2>1. TopicLeft(e, x, n)
    BY <1>3, DeleteFacts
  <2>2. ReferredTo(k)
    BY ReferredBy DEF Refers
  <2> QED
    BY <1>1, <2>1, <2>2 DEF TopicLeft
<1>4. CASE ~FindOrCreateTopic(e) /\ ~DeleteTopic(e)
  BY <1>4, TopicsAlone
<1> QED
  BY <1>2, <1>3, <1>4

\* Only registering and unregistering changes the registered types.
LEMMA TypesAlone ==
  ASSUME EntitiesInv, NEW e \in Entities, EntityNext(e), ~GetType(e), ~PutType(e)
  PROVE  types' = types
<1>1. CASE Gets(e) \/ Puts(e)
  BY <1>1 DEF Gets, Puts, GetSupport, PutSupport, GetEndpoint, PutEndpoint, GetOwn, PutOwn,
              FindOrCreateTopic, DeleteTopic, sharedVars
<1>2. CASE Quiet(e)
  BY <1>2, QuietSets DEF sharedVars
<1> QED
  BY <1>1, <1>2 DEF Quiet

\* No type is called Nothing.
LEMMA NothingUntyped == Nothing \notin TypeNames
<1>1. ASSUME NEW t \in Types, NEW x PROVE <<t, x>> # Nothing
  BY EntityAssumption DEF Nothing
<1> QED
  BY <1>1 DEF TypeNames

\* EndpointTyped is kept by every step.
LEMMA EndpointTypedNext ==
  ASSUME EntitiesInv, SharedTyped, TypeKnown, Counted, crashed = None, NEW e \in Entities, EntityNext(e),
         NEW f \in Entities, EndpointTyped(f)
  PROVE  EndpointTyped(f)'
<1> SUFFICES ASSUME NEW y \in Slots, Endpoint(y) \in has'[f]
             PROVE  topics'[TopicName(f, y)] \in types'
  BY DEF EndpointTyped, TopicName
<1>1. CASE Endpoint(y) \in has[f]
  <2>1. topics[TopicName(f, y)] \in types
    BY <1>1 DEF EndpointTyped
  <2>2. topics[TopicName(f, y)] # Nothing
    BY <2>1, NothingUntyped DEF SharedTyped
  <2>3. topics'[TopicName(f, y)] = topics[TopicName(f, y)]
    BY <1>1, <2>2, TypeOfUsed
  <2>4. InUse(topics[TopicName(f, y)])
    BY <1>1 DEF InUse
  <2>5. topics[TopicName(f, y)] \in types'
    <3>1. CASE PutType(e)
      <4>1. types' = types \/ \E t : types' = types \ {t} /\ ~InUse(t)
        BY <3>1 DEF PutType
      <4> QED
        BY <2>1, <2>4, <4>1
    <3>2. CASE GetType(e)
      BY <2>1, <3>2 DEF GetType
    <3>3. CASE ~GetType(e) /\ ~PutType(e)
      BY <2>1, <3>3, TypesAlone
    <3> QED
      BY <3>1, <3>2, <3>3
  <2> QED
    BY <2>3, <2>5
<1>2. CASE Endpoint(y) \notin has[f]
  <2>1. f = e /\ GetEndpoint(e) /\ Slot(e) = y
    BY <1>2, EndpointGot
  <2> QED
    BY <2>1 DEF GetEndpoint, Creatable, sharedVars
<1> QED
  BY <1>1, <1>2

\* Who deletes an endpoint still has its type, or its channel belongs to who strayed.
LEMMA KeptWithout ==
  ASSUME EntitiesInv, \A g \in Entities : Twins(g) /\ TopicTyped(g) /\ ChannelTyped(g),
         NEW e \in Entities, EntityNext(e), Puts(e), NEW x \in Slots, Head(todo[e]) = Endpoint(x),
         Endpoint(x) \in has[e], NEW t, topics[TopicName(e, x)] = t
  PROVE  \/ \E z \in Slots : Type(z) \in has[e] /\ TypeName(e, z) = t
         \/ \E g \in Entities \ {e} : Endpoint("channel") \in has[g] /\ topics[TopicName(g, "channel")] = t
<1>1. \A b \in Things : Needs(Endpoint(x), b) => b \in has[e]
  BY PutFacts
<1>2. /\ Topic(x) \in Things /\ Type(x) \in Things /\ Type("main") \in Things
      /\ "main" \in Slots /\ "channel" \in Slots
  BY DEF Things, Slots
<1>3. CASE x # "channel"
  <2>1. Needs(Endpoint(x), Topic(x)) /\ Needs(Endpoint(x), Type(x))
    BY <1>3, SMT DEF Needs
  <2>2. Topic(x) \in has[e] /\ Type(x) \in has[e]
    BY <1>1, <1>2, <2>1, Zenon
  <2>3. TypeName(e, x) = t
    BY <1>3, <2>2 DEF TopicTyped
  <2> QED
    BY <2>2, <2>3
<1>4. CASE x = "channel"
  <2>1. Needs(Endpoint(x), Topic(x)) /\ Needs(Endpoint(x), Type("main"))
    BY <1>4, SMT DEF Needs
  <2>2. Topic(x) \in has[e] /\ Type("main") \in has[e]
    BY <1>1, <1>2, <2>1, Zenon
  <2>3. CASE topics[TopicName(e, x)] = TypeName(e, "channel")
    <3>1. TypeName(e, "main") = t
      BY <2>3 DEF TypeName
    <3> QED
      BY <1>2, <2>2, <3>1
  <2>4. CASE Strayed(TopicName(e, x))
    <3>1. PICK g \in Entities :
            failed[g] = Graph /\ Topic("channel") \in has[g] /\ TopicName(g, "channel") = TopicName(e, x)
      BY <2>4 DEF Strayed
    <3>2. Endpoint("channel") \in has[g]
      BY <3>1 DEF Twins
    <3>3. Endpoint("channel") \in Leaves(g, failed[g], Muted(g))
      BY <3>1, ChannelsOf DEF Leaves
    <3>4. g # e
      BY <1>4, <3>3, PutFacts, Before DEF Shape, Apart
    <3> QED
      BY <3>1, <3>2, <3>4
  <2> QED
    BY <1>4, <2>2, <2>3, <2>4 DEF ChannelTyped
<1> QED
  BY <1>3, <1>4

\* TypesKept is kept by every step.
LEMMA TypesKeptNext ==
  ASSUME EntitiesInv, SharedTyped, TypeKnown, Counted, crashed = None, TypesKept,
         \A g \in Entities : Twins(g) /\ TopicTyped(g) /\ ChannelTyped(g),
         NEW e \in Entities, EntityNext(e)
  PROVE  TypesKept'
<1> SUFFICES ASSUME NEW t \in types'
             PROVE  \E f \in Entities : \E x \in Slots : Keeps(f, x, t)'
  BY DEF TypesKept
<1>1. CASE t \notin types
  <2>1. GetType(e) /\ t = TypeName(e, Slot(e))
    <3>1. ~PutType(e)
      BY <1>1 DEF PutType
    <3>2. GetType(e)
      BY <1>1, <3>1, TypesAlone
    <3> QED
      BY <1>1, <3>2 DEF GetType
  <2>2. Gets(e) /\ Head(todo[e]) = Type(Slot(e)) /\ Slot(e) \in Slots
    BY <2>1, Abouts DEF GetType, Gets
  <2>3. type' = type /\ Type(Slot(e)) \in has'[e]
    BY <2>2, GetFacts, GetHeld
  <2>4. PICK x \in Slots : x = Slot(e)
    BY <2>2
  <2>5. Keeps(e, x, t)'
    BY <2>1, <2>3, <2>4 DEF Keeps, TypeName
  <2> QED
    BY <2>5
<1>2. CASE t \in types
  <2>0. t # Nothing
    BY <1>2, NothingUntyped DEF SharedTyped
  <2>1. PICK f \in Entities : \E x \in Slots : Keeps(f, x, t)
    BY <1>2 DEF TypesKept
  <2>2. PICK x \in Slots : Keeps(f, x, t)
    BY <2>1
  <2>3. ASSUME NEW g \in Entities, NEW z \in Slots, Endpoint(z) \in has'[g], Endpoint(z) \in has[g],
               topics[TopicName(g, z)] = t
        PROVE  Keeps(g, z, t)'
    BY <2>0, <2>3, TypeOfUsed DEF Keeps, TopicName
  <2>4. ASSUME NEW g \in Entities, NEW z \in Slots, Type(z) \in has'[g], Type(z) \in has[g], TypeName(g, z) = t
        PROVE  Keeps(g, z, t)'
    <3>1. type'[g] = type[g]
      BY <2>4, TypeStays
    <3> QED
      BY <2>4, <3>1 DEF Keeps, TypeName
  <2>5. CASE Endpoint(x) \in has[f] /\ topics[TopicName(f, x)] = t
    <3>1. CASE Endpoint(x) \in has'[f]
      BY <2>3, <2>5, <3>1
    <3>2. CASE Endpoint(x) \notin has'[f]
      <4>1. f = e /\ Puts(e) /\ Head(todo[e]) = Endpoint(x)
        BY <2>5, <3>2, GetHeld, PutHeld, QuietSets DEF Quiet
      <4>2. \/ \E z \in Slots : Type(z) \in has[e] /\ TypeName(e, z) = t
            \/ \E g \in Entities \ {e} : Endpoint("channel") \in has[g] /\ topics[TopicName(g, "channel")] = t
        BY <2>5, <4>1, KeptWithout
      <4>3. \A z : Type(z) # Endpoint(x)
        BY SMT
      <4>4. CASE \E z \in Slots : Type(z) \in has[e] /\ TypeName(e, z) = t
        <5>1. PICK z \in Slots : Type(z) \in has[e] /\ TypeName(e, z) = t
          BY <4>4
        <5>2. Type(z) \in has'[e]
          BY <4>1, <4>3, <5>1, PutHeld
        <5>3. Keeps(e, z, t)'
          BY <2>4, <5>1, <5>2
        <5> QED
          BY <5>3
      <4>5. CASE \E g \in Entities \ {e} : Endpoint("channel") \in has[g] /\ topics[TopicName(g, "channel")] = t
        <5>1. PICK g \in Entities \ {e} : Endpoint("channel") \in has[g] /\ topics[TopicName(g, "channel")] = t
          BY <4>5
        <5>2. Endpoint("channel") \in has'[g] /\ "channel" \in Slots
          BY <5>1, OthersStay DEF Slots
        <5>3. Keeps(g, "channel", t)'
          BY <2>3, <5>1, <5>2
        <5> QED
          BY <5>2, <5>3
      <4> QED
        BY <4>2, <4>4, <4>5
    <3> QED
      BY <3>1, <3>2
  <2>6. CASE Type(x) \in has[f] /\ TypeName(f, x) = t
    <3>1. CASE Type(x) \in has'[f]
      BY <2>4, <2>6, <3>1
    <3>2. CASE Type(x) \notin has'[f]
      <4>1. f = e /\ Puts(e) /\ Head(todo[e]) = Type(x)
        BY <2>6, <3>2, GetHeld, PutHeld, QuietSets DEF Quiet
      <4>2. PutType(e) /\ Slot(e) = x
        <5>1. Having("type")' # Having("type")
          <6>1. <<f, x>> \notin Having("type")' /\ <<f, x>> \in Having("type")
            BY <2>6, <3>2 DEF Having
          <6> QED
            BY <6>1
        <5>2. GetType(e) \/ PutType(e)
          BY <4>1, <5>1, OthersHave
        <5>3. ~GetType(e)
          BY <3>2, <2>6, GetHeld DEF Gets
        <5> QED
          BY <4>1, <5>2, <5>3 DEF Slot
      <4>3. InUse(t)
        BY <2>6, <4>1, <4>2 DEF PutType
      <4>4. PICK g \in Entities : \E z \in Slots : Endpoint(z) \in has[g] /\ topics[TopicName(g, z)] = t
        BY <4>3 DEF InUse
      <4>5. PICK z \in Slots : Endpoint(z) \in has[g] /\ topics[TopicName(g, z)] = t
        BY <4>4
      <4>6. Endpoint(z) \in has'[g]
        <5>1. Endpoint(z) # Type(x)
          BY SMT
        <5> QED
          BY <4>1, <4>5, <5>1, PutHeld
      <4>7. Keeps(g, z, t)'
        BY <2>3, <4>5, <4>6
      <4> QED
        BY <4>7
    <3> QED
      BY <3>1, <3>2
  <2> QED
    BY <2>2, <2>5, <2>6 DEF Keeps
<1> QED
  BY <1>1, <1>2

------------------------------------------------------------------------------
(***************************************************************************)
(* Type supports, and what the library may run into.                       *)
(***************************************************************************)
\* A destruction returns a type support that is there, unless it was refused before and is made again.
Returning(e) ==
  call[e] = "destroying" =>
    \A x \in Slots : Support(x) \in ToSet(todo[e]) =>
      /\ package = "dynamic"
      /\ e \notin refused \/ Is(e, Rpc) => Support(x) \in has[e]

\* Only publishers and subscriptions refuse to be destroyed, and it is recorded.
Refusers(e) == call[e] \in {"refusing", "refused"} => e \in refused /\ Is(e, PubSub)

\* How the call an entity is in changes.
LEMMA CallNext ==
  ASSUME EntitiesInv, NEW e \in Entities, EntityNext(e)
  PROVE  /\ refused \subseteq refused' /\ package' = package
         /\ call'[e] = "destroying" =>
              \/ Destroy(e)
              \/ /\ call[e] = "destroying" /\ todo[e] # <<>> /\ todo'[e] = Tail(todo[e])
                 /\ refused' = refused \/ Is(e, Rpc)
         /\ call'[e] \in {"refusing", "refused"} =>
              \/ call[e] \in {"refusing", "refused"}
              \/ e \in refused' /\ Is(e, PubSub)
<1>1. call \in [Entities -> Calls] /\ todo \in [Entities -> Seq(Steps)]
  BY DEF EntitiesInv, Typed
<1>2. CASE Gets(e)
  BY <1>1, <1>2, GetFacts DEF Gettings
<1>3. CASE Puts(e)
  BY <1>1, <1>3, PutFacts
<1>4. CASE Create(e) \/ Destroy(e) \/ SetContentFilter(e) \/ Reopen(e)
  BY <1>1, <1>4, SMT DEF Create, Destroy, SetContentFilter, Reopen, history
<1>5. CASE Finish(e)
  <2>1. call'[e] = Returned[call[e]] /\ call[e] \in DOMAIN Returned
        /\ UNCHANGED <<package, refused>>
    BY <1>1, <1>5 DEF Finish, history
  <2> QED
    BY <2>1, SMT DEF Returned
<1>6. CASE Skip(e) \/ TakeLock(e) \/ ReleaseLock(e)
  <2>1. UNCHANGED <<package, call, refused>> /\ Step(e)
    BY <1>6 DEF Skip, TakeLock, ReleaseLock, Step
  <2>2. todo[e] # <<>>
    BY <1>6 DEF Skip, TakeLock, ReleaseLock, At
  <2> QED
    BY <1>1, <2>1, <2>2 DEF Step
<1>7. CASE FindAndCheck(e)
  <2>1. UNCHANGED <<package, refused>> /\ todo[e] # <<>>
    BY <1>7 DEF FindAndCheck, Step, At
  <2>2. CASE Incompatible(e)
    BY <1>1, <1>7, <2>1, <2>2, SMT DEF FindAndCheck
  <2>3. CASE ~Incompatible(e)
    BY <1>1, <1>7, <2>1, <2>3 DEF FindAndCheck, Step
  <2> QED
    BY <2>2, <2>3
<1>8. CASE CreationFails(e) \/ GraphFails(e) \/ ReopenFails(e)
  BY <1>1, <1>8, SMT DEF CreationFails, GraphFails, ReopenFails, Return
<1>9. CASE GiveUp(e)
  BY <1>1, <1>9, SMT DEF GiveUp, Refusal
<1>10. CASE Mute(e)
  <2>1. UNCHANGED <<package, call>> /\ refused \subseteq refused' /\ Is(e, Rpc) /\ todo[e] # <<>>
        /\ todo'[e] = Tail(todo[e])
    BY <1>1, <1>10 DEF Mute, Refusal, At
  <2> QED
    BY <2>1
<1> QED
  BY <1>2, <1>3, <1>4, <1>5, <1>6, <1>7, <1>8, <1>9, <1>10 DEF EntityNext, Gets, Puts

\* Refusers is kept by every step.
LEMMA RefusersNext ==
  ASSUME EntitiesInv, NEW e \in Entities, EntityNext(e), NEW f \in Entities, Refusers(f)
  PROVE  Refusers(f)'
<1>1. CASE f = e
  BY <1>1, CallNext DEF Refusers, Is
<1>2. CASE f # e
  BY <1>2, CallNext, OthersStay DEF Refusers, Is
<1> QED
  BY <1>1, <1>2

\* A destruction begins with the type supports of its package.
LEMMA ReturnedSupports ==
  ASSUME EntitiesInv, NEW e \in Entities, Destroy(e), NEW x \in Slots, Support(x) \in ToSet(todo'[e])
  PROVE  /\ package = "dynamic"
         /\ \/ Is(e, PubSub) /\ x = "main"
            \/ Is(e, Rpc) /\ x \in {"request", "response"}
<1> DEFINE r == If(package = "dynamic", DynamicReturn(e))
           d == DestroySteps(e)
<1>1. todo'[e] = r \o d
  BY DEF Destroy, EntitiesInv, Typed
<1>2. Kind[e] \in Kinds
  BY EntityAssumption
<1>3. r \in Seq(Steps)
  <2>1. Support("main") \in Steps /\ Support("request") \in Steps /\ Support("response") \in Steps
    BY DEF Steps, Things, Slots
  <2>2. <<>> \in Seq(Steps) /\ DynamicReturn(e) \in Seq(Steps)
    BY <2>1, SMT DEF DynamicReturn
  <2> QED
    BY <2>2 DEF If
<1>4. d \in Seq(Steps) /\ \A b \in ToSet(d) : b[1] # "support"
  <2>1. CASE Kind[e] = "publisher"
    BY <2>1, SMT DEF DestroySteps, CppDestroyPublisher, DestroyPublisher, Steps, Things, Slots, ToSet
  <2>2. CASE Kind[e] = "subscription"
    BY <2>2, SMT DEF DestroySteps, CppDestroySubscription, DestroySubscription, Steps, Things, Slots, ToSet
  <2>3. CASE Kind[e] = "client"
    BY <2>3, SMT DEF DestroySteps, DestroyClient, Steps, Things, Slots, ToSet
  <2>4. CASE Kind[e] = "service"
    BY <2>4, SMT DEF DestroySteps, DestroyService, Steps, Things, Slots, ToSet
  <2> QED
    BY <1>2, <2>1, <2>2, <2>3, <2>4 DEF Kinds
<1>5. ToSet(r \o d) = ToSet(r) \cup ToSet(d)
  BY <1>3, <1>4, Concat
<1>6. Support(x) \in ToSet(r)
  BY <1>1, <1>4, <1>5
<1>7. package = "dynamic" /\ Support(x) \in ToSet(DynamicReturn(e))
  <2>1. ToSet(<<>>) = {}
    BY SMT DEF ToSet
  <2> QED
    BY <1>6, <2>1 DEF If
<1>8. ToSet(DynamicReturn(e))
        = IF Is(e, PubSub) THEN {Support("main")} ELSE {Support("request"), Support("response")}
  BY SMT DEF DynamicReturn, ToSet
<1>9. Is(e, PubSub) \/ Is(e, Rpc)
  BY <1>2 DEF Is, Kinds, PubSub, Rpc
<1> QED
  BY <1>7, <1>8, <1>9

\* Returning is kept by every step.
LEMMA ReturningNext ==
  ASSUME EntitiesInv, NEW e \in Entities, EntityNext(e), NEW f \in Entities, Returning(f), Refusers(f)
  PROVE  Returning(f)'
<1> SUFFICES ASSUME call'[f] = "destroying", NEW x \in Slots, Support(x) \in ToSet(todo'[f])
             PROVE  /\ package' = "dynamic"
                    /\ f \notin refused' \/ Is(f, Rpc) => Support(x) \in has'[f]
  BY DEF Returning, Is
<1>1. refused \subseteq refused' /\ package' = package
  BY CallNext
<1>2. CASE f # e
  <2>1. call'[f] = call[f] /\ todo'[f] = todo[f] /\ has'[f] = has[f]
    BY <1>2, OthersStay
  <2> QED
    BY <1>1, <2>1 DEF Returning
<1>3. CASE f = e /\ Destroy(e)
  <2>1. /\ package = "dynamic"
        /\ \/ Is(e, PubSub) /\ x = "main"
           \/ Is(e, Rpc) /\ x \in {"request", "response"}
    BY <1>3, ReturnedSupports
  <2>2. ASSUME e \notin refused' \/ Is(e, Rpc) PROVE Support(x) \in has'[e]
    <3>1. call[e] = "live"
      <4>1. ~(Is(e, Rpc) /\ Is(e, PubSub))
        BY DEF Is, Rpc, PubSub
      <4> QED
        BY <1>1, <1>3, <2>2, <4>1 DEF Destroy, Refusers
    <3>2. PICK plan \in Plans(e, type[e]) :
            /\ PlanOf(e, plan)
            /\ \A b : b \notin Owed(call[e]) \cup {Graph} =>
                 (b \in ToSet(plan) <=> b \in has[e] \cup ToGet(call[e], todo[e]))
      BY <3>1, PlanNow
    <3>3. Support(x) \in ToSet(plan)
      BY <2>1, <3>2, PlanThings
    <3>4. Support(x) \notin Owed(call[e]) \cup {Graph} /\ ToGet(call[e], todo[e]) = {}
      BY <3>1, SMT DEF Owed, ToGet, Gettings
    <3>5. has' = has
      BY <1>3 DEF Destroy
    <3> QED
      BY <3>2, <3>3, <3>4, <3>5
  <2> QED
    BY <1>1, <1>3, <2>1, <2>2
<1>4. CASE f = e /\ ~Destroy(e)
  <2>1. /\ call[e] = "destroying" /\ todo[e] # <<>> /\ todo'[e] = Tail(todo[e])
        /\ refused' = refused \/ Is(e, Rpc)
    BY <1>4, CallNext
  <2> DEFINE s == todo[e]
             q == Tail(s)
  <2>2. s \in Seq(Steps) /\ s # <<>> /\ Releasable(s) /\ q = Tail(s)
    BY <2>1, Before DEF Shape, Orderly, Gettings
  <2>3. Support(x) \in ToSet(q)
    BY <1>4, <2>1
  <2> HIDE DEF s, q
  <2>4. Support(x) # Head(s)
    BY <2>2, <2>3, ReleasableTail
  <2>5. Support(x) \in ToSet(s)
    BY <2>2, <2>3, Tails DEF Splits
  <2>6. package = "dynamic" /\ (e \notin refused \/ Is(e, Rpc) => Support(x) \in has[e])
    BY <1>4, <2>1, <2>5 DEF Returning, s
  <2>7. Support(x) \in has[e] => Support(x) \in has'[e]
    BY <2>4, GetHeld, PutHeld, QuietSets DEF Quiet, s
  <2> QED
    BY <1>1, <1>4, <2>1, <2>6, <2>7
<1> QED
  BY <1>2, <1>3, <1>4

\* Only getting and returning type supports changes the references to them.
LEMMA SupportsAlone ==
  ASSUME EntitiesInv, NEW e \in Entities, EntityNext(e), ~GetSupport(e), ~PutSupport(e)
  PROVE  supports' = supports /\ \A t : HoldersOf("support", t)' = HoldersOf("support", t)
<1>1. CASE Gets(e) \/ Puts(e)
  <2>1. supports' = supports
    BY <1>1 DEF Gets, Puts, GetType, PutType, GetEndpoint, PutEndpoint, GetOwn, PutOwn,
                FindOrCreateTopic, DeleteTopic, sharedVars
  <2>2. Having("support")' = Having("support") /\ type' = type
    BY <1>1, OthersHave, GetFacts, PutFacts
  <2>3. \A t : HoldersOf("support", t)' = HoldersOf("support", t)
    BY <2>2, HavingSets DEF TypeName
  <2> QED
    BY <2>1, <2>3
<1>2. CASE Quiet(e)
  BY <1>2, QuietSets DEF sharedVars
<1> QED
  BY <1>1, <1>2 DEF Quiet

\* Who returns a type support has it, unless a destruction that was refused is made again.
LEMMA SupportThere ==
  ASSUME EntitiesInv, NEW e \in Entities, Returning(e), PutSupport(e)
  PROVE  /\ Puts(e) /\ Slot(e) \in Slots /\ Head(todo[e]) = Support(Slot(e)) /\ refused' = refused
         /\ package = "dynamic"
         /\ e \notin refused \/ Is(e, Rpc) => Support(Slot(e)) \in has[e]
<1>1. Puts(e) /\ Slot(e) \in Slots /\ Head(todo[e]) = Support(Slot(e)) /\ refused' = refused
  BY Abouts DEF PutSupport, Puts
<1>2. Support(Slot(e)) \in has[e] \/ call[e] = "destroying"
  BY <1>1, PutFacts
<1>3. Support(Slot(e)) \in has[e] => package = "dynamic"
  <2>1. has[e] \subseteq MayHave(e)
    BY Before DEF Shape, Contents
  <2>2. \A x : Support(x) \in MayHave(e) => package = "dynamic"
    BY SMT DEF MayHave
  <2> QED
    BY <2>1, <2>2
<1>4. Support(Slot(e)) \in ToSet(todo[e])
  BY <1>1, PutFacts
<1> QED
  BY <1>1, <1>2, <1>3, <1>4 DEF Returning

\* The references to a type support are counted, unless a refused destruction was made again.
LEMMA SupportsNext ==
  ASSUME EntitiesInv, SharedTyped, TypeKnown, SupportsWhileUsed, NEW e \in Entities, EntityNext(e), Returning(e)
  PROVE  SupportsWhileUsed'
<1> SUFFICES ASSUME \A f \in refused' : Is(f, Rpc), NEW k \in TypeNames
             PROVE  supports'[k] = Cardinality(HoldersOf("support", k)')
  BY DEF SupportsWhileUsed, Is
<1> SUFFICES ASSUME NEW x, x = Slot(e), NEW t, t = TypeName(e, x)
             PROVE  supports'[k] = Cardinality(HoldersOf("support", k)')
  OBVIOUS
<1>1. /\ supports[k] \in Nat /\ supports \in [TypeNames -> Nat]
      /\ supports[k] = Cardinality(HoldersOf("support", k)) /\ IsFiniteSet(HoldersOf("support", k))
  <2>1. \A f \in refused : Is(f, Rpc)
    BY CallNext
  <2> QED
    BY <2>1, FiniteUsers DEF SharedTyped, SupportsWhileUsed
<1>2. CASE GetSupport(e)
  <2>1. Gets(e) /\ Head(todo[e]) = Support(x) /\ x \in Slots
    BY <1>2, Abouts DEF GetSupport, Gets
  <2>2. Having("support")' = Having("support") \cup {<<e, x>>} /\ type' = type
    BY <2>1, HavingNext, GetFacts
  <2>3. <<e, x>> \notin Having("support")
    <3>1. Support(x) \notin {Graph, Endpoint("main"), Filter}
      BY SMT
    <3>2. call[e] \in Gettings /\ (call[e] = "creating" => Support(x) \notin has[e])
          /\ (call[e] = "reopening" => Support(x) \in {Graph, Endpoint("main"), Filter})
      BY <2>1, GetFacts
    <3> QED
      BY <3>1, <3>2 DEF Having, Gettings
  <2>4. supports' = [supports EXCEPT ![t] = @ + 1]
    BY <1>2 DEF GetSupport
  <2>5. \A u \in Entities \X Slots : TypeName(u[1], u[2])' = TypeName(u[1], u[2])
    BY <2>2 DEF TypeName
  <2>6. TypeName(<<e, x>>[1], <<e, x>>[2]) = t /\ <<e, x>> \in Entities \X Slots
        /\ Having("support") \subseteq Entities \X Slots
    BY <2>1 DEF Having
  <2>7. CASE k = t
    <3>1. HoldersOf("support", k)' = HoldersOf("support", k) \cup {<<e, x>>}
          /\ <<e, x>> \notin HoldersOf("support", k)
      BY <2>2, <2>3, <2>5, <2>6, <2>7, HavingSets
    <3>2. Cardinality(HoldersOf("support", k)') = Cardinality(HoldersOf("support", k)) + 1
      BY <1>1, <3>1, FS_AddElement
    <3> QED
      BY <1>1, <2>4, <2>7, <3>2
  <2>8. CASE k # t
    <3>1. HoldersOf("support", k)' = HoldersOf("support", k)
      BY <2>2, <2>5, <2>6, <2>8, HavingSets
    <3> QED
      BY <1>1, <2>4, <2>8, <3>1
  <2> QED
    BY <2>7, <2>8
<1>3. CASE PutSupport(e)
  <2>1. Puts(e) /\ Head(todo[e]) = Support(x) /\ x \in Slots /\ Support(x) \in has[e]
    BY <1>3, SupportThere
  <2>2. Having("support")' = Having("support") \ {<<e, x>>} /\ type' = type
    <3>1. type' = type
      BY <2>1, PutFacts
    <3> QED
      BY <2>1, <3>1, HavingNext
  <2>3. <<e, x>> \in Having("support")
    BY <2>1 DEF Having
  <2>5. \A u \in Entities \X Slots : TypeName(u[1], u[2])' = TypeName(u[1], u[2])
    BY <2>2 DEF TypeName
  <2>6. TypeName(<<e, x>>[1], <<e, x>>[2]) = t /\ <<e, x>> \in Entities \X Slots
        /\ Having("support") \subseteq Entities \X Slots
    BY <2>1 DEF Having
  <2>4. k = t => supports' = [supports EXCEPT ![t] = @ - 1]
    <3>1. k = t => <<e, x>> \in HoldersOf("support", k)
      BY <2>3, <2>6, HavingSets
    <3>2. k = t => supports[t] # 0
      BY <1>1, <3>1, FS_EmptySet
    <3> QED
      BY <1>3, <3>2 DEF PutSupport
  <2>7. CASE k = t
    <3>1. HoldersOf("support", k)' = HoldersOf("support", k) \ {<<e, x>>}
          /\ <<e, x>> \in HoldersOf("support", k)
      BY <2>2, <2>3, <2>5, <2>6, <2>7, HavingSets
    <3>2. Cardinality(HoldersOf("support", k)') = Cardinality(HoldersOf("support", k)) - 1
      BY <1>1, <3>1, FS_RemoveElement
    <3> QED
      BY <1>1, <2>4, <2>7, <3>2
  <2>8. CASE k # t
    <3>1. HoldersOf("support", k)' = HoldersOf("support", k)
      BY <2>2, <2>5, <2>6, <2>8, HavingSets
    <3>2. supports'[k] = supports[k]
      BY <1>1, <1>3, <2>8 DEF PutSupport
    <3> QED
      BY <1>1, <3>1, <3>2
  <2> QED
    BY <2>7, <2>8
<1>4. CASE ~GetSupport(e) /\ ~PutSupport(e)
  BY <1>1, <1>4, SupportsAlone
<1> QED
  BY <1>2, <1>3, <1>4

\* The library runs into nothing but what was forgotten, or was not deleted.
LEMMA CrashNext ==
  ASSUME EntitiesInv, SharedTyped, TypeKnown, Counted, TopicsKept, SupportsWhileUsed, crashed = None,
         \A g \in Entities : Twins(g) /\ Returning(g), NEW e \in Entities, EntityNext(e)
  PROVE  CrashExplained' /\ crashed' \in {None, "null topic", "support"}
<1> SUFFICES ASSUME NEW x, x = Slot(e), NEW n, n = TopicName(e, x), NEW t, t = TypeName(e, x)
             PROVE  CrashExplained' /\ crashed' \in {None, "null topic", "support"}
  OBVIOUS
<1>0. None # "null topic" /\ None # "support" /\ "null topic" # "support"
  BY DEF None
<1>1. CASE FindOrCreateTopic(e)
  <2>1. TopicUsed(e, x, n, t)
    BY <1>1, FindFacts
  <2>2. crashed' \in {None, "null topic"} /\ (crashed' = "null topic" => uses[n] = 0 /\ topics[n] # Nothing)
    BY <1>0, <1>1 DEF FindOrCreateTopic
  <2>3. ASSUME uses[n] = 0, topics[n] # Nothing
        PROVE  muted' # {} \/ \E f \in Entities : failed'[f] # Nothing /\ Filter \in has'[f]
    <3>1. ReferredTo(n) /\ Users(n) = {}
      BY <2>1, <2>3, UsersCount DEF TopicsKept, TopicUsed
    <3>2. PICK g \in Entities, z \in Slots : TopicName(g, z) = n /\ Refers(g, z)
      BY <3>1, ReferredBy
    <3>3. Topic(z) \notin has[g]
      BY <3>1, <3>2, UserOf
    <3>4. UNCHANGED <<muted, failed>> /\ has[g] \subseteq has'[g]
      BY <2>1, GetFacts, GetHeld DEF TopicUsed
    <3>5. \A a \in has[g] : Needs(a, Topic(z)) => a \in Leaves(g, failed[g], Muted(g))
      <4>1. Topic(z) \in Things
        BY DEF Things
      <4> QED
        BY <3>3, <4>1, Before DEF Shape, Closed
    <3>6. Needs(Endpoint(z), Topic(z)) /\ (z = "main" => Needs(Filter, Topic(z)))
      BY SMT DEF Needs, Slots
    <3>7. /\ Endpoint(z) # Filter /\ Endpoint(z) # Topic("channel") /\ Endpoint(z) # Support("main")
          /\ \A y : Filter # Endpoint(y)
          /\ Filter # Topic("channel") /\ Filter # Support("main") /\ Filter # Endpoint("channel")
          /\ \A y : Endpoint(z) = Endpoint(y) => z = y
      BY SMT
    <3>8. CASE Endpoint(z) \in has[g]
      <4>1. Endpoint(z) \in Leaves(g, failed[g], Muted(g))
        BY <3>5, <3>6, <3>8
      <4>2. failed[g] = Graph /\ z = "channel" => Topic(z) \in has[g]
        BY <3>8 DEF Twins
      <4>3. Muted(g) # {}
        BY <3>3, <3>7, <4>1, <4>2 DEF Leaves
      <4> QED
        BY <3>4, <4>3 DEF Muted
    <3>9. CASE z = "main" /\ Filter \in has[g]
      <4>1. Filter \in Leaves(g, failed[g], Muted(g))
        BY <3>5, <3>6, <3>9
      <4>2. failed[g] # Nothing
        BY <3>7, <4>1, StepsApart DEF Leaves
      <4> QED
        BY <3>4, <3>9, <4>2
    <3> QED
      BY <3>2, <3>8, <3>9 DEF Refers
  <2> QED
    BY <1>0, <2>2, <2>3 DEF CrashExplained
<1>2. CASE PutSupport(e)
  <2>1. /\ Puts(e) /\ x \in Slots /\ Head(todo[e]) = Support(x) /\ refused' = refused /\ package = "dynamic"
        /\ e \notin refused \/ Is(e, Rpc) => Support(x) \in has[e]
    BY <1>2, SupportThere
  <2>2. crashed' \in {None, "support"} /\ (crashed' = "support" => supports[t] = 0)
    BY <1>0, <1>2 DEF PutSupport
  <2>3. ASSUME refused = {}, supports[t] = 0 PROVE FALSE
    <3>1. t \in TypeNames
      <4>1. todo[e] # <<>>
        BY <2>1, PutFacts
      <4> QED
        BY <2>1, <4>1, TypedNow, NamesOf
    <3>2. Cardinality(HoldersOf("support", t)) = 0
      BY <2>3, <3>1 DEF SupportsWhileUsed
    <3>3. <<e, x>> \in HoldersOf("support", t)
      BY <2>1, <2>3 DEF HoldersOf
    <3> QED
      BY <3>2, <3>3, FiniteUsers, FS_EmptySet
  <2>4. package' = package
    BY CallNext
  <2> QED
    BY <1>0, <2>1, <2>2, <2>3, <2>4 DEF CrashExplained
<1>3. CASE ~FindOrCreateTopic(e) /\ ~PutSupport(e)
  <2>1. crashed' = crashed
    <3>1. CASE Gets(e) \/ Puts(e)
      BY <1>3, <3>1 DEF Gets, Puts, GetSupport, GetType, PutType, GetEndpoint, PutEndpoint, GetOwn, PutOwn,
                        DeleteTopic
    <3>2. CASE Quiet(e)
      BY <3>2, QuietSets
    <3> QED
      BY <3>1, <3>2 DEF Quiet
  <2> QED
    BY <1>0, <2>1 DEF CrashExplained
<1> QED
  BY <1>1, <1>2, <1>3

\* Steps fail at most MaxFaults times.
LEMMA FaultsNext ==
  ASSUME EntitiesInv, faults \in 0..MaxFaults, NEW e \in Entities, EntityNext(e)
  PROVE  faults' \in 0..MaxFaults
<1>1. faults' = faults \/ (faults < MaxFaults /\ faults' = faults + 1)
  <2>1. CASE Gets(e) \/ Puts(e)
    BY <2>1, GetFacts, PutFacts
  <2>2. CASE Create(e) \/ Destroy(e) \/ SetContentFilter(e) \/ Reopen(e) \/ Finish(e)
    BY <2>2 DEF Create, Destroy, SetContentFilter, Reopen, Finish, history
  <2>3. CASE Skip(e) \/ TakeLock(e) \/ ReleaseLock(e) \/ FindAndCheck(e)
    BY <2>3 DEF Skip, TakeLock, ReleaseLock, FindAndCheck, Step
  <2>4. CASE CreationFails(e) \/ GraphFails(e) \/ ReopenFails(e)
    BY <2>4 DEF CreationFails, GraphFails, ReopenFails, Fails
  <2>5. CASE GiveUp(e) \/ Mute(e)
    BY <2>5 DEF GiveUp, Mute, Refusal
  <2> QED
    BY <2>1, <2>2, <2>3, <2>4, <2>5 DEF EntityNext, Gets, Puts
<1>2. MaxFaults \in Nat
  BY EntityAssumption
<1> QED
  BY <1>1, <1>2

------------------------------------------------------------------------------
(***************************************************************************)
(* What entities share.                                                    *)
(***************************************************************************)
\* What holds of an entity's use of what is shared.
UseInv(e) ==
  Twins(e) /\ Checks(e) /\ Compatible(e) /\ TopicTyped(e) /\ ChannelTyped(e) /\ EndpointTyped(e)
    /\ Returning(e) /\ Refusers(e)

\* The invariant of what is shared.
SharedInv ==
  /\ SharedTyped /\ Marks /\ TypeKnown
  /\ Counted /\ TopicsKept /\ TypesKept /\ SupportsWhileUsed /\ CrashExplained
  /\ \A e \in Entities : UseInv(e)

\* It holds at first.
LEMMA SharedInit == Init => SharedInv
<1> SUFFICES ASSUME Init PROVE SharedInv
  OBVIOUS
<1>1. SharedTyped
  BY DEF Init, SharedTyped
<1>2. Marks /\ TypeKnown
  BY EntityAssumption DEF Init, Marks, TypeKnown
<1>3. ASSUME NEW n \in Names PROVE uses[n] = 0 /\ Users(n) = {} /\ topics[n] = Nothing
  BY DEF Init, Users
<1>4. Counted /\ TopicsKept
  BY <1>3, FS_EmptySet DEF Counted, TopicsKept
<1>5. TypesKept
  BY DEF Init, TypesKept
<1>6. SupportsWhileUsed
  <2>1. ASSUME NEW t \in TypeNames PROVE supports[t] = 0 /\ HoldersOf("support", t) = {}
    BY DEF Init, HoldersOf
  <2> QED
    BY <2>1, FS_EmptySet DEF SupportsWhileUsed
<1>7. CrashExplained
  BY DEF Init, CrashExplained, None
<1>8. ASSUME NEW e \in Entities PROVE UseInv(e)
  <2>1. has[e] = {} /\ call[e] = None /\ failed[e] = Nothing
    BY DEF Init
  <2>2. None # "creating" /\ None # "destroying" /\ None # "refusing" /\ None # "refused"
    BY DEF None
  <2>3. Nothing # Graph
    BY StepsApart
  <2> QED
    BY <2>1, <2>2, <2>3 DEF UseInv, Twins, Checks, Compatible, TopicTyped, ChannelTyped, EndpointTyped,
                            Returning, Refusers
<1> QED
  BY <1>1, <1>2, <1>4, <1>5, <1>6, <1>7, <1>8 DEF SharedInv

\* Every step keeps it.
LEMMA SharedNext == EntitiesInv /\ SharedInv /\ [Next]_vars => SharedInv'
<1> SUFFICES ASSUME EntitiesInv, SharedInv, [Next]_vars PROVE SharedInv'
  OBVIOUS
<1>1. CASE UNCHANGED vars
  <2> SUFFICES ASSUME /\ has' = has /\ todo' = todo /\ call' = call /\ type' = type /\ lock' = lock
                      /\ package' = package /\ types' = types /\ topics' = topics /\ uses' = uses
                      /\ watchers' = watchers /\ supports' = supports /\ muted' = muted
                      /\ failed' = failed /\ refused' = refused /\ faults' = faults /\ crashed' = crashed
               PROVE  SharedInv'
    BY <1>1 DEF vars, sharedVars, callVars, history
  <2>1. SharedTyped' /\ Marks' /\ TypeKnown' /\ CrashExplained'
    BY DEF SharedInv, SharedTyped, Marks, TypeKnown, CrashExplained
  <2>2. Counted' /\ TopicsKept'
    BY DEF SharedInv, Counted, TopicsKept, Users, ReferredTo, TopicName
  <2>3. TypesKept' /\ SupportsWhileUsed'
    BY DEF SharedInv, TypesKept, Keeps, SupportsWhileUsed, HoldersOf, TopicName, TypeName
  <2>4. ASSUME NEW f \in Entities PROVE UseInv(f)'
    <3>1. UseInv(f)
      BY DEF SharedInv
    <3>2. Twins(f)' /\ Checks(f)' /\ Compatible(f)' /\ TopicTyped(f)'
      BY <3>1 DEF UseInv, Twins, Checks, Compatible, TopicTyped, TopicName, TypeName
    <3>3. ChannelTyped(f)' /\ EndpointTyped(f)' /\ Returning(f)' /\ Refusers(f)'
      BY <3>1 DEF UseInv, ChannelTyped, Strayed, EndpointTyped, Returning, Refusers, TopicName, TypeName, Is
    <3> QED
      BY <3>2, <3>3 DEF UseInv
  <2> QED
    BY <2>1, <2>2, <2>3, <2>4 DEF SharedInv
<1>2. ASSUME crashed = None, NEW e \in Entities, EntityNext(e) PROVE SharedInv'
  <2>1. /\ SharedTyped /\ Marks /\ TypeKnown
        /\ Counted /\ TopicsKept /\ TypesKept /\ SupportsWhileUsed
        /\ \A g \in Entities : Twins(g) /\ TopicTyped(g) /\ ChannelTyped(g) /\ Returning(g)
    BY DEF SharedInv, UseInv
  <2>2. SharedTyped' /\ TypeKnown'
    BY <1>2, <2>1, SharedTypedNext, TypeKnownNext
  <2>3. Counted' /\ TopicsKept'
    BY <1>2, <2>1, CountedNext, TopicsKeptNext
  <2>4. TypesKept'
    BY <1>2, <2>1, TypesKeptNext
  <2>5. SupportsWhileUsed'
    BY <1>2, <2>1, SupportsNext
  <2>6. CrashExplained' /\ Marks'
    BY <1>2, <2>1, CrashNext, FaultsNext DEF Marks
  <2>7. ASSUME NEW f \in Entities PROVE UseInv(f)'
    <3>1. /\ Twins(f) /\ Checks(f) /\ Compatible(f) /\ TopicTyped(f)
          /\ EndpointTyped(f) /\ Returning(f) /\ Refusers(f)
      BY DEF SharedInv, UseInv
    <3>2. Twins(f)' /\ Checks(f)' /\ Compatible(f)'
      BY <1>2, <2>1, <3>1, TwinsNext, ChecksNext, CompatibleNext
    <3>3. TopicTyped(f)' /\ EndpointTyped(f)'
      BY <1>2, <2>1, <3>1, TopicTypedNext, EndpointTypedNext
    <3>4. ChannelTyped(f)'
      BY <1>2, <2>1, ChannelTypedNext
    <3>5. Returning(f)' /\ Refusers(f)'
      BY <1>2, <3>1, ReturningNext, RefusersNext
    <3> QED
      BY <3>2, <3>3, <3>4, <3>5 DEF UseInv
  <2> QED
    BY <2>2, <2>3, <2>4, <2>5, <2>6, <2>7 DEF SharedInv
<1> QED
  BY <1>1, <1>2 DEF Next

\* Both invariants hold in every behaviour.
LEMMA AllInvariants == Spec => [](EntitiesInv /\ SharedInv)
BY InitInv, NextInv, SharedInit, SharedNext, PTL DEF Spec

\* What each variable holds.
THEOREM TypeCorrect == Spec => []TypeOK
<1>1. EntitiesInv /\ SharedInv => TypeOK
  BY DEF EntitiesInv, Typed, SharedInv, SharedTyped, Marks, TypeOK, Calls
<1> QED
  BY <1>1, AllInvariants, PTL

\* Topics, types and type supports live exactly as long as an entity uses them, and the library runs
\* into a pointer to nothing only after something was forgotten or a deletion was refused.
THEOREM SharedLivesWhileUsed == Spec => []SharedWhileUsed
<1>1. SharedInv => SharedWhileUsed
  <2> SUFFICES ASSUME SharedInv PROVE SharedWhileUsed
    OBVIOUS
  <2>1. TopicsWhileUsed
    BY DEF SharedInv, Counted, TopicsKept, TopicsWhileUsed
  <2>2. TypesWhileUsed
    BY KeptTypes DEF SharedInv, UseInv
  <2> QED
    BY <2>1, <2>2 DEF SharedInv, SharedWhileUsed
<1> QED
  BY <1>1, AllInvariants, PTL

\* An entity the application may use has all its things, and its topics are of its types.
THEOREM UsableIsWhole == Spec => []LiveIsWhole
<1>1. EntitiesInv /\ SharedInv => LiveIsWhole
  <2> SUFFICES ASSUME EntitiesInv, SharedInv, NEW e \in Entities, call[e] = "live"
               PROVE  /\ \E plan \in Plans(e, type[e]) : has[e] \cup {Filter} = ToSet(plan) \cup {Graph, Filter}
                      /\ \A x \in Slots : Topic(x) \in has[e] =>
                           \/ topics[TopicName(e, x)] = TypeName(e, x)
                           \/ /\ x = "channel"
                              /\ \E f \in Entities : failed[f] = Graph /\ TopicOf[f] = TopicOf[e]
    BY DEF LiveIsWhole
  <2>1. \E plan \in Plans(e, type[e]) : has[e] \cup {Filter} = ToSet(plan) \cup {Graph, Filter}
    <3>1. PICK plan \in Plans(e, type[e]) :
            has[e] \cup ToGet(call[e], todo[e]) \cup Owed(call[e]) = ToSet(plan) \cup {Graph} \cup Owed(call[e])
      BY Before DEF Whole
    <3>2. ToGet(call[e], todo[e]) = {} /\ Owed(call[e]) = {Filter}
      BY DEF ToGet, Owed, Gettings
    <3> QED
      BY <3>1, <3>2
  <2>2. ASSUME NEW x \in Slots, Topic(x) \in has[e]
        PROVE  \/ topics[TopicName(e, x)] = TypeName(e, x)
               \/ /\ x = "channel"
                  /\ \E f \in Entities : failed[f] = Graph /\ TopicOf[f] = TopicOf[e]
    <3>1. CASE x # "channel"
      BY <2>2, <3>1 DEF SharedInv, UseInv, TopicTyped
    <3>2. CASE x = "channel"
      BY <2>2, <3>2 DEF SharedInv, UseInv, ChannelTyped, Strayed, TopicName
    <3> QED
      BY <3>1, <3>2
  <2> QED
    BY <2>1, <2>2
<1> QED
  BY <1>1, AllInvariants, PTL

==============================================================================
