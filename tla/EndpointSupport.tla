--------------------------- MODULE EndpointSupport ---------------------------
(***************************************************************************)
(* Endpoints of one message type: the type support they share, the QoS     *)
(* they are created with, and the instance handles computed from the keys  *)
(* of their messages.                                                      *)
(*                                                                         *)
(* rmw_fastrtps_dynamic_cpp keeps one type support for each message type   *)
(* of the process in a registry that counts its users, and registers with  *)
(* each participant a proxy that forwards to it.  rmw_fastrtps_cpp gives   *)
(* every participant a type support of its own.  The mutex taken while a   *)
(* key is computed is always that of the object the participant registered,*)
(* the buffer it is computed in always that of the type support behind it. *)
(*                                                                         *)
(* What the walks over a type and its messages give is a parameter here;   *)
(* TypedEndpoint has the walks themselves.                                 *)
(***************************************************************************)
EXTENDS QosProfile, FiniteSets

CONSTANTS
  Cases,         \* the package, the type and the environment
  Endpoints,
  Participants,
  Writers,       \* user threads that publish
  MaxHandles,    \* bounds the instance handles remembered
  None

CONSTANTS
  ParticipantOf(_),    \* the participant of an endpoint
  Profiles(_, _),      \* the profiles an endpoint may be created with in a case
  Keys(_)              \* the messages whose keys are computed in a case, with all
                       \* their strings initialised

CONSTANTS
  DescOf(_),           \* what the constructor finds of a case's type
  KeyRoom(_, _),       \* the size estimated for the key of a message
  KeyStream(_, _),     \* the key serialized: its end, and the bytes written
  KeyValue(_, _),      \* the key as a value
  KeyIsFixed(_),       \* the key has one layout, whatever the message holds
  KeyIsOpen(_)         \* it has an unbounded sequence of other things than strings

Larger(a, b) == IF a > b THEN a ELSE b

ASSUME EndpointAssumption ==
  /\ IsFiniteSet(Endpoints)
  /\ \A e \in Endpoints : ParticipantOf(e) \in Participants
  /\ None \notin Writers

ASSUME QosAssumption ==
  \A c \in Cases :
    /\ c.default \in EntityQos
    /\ \A e \in Endpoints : Profiles(c, e) \subseteq RmwQos

\* The bytes of a key have an end, which its bound or its estimate covers
\* unless the key is open.
ASSUME KeyRoomAssumption ==
  \A c \in Cases :
    /\ DescOf(c).keyMax \in Nat
    /\ KeyIsFixed(c) => ~DescOf(c).keyUnbounded /\ ~KeyIsOpen(c)
    /\ \A msg \in Keys(c) :
         /\ KeyRoom(c, msg) \in Nat
         /\ KeyStream(c, msg).at \in Nat
         /\ DOMAIN KeyStream(c, msg).bytes \subseteq 0 .. KeyStream(c, msg).at - 1
         /\ \/ KeyIsOpen(c)
            \/ KeyStream(c, msg).at <=
                 IF DescOf(c).keyUnbounded THEN Larger(DescOf(c).keyMax, KeyRoom(c, msg))
                 ELSE DescOf(c).keyMax

\* Walking one type, the first item in which two keys differ is written by both
\* at the same place; a fixed key writes the same places for every message.
ASSUME KeyBytesAssumption ==
  \A c \in Cases : \A m, n \in Keys(c) :
    LET a == KeyStream(c, m)
        b == KeyStream(c, n)
    IN  /\ KeyValue(c, m) = KeyValue(c, n) => a = b
        /\ KeyValue(c, m) # KeyValue(c, n) =>
             \E k \in DOMAIN a.bytes \cap DOMAIN b.bytes : a.bytes[k] # b.bytes[k]
        /\ KeyIsFixed(c) => a.at = b.at /\ DOMAIN a.bytes = DOMAIN b.bytes

VARIABLES
  case,      \* which of Cases this is
  desc,      \* what the constructor found of the type: bounds, is_plain_, its key
  users,     \* [Holders -> Nat]: ref_count of the type supports
  keyMax,    \* [Holders -> Nat]: key_max_serialized_size_
  buffer,    \* [Holders -> bytes]: key_buffer_
  endpoint,  \* Closed, or the profile asked for and the QoS used
  lock,      \* the thread in compute_key of a participant's type (mtx_)
  thread,    \* the key a thread computes
  handles    \* the keys and handles computed so far by a thread alone in its buffer

keyVars == <<lock, thread, handles>>
supportVars == <<case, desc, users, keyMax, buffer, endpoint, keyVars>>

Holders == Participants \cup {"registry"}

\* Where a participant's key is computed.
HolderOf(p) == IF case.package = "static" THEN p ELSE "registry"
Holder(e) == HolderOf(ParticipantOf(e))

Closed == [closed |-> TRUE]
Idle == [step |-> "idle"]
Thrown == [thrown |-> TRUE]

SupportTypeOK ==
  /\ case \in Cases
  /\ desc = DescOf(case)
  /\ users \in [Holders -> Nat]
  /\ keyMax \in [Holders -> Nat]
  /\ DOMAIN buffer = Holders
  /\ \A h \in Holders : DOMAIN buffer[h] = 0 .. keyMax[h] - 1
  /\ endpoint \in [Endpoints -> {Closed} \cup [asked : RmwQos, qos : EntityQos]]
  /\ lock \in [Participants -> Writers \cup {None}]
  /\ thread \in [Writers -> {Idle} \cup [step : {"grown", "written"}, e : Endpoints,
                                         msg : Keys(case), end : Nat, alone : BOOLEAN]]

SupportInit ==
  /\ case \in Cases
  /\ desc = DescOf(case)
  /\ users = [h \in Holders |-> 0]
  /\ keyMax = [h \in Holders |-> 0]
  /\ buffer = [h \in Holders |-> <<>>]
  /\ endpoint = [e \in Endpoints |-> Closed]
  /\ lock = [p \in Participants |-> None]
  /\ thread = [t \in Writers |-> Idle]
  /\ handles = {}

-----------------------------------------------------------------------------
\* std::vector::resize of the key buffer: new bytes are zero, old ones keep
\* what was left in them.
Resized(bytes, size) ==
  [k \in 0 .. size - 1 |-> IF k \in DOMAIN bytes THEN bytes[k] ELSE 0]

\* get_type_support: the first user creates it, with a buffer for the key.
GetSupport(h) ==
  /\ users' = [users EXCEPT ![h] = @ + 1]
  /\ IF users[h] > 0 THEN UNCHANGED <<keyMax, buffer>>
     ELSE /\ keyMax' = [keyMax EXCEPT ![h] = desc.keyMax]
          /\ buffer' = [buffer EXCEPT ![h] = Resized(<<>>, desc.keyMax)]

\* return_type_support: the last user deletes it.
ReturnSupport(h) ==
  IF users[h] = 1
  THEN /\ users' = [users EXCEPT ![h] = 0]
       /\ keyMax' = [keyMax EXCEPT ![h] = 0]
       /\ buffer' = [buffer EXCEPT ![h] = <<>>]
  ELSE /\ users' = [users EXCEPT ![h] = @ - 1]
       /\ UNCHANGED <<keyMax, buffer>>

EndpointQos(profile) ==
  LET qos == FillEntityQos(profile, case.default)
  IN  IF qos # Refused /\ desc.keyed /\ ~case.keepDefault THEN LimitForKeys(qos) ELSE qos

\* create_publisher, create_subscription: a refused profile gives the type
\* support back.
CreateEndpoint(e, profile) ==
  /\ endpoint[e] = Closed
  /\ LET qos == EndpointQos(profile)
     IN  IF qos = Refused
         THEN UNCHANGED <<users, keyMax, buffer, endpoint>>
         ELSE /\ GetSupport(Holder(e))
              /\ endpoint' = [endpoint EXCEPT ![e] = [asked |-> profile, qos |-> qos]]
  /\ UNCHANGED <<case, desc, keyVars>>

\* An endpoint may not be destroyed while a thread publishes on it.
DestroyEndpoint(e) ==
  /\ endpoint[e] # Closed
  /\ \A t \in Writers : thread[t] # Idle => thread[t].e # e
  /\ endpoint' = [endpoint EXCEPT ![e] = Closed]
  /\ ReturnSupport(Holder(e))
  /\ UNCHANGED <<case, desc, keyVars>>

-----------------------------------------------------------------------------
\* Threads that compute a key in the same buffer but under another mutex.
Overlapping(t, p) ==
  {u \in Writers \ {t} : /\ thread[u] # Idle
                         /\ ParticipantOf(thread[u].e) # p
                         /\ Holder(thread[u].e) = HolderOf(p)}

Mut_no_key_lock(p) == TRUE
KeyLockFree(p) == lock[p] = None

\* compute_key locks; an unbounded key first makes room for this message.
BeginKey(t, e, msg) ==
  LET p == ParticipantOf(e)
      h == Holder(e)
      size == IF desc.keyUnbounded THEN Larger(keyMax[h], KeyRoom(case, msg)) ELSE keyMax[h]
  IN  /\ desc.keyed
      /\ Cardinality(handles) < MaxHandles
      /\ endpoint[e] # Closed
      /\ thread[t] = Idle
      /\ KeyLockFree(p)
      /\ lock' = [lock EXCEPT ![p] = t]
      /\ keyMax' = [keyMax EXCEPT ![h] = size]
      /\ buffer' = [buffer EXCEPT ![h] = Resized(@, size)]
      /\ thread' = [u \in Writers |->
           IF u = t THEN [step |-> "grown", e |-> e, msg |-> msg, end |-> 0,
                          alone |-> Overlapping(t, p) = {}]
           ELSE IF u \in Overlapping(t, p) THEN [thread[u] EXCEPT !.alone = FALSE]
           ELSE thread[u]]
      /\ UNCHANGED <<case, desc, users, endpoint, handles>>

Computed(t, handle) ==
  /\ handles' = IF ~thread[t].alone THEN handles
                ELSE handles \cup {[key |-> KeyValue(case, thread[t].msg), handle |-> handle]}
  /\ lock' = [lock EXCEPT ![ParticipantOf(thread[t].e)] = None]
  /\ thread' = [thread EXCEPT ![t] = Idle]

\* What a serialization leaves in the buffer: it moves over padding without
\* writing.
Overwritten(bytes, written) ==
  [k \in DOMAIN bytes |-> IF k \in DOMAIN written THEN written[k] ELSE bytes[k]]

\* The key is serialized into the buffer; a key that does not fit throws.
WriteKey(t) ==
  /\ thread[t].step = "grown"
  /\ LET h == Holder(thread[t].e)
         key == KeyStream(case, thread[t].msg)
     IN  /\ buffer' = [buffer EXCEPT ![h] = Overwritten(@, key.bytes)]
         /\ IF key.at > keyMax[h]
            THEN Computed(t, Thrown)
            ELSE /\ thread' = [thread EXCEPT ![t].step = "written", ![t].end = key.at]
                 /\ UNCHANGED <<lock, handles>>
  /\ UNCHANGED <<case, desc, users, keyMax, endpoint>>

\* The digest of the bytes if keys may exceed sixteen, otherwise the bytes.
HandleOf(h, end) ==
  IF case.forceMd5 \/ keyMax[h] > 16
  THEN [md5 |-> TRUE, bytes |-> [k \in 0 .. end - 1 |-> buffer[h][k]]]
  ELSE [md5 |-> FALSE, bytes |-> [k \in 0 .. 15 |-> IF k < end THEN buffer[h][k] ELSE 0]]

HashKey(t) ==
  /\ thread[t].step = "written"
  /\ Computed(t, HandleOf(Holder(thread[t].e), thread[t].end))
  /\ UNCHANGED <<case, desc, users, keyMax, buffer, endpoint>>

SupportNext ==
  \/ \E e \in Endpoints : \E profile \in Profiles(case, e) : CreateEndpoint(e, profile)
  \/ \E e \in Endpoints : DestroyEndpoint(e)
  \/ \E t \in Writers, e \in Endpoints, msg \in Keys(case) : BeginKey(t, e, msg)
  \/ \E t \in Writers : WriteKey(t)
  \/ \E t \in Writers : HashKey(t)

SupportSpec == SupportInit /\ [][SupportNext]_supportVars

-----------------------------------------------------------------------------
\* HandlesTellKeys: different keys never get the same instance handle, and a
\* key of fixed layout always gets the same one, from any endpoint and after
\* any other keys, unless a key was computed meanwhile for another participant
\* in the same buffer.  Only the room of an unbounded sequence can be missing.
HandlesTellKeys ==
  \A x, y \in handles :
    /\ x.handle = Thrown => KeyIsOpen(case)
    /\ x.handle # Thrown /\ x.handle = y.handle => x.key = y.key
    /\ KeyIsFixed(case) /\ x.key = y.key => x.handle = y.handle

\* QosKept: what is reported of an endpoint honours the profile it was created
\* with, here and where it is discovered (but for a history not announced), it
\* asserts its liveliness within the lease asked for, and of a keyed type it
\* keeps as many samples of each instance as were asked for.
QosKept ==
  \A e \in Endpoints :
    endpoint[e] # Closed =>
      LET qos == endpoint[e].qos
          asked == endpoint[e].asked
          seen(announced) == DiscoveredToRmw(qos, announced, asked)
      IN  /\ Honours(ToRmw(qos), asked)
          /\ Honours(seen(TRUE), asked)
          /\ Honours(seen(FALSE), [asked EXCEPT !.history = "default"])
          /\ asked.lease > 0 => qos.announcement < qos.lease
          /\ qos.depth \in 0 .. MaxInt
          /\ desc.keyed /\ ~case.keepDefault /\ qos.history = "keep_last"
               => qos.perInstance >= asked.depth

-----------------------------------------------------------------------------
(***************************************************************************)
(* The inductive invariant.                                                *)
(***************************************************************************)
EndpointsOf(h) == {e \in Endpoints : endpoint[e] # Closed /\ Holder(e) = h}

\* A type support counts its endpoints.
UsersCounted == \A h \in Holders : users[h] = Cardinality(EndpointsOf(h))

\* Its buffer has room for the bounded part of a key, and for no more if that
\* is all of it.
BufferHasRoom ==
  \A h \in Holders :
    users[h] > 0 => /\ keyMax[h] >= desc.keyMax
                    /\ ~desc.keyUnbounded => keyMax[h] = desc.keyMax

\* The padding of a fixed key is never written.
PaddingIsZero ==
  KeyIsFixed(case) =>
    \A h \in Holders : \A msg \in Keys(case) :
      \A k \in DOMAIN buffer[h] \ DOMAIN KeyStream(case, msg).bytes : buffer[h][k] = 0

\* A thread that computes a key holds the mutex of its participant, and its
\* endpoint stays.
KeyThreads ==
  \A t \in Writers :
    thread[t] # Idle =>
      /\ endpoint[thread[t].e] # Closed
      /\ lock[ParticipantOf(thread[t].e)] = t
      /\ thread[t].alone => Overlapping(t, ParticipantOf(thread[t].e)) = {}

\* The key fits once there is room for it, unless it is open, and stays in the
\* buffer of a thread that is alone.
Fits(t) == KeyStream(case, thread[t].msg).at <= keyMax[Holder(thread[t].e)]
KeyWrittenBy(t) ==
  /\ thread[t].step = "grown" => Fits(t) \/ KeyIsOpen(case)
  /\ thread[t].step = "written" =>
       LET key == KeyStream(case, thread[t].msg)
       IN  /\ thread[t].end = key.at /\ Fits(t)
           /\ thread[t].alone =>
                \A k \in DOMAIN key.bytes : buffer[Holder(thread[t].e)][k] = key.bytes[k]
KeyWritten == \A t \in Writers : KeyWrittenBy(t)

\* A handle shows every byte of a key, and of a fixed key nothing else.
HandleShows(handle, msg) ==
  LET key == KeyStream(case, msg)
  IN  /\ handle = [md5 |-> handle.md5, bytes |-> [k \in DOMAIN handle.bytes |-> handle.bytes[k]]]
      /\ DOMAIN handle.bytes = IF handle.md5 THEN 0 .. key.at - 1 ELSE 0 .. 15
      /\ \A k \in DOMAIN key.bytes : k \in DOMAIN handle.bytes /\ handle.bytes[k] = key.bytes[k]
      /\ KeyIsFixed(case) =>
           /\ handle.md5 = (case.forceMd5 \/ desc.keyMax > 16)
           /\ \A k \in DOMAIN handle.bytes \ DOMAIN key.bytes : handle.bytes[k] = 0
HandlesShowKeys ==
  \A x \in handles :
    \E msg \in Keys(case) :
      /\ x.key = KeyValue(case, msg)
      /\ \/ x.handle = Thrown /\ KeyIsOpen(case)
         \/ x.handle # Thrown /\ HandleShows(x.handle, msg)

QosFilled ==
  \A e \in Endpoints :
    endpoint[e] # Closed =>
      endpoint[e].qos = EndpointQos(endpoint[e].asked) /\ endpoint[e].qos # Refused

SupportInv ==
  /\ SupportTypeOK /\ UsersCounted /\ BufferHasRoom /\ PaddingIsZero
  /\ KeyThreads /\ KeyWritten /\ HandlesShowKeys /\ QosFilled
=============================================================================
