---------------------------- MODULE TypedEndpoint ----------------------------
(***************************************************************************)
(* Endpoints of one message type, with the walks over the type that their  *)
(* type support makes (TypeSupport): what EndpointSupport needs of keys,   *)
(* and the samples that endpoints serialize and take.                      *)
(***************************************************************************)
EXTENDS EndpointSupport, TypeSupport

CONSTANTS
  Messages(_)          \* what is published in a case

VARIABLES
  sample,    \* the last sample written: its message, reservation and bytes
  taken      \* what the last read of it gave

vars == <<supportVars, sample, taken>>

Type == case.type
Lang(c) == IF c.package = "introspection_c" THEN "c" ELSE "cpp"

-----------------------------------------------------------------------------
(***************************************************************************)
(* What a type support knows of its type and does with keys, for           *)
(* EndpointSupport.                                                        *)
(***************************************************************************)
TypeDesc(c) == Describe(c.type, c.package = "static")
TypeKeyRoom(c, msg) == Estimate(Lang(c), c.type, msg, TRUE, 0)
TypeKeyStream(c, msg) == Serialize(c.type, msg, TRUE, [at |-> 0, bytes |-> <<>>])
TypeKeyValue(c, msg) == KeyOf(c.type, msg)
TypeKeyIsFixed(c) == FixedKey(c.type)
TypeKeyIsOpen(c) == OpenKey(c.type)

Init == SupportInit /\ sample = None /\ taken = None

-----------------------------------------------------------------------------
\* rmw_publish: calculate_serialized_size reserves, serialize fills.  In C some
\* strings throw out of the write; so does a payload that is too small, and
\* Fast DDS may give a larger one than it was asked for.  One sample is followed,
\* and read once each time it is written.
Publish(e, msg) ==
  /\ endpoint[e] # Closed
  /\ sample = None
  /\ LET reserved == EstimateSample(Lang(case), desc, Type, msg)
         stream == SerializeSample(Type, msg)
         written == [msg |-> msg, reserved |-> reserved, stream |-> stream]
     IN  sample' \in IF Lang(case) = "c" /\ StringRefused(Type, msg) THEN {None}
                     ELSE {written} \cup IF 4 + stream.at > reserved THEN {None} ELSE {}
  /\ UNCHANGED <<supportVars, taken>>

\* rmw_publish_serialized_message: the bytes are copied as they are.
PublishSerialized(e) ==
  /\ endpoint[e] # Closed
  /\ sample # None
  /\ sample' = [sample EXCEPT !.reserved = 4 + sample.stream.at]
  /\ taken' = None
  /\ UNCHANGED supportVars

\* The sample, or a first part of it, is read into a message.
Take(e, length) ==
  /\ endpoint[e] # Closed
  /\ sample # None
  /\ taken = None
  /\ taken' = [whole |-> length = sample.stream.at,
               result |-> DeserializeSample(Type, sample.stream, length)]
  /\ UNCHANGED <<supportVars, sample>>

Next ==
  \/ SupportNext /\ UNCHANGED <<sample, taken>>
  \/ \E e \in Endpoints, msg \in Messages(case) : Publish(e, msg)
  \/ \E e \in Endpoints : PublishSerialized(e)
  \/ \E e \in Endpoints, length \in 0 .. (IF sample = None THEN 0 ELSE sample.stream.at) :
       Take(e, length)

Spec == Init /\ [][Next]_vars

-----------------------------------------------------------------------------
\* A message as it is read: strings without data have become empty ones.
RECURSIVE AsRead(_, _)
AsRead(members, msg) ==
  [i \in DOMAIN members |->
     [k \in DOMAIN msg[i] |-> IF IsMessage(members[i]) THEN AsRead(members[i].sub, msg[i][k])
                             ELSE ToStdString(msg[i][k])]]

\* PayloadFits: what is serialized never exceeds what calculate_serialized_size
\* had Fast DDS reserve, whatever the message holds, unless a C string in it has
\* no data; nor max_serialized_type_size if the type claims to be bounded (a
\* plain type reserves exactly that).
PayloadFits ==
  sample # None =>
    /\ AsRead(Type, sample.msg) = sample.msg => 4 + sample.stream.at <= sample.reserved
    /\ desc.bounded => 4 + sample.stream.at <= desc.max

\* TakenIsPublished: a sample read in full gives the message published, with a C
\* string without data as an empty one, and no part of it is ever taken for a
\* message.
TakenIsPublished ==
  taken # None =>
    /\ taken.result.ok <=> taken.whole
    /\ taken.whole => taken.result.out = AsRead(Type, sample.msg)

\* PlainIsLayout: a message whose type support says it is plain, and so may be
\* loaned, is in CDR byte for byte what it is in memory, except for a nested
\* message that is followed by others and ends in padding.
EndsInPadding(members) == Last(Offsets(members)) # StructSize(members)
PaddedInside(members) ==
  \E i \in DOMAIN members :
    /\ IsMessage(members[i])
    /\ EndsInPadding(members[i].sub)
    /\ i < Len(members)
PlainIsLayout ==
  desc.plain =>
    \/ CdrPositions(Type, 0).all = StructPositions(Type, 0)
    \/ PaddedInside(Type)
=============================================================================
