----------------------------- MODULE TypeSupport -----------------------------
(***************************************************************************)
(* How a ROS message is laid out in CDR by the type supports that walk its *)
(* introspection data (rmw_fastrtps_dynamic_cpp/src/TypeSupport_impl.hpp). *)
(* The code walks a type in four separate ways that must agree: the bound  *)
(* computed once per type, the size estimated before a sample is reserved, *)
(* the serialization, and the deserialization.  Each is translated here on *)
(* its own.  The bytes of Fast CDR itself are external.                    *)
(*                                                                         *)
(* A type is a sequence of members                                         *)
(*   [kind, dim, size, bound, key, sub]                                    *)
(* kind is "u8", "u16", "u32", "u64", "string", "wstring" or "message",    *)
(* dim is "one", "array", "bounded" or "unbounded", size is array_size_    *)
(* (1 for "one", 0 for "unbounded"), bound is string_upper_bound_, key is  *)
(* is_key_ and sub is the type of a nested message.  A message is a        *)
(* sequence with, for each member, the sequence of its elements: a number, *)
(* a string (a sequence of characters, or NoData) or a message.            *)
(***************************************************************************)
EXTENDS Integers, Sequences, SequencesExt, FiniteSetsExt, TLC

CONSTANT
  NoData   \* a narrow C string whose data is null: never initialised, or finalised

\* The padding before an item of `size` bytes (Cdr::alignment, external).
Padding(at, size) == (size - (at % size)) % size
Up(at, size) == at + Padding(at, size)

Width(kind) == CASE kind = "u8" -> 1 [] kind = "u16" -> 2 [] kind = "u32" -> 4 [] kind = "u64" -> 8

IsString(m) == m.kind \in {"string", "wstring"}
IsMessage(m) == m.kind = "message"
IsSequence(m) == m.dim \in {"bounded", "unbounded"}

\* The bytes of a string after its length: wide characters take four, and
\* only narrow strings end in a zero.
Mut_wide_of_two(kind, length) == IF kind = "wstring" THEN 2 * length ELSE length + 1
StringBytes(kind, length) == IF kind = "wstring" THEN 4 * length ELSE length + 1

HasAnyKey(members) == \E i \in DOMAIN members : members[i].key

\* The indices walked: all, or those that make up the key.  A message in a
\* key that marks no member of its own belongs to the key as a whole.
Walked(members, keyOnly) ==
  SelectSeq([i \in DOMAIN members |-> i],
            LAMBDA i : ~keyOnly \/ members[i].key \/ ~HasAnyKey(members))

-----------------------------------------------------------------------------
(***************************************************************************)
(* The C++ (or C) struct the message lives in: the offsets the compiler    *)
(* gives the members, which the introspection data reports as offset_.     *)
(* Strings and sequences are objects of one pointer's width here: no       *)
(* decision below depends on their size.                                   *)
(***************************************************************************)
RECURSIVE StructAlign(_)
StructAlign(members) ==
  Max({1} \cup {LET m == members[i] IN
                CASE IsSequence(m) \/ IsString(m) -> 8
                  [] IsMessage(m) /\ ~IsSequence(m) -> StructAlign(m.sub)
                  [] OTHER -> Width(m.kind) : i \in DOMAIN members})

RECURSIVE StructSize(_)
\* The offset of each member, followed by the end of the last.
Offsets(members) ==
  FoldLeft(LAMBDA offs, m :
             LET align == StructAlign(<<m>>)
                 size == CASE IsSequence(m) -> 8
                           [] IsString(m) -> 8 * m.size
                           [] IsMessage(m) /\ ~IsSequence(m) -> m.size * StructSize(m.sub)
                           [] OTHER -> m.size * Width(m.kind)
                 at == Up(Last(offs), align)
             IN  Append(Front(offs), at) \o <<at + size>>,
           <<0>>, members)
StructSize(members) == Up(Last(Offsets(members)), StructAlign(members))

-----------------------------------------------------------------------------
(***************************************************************************)
(* calculateMaxSerializedSize.  The walk carries the position and the      *)
(* members of the type support it writes on its way: max_size_bound_,      *)
(* is_plain_ and key_is_unbounded_.                                        *)
(***************************************************************************)
\* The members end in CDR where they end in memory, counted from the start of
\* this message: offset is that of the physically last member, walked or not.
Mut_ends_ignored(plain, offset, size, total) == plain
StillPlain(plain, offset, size, total) == plain /\ offset + size = total

RECURSIVE CalculateMax(_, _, _)
CalculateMax(members, keyOnly, from) ==
  LET Visit(acc, i) ==
        LET m == members[i]
            at == IF IsSequence(m) THEN Up(acc.at, 4) + 4 ELSE acc.at
            seen == [acc EXCEPT !.at = at, !.last = 0,
                       !.bounded = @ /\ m.dim # "unbounded",
                       !.plain = @ /\ ~IsSequence(m)]
        IN  CASE IsString(m) ->
                   [seen EXCEPT !.bounded = FALSE, !.plain = FALSE,
                      !.keyUnbounded = @ \/ keyOnly,
                      !.at = FoldLeft(LAMBDA a, k : Up(a, 4) + 4 + StringBytes(m.kind, m.bound),
                                      at, [k \in 1 .. m.size |-> k])]
              [] IsMessage(m) ->
                   LET inner == FoldLeft(LAMBDA a, k : CalculateMax(m.sub, keyOnly, a),
                                         seen, [k \in 1 .. m.size |-> k])
                   IN  [inner EXCEPT !.last = inner.at - at]
              [] OTHER ->
                   LET bytes == m.size * Width(m.kind)
                   IN  [seen EXCEPT !.at = Up(at, Width(m.kind)) + bytes, !.last = bytes]
      end == FoldLeft(Visit, [from EXCEPT !.last = 0], Walked(members, keyOnly))
  IN  IF end.last = 0 THEN end
      ELSE [end EXCEPT !.plain = StillPlain(@, Offsets(members)[Len(members)], end.last,
                                            end.at - from.at)]

\* The constructor of a message type support: the bound of the message, then
\* that of the key, whose walk may take is_plain_ away.  Generated type supports
\* (rmw_fastrtps_cpp) answer the first from the whole message alone.
Describe(members, generated) ==
  LET whole == CalculateMax(members, FALSE,
                 [at |-> 0, last |-> 0, bounded |-> TRUE, plain |-> TRUE, keyUnbounded |-> FALSE])
      keyed == IF HasAnyKey(members) THEN CalculateMax(members, TRUE, [whole EXCEPT !.at = 0])
               ELSE [whole EXCEPT !.at = 0]
  IN  [max |-> Up(4 + (IF members = <<>> THEN 1 ELSE whole.at), 4),
       bounded |-> whole.bounded,
       plain |-> IF generated THEN whole.plain ELSE keyed.plain,
       keyed |-> HasAnyKey(members),
       keyMax |-> keyed.at,
       keyUnbounded |-> keyed.keyUnbounded]

-----------------------------------------------------------------------------
(***************************************************************************)
(* getEstimatedSerializedSize.  The C variant aligns the first item of a   *)
(* sequence of primitives even if there is none.                           *)
(***************************************************************************)
EstimatePrimitives(lang, m, at, items) ==
  IF IsSequence(m) /\ items = <<>> /\ lang = "cpp" THEN at
  ELSE Up(at, Width(m.kind)) + Width(m.kind) * Len(items)

\* A string without data is passed over.  (In an array of fixed length the code
\* would read it: no message here has it there.)
EstimateStrings(m, at, items) ==
  FoldLeft(LAMBDA a, s : IF s = NoData THEN a
                         ELSE Up(a, 4) + 4 + StringBytes(m.kind, Len(s)), at, items)

RECURSIVE Estimate(_, _, _, _, _)
Estimate(lang, members, msg, keyOnly, from) ==
  FoldLeft(LAMBDA acc, i :
             LET m == members[i]
                 at == IF IsSequence(m) THEN Up(acc, 4) + 4 ELSE acc
             IN  CASE IsString(m) -> EstimateStrings(m, at, msg[i])
                   [] IsMessage(m) ->
                        FoldLeft(LAMBDA a, e : Estimate(lang, m.sub, e, keyOnly, a), at, msg[i])
                   [] OTHER -> EstimatePrimitives(lang, m, at, msg[i]),
           from, Walked(members, keyOnly))

\* The estimate of a whole sample, with the encapsulation and the dummy byte
\* of an empty message; a plain type always takes its maximum.
EstimateSample(lang, desc, members, msg) ==
  IF desc.plain THEN desc.max
  ELSE 4 + (IF members = <<>> THEN 1 ELSE Estimate(lang, members, msg, FALSE, 0))

-----------------------------------------------------------------------------
(***************************************************************************)
(* serializeROSmessage on a stream [at, bytes], where bytes maps the       *)
(* positions written to what they hold: alignment moves on without writing *)
(* (Fast CDR, external), so padding keeps what the memory held.            *)
(***************************************************************************)
Put(stream, width, value) ==
  LET at == Up(stream.at, width)
  IN  [at |-> at + width,
       bytes |-> [k \in at .. at + width - 1 |-> IF k = at THEN value ELSE 0] @@ stream.bytes]

PutString(stream, kind, string) ==
  IF kind = "wstring"
  THEN FoldLeft(LAMBDA s, c : Put(s, 4, c), Put(stream, 4, Len(string)), string)
  ELSE FoldLeft(LAMBDA s, c : Put(s, 1, c), Put(stream, 4, Len(string) + 1), Append(string, 0))

\* convert_to_std_string: a string without data is written as an empty one.
ToStdString(item) == IF item = NoData THEN <<>> ELSE item

PutItem(stream, m, item) ==
  IF IsString(m) THEN PutString(stream, m.kind, ToStdString(item))
  ELSE Put(stream, Width(m.kind), item)

RECURSIVE Serialize(_, _, _, _)
Serialize(members, msg, keyOnly, stream) ==
  FoldLeft(LAMBDA acc, i :
             LET m == members[i]
                 start == IF IsSequence(m) THEN Put(acc, 4, Len(msg[i])) ELSE acc
             IN  FoldLeft(LAMBDA s, e :
                            IF IsMessage(m) THEN Serialize(m.sub, e, keyOnly, s)
                            ELSE PutItem(s, m, e),
                          start, msg[i]),
           stream, Walked(members, keyOnly))

\* The C variant refuses (throws on) a lone narrow string longer than its
\* bound by more than one character, and a sequence with a string without data,
\* in the message or one nested in it.
RECURSIVE StringRefused(_, _)
StringRefused(members, msg) ==
  \E i \in DOMAIN members :
    LET m == members[i]
    IN  \/ /\ m.kind = "string" /\ m.dim = "one" /\ m.bound > 0
           /\ Len(ToStdString(msg[i][1])) > m.bound + 1
        \/ m.kind = "string" /\ IsSequence(m) /\ NoData \in ToSet(msg[i])
        \/ IsMessage(m) /\ \E k \in DOMAIN msg[i] : StringRefused(m.sub, msg[i][k])

\* A sample after its encapsulation; an empty message is one dummy byte.
SerializeSample(members, msg) ==
  LET fresh == [at |-> 0, bytes |-> <<>>]
  IN  IF members = <<>> THEN Put(fresh, 1, 0) ELSE Serialize(members, msg, FALSE, fresh)

-----------------------------------------------------------------------------
(***************************************************************************)
(* deserializeROSmessage from the first `length` bytes of a stream.  The   *)
(* walk carries [at, ok, out]; a read past the end throws, which makes the *)
(* result FALSE.  A length is believed if as many bytes remain, an element *)
(* taking one byte or more (check_sequence_size; Fast CDR for vectors).    *)
(***************************************************************************)
Fetch(stream, length, reader, width) ==
  LET at == Up(reader.at, width)
      fits == reader.ok /\ at + width <= length
  IN  [at |-> at + width, ok |-> fits, out |-> IF fits THEN stream.bytes[at] ELSE 0]

\* `count` elements read in turn by Read(_), collected in a sequence.
Collect(Read(_), reader, count) ==
  FoldLeft(LAMBDA acc, k :
             IF ~acc.ok THEN acc
             ELSE LET next == Read([acc EXCEPT !.out = 0])
                  IN  [at |-> next.at, ok |-> next.ok, out |-> Append(acc.out, next.out)],
           [reader EXCEPT !.out = <<>>], [k \in 1 .. count |-> k])

FetchCount(stream, length, reader) ==
  LET count == Fetch(stream, length, reader, 4)
  IN  [count EXCEPT !.ok = @ /\ count.out <= length - count.at]

Mut_terminator_kept(stream, length, reader, kind) ==
  LET count == FetchCount(stream, length, reader)
  IN  Collect(LAMBDA r : Fetch(stream, length, r, IF kind = "wstring" THEN 4 ELSE 1),
              count, IF count.ok THEN count.out ELSE 0)
FetchString(stream, length, reader, kind) ==
  LET count == FetchCount(stream, length, reader)
      chars == Collect(LAMBDA r : Fetch(stream, length, r, IF kind = "wstring" THEN 4 ELSE 1),
                       count, IF count.ok THEN count.out ELSE 0)
  IN  IF kind = "string" /\ chars.out # <<>> THEN [chars EXCEPT !.out = Front(@)] ELSE chars

FetchItem(stream, length, reader, m) ==
  IF IsString(m) THEN FetchString(stream, length, reader, m.kind)
  ELSE Fetch(stream, length, reader, Width(m.kind))

RECURSIVE Deserialize(_, _, _, _)
Deserialize(members, stream, length, reader) ==
  FoldLeft(LAMBDA acc, i :
             IF ~acc.ok THEN acc
             ELSE LET m == members[i]
                      count == IF IsSequence(m) THEN FetchCount(stream, length, acc)
                               ELSE [acc EXCEPT !.out = m.size]
                      Read(r) == IF IsMessage(m)
                                 THEN Deserialize(m.sub, stream, length, [r EXCEPT !.out = <<>>])
                                 ELSE FetchItem(stream, length, r, m)
                      items == Collect(Read, count, IF count.ok THEN count.out ELSE 0)
                  IN  [items EXCEPT !.out = Append(acc.out, items.out)],
           reader, [i \in DOMAIN members |-> i])

DeserializeSample(members, stream, length) ==
  LET fresh == [at |-> 0, ok |-> TRUE, out |-> <<>>]
  IN  IF members = <<>> THEN [Fetch(stream, length, fresh, 1) EXCEPT !.out = <<>>]
      ELSE Deserialize(members, stream, length, fresh)

-----------------------------------------------------------------------------
\* The key of a message, as a value: what the keyed members hold.
RECURSIVE KeyOf(_, _)
KeyOf(members, msg) ==
  FoldLeft(LAMBDA acc, i :
             Append(acc, IF IsMessage(members[i])
                         THEN [k \in DOMAIN msg[i] |-> KeyOf(members[i].sub, msg[i][k])]
                         ELSE msg[i]),
           <<>>, Walked(members, TRUE))

\* The key has the same layout whatever the message holds.
RECURSIVE FixedKey(_)
FixedKey(members) ==
  \A k \in DOMAIN Walked(members, TRUE) :
    LET m == members[Walked(members, TRUE)[k]]
    IN  ~IsSequence(m) /\ ~IsString(m) /\ (IsMessage(m) => FixedKey(m.sub))

\* The key holds an unbounded sequence of something other than strings, whose
\* length the bound of the key does not count.
RECURSIVE OpenKey(_)
OpenKey(members) ==
  \E k \in DOMAIN Walked(members, TRUE) :
    LET m == members[Walked(members, TRUE)[k]]
    IN  \/ m.dim = "unbounded" /\ ~IsString(m)
        \/ IsMessage(m) /\ OpenKey(m.sub)

(***************************************************************************)
(* The positions of a plain message's primitives, in CDR and in memory.    *)
(***************************************************************************)
RECURSIVE CdrPositions(_, _)
CdrPositions(members, from) ==
  FoldLeft(LAMBDA acc, m :
             FoldLeft(LAMBDA a, k :
                        IF IsMessage(m) THEN LET in == CdrPositions(m.sub, a.at)
                                             IN  [at |-> in.at, all |-> a.all \o in.all]
                        ELSE LET at == Up(a.at, Width(m.kind))
                             IN  [at |-> at + Width(m.kind), all |-> Append(a.all, at)],
                      acc, [k \in 1 .. m.size |-> k]),
           [at |-> from, all |-> <<>>], members)

RECURSIVE StructPositions(_, _)
StructPositions(members, from) ==
  FlattenSeq([i \in DOMAIN members |->
    LET m == members[i]
        at == from + Offsets(members)[i]
    IN  IF IsMessage(m)
        THEN FlattenSeq([k \in 1 .. m.size |->
               StructPositions(m.sub, at + (k - 1) * StructSize(m.sub))])
        ELSE [k \in 1 .. m.size |-> at + (k - 1) * Width(m.kind)]])
=============================================================================
