--------------------------- MODULE MCTypedEndpoint ---------------------------
(***************************************************************************)
(* Three kinds of instances of TypedEndpoint: many types with one profile  *)
(* (layout), keyed types with several messages (keys), and one type with   *)
(* many profiles (QoS).                                                    *)
(***************************************************************************)
EXTENDS TypedEndpoint

CONSTANTS e1, e2, p1, p2, t1, t2

MCParticipantOf(e) == IF e = e1 THEN p1 ELSE p2

Member(kind, dim, size) ==
  [kind |-> kind, dim |-> dim, size |-> size, bound |-> 0, key |-> FALSE, sub |-> <<>>]
One(kind) == Member(kind, "one", 1)
Nested(sub, dim, size) == [Member("message", dim, size) EXCEPT !.sub = sub]
Key(member) == [member EXCEPT !.key = TRUE]

\* A message that ends in padding, one that holds strings, and one of them in it.
Padded == <<One("u16"), One("u8")>>
Texts == <<One("u8"), Member("string", "bounded", 2)>>
Deep == <<Nested(Padded, "one", 1), One("u32")>>

Menu == {One("u8"), One("u16"), One("u32"), One("u64"), Member("u8", "array", 3),
         Member("u32", "array", 2), Member("u8", "bounded", 2), Member("u64", "bounded", 2),
         Member("u64", "unbounded", 0), Nested(<<One("u8"), One("u32")>>, "one", 1),
         One("string"), [One("string") EXCEPT !.bound = 1],
         Member("string", "array", 2), Member("string", "unbounded", 0),
         One("wstring"), Member("wstring", "unbounded", 0),
         Nested(Padded, "one", 1), Nested(Padded, "array", 2), Nested(Padded, "unbounded", 0),
         Nested(Texts, "one", 1), Nested(Deep, "bounded", 2)}

\* The lengths a member takes, and its elements: each length with a few
\* contents, told apart by their numbers.
Lengths(m) == CASE m.dim = "unbounded" -> {0, 1, 3}
                [] m.dim = "bounded" -> 0 .. m.size
                [] OTHER -> {m.size}

RECURSIVE Content(_, _, _)
Content(m, tag, length) ==
  [k \in 1 .. length |->
     CASE IsString(m) -> [c \in 1 .. (tag + k) % 4 |-> tag + 1]
       [] IsMessage(m) -> [i \in DOMAIN m.sub |->
                             Content(m.sub[i], tag, Max({l \in Lengths(m.sub[i]) : l <= tag + 1}))]
       [] OTHER -> tag + k - 1]

\* Strings without data, in C, and one that is longer than the bounds there are.
Odd(m, lang) ==
  IF m.kind # "string" \/ m.dim \notin {"one", "unbounded"} THEN {}
  ELSE {<<<<5, 6, 7>>>>} \cup IF lang = "c" THEN {<<NoData>>} ELSE {}

MembersOf(m, lang) == Odd(m, lang) \cup {Content(m, tag, length) : tag \in {0, 1}, length \in Lengths(m)}
\* The messages whose members take these contents.
Product(type, Contents(_)) ==
  FoldLeft(LAMBDA msgs, m : {Append(msg, v) : msg \in msgs, v \in Contents(m)}, {<<>>}, type)
MessagesOf(type, lang) == Product(type, LAMBDA m : MembersOf(m, lang))

Profile == [history |-> "keep_last", durability |-> "volatile", reliability |-> "reliable",
            liveliness |-> "automatic", depth |-> 1, lifespan |-> 0, deadline |-> 0, lease |-> 0]
Default == Profile @@ [announcement |-> Infinite, perInstance |-> 4]
Defaults == [Default EXCEPT !.lifespan = Infinite, !.deadline = Infinite, !.lease = Infinite]

Instance(package, type, default, keep, md5) ==
  [package |-> package, type |-> type, default |-> default, keepDefault |-> keep,
   forceMd5 |-> md5]

LayoutTypes == {<<>>} \cup {<<m>> : m \in Menu} \cup {<<m, n>> : m, n \in Menu}
               \cup {<<m, One("u8"), One("u64")>> : m \in Menu}
LayoutCases == {Instance(pkg, type, Defaults, FALSE, FALSE) :
                  pkg \in {"introspection_c", "introspection_cpp"}, type \in LayoutTypes}

\* A key of one word, of more than sixteen bytes, of a string, of a string
\* before a number, of sequences, in a nested message, and all of a message.
KeyTypes == {
  <<Key(One("u8")), Key(One("u32")), One("u16")>>,
  <<Key(Member("u32", "array", 2))>>,
  <<Key(Member("u32", "array", 5))>>,
  <<Key(One("string")), Key(One("u32"))>>,
  <<Key(Member("u8", "bounded", 2)), Key(One("u32"))>>,
  <<Key(Member("u8", "unbounded", 0))>>,
  <<Key(Nested(<<Key(One("u16")), One("u64")>>, "one", 1)), One("u8")>>,
  <<Key(Nested(Padded, "array", 2))>>}

KeyContent(m) ==
  CASE ~m.key -> {Content(m, 0, m.size)}
    [] IsString(m) -> {<<<<1>>>>, <<<<1, 1, 1>>>>, <<[c \in 1 .. 13 |-> 1]>>}
    [] IsSequence(m) -> {Content(m, 0, l) : l \in {1, 2}}
    [] OTHER -> {Content(m, tag, m.size) : tag \in IF m = Key(One("u32")) THEN {1} ELSE {0, 1}}
KeyMessages(type) == Product(type, KeyContent)
KeyCases ==
  {Instance("introspection_cpp", type, Defaults, FALSE, FALSE) : type \in KeyTypes}
  \cup {Instance(pkg, <<Key(Member("u32", "array", 2))>>, Defaults, FALSE, pkg = "static") :
          pkg \in {"introspection_cpp", "static"}}
  \cup {Instance("introspection_c", <<Key(One("string")), Key(One("u32"))>>, Defaults, FALSE, FALSE),
        Instance("static", <<One("u8"), Key(One("string"))>>, Defaults, FALSE, FALSE)}

AllProfiles ==
  {[history |-> h, durability |-> d, reliability |-> "default", liveliness |-> l,
    depth |-> n, lifespan |-> t, deadline |-> 0, lease |-> a] :
     h \in {"keep_last", "keep_all", "default", "unknown"}, d \in {"volatile", "default", "unknown"},
     l \in {"manual_by_topic", "default"}, n \in {0, 1, 3, MaxInt, MaxInt + 1},
     t \in {0, 2, Infinite}, a \in {0, 1, 3, MaxInt + 2, Infinite}}
QosTypes == {<<One("u32")>>, <<Key(One("u32"))>>}
QosCases == {Instance("introspection_cpp", type, [Defaults EXCEPT !.depth = depth], keep, FALSE) :
               type \in QosTypes, depth \in {1, 5}, keep \in BOOLEAN}

MCCases == LayoutCases \cup KeyCases \cup QosCases
MCMessages(c) == IF c \in LayoutCases THEN MessagesOf(c.type, Lang(c)) ELSE {}
MCKeys(c) == IF c \in KeyCases THEN KeyMessages(c.type) ELSE {}
MCProfiles(c, e) == CASE c \in KeyCases -> {Profile}
                      [] c \in QosCases -> IF e = e1 THEN AllProfiles ELSE {}
                      [] OTHER -> IF e = e1 THEN {Profile} ELSE {}
=============================================================================
