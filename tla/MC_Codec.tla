------------------------------ MODULE MC_Codec ------------------------------
(***************************************************************************)
(* The values and namespaces the Codec model is checked over: every tag    *)
(* group, the extremes of each width, both zeros and both infinities of a  *)
(* float, strings on both sides of the 128-byte length at which a Uvarint  *)
(* needs a second byte, empty and non-empty arrays, a pre-encoded value,   *)
(* and namespaces on both sides of 2^16 and at the top of the uint64 range.*)
(* Struct types: kiwidb's models, and structs that embed others so that    *)
(* every case of typeFields happens: a shallower field hiding a deeper     *)
(* one, a tagged field beating an untagged one at one depth, two fields    *)
(* of one depth and taggedness annihilating, a tagged embedded struct, an  *)
(* embedded pointer, unexported fields, a struct embedding itself, and a   *)
(* struct embedded twice at one depth.                                     *)
(***************************************************************************)
EXTENDS Codec, Schema

Z(n) == [i \in 1..n |-> 0]
Ones(n) == [i \in 1..n |-> 255]

\* A Go value: its type, its bytes, its place in its type's order.
V(t, bs, num) == [type |-> t, bytes |-> bs, num |-> num, elems |-> <<>>]
Arr(es, num) == [type |-> "[]any", bytes |-> <<>>, num |-> num, elems |-> es]

MCNamespaces ==
    { Z(8),                                \* 0, the bootstrap table
      <<0, 0, 0, 0, 0, 0, 255, 255>>,      \* 65535
      <<0, 0, 0, 0, 0, 1, 0, 0>>,          \* 65536
      Ones(8) }                            \* MaxUint64

MCIntValues ==
    { V("int8", <<128>>, -128), V("int8", <<255>>, -1), V("int8", <<0>>, 0),
      V("int8", <<127>>, 127),
      V("int16", <<255, 255>>, -1), V("int16", <<1, 0>>, 256),
      V("int64", <<128>> \o Z(7), -1000), V("int64", Ones(8), -1),
      V("int64", Z(8), 0), V("int64", <<127>> \o Ones(7), 1000),
      V("int", Ones(8), -1),
      V("int", <<0, 0, 0, 0, 128, 0, 0, 0>>, 100) }      \* 2^31

MCUintValues ==
    { V("uint8", <<0>>, 0), V("uint8", <<255>>, 255),
      V("uint32", <<0, 0, 0, 1>>, 1), V("uint32", <<0, 0, 1, 0>>, 256),
      V("uint64", Z(8), 0), V("uint64", Ones(8), 1000),
      V("uint", <<0, 0, 0, 0, 0, 0, 0, 1>>, 1),
      V("uint", <<0, 0, 0, 1, 0, 0, 0, 0>>, 100) }        \* 2^32

MCFloatValues ==
    { V("float64", <<255, 240>> \o Z(6), -3),             \* -Inf
      V("float64", <<191, 240>> \o Z(6), -2),             \* -1.0
      V("float64", <<128>> \o Z(7), 0),                   \* -0.0
      V("float64", Z(8), 0),                              \* +0.0
      V("float64", <<63, 240>> \o Z(6), 2),               \* 1.0
      V("float64", <<127, 240>> \o Z(6), 3),              \* +Inf
      V("float32", <<191, 128, 0, 0>>, -2),
      V("float32", <<63, 128, 0, 0>>, 2) }

MCBytesValues ==
    { V("string", <<>>, 0), V("string", <<97>>, 0), V("string", <<97, 98>>, 0),
      V("string", <<98>>, 0), V("string", [i \in 1..128 |-> 97], 0),
      V("[]byte", <<>>, 0), V("[]byte", <<1>>, 0), V("[]byte", <<2>>, 0),
      V("Encoded", <<217, 1, 97>>, 0) }                   \* msgp str8 "a"

MCOtherValues ==
    { V("nil", <<>>, 0), V("bool", <<0>>, 0), V("bool", <<1>>, 0),
      Arr(<<>>, 0), Arr(<<V("int8", <<1>>, 1)>>, 0), Arr(<<V("int8", <<2>>, 2)>>, 0) }

\* Fields of one-letter names (ASCII codes); Unexported(n, t) a lower-case
\* field, Embedded(t, n) an embedded struct or pointer to one.
IntF(n) == Field(<<n>>, NoTag, "int")
TInt(n, tag) == Field(<<n>>, Tag(<<tag>>), "int")
Unexported(n, t) == [Field(<<n>>, NoTag, t) EXCEPT !.exported = FALSE]
UnexportedEmbedded(t, n) == [Embedded(t, <<n>>) EXCEPT !.exported = FALSE]

\* Tags{A; B; E `msgp:"e"` (a B); *C; lower; w int; myInt; W int} with
\* A{P `msgp:"Q"`; W; X; R `msgp:"r"`}, B{Q; X; S `msgp:"r"`}, C{K},
\* lower{L}; Diamond{A2; B2}, A2{Cd}, B2{Cd}, Cd{M; Dd}, Dd{N};
\* Node{*Node; V}.
MCStructs ==
    ModelTypes @@
    [Tags    |-> << Embedded("A", <<65>>), Embedded("B", <<66>>),
                    [Embedded("B", <<69>>) EXCEPT !.tag = Tag(<<101>>)],
                    Embedded("C", <<67>>), UnexportedEmbedded("lower", 108),
                    Unexported(119, "int"), UnexportedEmbedded("int", 109), IntF(87) >>,
     A       |-> << TInt(80, 81), IntF(87), IntF(88), TInt(82, 114) >>,
     B       |-> << IntF(81), IntF(88), TInt(83, 114) >>,
     C       |-> << IntF(75) >>,
     lower   |-> << IntF(76) >>,
     Diamond |-> << Embedded("A2", <<65>>), Embedded("B2", <<66>>) >>,
     A2      |-> << Embedded("Cd", <<67>>) >>,
     B2      |-> << Embedded("Cd", <<67>>) >>,
     Cd      |-> << IntF(77), Embedded("Dd", <<68>>) >>,
     Dd      |-> << IntF(78) >>,
     Node    |-> << Embedded("Node", <<78>>), IntF(86) >>,
     Pair    |-> << TInt(65, 97), TInt(66, 98) >>]

MCStructRoots == {"User", "TableSchema", "IndexSchema", "Tags", "Diamond", "Node"}

\* The fields the struct encoder writes for each of those types follow the
\* embedded-field rule typeFields' comment names.
StructFieldsVisible == EncodesVisibleFields(MCStructs, MCStructRoots)

\* Pair{A int `msgp:"a"`; B int `msgp:"b"`} with a composite index "a,b",
\* besides the models' own Indexes(); a sample value of each.
U64(k) == V("uint64", Z(7) \o <<k>>, k)
MCIndexes == ModelIndexes @@ [Pair |-> <<97, 44, 98>> :> Index]
MCIndexSamples ==
    [TableSchema |-> { << <<U64(1)>>, Text(<<117>>), "reflect.Type", "map" >> },
     IndexSchema |-> { << <<U64(2)>>, U64(1), V("int", Z(8), 0),
                          Arr(<<Arr(<<Text(N_name)>>, 0)>>, 0) >> },
     User        |-> { << <<U64(3)>>, Text(<<104, 105>>), Text(<<>>) >>,
                       << <<U64(4)>>, Text(<<>>), Text(<<120>>) >> },
     Pair        |-> { << V("int", Ones(8), -1), V("int", Z(7) \o <<5>>, 5) >> }]

\* syncTable indexes each of these documents under the fields its index
\* names.
IndexedFields == IndexValuesAreFields(MCStructs, MCIndexes, MCIndexSamples)

MCValues ==
    MCIntValues \cup MCUintValues \cup MCFloatValues \cup MCBytesValues \cup MCOtherValues

=============================================================================
