---------------------------- MODULE MC_Document ----------------------------
(***************************************************************************)
(* Documents of the kinds kiwidb builds: Insert(&User{Name: "hello"}) of   *)
(* pkg/db's tests (a model with schema.PKey), Go map[string]any models     *)
(* with and without an "id" entry, a map holding a Go int above 32 bits    *)
(* and a float64 -0, and a stored User row read back with table.Get.        *)
(***************************************************************************)
EXTENDS Document, Models

Text(codes) == [type |-> "string", bytes |-> codes, num |-> 0, elems |-> <<>>]
GoInt(b) == [type |-> "int", bytes |-> b, num |-> 0, elems |-> <<>>]
F64(b) == [type |-> "float64", bytes |-> b, num |-> 0, elems |-> <<>>]
Map(es) == [type |-> "map", bytes |-> <<>>, num |-> 0, elems |-> es]

\* &User{PKey{ID: k}, Name: "hello"}: fields id, constraint, desc.
User(k) ==
    [type |-> "struct", bytes |-> <<>>, num |-> 0,
     elems |-> UserElems(U64(k), Text(<<104, 101, 108, 108, 111>>), Text(<<>>))]

\* map[string]any{"id": uint64(0), "a": 1}, map[string]any{"a": 1}, and
\* map[string]any{"n": 1<<32 + 1, "x": math.Copysign(0, -1)}.
MapWithId == Map(<< <<IdName, U64(0)>>, <<Text(<<97>>), GoInt(<<0, 0, 0, 0, 0, 0, 0, 1>>)>> >>)
MapNoId   == Map(<< <<Text(<<97>>), GoInt(<<0, 0, 0, 0, 0, 0, 0, 1>>)>> >>)
MapLossy  == Map(<< <<Text(<<110>>), GoInt(<<0, 0, 0, 1, 0, 0, 0, 1>>)>>,
                    <<Text(<<120>>), F64(<<128, 0, 0, 0, 0, 0, 0, 0>>)>> >>)

MCValues == {User(0), MapWithId, MapNoId, MapLossy}
MCStored == {User(5)}

=============================================================================
