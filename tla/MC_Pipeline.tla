---------------------------- MODULE MC_Pipeline ----------------------------
(***************************************************************************)
(* The operators of pkg/db's tests and of spec seed scenario 6:            *)
(*   Omit({a:1,b:1}, {a:2,b:1}, {a:1,b:2}), Filter("a", Eq[int32](1)),     *)
(*   Offset(1), Limit(1);  OnConflict("name", DoNothing()) and two          *)
(*   Insert(&User{Name: "hello"}) on two models, and a                      *)
(*   Filter("constraint", Eq("hello")) on the documents Insert emits.       *)
(* The documents are Go map[string]any with Go int values.                 *)
(***************************************************************************)
EXTENDS Pipeline

CONSTANTS om, fl, fl2, off, lim, oc, ins1, ins2, m1, m2

\* A Go int (8 bytes; written as an int32) and the int32 of Eq[int32].
GoInt(n) == [type |-> "int", bytes |-> <<0, 0, 0, 0, 0, 0, 0, n>>, num |-> n, elems |-> <<>>]
I32(n) == [type |-> "int32", bytes |-> <<0, 0, 0, n>>, num |-> n, elems |-> <<>>]
Hello == Text(<<104, 101, 108, 108, 111>>)

\* map[string]any{...}: entries in Go's map order, which the encoder sorts.
Doc(es) == [type |-> "map", bytes |-> <<>>, num |-> 0,
            elems |-> [i \in DOMAIN es |-> <<Text(<<es[i][1]>>), GoInt(es[i][2])>>]]

MCOps == {om, fl, fl2, off, lim, oc, ins1, ins2}

MCKind ==
    [o \in MCOps |->
        CASE o = om -> "omit" [] o \in {fl, fl2} -> "filter" [] o = off -> "offset"
          [] o = lim -> "limit" [] o = oc -> "onconflict"
          [] o \in {ins1, ins2} -> "insert"]

MCArg ==
    [o \in MCOps |->
        CASE o = om  -> << Doc(<< <<97, 1>>, <<98, 1>> >>),      \* {a:1, b:1}
                           Doc(<< <<98, 1>>, <<97, 2>> >>),      \* {b:1, a:2}
                           Doc(<< <<97, 1>>, <<98, 2>> >>) >>    \* {a:1, b:2}
          [] o = fl  -> [field |-> Text(<<97>>), value |-> I32(1)]
          [] o = fl2 -> [field |-> Text(FieldNames[2]), value |-> Hello]
          [] o = off -> 1
          [] o = lim -> 1
          [] o = oc  -> "name"
          [] o = ins1 -> m1
          [] o = ins2 -> m2]

MCModels == {m1, m2}
MCModelName == (m1 :> Hello) @@ (m2 :> Text(<<104, 105>>))   \* "hello", "hi"
MCKeys == {1, 2}

\* db_test and docs_test's pipelines, a pipeline reusing their operators in
\* another order, and Filters behind an Insert: one on a field the User
\* document lacks, one on its constraint.
MCPipelines ==
    { <<om, fl, off, lim>>, <<om, lim, off>>,
      <<oc, ins1>>, <<oc, ins2>>, <<Nil, ins1, fl>>, <<Nil, ins2, fl2>> }

=============================================================================
