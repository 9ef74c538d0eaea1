---------------------------- MODULE MC_TreeRange ----------------------------
(***************************************************************************)
(* A tree in namespace 10 between trees in namespaces 9 and 11, holding   *)
(* keys of a signed and an unsigned integer type, a float type and a       *)
(* string type; requests bounded by the same values.  Nil is a model      *)
(* value.                                                                  *)
(***************************************************************************)
EXTENDS TreeRange

NS(n) == Zeros(7) \o <<n>>
Val(t, bs, num) == [type |-> t, bytes |-> bs, num |-> num, elems |-> <<>>]

MCNamespace == NS(10)
MCOthers == {NS(9), NS(11)}

MCValues ==
    { Val("int8", <<255>>, -1), Val("int8", <<1>>, 1),
      Val("uint8", <<5>>, 5),
      Val("float64", <<191, 240>> \o Zeros(6), -1),      \* -1.0
      Val("float64", <<63, 240>> \o Zeros(6), 1),        \* 1.0
      Val("string", <<97>>, 1) }                         \* "a"

\* Requests with both bounds or none.
MCClosedRequests == {r \in AllRequests : Closed(r)}

=============================================================================
