------------------------------- MODULE Codec -------------------------------
(***************************************************************************)
(* The comparer of kiwidb's pebble store (pkg/kv/pebble/engine.go) on the  *)
(* keys kiwidb writes (internal/tree/key.go), against the orders the codec *)
(* promises (spec sections 4.1 and 8).  The codec itself is in Msgp.       *)
(*                                                                         *)
(* The state is the pair of keys pebble hands the comparer.                *)
(***************************************************************************)
EXTENDS Msgp

CONSTANTS
    Namespaces,   \* tree namespaces, as the 8 big-endian bytes of a uint64
    Values        \* Go values placed after the namespace in a key

-----------------------------------------------------------------------------
(* The keys pebble compares                                               *)

\* A key of a tree: a namespace and no value (the bound Range starts from,
\* Truncate's prefix) or a namespace and one value.
Keys == {[ns |-> n, vals |-> <<>>] : n \in Namespaces}
          \cup {[ns |-> n, vals |-> <<v>>] : n \in Namespaces, v \in Values}

VARIABLES
    a,   \* the keys pebble passes to Compare, AbbreviatedKey, Successor
    b

vars == <<a, b>>

Init == a \in Keys /\ b \in Keys

\* The comparer holds no state: every pair pebble may hand it is an initial
\* state, and a step is the same call with the arguments the other way
\* round (pebble compares in both directions).
Swap == a' = b /\ b' = a

Next == Swap

Spec == Init /\ [][Next]_vars

-----------------------------------------------------------------------------
(* Properties                                                              *)

EA == KeyBytes(a)
EB == KeyBytes(b)
Cmp == Compare(EA, EB)

\* Compare(x, y) < 0 without a panic or a read past the key.
Less(x, y) == LET c == Compare(x, y) IN c # Panic /\ c < 0

Sign(x) == IF x < 0 THEN -1 ELSE IF x > 0 THEN 1 ELSE 0

\* a and b hold one value each, in the same namespace, both of a type in T.
SameSlot(T) ==
    /\ a.ns = b.ns
    /\ Len(a.vals) = 1 /\ Len(b.vals) = 1
    /\ a.vals[1].type \in T
    /\ b.vals[1].type = a.vals[1].type

TypeOK ==
    /\ a \in Keys /\ b \in Keys
    /\ IsByteSeq(EA) /\ IsByteSeq(EB)

\* Spec 8.3 (namespace isolation): every key of a lower namespace sorts
\* before every key of a higher one, whatever values follow, under the
\* comparer pebble uses; the namespace is key.Bytes' leading uint64.
NamespaceIsolation ==
    BytesCompare(a.ns, b.ns) < 0 => Less(EA, EB)

\* pebble's Comparer contract with Equal = bytes.Equal (engine.go): where
\* Compare returns without a panic, it reports equal exactly the keys whose
\* encodings are the same bytes.
EqualConsistent ==
    Cmp # Panic => ((Cmp = 0) <=> (EA = EB))

\* Spec 8.2 (order preservation) for the sized integer types: Compare
\* orders two keys as the integers of their value, across the bias the
\* encoders add and the fixed-width comparison of compareNextValue.
SizedTypes == {"int8", "int16", "int32", "int64",
               "uint8", "uint16", "uint32", "uint64"}
FixedWidthOrder ==
    SameSlot(SizedTypes) =>
        /\ a.vals[1].num < b.vals[1].num <=> Less(EA, EB)
        /\ a.vals[1].num = b.vals[1].num <=> Cmp = 0

\* The contract pebble states for a Comparer (engine.go wires Compare,
\* Successor and AbbreviatedKey into one): Compare returns for every pair
\* of keys without a panic or a read past the key; Successor(a) is a key
\* >= a; and a key that sorts before another never has a larger
\* AbbreviatedKey, which pebble compares first and trusts.
ComparerContract ==
    /\ Cmp # Panic
    /\ LET c == Compare(EA, Successor(EA)) IN c # Panic /\ c <= 0
    /\ Less(EA, EB) =>
          /\ \A i \in 1..7 : AbbreviatedKey(EA)[i] # Panic
          /\ BytesCompare(AbbreviatedKey(EA), AbbreviatedKey(EB)) <= 0

=============================================================================
