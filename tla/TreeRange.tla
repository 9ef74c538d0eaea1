----------------------------- MODULE TreeRange -----------------------------
(***************************************************************************)
(* A tree of kiwidb (internal/tree/tree.go): a namespace over a session,   *)
(* its single-value keys written by Insert and removed by Delete, and      *)
(* Range, which turns a (min, max, exclusive) request into the byte bounds *)
(* of a pebble iterator (buildMinKeyForType, buildMaxKeyForType and the    *)
(* four start/end builders, with msgp.MinValueForType and                 *)
(* msgp.MaxTypeCodeForType) and hands the keys between them, in comparer  *)
(* order or reversed, to a callback that may stop the scan with an error. *)
(*                                                                         *)
(* Keys of other trees (namespaces) live in the same pebble keyspace.      *)
(* Values are Msgp value records; the bounds of a request keep the Go     *)
(* values they were built from (NewKey), so Values() returns them as is.  *)
(***************************************************************************)
EXTENDS Msgp, FiniteSets

CONSTANTS
    Namespace,    \* the tree's namespace (8 big-endian bytes)
    Others,       \* namespaces of other trees, each holding one key
    TreeValues,   \* values of the single-value keys the tree may hold
    Bounds,       \* values a request's min or max is built from
    Requests,     \* the Range requests the callers make (from AllRequests)
    Nil           \* an absent bound (a nil Key)

TreeKey(v) == [ns |-> Namespace, vals |-> <<v>>]
TreeKeys   == {TreeKey(v) : v \in TreeValues}
OtherKeys  == {[ns |-> o, vals |-> <<CHOOSE v \in TreeValues : TRUE>>] : o \in Others}

\* tree.NewRange(min, max, exclusive) with bounds built by NewKey(v): both
\* bounds present are of one Go type.
AllRequests ==
    {r \in [min : Bounds \cup {Nil}, max : Bounds \cup {Nil}, excl : BOOLEAN] :
        r.min # Nil /\ r.max # Nil => r.min.type = r.max.type}

VARIABLES
    stored,    \* keys present in the pebble keyspace
    start,     \* the iterator bounds of the last Range
    end,
    req,       \* the last Range request and direction
    visited,   \* keys the callback received, in order
    status     \* "done" or "stopped" (by a callback error) after a Range,
               \* "idle" after any other step

vars == <<stored, start, end, req, visited, status>>

\* No scan since the last write: the scan history is cleared.
Idle ==
    /\ start = <<>> /\ end = <<>>
    /\ req = [min |-> Nil, max |-> Nil, excl |-> FALSE, rev |-> FALSE]
    /\ visited = <<>>
    /\ status = "idle"

\* The step of a write clears the scan history.
ClearScan ==
    /\ start' = <<>> /\ end' = <<>>
    /\ req' = [min |-> Nil, max |-> Nil, excl |-> FALSE, rev |-> FALSE]
    /\ visited' = <<>>
    /\ status' = "idle"

Init ==
    /\ stored = OtherKeys
    /\ Idle

-----------------------------------------------------------------------------
(* Bounds (helpers.go, tree.go)                                            *)

Go(t, bs) == [type |-> t, bytes |-> bs, num |-> 0, elems |-> <<>>]
Ones(n) == [i \in 1..n |-> 255]
Zeros(n) == [i \in 1..n |-> 0]

\* msgp.MinValueForType: the untyped constants math.MinInt8 .. MinInt64 and
\* 0 become Go ints, math.SmallestNonzeroFloat32/64 float64s.
MinValueForType(v) ==
    CASE v.type = "bool"               -> Go("bool", <<0>>)
      [] v.type = "int8"               -> Go("int", Ones(7) \o <<128>>)
      [] v.type = "int16"              -> Go("int", Ones(6) \o <<128, 0>>)
      [] v.type \in {"int32", "int"}   -> Go("int", Ones(4) \o <<128, 0, 0, 0>>)
      [] v.type = "int64"              -> Go("int", <<128>> \o Zeros(7))
      [] v.type \in UintTypes          -> Go("int", Zeros(8))
      [] v.type = "float32"            -> Go("float64", <<54, 160>> \o Zeros(6))
      [] v.type = "float64"            -> Go("float64", Zeros(7) \o <<1>>)
      [] v.type = "[]byte"             -> Go("[]byte", <<>>)
      [] v.type = "string"             -> Go("string", <<>>)
      [] v.type = "[]any"              -> Go("[]any", <<>>)

\* msgp.MaxTypeCodeForType: the tag byte after the last tag of v's type.
MaxTypeCodeForType(v) ==
    CASE v.type = "nil"                -> nullValue + 1
      [] v.type = "bool"               -> trueValue + 1
      [] v.type = "int8"               -> int8Value + 1
      [] v.type = "int16"              -> int8Value + 2
      [] v.type \in {"int32", "int"}   -> int8Value + 3
      [] v.type = "int64"              -> int8Value + 4
      [] v.type \in UintTypes          -> uint8Value + 4
      [] v.type \in FloatTypes         -> float32Value + 1
      [] v.type = "[]byte"             -> bin8Value + 3
      [] v.type = "string"             -> str8Value + 3
      [] v.type = "[]any"              -> array16Value + 2

\* key.WithNamespace(t.Namespace).Bytes().
InTree(vals) == KeyBytes([ns |-> Namespace, vals |-> vals])

BuildFirstKey == InTree(<<>>)
BuildLastKey  == InTree(<<>>) \o <<255>>

\* buildMinKeyForType: the other bound's values, the last one replaced by
\* the minimum of its type.  Requests here hold one value, the
\* len(max.Values()) == 1 branch: the minimum alone.
BuildMinKeyForType(max) ==
    IF max = Nil THEN BuildFirstKey
    ELSE InTree(<<MinValueForType(max)>>)

\* buildMaxKeyForType: for one value (the branch requests here take) the
\* bare namespace followed by the tag after the value's type.
BuildMaxKeyForType(min) ==
    IF min = Nil THEN BuildLastKey
    ELSE InTree(<<>>) \o <<MaxTypeCodeForType(min)>>

BuildStartKeyInclusive(v) == InTree(<<v>>)
BuildStartKeyExclusive(v) == InTree(<<v>>) \o <<255>>

\* Mutant of BuildEndKeyInclusive: the 0xFF past the bound forgotten.
BuildEndKeyInclusiveBare(v) == InTree(<<v>>)

BuildEndKeyInclusive(v)   == InTree(<<v>>) \o <<255>>
BuildEndKeyExclusive(v)   == InTree(<<v>>)

StartKey(r) ==
    IF r.min = Nil THEN BuildMinKeyForType(r.max)
    ELSE IF r.excl THEN BuildStartKeyExclusive(r.min)
    ELSE BuildStartKeyInclusive(r.min)

EndKey(r) ==
    IF r.max = Nil THEN BuildMaxKeyForType(r.min)
    ELSE IF r.excl THEN BuildEndKeyExclusive(r.max)
    ELSE BuildEndKeyInclusive(r.max)

\* BatchSession.Iterator(start, end): the present keys in [start, end)
\* under the comparer, in its order.
Iterate(s, e) ==
    LET in     == {k \in stored : Compare(s, KeyBytes(k)) <= 0 /\ Compare(KeyBytes(k), e) < 0}
        rank(k) == Cardinality({j \in in : Compare(KeyBytes(j), KeyBytes(k)) < 0})
    IN [i \in 1..Cardinality(in) |-> CHOOSE k \in in : rank(k) = i - 1]

-----------------------------------------------------------------------------
(* Operations                                                              *)

\* Mutant of Insert: the key written without WithNamespace, in namespace 0.
InsertWithoutNamespace(v) ==
    /\ [ns |-> Zeros(8), vals |-> <<v>>] \notin stored
    /\ stored' = stored \cup {[ns |-> Zeros(8), vals |-> <<v>>]}
    /\ ClearScan

\* Tree.Insert: Session.Insert of the namespaced key, refused when present
\* (ErrKeyAlreadyExists, nothing written).
Insert(v) ==
    /\ TreeKey(v) \notin stored
    /\ stored' = stored \cup {TreeKey(v)}
    /\ ClearScan

\* Tree.Delete: Session.Delete of the namespaced key.
Delete(v) ==
    /\ TreeKey(v) \in stored
    /\ stored' = stored \ {TreeKey(v)}
    /\ ClearScan

\* Tree.Range (named RangeScan, Range being the Functions operator): the
\* bounds, the iterator from First (or Last for a reverse scan), fn on each
\* key until it returns an error.  A scan writes nothing, so scans are taken
\* from the states writes reach ("idle"): a second scan of the same keys
\* is one of the scans of that state.
RangeScan(r, rev) ==
    LET s    == StartKey(r)
        e    == EndKey(r)
        asc  == Iterate(s, e)
        keys == IF rev THEN Reverse(asc) ELSE asc
    IN /\ status = "idle"
       /\ start' = s
       /\ end' = e
       /\ req' = [min |-> r.min, max |-> r.max, excl |-> r.excl, rev |-> rev]
       /\ \/ /\ visited' = keys
             /\ status' = "done"
          \/ \E i \in 1..Len(keys) :
                /\ visited' = SubSeq(keys, 1, i)
                /\ status' = "stopped"
       /\ UNCHANGED stored

Next ==
    \/ \E v \in TreeValues : Insert(v) \/ Delete(v)
    \/ \E r \in Requests, rev \in BOOLEAN : RangeScan(r, rev)

Spec == Init /\ [][Next]_vars

-----------------------------------------------------------------------------
(* Properties                                                              *)

TypeOK ==
    /\ stored \subseteq TreeKeys \cup OtherKeys
    /\ IsByteSeq(start) /\ IsByteSeq(end)
    /\ visited \in Seq(stored \cup TreeKeys)
    /\ status \in {"idle", "done", "stopped"}

\* The keys a request means (spec 4.2): the tree's keys whose value is of
\* the type of the present bounds and lies between them, inclusive or
\* exclusive; with no bound at all, every key of the tree.
Selected(r, keys) ==
    {k \in keys :
        LET v == k.vals[1] IN
        /\ k.ns = Namespace
        /\ r.min # Nil => v.type = r.min.type
                         /\ IF r.excl THEN r.min.num < v.num ELSE r.min.num <= v.num
        /\ r.max # Nil => v.type = r.max.type
                         /\ IF r.excl THEN v.num < r.max.num ELSE v.num <= r.max.num}

Closed(r) == (r.min = Nil) = (r.max = Nil)

\* The tree as spec 4.2 describes it: its values, and the values the
\* callback of the last Range received (a key of another namespace is
\* Nil, which no tree holds).
OT == INSTANCE OrderedTree WITH
        Values <- TreeValues,
        tree <- {k.vals[1] : k \in stored \cap TreeKeys},
        scan <- [req |-> req,
                 out |-> [i \in DOMAIN visited |->
                            IF visited[i].ns = Namespace THEN visited[i].vals[1] ELSE Nil],
                 status |-> status]

\* Spec 4.2, 8.6 and seed scenario 3: Tree.Insert, Tree.Delete and
\* Tree.Range over byte keys implement the ordered tree of OrderedTree.
\* A Range the callback does not stop visits exactly the selected keys
\* of the tree, each once, values of one type in order (reversed for a
\* reverse scan), never a key of a neighbouring namespace; one it stops
\* has visited a prefix of such a sequence.
ImplementsOrderedTree == OT!Spec

\* Spec 4.2: a Range with one bound absent visits at least every key of the
\* present bound's type on the open side of it: buildMinKeyForType and
\* buildMaxKeyForType keep the scan within that type, not short of it.
RangeOpenBound ==
    [][status' = "done" /\ ~Closed(req') =>
         Selected(req', stored) \subseteq Range(visited')]_vars

=============================================================================
