------------------------------ MODULE Document ------------------------------
(***************************************************************************)
(* The lazily encoded document of internal/database/document.go.  A doc   *)
(* holds a Go value, its encoded bytes, or both: DocumentFrom(v) sets the  *)
(* value, DocumentFromBytes(b) the bytes (table.Get and table.Range wrap   *)
(* stored rows so).  Marshal caches the bytes, Value caches the decoded    *)
(* value, and SetPrimaryKey writes the key into the value (a model with    *)
(* schema.PKey) or splices it into the bytes with msgp.Set (any other      *)
(* value).  One document is modelled; its caller makes up to MaxCalls     *)
(* calls on it, one goroutine, each call one step.  Unmarshal(v) changes   *)
(* nothing in the document and is not an action.                          *)
(***************************************************************************)
EXTENDS KeyPath

CONSTANTS
    Values,    \* Go values handed to DocumentFrom (msgp values: maps, structs)
    Stored,    \* values whose encoding a table row holds (DocumentFromBytes)
    Keys,      \* primary keys handed to SetPrimaryKey (tx.ID(), a stored key)
    Nil,       \* a nil value or nil []byte
    MaxCalls   \* bound on the caller's calls

VARIABLES
    value,     \* doc.value
    raw,       \* doc.raw
    panicked,  \* the caller's goroutine panicked in a call
    lastKey,   \* history: the key of the last SetPrimaryKey call, 0 before
    calls      \* calls made so far

vars == <<value, raw, panicked, lastKey, calls>>

\* "id", the msgp name of schema.PKey's ID field, and a uint64 value.
IdName == [type |-> "string", bytes |-> <<105, 100>>, num |-> 0, elems |-> <<>>]
U64(k) == [type |-> "uint64", bytes |-> <<0, 0, 0, 0, 0, 0, 0, k>>, num |-> k, elems |-> <<>>]

\* d.value.(schema.CanPrimaryKey): the models are pointers to structs that
\* embed schema.PKey; maps, and the map[string]any Value() decodes, are not.
CanPrimaryKey(v) == v # Nil /\ v.type = "struct"

\* PKey.SetPrimaryKey on the struct's id field, and PKey.PrimaryKey.
WithId(v, k) ==
    [v EXCEPT !.elems = [i \in DOMAIN v.elems |->
                            IF v.elems[i][1] = IdName THEN <<IdName, U64(k)>> ELSE v.elems[i]]]
IdOf(v) == LET i == CHOOSE i \in DOMAIN v.elems : v.elems[i][1] = IdName IN v.elems[i][2].num

\* doc.Marshal: the cached bytes, or msgp.Marshal of the value.
Marshalled(v, b) == IF b # Nil THEN b ELSE MarshalDoc(v)

Init ==
    /\ \/ \E v \in Values : value = v /\ raw = Nil
       \/ \E s \in Stored : value = Nil /\ raw = MarshalDoc(s)
    /\ panicked = FALSE
    /\ lastKey = 0
    /\ calls = 0

Live == ~panicked /\ calls < MaxCalls

-----------------------------------------------------------------------------
(* The calls                                                               *)

\* doc.Marshal, and doc.Field(keyPath...), whose only effect on the
\* document is its call to Marshal (msgp.Get reads the bytes).
MarshalCall ==
    /\ Live
    /\ raw' = Marshalled(value, raw)
    /\ calls' = calls + 1
    /\ UNCHANGED <<value, panicked, lastKey>>

\* doc.Value: the value if set; else msgp.Unmarshal(d.raw, &d.value),
\* panicking on an error.
Decoded(r) ==
    /\ panicked' = r.err
    /\ value' = IF r.err THEN value ELSE r.val
ValueCall ==
    /\ Live
    /\ IF value # Nil THEN UNCHANGED <<value, panicked>> ELSE Decoded(DecodeDoc(raw))
    /\ calls' = calls + 1
    /\ UNCHANGED <<raw, lastKey>>

\* doc.PrimaryKey: PKey's field, or d.Field("id"): a path not found is 0,
\* otherwise id.Value().(uint64), which panics on an undecodable value and
\* on a value of another type.
PkValue(r) ==
    IF r.err \/ r.val.type # "uint64" THEN [panic |-> TRUE, key |-> 0]
    ELSE [panic |-> FALSE, key |-> BigEndian(r.val.bytes)]
PkField(g) == IF g.err # "none" THEN [panic |-> FALSE, key |-> 0] ELSE PkValue(DecodeAny(g.bytes))
PkOf(v, b) ==
    IF CanPrimaryKey(v) THEN [panic |-> FALSE, key |-> IdOf(v)]
    ELSE PkField(Get(Marshalled(v, b), <<IdName>>))

PrimaryKeyCall ==
    /\ Live
    /\ raw' = IF CanPrimaryKey(value) THEN raw ELSE Marshalled(value, raw)
    /\ panicked' = PkOf(value, raw).panic
    /\ calls' = calls + 1
    /\ UNCHANGED <<value, lastKey>>

\* doc.SetPrimaryKey(id): on a PKey model, the field is set and d.raw
\* dropped; otherwise d.Marshal() (caching d.raw), then msgp.Set of "id"
\* to msgp.Marshal(id), whose error is ignored: d.raw = valueRaw, nil when
\* the document has no "id".
SetIdBytes(r) == IF r.err # "none" THEN Nil ELSE r.bytes
SetPrimaryKey(k) ==
    /\ Live
    /\ IF CanPrimaryKey(value)
          THEN value' = WithId(value, k) /\ raw' = Nil
          ELSE /\ raw' = SetIdBytes(Set(Marshalled(value, raw), <<IdName>>, Marshal(U64(k))))
               /\ UNCHANGED value
    /\ lastKey' = k
    /\ calls' = calls + 1
    /\ UNCHANGED panicked

\* The caller is done with the document, or its goroutine panicked.
Done == (panicked \/ calls = MaxCalls) /\ UNCHANGED vars

Next ==
    \/ MarshalCall
    \/ ValueCall
    \/ PrimaryKeyCall
    \/ \E k \in Keys : SetPrimaryKey(k)
    \/ Done

Spec == Init /\ [][Next]_vars

-----------------------------------------------------------------------------
(* Properties                                                              *)

TypeOK ==
    /\ panicked \in BOOLEAN
    /\ lastKey \in Keys \cup {0}
    /\ calls \in 0..MaxCalls
    /\ value # Nil \/ raw # Nil

\* Two Go values that denote the same record: integers by value whatever
\* their width (a Go int field decodes as an int32), other scalars by type
\* and bits, maps and structs by their entries.
SameScalar(x, y) ==
    CASE x.type \in IntTypes  -> y.type \in IntTypes /\ SignExtend(x.bytes) = SignExtend(y.bytes)
      [] x.type \in UintTypes -> y.type \in UintTypes /\ ZeroExtend(x.bytes) = ZeroExtend(y.bytes)
      [] OTHER                -> x.type = y.type /\ x.bytes = y.bytes
SameRecord(x, y) ==
    /\ Len(x.elems) = Len(y.elems)
    /\ \A i \in DOMAIN x.elems : \E j \in DOMAIN y.elems :
          x.elems[i][1].bytes = y.elems[j][1].bytes /\ SameScalar(x.elems[i][2], y.elems[j][2])

\* Spec 2 and 9 (the lazy document): the value and the bytes a document
\* caches are one record, the stale side invalidated by every mutation.
RepresentationsAgree ==
    value # Nil /\ raw # Nil =>
        LET r == DecodeDoc(raw) IN ~r.err /\ SameRecord(value, r.val)

\* Spec 2: a document whose primary key was set reads that key back.
KeepsPrimaryKey ==
    lastKey # 0 /\ ~panicked => PkOf(value, raw) = [panic |-> FALSE, key |-> lastKey]

\* The document's reads agree with one another and with its last
\* SetPrimaryKey, whatever calls Marshal, Value, PrimaryKey and
\* SetPrimaryKey came before.
DocumentCoherent == RepresentationsAgree /\ KeepsPrimaryKey

=============================================================================
