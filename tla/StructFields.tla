---------------------------- MODULE StructFields ----------------------------
(***************************************************************************)
(* The fields msgp writes for a Go struct (pkg/encoding/msgp/struct.go and *)
(* structEncoder in encode.go).  typeFields walks the struct and the       *)
(* structs it embeds breadth first, records the fields found at each       *)
(* depth, drops the fields that the rules for embedded fields hide (a      *)
(* field named by a msgp tag is promoted), and orders the survivors by     *)
(* their index sequence.  The struct encoder writes each field's name and  *)
(* the value it reaches by that index sequence.                            *)
(*                                                                         *)
(* A struct type is given by a table S from type names to their fields,    *)
(* in declaration order:                                                   *)
(*   [name: bytes, exported: BOOLEAN, anonymous: BOOLEAN,                  *)
(*    tag: [skip: BOOLEAN, name: bytes, omitempty: BOOLEAN], typ: T]       *)
(* where name is the Go field name (the type's name for an embedded        *)
(* field), tag is the parsed `msgp:"..."` tag (skip for "-"), and T a key *)
(* of S for a struct or a pointer to one, or a scalar kind.  Indices are   *)
(* 1-based where reflect's are 0-based.                                    *)
(***************************************************************************)
EXTENDS Msgp, FiniteSets

-----------------------------------------------------------------------------
(* typeFields                                                              *)

\* The fields typeFields does not look at: an embedded field of an
\* unexported non-struct type, an unexported non-embedded field, and a
\* field tagged "-".
Ignored(S, sf) ==
    \/ sf.anonymous /\ ~sf.exported /\ sf.typ \notin DOMAIN S
    \/ ~sf.anonymous /\ ~sf.exported
    \/ sf.tag.skip

\* A field is recorded when it is named by its tag, is not embedded, or is
\* not a struct (a pointer followed); an untagged embedded struct is
\* explored at the next depth instead.
Recorded(S, sf) == sf.tag.name # <<>> \/ ~sf.anonymous \/ sf.typ \notin DOMAIN S

\* Field i of the struct f.typ reached by f.index: skipped, recorded as a
\* field (named by the tag or the Go name), or an embedded struct to explore.
ScanField(S, f, i) ==
    LET sf == S[f.typ][i]
        fd == [name |-> IF sf.tag.name # <<>> THEN sf.tag.name ELSE sf.name,
               tag |-> sf.tag.name # <<>>, index |-> Append(f.index, i),
               typ |-> sf.typ, omitEmpty |-> sf.tag.omitempty]
    IN [kind  |-> IF Ignored(S, sf) THEN "skip" ELSE IF Recorded(S, sf) THEN "field" ELSE "embed",
        from  |-> f.typ,
        field |-> fd]

\* The fields recorded at one depth, each twice when its struct was
\* reached more than once at that depth (count[f.typ] > 1), so that the
\* annihilation below sees a duplicate.
LevelFields(scans, count) ==
    FlattenSeq([k \in DOMAIN scans |->
        IF scans[k].kind # "field" THEN <<>>
        ELSE IF count[scans[k].from] > 1 THEN <<scans[k].field, scans[k].field>>
        ELSE <<scans[k].field>>])

\* nextCount, and next: the embedded structs to explore at the next depth,
\* the first occurrence of each type only.
NextCount(S, embeds) ==
    [t \in DOMAIN S |-> Cardinality({k \in DOMAIN embeds : embeds[k].field.typ = t})]
NextLevel(embeds) ==
    LET firsts == SetToSortSeq({k \in DOMAIN embeds :
                     \A j \in 1..(k - 1) : embeds[j].field.typ # embeds[k].field.typ}, <)
    IN [j \in DOMAIN firsts |->
          [typ |-> embeds[firsts[j]].field.typ, index |-> embeds[firsts[j]].field.index]]

\* One depth of the breadth-first walk: the structs of current not yet
\* visited are scanned, field by field.
RECURSIVE Levels(_, _, _, _, _)
LevelFrom(S, explore, count, visited, fields) ==
    LET scans  == FlattenSeq([j \in DOMAIN explore |->
                      [i \in DOMAIN S[explore[j].typ] |-> ScanField(S, explore[j], i)]])
        embeds == SelectSeq(scans, LAMBDA s : s.kind = "embed")
    IN Levels(S, NextLevel(embeds), NextCount(S, embeds),
              visited \cup {explore[j].typ : j \in DOMAIN explore},
              fields \o LevelFields(scans, count))
Levels(S, next, count, visited, fields) ==
    IF next = <<>> THEN fields
    ELSE LevelFrom(S, SelectSeq(next, LAMBDA f : f.typ \notin visited), count, visited, fields)

\* byIndex.Less: index sequences in lexicographic order, a prefix first.
RECURSIVE IndexLess(_, _)
IndexLess(a, b) ==
    IF a = <<>> THEN b # <<>>
    ELSE IF b = <<>> THEN FALSE
    ELSE IF Head(a) # Head(b) THEN Head(a) < Head(b)
    ELSE IndexLess(Tail(a), Tail(b))

\* The sort's order among fields of one name: shallower first, then the
\* tagged one, then by index sequence.
FieldLess(x, y) ==
    \/ Len(x.index) < Len(y.index)
    \/ Len(x.index) = Len(y.index) /\ x.tag /\ ~y.tag
    \/ Len(x.index) = Len(y.index) /\ x.tag = y.tag /\ IndexLess(x.index, y.index)

\* Mutant of DominantField: a collision at one depth annihilates both
\* fields even when only one is tagged.
DominantFieldIgnoringTags(g) ==
    IF Len(g) > 1 /\ Len(g[1].index) = Len(g[2].index) THEN {} ELSE {g[1]}

\* dominantField over the fields of one name, sorted: the first, unless the
\* second is at its depth with the same taggedness.
DominantField(g) ==
    IF Len(g) > 1 /\ Len(g[1].index) = Len(g[2].index) /\ g[1].tag = g[2].tag
       THEN {} ELSE {g[1]}

\* The fields that survive: the dominant field of each name.
Dominants(fields) ==
    UNION {DominantField(SortSeq(SelectSeq(fields, LAMBDA f : f.name = n), FieldLess)) :
              n \in {fields[i].name : i \in DOMAIN fields}}

\* typeFields(t): the walk from t, the dominant fields, sorted byIndex.
TypeFields(S, t) ==
    SetToSortSeq(Dominants(Levels(S, <<[typ |-> t, index |-> <<>>]>>,
                                  [u \in DOMAIN S |-> 0], {}, <<>>)),
                 LAMBDA x, y : IndexLess(x.index, y.index))

-----------------------------------------------------------------------------
(* structEncoder                                                           *)

\* The value of a field reached from struct value v by an index sequence;
\* a struct value is the sequence of its fields' values, a non-nil pointer
\* its pointee.
RECURSIVE FieldByIndex(_, _)
FieldByIndex(v, index) ==
    IF index = <<>> THEN v ELSE FieldByIndex(v[Head(index)], Tail(index))

\* The entries structEncoder writes after its map header: each field's
\* name, through stringEncoder, and the value its index reaches.
StructElems(S, t, v) ==
    LET fs == TypeFields(S, t)
    IN [i \in DOMAIN fs |->
          <<[type |-> "string", bytes |-> fs[i].name, num |-> 0, elems |-> <<>>],
            FieldByIndex(v, fs[i].index)>>]

-----------------------------------------------------------------------------
(* The rule the code states: Go's visibility rule for embedded fields,     *)
(* amended so that a tagged field is preferred                             *)

\* A field that takes part under its name: exported, or an embedded struct
\* (its exported fields are promoted), and not tagged "-".
Takes(S, sf) == ~sf.tag.skip /\ (sf.exported \/ (sf.anonymous /\ sf.typ \in DOMAIN S))

\* An untagged embedded struct is not a field itself: its fields are.
Transparent(S, sf) == sf.anonymous /\ sf.tag.name = <<>> /\ sf.typ \in DOMAIN S

\* Every field a selector can reach from type t through embedded structs,
\* along paths that pass through no struct twice: its wire name, whether
\* a tag named it, and its index sequence.
RECURSIVE Reachable(_, _, _, _)
Reachable(S, t, path, seen) ==
    UNION {LET sf == S[t][i] IN
             IF ~Takes(S, sf) THEN {}
             ELSE IF ~Transparent(S, sf)
                THEN {[name  |-> IF sf.tag.name # <<>> THEN sf.tag.name ELSE sf.name,
                       tag   |-> sf.tag.name # <<>>,
                       index |-> Append(path, i)]}
             ELSE IF sf.typ \in seen THEN {}
             ELSE Reachable(S, sf.typ, Append(path, i), seen \cup {sf.typ}) :
           i \in DOMAIN S[t]}

\* The field a name selects: among the shallowest fields of that name the
\* tagged ones if any, and only if exactly one remains.
Selected(C, n) ==
    LET named   == {c \in C : c.name = n}
        least   == {c \in named : \A d \in named : Len(c.index) <= Len(d.index)}
        pref    == IF \E c \in least : c.tag THEN {c \in least : c.tag} ELSE least
    IN IF Cardinality(pref) = 1 THEN pref ELSE {}
VisibleFields(S, t) ==
    LET C == Reachable(S, t, <<>>, {t}) IN UNION {Selected(C, n) : n \in {c.name : c \in C}}

\* typeFields writes every field the rule selects, at the index the rule
\* selects it by: the BFS with its visited set, the duplicates it adds for
\* a struct met twice at one depth, the sort and dominantField together
\* never lose or misplace a field that a Go selector of that name reaches.
EncodesVisibleFields(S, Ts) ==
    \A t \in Ts :
        LET fs == TypeFields(S, t) IN
        \A c \in VisibleFields(S, t) :
            \E i \in DOMAIN fs : fs[i].name = c.name /\ fs[i].index = c.index /\ fs[i].tag = c.tag

=============================================================================
