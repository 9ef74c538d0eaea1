------------------------------ MODULE KeyPath ------------------------------
(***************************************************************************)
(* Path operations over encoded documents (pkg/encoding/msgp/op.go): Get  *)
(* returns the byte range of the value a key path leads to, Set splices   *)
(* a replacement into it.  The scanner walks the encoded bytes with seek  *)
(* records (off, n), Go's 0-based offsets into b; map keys are decoded    *)
(* into an `any` and compared with the path step by Go's == on interface  *)
(* values (same dynamic type, same value); an array step must be a Go int. *)
(***************************************************************************)
EXTENDS StructFields

-----------------------------------------------------------------------------
(* Marshal of a document: a Go map or struct (encode.go)                   *)

\* Compare on two resolved keys of one map: keys share a Go type and are
\* scalars, so compareNextValue never reaches its container case and, for
\* strings shorter than 128 bytes (a one-byte Uvarint), its first result
\* is Compare's.
KeyLess(x, y) == CompareScalar(x, y)[1] < 0

\* reflectWithString.resolve: a map key's bytes, by the string, int or uint
\* encoder of its kind; a struct field's name goes through stringEncoder.
ResolveKey(k) ==
    CASE k.type = "string"   -> EncodeString(k)
      [] k.type \in IntTypes  -> EncodeInt(k)
      [] k.type \in UintTypes -> EncodeUint(k)

\* mapEncoder's sort.Slice of the entries by their resolved keys.
SortedEntries(es) == SortSeq(es, LAMBDA x, y : KeyLess(ResolveKey(x[1]), ResolveKey(y[1])))

\* The map header: the map16 tag and a 16-bit count, map32 and 32 bits
\* above 65535 entries.
MapHeader(n) ==
    IF BitSize(n) = 32 THEN <<map16Value + 1>> \o MakeUvarint(32, n)
                       ELSE <<map16Value>> \o MakeUvarint(16, n)

\* mapEncoder and structEncoder: the header, then key and value of each
\* entry; a map's entries sorted by Compare of their resolved keys, a
\* struct's fields (elems: <<name, value>>, the name a string) in field
\* order.  The model's documents hold scalars and arrays, never a nested
\* map, so each value is written by Encode.
EncodeDocument(v) ==
    LET ents == IF v.type = "map" THEN SortedEntries(v.elems) ELSE v.elems
    IN MapHeader(Len(v.elems))
        \o FlattenSeq([i \in DOMAIN ents |-> ResolveKey(ents[i][1]) \o Encode(ents[i][2])])

\* Marshal(v): a document by its encoder, any other value by Msgp's.
MarshalDoc(v) == IF v.type \in {"map", "struct"} THEN EncodeDocument(v) ELSE Marshal(v)

-----------------------------------------------------------------------------
(* Unmarshal(key, &v) with v of type any (decode.go)                       *)

IntByWidth  == <<"int8", "int16", "int32", "int64">>
UintByWidth == <<"uint8", "uint16", "uint32", "uint64">>

\* decodeState.value into an empty interface: int(n) and uint(n) store an
\* intN / uintN of the width read, float(n) a float32 / float64, string a
\* string, blob a []byte, bool a bool; nil leaves v nil; arrays and maps
\* become a []any or a map (never equal to a path step: other types).
DecodeAny(e) ==
    LET tag == e[1]
        buf == Drop(e, 1)
        as(t, r) == [err |-> r.err, val |-> [type |-> t, bytes |-> r.bytes]]
    IN CASE Len(e) = 0 -> [err |-> TRUE, val |-> [type |-> "nil", bytes |-> <<>>]]
         [] tag \in int8Value..(int8Value + 3) ->
               LET t == IntByWidth[tag - int8Value + 1] IN as(t, DecodeNumber(t, e))
         [] tag \in uint8Value..(uint8Value + 3) ->
               LET t == UintByWidth[tag - uint8Value + 1] IN as(t, DecodeNumber(t, e))
         [] tag \in {float32Value, float32Value + 1} ->
               LET t == IF tag = float32Value THEN "float32" ELSE "float64" IN
               as(t, DecodeFloat(t, IF tag = float32Value THEN 4 ELSE 8, buf))
         [] tag \in str8Value..(str8Value + 2) ->
               as("string", DecodeText("string", "string", 8 * 2 ^ (tag - str8Value), buf))
         [] tag \in bin8Value..(bin8Value + 2) ->
               as("[]byte", DecodeText("[]byte", "[]byte", 8 * 2 ^ (tag - bin8Value), buf))
         [] tag \in {falseValue, trueValue} ->
               [err |-> FALSE, val |-> [type |-> "bool", bytes |-> <<IF tag = trueValue THEN 1 ELSE 0>>]]
         [] tag \in ContainerTags ->
               [err |-> FALSE, val |-> [type |-> "container", bytes |-> <<>>]]
         [] OTHER -> [err |-> FALSE, val |-> [type |-> "nil", bytes |-> <<>>]]

\* v == keyPath[0] on two interface values.
GoEqual(x, step) == x.type = step.type /\ x.bytes = step.bytes

\* keyPath[0].(int): the step as a Go int; a negative one is never reached.
IsGoInt(step) == step.type = "int"
GoIntValue(step) == IF step.bytes[1] >= 128 THEN -1 ELSE BigEndian(step.bytes)

-----------------------------------------------------------------------------
(* The scanner                                                             *)

\* A seek, or the error that ended the walk: "eof" (io.EOF, a read past
\* the end) or "format" (a type the scanner does not know).
Ok(off, n) == [err |-> "none", off |-> off, n |-> n]
Fail(e)    == [err |-> e, off |-> 0, n |-> 0]
End(p)     == p.off + p.n

\* scanner.seek: the n bytes at start, io.EOF past the end of b.
Seek(b, start, n) == IF start + n > Len(b) THEN Fail("eof") ELSE Ok(start, n)

\* getLen: the big-endian number in the bytes read.
GetLen(b, p) == BigEndian(Slice(b, p.off, End(p)))

RECURSIVE SeekValue(_, _)
RECURSIVE SkipValues(_, _, _)

\* The k values after the one sought at p: where they end.
SkipFrom(b, p, k) == IF p.err # "none" THEN p ELSE SkipValues(b, End(p), k - 1)

\* The k values from offset off, one after the other: where they end.
SkipValues(b, off, k) == IF k = 0 THEN Ok(off, 0) ELSE SkipFrom(b, SeekValue(b, off), k)

\* A container at off whose count was read at lp: its extent runs to the
\* end e of its per * count values.
ContainerEnd(b, off, e) == IF e.err # "none" THEN e ELSE Seek(b, off, e.off - off)
SeekContainer(b, off, lp, per) ==
    IF lp.err # "none" THEN lp ELSE ContainerEnd(b, off, SkipValues(b, End(lp), per * GetLen(b, lp)))

\* A string or bin at off whose length was read at lp.
SeekText(b, off, lp) == IF lp.err # "none" THEN lp ELSE Seek(b, off, 1 + lp.n + GetLen(b, lp))

\* scanner.seekValue: the extent of the value whose tag is at off.
SeekValue(b, off) ==
    IF Seek(b, off, 1).err # "none" THEN Fail("eof")
    ELSE LET t == b[off + 1] IN
    CASE t \in {nullValue, trueValue, falseValue} -> Ok(off, 1)
      [] t \in FixedTags -> Seek(b, off, 1 + PayloadWidth(t))
      [] t \in LengthTags ->
            SeekText(b, off, Seek(b, off + 1, IF t \in str8Value..(str8Value + 2)
                                              THEN 2 ^ (t - str8Value) ELSE 2 ^ (t - bin8Value)))
      [] t \in ContainerTags ->
            SeekContainer(b, off, Seek(b, off + 1, IF t \in {array16Value + 1, map16Value + 1} THEN 4 ELSE 2),
                          IF t >= map16Value THEN 2 ELSE 1)
      [] OTHER -> Fail("format")

NotFound == [err |-> "none", found |-> FALSE, at |-> Ok(0, 0)]
Found(p) == [err |-> "none", found |-> TRUE, at |-> p]
Err(p)   == [err |-> p.err, found |-> FALSE, at |-> p]

\* The last step matched: the value after it is found; when it cannot be
\* sought the scanner returns nil with nothing found.
Located(p) == IF p.err # "none" THEN NotFound ELSE Found(p)
LastStep(b, off) == Located(SeekValue(b, off))

RECURSIVE Scan(_, _, _)
RECURSIVE ScanMap(_, _, _, _)
RECURSIVE ScanArray(_, _, _, _, _)

\* The rest of the path from the value at off, once a step matched.
Descend(b, off, path) == IF Len(path) = 1 THEN LastStep(b, off) ELSE Scan(b, off, Tail(path))

\* The map loop from the key at pos with k entries left: an undecodable
\* key is an error; a key equal to the step ends the loop (found, or the
\* rest of the path scanned from its value); any other entry is skipped.
SkipEntry(b, k, path, vp) == IF vp.err # "none" THEN Err(vp) ELSE ScanMap(b, End(vp), k - 1, path)
MatchKey(b, k, path, kp, key) ==
    IF key.err THEN Err(Fail("decode"))
    ELSE IF GoEqual(key.val, path[1]) THEN Descend(b, End(kp), path)
    ELSE SkipEntry(b, k, path, SeekValue(b, End(kp)))
ScanKey(b, k, path, kp) ==
    IF kp.err # "none" THEN Err(kp)
    ELSE MatchKey(b, k, path, kp, DecodeAny(Slice(b, kp.off, End(kp))))
ScanMap(b, pos, k, path) == IF k = 0 THEN NotFound ELSE ScanKey(b, k, path, SeekValue(b, pos))

\* The array loop at element i, from pos: the element of the step's index
\* ends it, an index passed stops it, earlier elements are skipped.
SkipElement(b, i, l, path, vp) == IF vp.err # "none" THEN Err(vp) ELSE ScanArray(b, End(vp), i + 1, l, path)
ScanArray(b, pos, i, l, path) ==
    IF i >= l THEN NotFound
    ELSE IF i = GoIntValue(path[1]) THEN Descend(b, pos, path)
    ELSE IF i > GoIntValue(path[1]) THEN NotFound
    ELSE SkipElement(b, i, l, path, SeekValue(b, pos))

\* scanner.scan's array branch takes `typ == map32Value` for a 4-byte count,
\* so an array32's count is read from its first two bytes.
ArrayCountWidth(t) == IF t = map16Value + 1 THEN 4 ELSE 2

\* The container at off, its count read at lp.
ScanEntries(b, lp, path) == IF lp.err # "none" THEN Err(lp) ELSE ScanMap(b, End(lp), GetLen(b, lp), path)
ScanElements(b, lp, path) ==
    IF ~IsGoInt(path[1]) THEN NotFound
    ELSE IF lp.err # "none" THEN Err(lp)
    ELSE ScanArray(b, End(lp), 0, GetLen(b, lp), path)

\* scanner.scan: the container at off, by the path's first step.
Scan(b, off, path) ==
    IF path = <<>> THEN NotFound
    ELSE IF Seek(b, off, 1).err # "none" THEN Err(Fail("eof"))
    ELSE CASE b[off + 1] \in {map16Value, map16Value + 1} ->
            ScanEntries(b, Seek(b, off + 1, IF b[off + 1] = map16Value + 1 THEN 4 ELSE 2), path)
         [] b[off + 1] \in {array16Value, array16Value + 1} ->
            ScanElements(b, Seek(b, off + 1, ArrayCountWidth(b[off + 1])), path)
         [] OTHER -> Err(Fail("format"))   \* "%s is not map or array value"

\* key.Values of an encoded key (tree/key.go): a msgp Decoder over the
\* bytes decodes the namespace into k.ns, then one value after another into
\* an `any` until Decode returns io.EOF; any other decode error panics.
\* Each Decode reads exactly the bytes of one value.
RECURSIVE ValuesFrom(_, _)
ValuesFrom(b, off) ==
    IF off = Len(b) THEN <<>>
    ELSE LET p == SeekValue(b, off)
             d == DecodeAny(Slice(b, off, End(p)))
         IN IF p.err # "none" \/ d.err THEN <<[type |-> "panic", bytes |-> <<>>]>>
            ELSE <<d.val>> \o ValuesFrom(b, End(p))
KeyValues(raw) == ValuesFrom(raw, End(SeekValue(raw, 0)))

-----------------------------------------------------------------------------
(* Unmarshal of a document into an `any` (decode.go)                       *)

\* decodeState.object into an empty interface: a map[string]any.  Each key
\* is decoded into a string (a key of another kind is an
\* UnmarshalTypeError, saved and returned at the end), each value into an
\* any.  The extents of keys and values are those seekValue finds.
RECURSIVE ObjectEntries(_, _, _)
Undecodable == [err |-> TRUE, elems |-> <<>>]
Entry(key, val, rest) ==
    [err |-> key.err \/ val.err \/ rest.err,
     elems |-> << <<[type |-> "string", bytes |-> key.bytes], val.val>> >> \o rest.elems]
EntryWith(e, k, kp, vp) ==
    IF vp.err # "none" THEN Undecodable
    ELSE Entry(Decode("string", Slice(e, kp.off, End(kp))),
               DecodeAny(Slice(e, vp.off, End(vp))), ObjectEntries(e, End(vp), k - 1))
EntryFrom(e, k, kp) == IF kp.err # "none" THEN Undecodable ELSE EntryWith(e, k, kp, SeekValue(e, End(kp)))
ObjectEntries(e, pos, k) == IF k = 0 THEN [err |-> FALSE, elems |-> <<>>] ELSE EntryFrom(e, k, SeekValue(e, pos))

\* Unmarshal(b, &v) for v of type any on a map16 or map32: readN of the
\* count, then the entries; any other value as DecodeAny.
ObjectOf(r) == [err |-> r.err, val |-> [type |-> "map", bytes |-> <<>>, elems |-> r.elems]]
DecodeObject(e, w) == ObjectOf(ObjectEntries(e, 1 + w, BigEndian(Slice(e, 1, 1 + w))))
DecodeDoc(e) ==
    CASE e # <<>> /\ e[1] = map16Value     -> DecodeObject(e, 2)
      [] e # <<>> /\ e[1] = map16Value + 1 -> DecodeObject(e, 4)
      [] OTHER                             -> DecodeAny(e)

-----------------------------------------------------------------------------
(* Get and Set                                                             *)

\* Get(b, keyPath): b itself for an empty path; a scan error other than
\* io.EOF is returned; nothing found is ErrKeyPathNotExists.
Result(b, path, sc, found) ==
    IF path = <<>> THEN [err |-> "none", bytes |-> b]
    ELSE IF sc.err \notin {"none", "eof"} THEN [err |-> sc.err, bytes |-> <<>>]
    ELSE IF ~sc.found THEN [err |-> "notexists", bytes |-> <<>>]
    ELSE [err |-> "none", bytes |-> found]
Got(b, path, sc) == Result(b, path, sc, Slice(b, sc.at.off, End(sc.at)))
Get(b, path) == Got(b, path, Scan(b, 0, path))

\* Set(b, keyPath, replace) with a replace that returns r: the bytes before
\* the found value, r, the bytes after it.
Spliced(b, path, r, sc) == Result(b, path, sc, Slice(b, 0, sc.at.off) \o r \o Drop(b, End(sc.at)))
Set(b, path, r) == Spliced(b, path, r, Scan(b, 0, path))

=============================================================================
