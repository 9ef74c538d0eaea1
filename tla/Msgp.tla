------------------------------- MODULE Msgp --------------------------------
(***************************************************************************)
(* The order-preserving msgpack codec of kiwidb (pkg/encoding/msgp) and    *)
(* the composite keys built with it (internal/tree/key.go), as operators   *)
(* over byte sequences: the encoders, Marshal, Unmarshal of scalars, and  *)
(* the comparer pebble is opened with (pkg/kv/pebble/engine.go): Compare,  *)
(* Successor and AbbreviatedKey (Equal is bytes.Equal).                    *)
(*                                                                         *)
(* A Go value is a record: its Go type, its bytes as Go holds them (big-   *)
(* endian two's complement for integers, the IEEE-754 bit pattern for     *)
(* floats, the bytes of a string or byte slice), its place in the value    *)
(* order of its type (num), and the elements of a []any.  Integers wider   *)
(* than TLC's are never formed: every number is handled as its bytes.     *)
(* A key is a record of its namespace (8 big-endian bytes) and values.    *)
(***************************************************************************)
EXTENDS Naturals, Integers, Sequences, SequencesExt

-----------------------------------------------------------------------------
(* Type tags (types.go)                                                    *)

nullValue    == 192  \* 0xC0
falseValue   == 194
trueValue    == 195
bin8Value    == 196  \* 0xC4, bin16 0xC5, bin32 0xC6
float32Value == 202  \* 0xCA, float64 0xCB
uint8Value   == 204  \* 0xCC .. uint64 0xCF
int8Value    == 208  \* 0xD0 .. int64 0xD3
str8Value    == 217  \* 0xD9, str16 0xDA, str32 0xDB
array16Value == 220  \* 0xDC, array32 0xDD
map16Value   == 222  \* 0xDE, map32 0xDF

IntTypes   == {"int8", "int16", "int32", "int64", "int"}
UintTypes  == {"uint8", "uint16", "uint32", "uint64", "uint"}
FloatTypes == {"float32", "float64"}

\* Width in bytes of the Go type (64-bit platform).
GoWidth(t) ==
    CASE t \in {"int8", "uint8"}                      -> 1
      [] t \in {"int16", "uint16"}                    -> 2
      [] t \in {"int32", "uint32", "float32"}         -> 4
      [] t \in {"int64", "uint64", "int", "uint", "float64"} -> 8

\* Width the encoder writes: intEncoder and uintEncoder put reflect.Int and
\* reflect.Uint in the 32-bit case (uint32(v.Int()), uint32(v.Uint())).
EncWidth(t) == IF t \in {"int", "uint"} THEN 4 ELSE GoWidth(t)

\* Offset of the tag of a w-byte number from the 8-bit tag of its group.
WidthIndex(w) == CASE w = 1 -> 0 [] w = 2 -> 1 [] w = 4 -> 2 [] w = 8 -> 3

-----------------------------------------------------------------------------
(* Bytes                                                                   *)

IsByteSeq(s) == \A i \in DOMAIN s : s[i] \in 0..255

\* Go's a[lo:] and a[lo:hi] (0-based, hi exclusive).
Drop(s, lo) == SubSeq(s, lo + 1, Len(s))
Slice(s, lo, hi) == SubSeq(s, lo + 1, hi)
InBounds(s, lo, hi) == 0 <= lo /\ lo <= hi /\ hi <= Len(s)

\* The low w bytes of a big-endian number: the conversion to a w-byte
\* unsigned type (uint32(x), ...).
Low(b, w) == SubSeq(b, Len(b) - w + 1, Len(b))

\* Mutant of AddTopBit: the addition done in a wider type, without the
\* wrap-around of the w-byte unsigned arithmetic.
AddTopBitNoWrap(b) == [b EXCEPT ![1] = @ + 128]

\* Adding 2^(8w-1) modulo 2^(8w) to a w-byte big-endian number changes its
\* top byte by 128, the carry out discarded; so does XOR with 1<<(8w-1).
AddTopBit(b) == [b EXCEPT ![1] = (@ + 128) % 256]

\* XOR with all ones: 1<<(8w) - 1 - x, byte by byte.
Complement(b) == [i \in DOMAIN b |-> 255 - b[i]]

\* bytes.Compare.
BytesCompare(x, y) ==
    LET d == {i \in 1..Len(x) : i <= Len(y) /\ x[i] # y[i]} IN
    IF d = {} THEN (IF Len(x) < Len(y) THEN -1 ELSE IF Len(x) > Len(y) THEN 1 ELSE 0)
    ELSE LET i == CHOOSE j \in d : \A k \in d : j <= k IN
         IF x[i] < y[i] THEN -1 ELSE 1

-----------------------------------------------------------------------------
(* The comparer (comparer.go)                                              *)

\* The outcome of a slice expression or index out of the key's bounds: Go
\* panics, unless the key is a sub-slice of a larger pebble buffer, in
\* which case the bytes past its end are read.  Either way the comparison
\* is not one of the key.
Panic == 1000

\* Numbers above Huge stand for any number larger than every key.
Huge == 2 ^ 24
Sat(x) == IF x > Huge THEN Huge ELSE x
Shifted(x, s) == IF x = 0 THEN 0 ELSE IF s >= 24 THEN Huge ELSE Sat(x * 2 ^ s)

\* encoding/binary.Uvarint: 7 bits per byte, least significant group
\* first, the high bit marks a continuation; <<value, bytes read>>, with
\* <<0, 0>> on a short buffer and a negative count on overflow.
RECURSIVE UvarintFrom(_, _, _, _)
UvarintFrom(buf, i, x, s) ==
    IF i = Len(buf) THEN <<0, 0>>
    ELSE IF i = 10 THEN <<0, -(i + 1)>>
    ELSE IF buf[i + 1] < 128
         THEN IF i = 9 /\ buf[i + 1] > 1 THEN <<0, -(i + 1)>>
              ELSE <<Sat(x + Shifted(buf[i + 1], s)), i + 1>>
         ELSE UvarintFrom(buf, i + 1, Sat(x + Shifted(buf[i + 1] - 128, s)), s + 7)
Uvarint(buf) == UvarintFrom(buf, 0, 0, 0)

FixedTags     == (uint8Value..(uint8Value + 3)) \cup (int8Value..(int8Value + 3))
                    \cup {float32Value, float32Value + 1}
LengthTags    == (str8Value..(str8Value + 2)) \cup (bin8Value..(bin8Value + 2))
ContainerTags == (array16Value..(map16Value + 1))

PayloadWidth(tag) ==
    CASE tag \in {uint8Value + 3, int8Value + 3, float32Value + 1} -> 8
      [] tag \in {uint8Value + 2, int8Value + 2, float32Value}     -> 4
      [] tag \in {uint8Value + 1, int8Value + 1}                    -> 2
      [] tag \in {uint8Value, int8Value}                            -> 1

\* The fixed-width numeric case: bytes.Compare(a[1:w+1], b[1:w+1]).
CompareFixed(a, b) ==
    LET w == PayloadWidth(a[1]) IN
    IF InBounds(a, 1, w + 1) /\ InBounds(b, 1, w + 1)
       THEN <<BytesCompare(Slice(a, 1, w + 1), Slice(b, 1, w + 1)), w + 1>>
       ELSE <<Panic, 0>>

\* The string and bin case: both lengths are read with binary.Uvarint,
\* although the encoder wrote them as fixed-width big-endian numbers; the
\* payloads are sliced from b's header length n, and a's end is returned.
CompareLengthPrefixed(a, b) ==
    LET ua   == Uvarint(Drop(a, 1))
        ub   == Uvarint(Drop(b, 1))
        enda == ua[2] + 1 + ua[1]
        n    == ub[2] + 1
        endb == n + ub[1]
    IN IF InBounds(a, n, enda) /\ InBounds(b, n, endb)
          THEN <<BytesCompare(Slice(a, n, enda), Slice(b, n, endb)), enda>>
          ELSE <<Panic, 0>>

RECURSIVE CompareNextValue(_, _)

\* The array and map loops: k values (one per element, two per map entry)
\* compared in turn from offset n, stopping at the first difference.
RECURSIVE ElementsCompare(_, _, _, _)
ElementsCompare(a, b, n, k) ==
    IF k = 0 \/ (n = Len(a) /\ n = Len(b)) THEN <<0, n>>
    ELSE IF n > Len(a) \/ n > Len(b) THEN <<Panic, 0>>
    ELSE LET r == CompareNextValue(Drop(a, n), Drop(b, n)) IN
         IF r[1] # 0 THEN <<r[1], n + r[2]>>
         ELSE ElementsCompare(a, b, n + r[2], k - 1)

\* The array and map case: element counts read with binary.Uvarint
\* (written as 16- or 32-bit big-endian numbers), the common elements
\* compared, then the counts.
CompareContainer(a, b) ==
    LET la  == Uvarint(Drop(a, 1))[1]
        ub  == Uvarint(Drop(b, 1))
        lb  == ub[1]
        per == IF a[1] >= map16Value THEN 2 ELSE 1
        r   == ElementsCompare(a, b, ub[2] + 1, per * (IF la < lb THEN la ELSE lb))
    IN IF r[1] # 0 THEN r
       ELSE IF la < lb THEN <<-1, r[2]>>
       ELSE IF la > lb THEN <<1, r[2]>>
       ELSE <<0, r[2]>>

\* compareNextValue before its container case: <<cmp, bytes of a consumed>>.
CompareScalar(a, b) ==
    IF Len(a) = 0 \/ Len(b) = 0
       THEN IF Len(a) = 0 /\ Len(b) = 0 THEN <<0, 0>>
            ELSE IF Len(a) = 0 THEN <<-1, 0>> ELSE <<1, 0>>
    ELSE IF a[1] # b[1] THEN <<a[1] - b[1], 1>>
    ELSE IF a[1] \in {nullValue, falseValue, trueValue, 0} THEN <<0, 1>>
    ELSE IF Len(a) = 1 \/ Len(b) = 1
       THEN IF Len(a) = 1 /\ Len(b) > 1 THEN <<-1, 1>>
            ELSE IF Len(a) > 1 /\ Len(b) = 1 THEN <<1, 1>> ELSE <<0, 1>>
    ELSE CASE a[1] \in FixedTags  -> CompareFixed(a, b)
           [] a[1] \in LengthTags -> CompareLengthPrefixed(a, b)
           [] OTHER               -> <<Panic, 0>>   \* "unsupported value type"

\* compareNextValue: the array and map case once both values have a
\* container tag, the same, and more than the tag.
CompareNextValue(a, b) ==
    IF Len(a) > 1 /\ Len(b) > 1 /\ a[1] = b[1] /\ a[1] \in ContainerTags
       THEN CompareContainer(a, b)
       ELSE CompareScalar(a, b)

\* Compare: value after value from the front of both keys, re-slicing both
\* by what compareNextValue consumed of a.
\* Mutant of CompareLoop: the end of a taken as equality without looking
\* at the length of b.
RECURSIVE CompareLoopPrefix(_, _, _)
CompareLoopPrefix(a, b, n) ==
    IF n = Len(a) THEN 0
    ELSE IF n = Len(b) THEN 1
    ELSE IF n > Len(a) \/ n > Len(b) THEN Panic
    ELSE LET r == CompareNextValue(Drop(a, n), Drop(b, n)) IN
         IF r[1] # 0 THEN r[1] ELSE CompareLoopPrefix(Drop(a, n), Drop(b, n), r[2])

RECURSIVE CompareLoop(_, _, _)
CompareLoop(a, b, n) ==
    IF n = Len(a) THEN (IF Len(b) = n THEN 0 ELSE -1)
    ELSE IF n = Len(b) THEN 1
    ELSE IF n > Len(a) \/ n > Len(b) THEN Panic
    ELSE LET r == CompareNextValue(Drop(a, n), Drop(b, n)) IN
         IF r[1] # 0 THEN r[1] ELSE CompareLoop(Drop(a, n), Drop(b, n), r[2])

Compare(a, b) == CompareLoop(a, b, 0)

-----------------------------------------------------------------------------
(* Encoding (encode.go)                                                    *)

\* bitSize: the length class of a string, byte slice, array or map.
\* (Lengths above MaxUint32, class 64, do not occur in byte sequences here.)
BitSize(n) == IF n > 65535 THEN 32 ELSE IF n > 255 THEN 16 ELSE 8

\* makeUvarint: n as a fixed-width big-endian number of bitSize/8 bytes.
MakeUvarint(size, n) ==
    LET w == size \div 8 IN [i \in 1..w |-> (n \div 256 ^ (w - i)) % 256]

\* Mutant of EncodeInt: the two's complement bytes written without the bias.
EncodeIntUnbiased(v) ==
    LET w == EncWidth(v.type) IN
    <<int8Value + WidthIndex(w)>> \o Low(v.bytes, w)

\* intEncoder: write{1,2,4,8}To(code, uintN(v.Int()) + MaxIntN + 1).
EncodeInt(v) ==
    LET w == EncWidth(v.type) IN
    <<int8Value + WidthIndex(w)>> \o AddTopBit(Low(v.bytes, w))

\* uintEncoder: write{1,2,4,8}To(code, uintN(v.Uint())).
EncodeUint(v) ==
    LET w == EncWidth(v.type) IN
    <<uint8Value + WidthIndex(w)>> \o Low(v.bytes, w)

\* x >= 0 for a float that is not NaN: the sign bit is clear, or x is -0.
GoNonNegative(b) ==
    b[1] < 128 \/ (b[1] = 128 /\ \A i \in 2..Len(b) : b[i] = 0)

\* float32Encoder / float64Encoder: the bit pattern, XOR the sign bit when
\* x >= 0, XOR all ones otherwise.
EncodeFloat(v) ==
    <<float32Value + (IF v.type = "float64" THEN 1 ELSE 0)>>
        \o (IF GoNonNegative(v.bytes) THEN AddTopBit(v.bytes) ELSE Complement(v.bytes))

\* stringEncoder: str8/16/32 tag, the length in bitSize bits, the bytes.
EncodeString(v) ==
    LET n == Len(v.bytes)
        s == BitSize(n)
    IN <<str8Value + WidthIndex(s \div 8)>> \o MakeUvarint(s, n) \o v.bytes

\* encodeByteSlice: the same layout under the bin tags.
EncodeByteSlice(v) ==
    LET n == Len(v.bytes)
        s == BitSize(n)
    IN <<bin8Value + WidthIndex(s \div 8)>> \o MakeUvarint(s, n) \o v.bytes

\* The encoder of a value's type (newTypeEncoder, boolEncoder,
\* interfaceEncoder for the elements of a []any, arrayEncoder: the array16
\* tag and a 16-bit length up to 65535 elements, array32 and 32 bits above).
RECURSIVE Encode(_)
Encode(v) ==
    CASE v.type = "nil"         -> <<nullValue>>
      [] v.type = "bool"        -> <<IF v.bytes = <<1>> THEN trueValue ELSE falseValue>>
      [] v.type \in IntTypes    -> EncodeInt(v)
      [] v.type \in UintTypes   -> EncodeUint(v)
      [] v.type \in FloatTypes  -> EncodeFloat(v)
      [] v.type = "string"      -> EncodeString(v)
      [] v.type \in {"[]byte", "Encoded"} -> EncodeByteSlice(v)
      [] v.type = "[]any"       ->
            LET n == Len(v.elems) IN
            (IF BitSize(n) = 32 THEN <<array16Value + 1>> \o MakeUvarint(32, n)
                                ELSE <<array16Value>> \o MakeUvarint(16, n))
                \o FlattenSeq([i \in DOMAIN v.elems |-> Encode(v.elems[i])])

\* Mutant of Marshal: an Encoded value is written as is, and only once.
MarshalEncodedOnce(v) ==
    IF v.type = "Encoded" THEN v.bytes ELSE Encode(v)

\* encodeState.marshal (Marshal, Encoder.Encode): an msgp.Encoded value is
\* written as is; there is no return after that write, so reflectValue then
\* encodes it again, as a byte slice.
Marshal(v) ==
    IF v.type = "Encoded" THEN v.bytes \o Encode(v) ELSE Encode(v)

\* The namespace of a key is a tree.Namespace, a uint64.
NamespaceValue(ns) == [type |-> "uint64", bytes |-> ns, num |-> 0, elems |-> <<>>]

\* Mutant of KeyBytes: the namespace encoded as a signed integer.
KeyBytesSignedNamespace(k) ==
    EncodeInt([type |-> "int64", bytes |-> k.ns, num |-> 0, elems |-> <<>>])
        \o FlattenSeq([i \in DOMAIN k.vals |-> Marshal(k.vals[i])])

\* key.Bytes: the namespace, then each value, each through Encoder.Encode.
KeyBytes(k) ==
    Marshal(NamespaceValue(k.ns))
        \o FlattenSeq([i \in DOMAIN k.vals |-> Marshal(k.vals[i])])

-----------------------------------------------------------------------------
(* Decoding of numbers (decode.go)                                         *)

\* A w-byte two's complement number widened to 8 bytes (int64(x)).
SignExtend(b) == [i \in 1..(8 - Len(b)) |-> IF b[1] >= 128 THEN 255 ELSE 0] \o b
ZeroExtend(b) == [i \in 1..(8 - Len(b)) |-> 0] \o b

\* rv.OverflowInt / rv.OverflowUint of an 8-byte value for a w-byte target.
FitsSigned(x, w) ==
    \A i \in 1..(8 - w) : x[i] = (IF x[9 - w] >= 128 THEN 255 ELSE 0)
FitsUnsigned(x, w) == \A i \in 1..(8 - w) : x[i] = 0

\* decodeState.value on an encoded number, into a variable of Go type t:
\* int(n) takes the payload back by subtracting MaxIntN + 1 and widens it to
\* int64, uint(n) widens to uint64; SetInt / SetUint after the overflow
\* check, an UnmarshalTypeError for a target of another kind.
DecodeNumber(t, e) ==
    LET tag == e[1] IN
    CASE tag \in int8Value..(int8Value + 3) ->
            LET x == SignExtend(AddTopBit(Slice(e, 1, 1 + 2 ^ (tag - int8Value)))) IN
            IF t \in IntTypes /\ FitsSigned(x, GoWidth(t))
               THEN [err |-> FALSE, bytes |-> Low(x, GoWidth(t))]
               ELSE [err |-> TRUE, bytes |-> <<>>]
      [] tag \in uint8Value..(uint8Value + 3) ->
            LET x == ZeroExtend(Slice(e, 1, 1 + 2 ^ (tag - uint8Value))) IN
            IF t \in UintTypes /\ FitsUnsigned(x, GoWidth(t))
               THEN [err |-> FALSE, bytes |-> Low(x, GoWidth(t))]
               ELSE [err |-> TRUE, bytes |-> <<>>]
      [] OTHER -> [err |-> TRUE, bytes |-> <<>>]

\* An error return of Unmarshal (a read error, or the UnmarshalTypeError
\* saveError keeps for a target of the wrong kind).
Failed == [err |-> TRUE, bytes |-> <<>>]

\* decodeState.read(n) from the bytes.Buffer Unmarshal reads: an empty
\* buffer is io.EOF (but n = 0 reads nothing and succeeds); a shorter one
\* fills part of the n bytes it allocated, leaves the others zero, and
\* returns no error.
ReadBytes(buf, n) ==
    IF buf = <<>> /\ n > 0 THEN [err |-> TRUE, bytes |-> <<>>, rest |-> <<>>]
    ELSE LET m == IF n < Len(buf) THEN n ELSE Len(buf) IN
         [err |-> FALSE, rest |-> Drop(buf, m),
          bytes |-> SubSeq(buf, 1, m) \o [i \in 1..(n - m) |-> 0]]

\* binary.BigEndian.Uint16/32/64 of the bytes read.
RECURSIVE BigEndian(_)
BigEndian(b) == IF b = <<>> THEN 0 ELSE BigEndian(Front(b)) * 256 + Last(b)

\* decodeState.string and decodeState.blob: readN(bitSize), the length
\* big-endian in bitSize/8 bytes, then read(n); a string lands in a string
\* (SetString), a blob in a []byte (SetBytes), any other kind is an
\* UnmarshalTypeError.
DecodeText(kind, t, size, buf) ==
    LET n == ReadBytes(buf, size \div 8)
        b == ReadBytes(n.rest, BigEndian(n.bytes))
    IN IF n.err \/ b.err THEN Failed
       ELSE IF t # kind THEN Failed
       ELSE [err |-> FALSE, bytes |-> b.bytes]

\* decodeState.float(n): read n bytes; a set top bit was the sign bit the
\* encoder set for x >= 0, and is cleared (XOR 1<<(8n-1)); otherwise the
\* encoder complemented a negative, and the bits are complemented back.
\* Into a float of the width read (SetFloat; other widths convert, and are
\* not decoded here), any other kind an UnmarshalTypeError.
DecodeFloat(t, n, buf) ==
    LET r == ReadBytes(buf, n)
        x == r.bytes
    IN CASE r.err              -> Failed
         [] t \notin FloatTypes -> Failed
         [] GoWidth(t) = n      ->
               [err |-> FALSE,
                bytes |-> IF x[1] >= 128 THEN AddTopBit(x) ELSE Complement(x)]

\* The zero value of a Go type, which a target left alone keeps.
ZeroValue(t) ==
    IF t \in IntTypes \cup UintTypes \cup FloatTypes
       THEN [i \in 1..GoWidth(t) |-> 0]
    ELSE IF t = "bool" THEN <<0>> ELSE <<>>

\* Unmarshal(data, &x) for x of Go type t, through decodeState.value: the
\* tag from readCode, then the decoder of its group.  nil and codes outside
\* the switch leave x alone.  (array and map codes, decodeState.array and
\* object, are not decoded here.)
Decode(t, e) ==
    LET c   == ReadBytes(e, 1)
        tag == c.bytes[1]
        buf == c.rest
    IN IF c.err THEN Failed
       ELSE CASE tag \in {falseValue, trueValue} ->
                   IF t = "bool" THEN [err |-> FALSE, bytes |-> <<IF tag = trueValue THEN 1 ELSE 0>>]
                   ELSE Failed
              [] tag \in (int8Value..(int8Value + 3)) \cup (uint8Value..(uint8Value + 3)) ->
                   DecodeNumber(t, e)
              [] tag \in {float32Value, float32Value + 1} ->
                   DecodeFloat(t, IF tag = float32Value THEN 4 ELSE 8, buf)
              [] tag \in str8Value..(str8Value + 2) ->
                   DecodeText("string", t, 8 * 2 ^ (tag - str8Value), buf)
              [] tag \in bin8Value..(bin8Value + 2) ->
                   DecodeText("[]byte", t, 8 * 2 ^ (tag - bin8Value), buf)
              [] tag \notin array16Value..(map16Value + 1) ->
                   [err |-> FALSE, bytes |-> ZeroValue(t)]


\* Successor (with an empty dst): the key's namespace re-encoded, or the
\* key itself for an empty key or the largest namespace.
Successor(a) ==
    IF Len(a) = 0 \/ Slice(a, 1, 9) = [i \in 1..8 |-> 255] THEN a
    ELSE <<uint8Value + 3>> \o Slice(a, 1, 9)

\* abbreviatedValue: the first value's payload on 40 bits, as 5 bytes.
RECURSIVE AbbreviatedValue(_)
AbbreviatedValue(key) ==
    LET zero == <<0, 0, 0, 0, 0>> IN
    IF Len(key) = 0 THEN zero
    ELSE CASE key[1] \in {uint8Value, int8Value} -> <<0, 0, 0, 0, key[2]>>
           [] key[1] \in {uint8Value + 1, int8Value + 1} -> <<0, 0, 0>> \o Slice(key, 1, 3)
           [] key[1] \in {uint8Value + 2, int8Value + 2} -> <<0>> \o Slice(key, 1, 5)
           [] key[1] \in {uint8Value + 3, int8Value + 3, float32Value + 1} -> Slice(key, 1, 6)
           [] key[1] \in LengthTags ->
                 LET u    == Uvarint(Drop(key, 1))
                     rest == Drop(key, u[2] + 1)
                     m    == IF u[1] < 5 THEN u[1] ELSE 5
                 IN IF m > Len(rest) THEN [i \in 1..5 |-> Panic]
                    ELSE [i \in 1..5 |-> IF i <= m THEN rest[i] ELSE 0]
           [] key[1] \in ContainerTags ->
                 LET u    == Uvarint(Drop(key, 1))
                     rest == Drop(key, 1 + u[2])
                 IN IF u[1] = 0 THEN zero
                    ELSE IF rest[1] \in ContainerTags THEN <<rest[1], 0, 0, 0, 0>>
                    ELSE <<rest[1]>> \o SubSeq(AbbreviatedValue(rest), 1, 4)
           [] OTHER -> zero

\* AbbreviatedKey: the 64-bit word as <<namespace on 16 bits, first
\* value's tag, 5 payload bytes>>; these compare lexicographically as the
\* word compares as an unsigned number.  A namespace of 2^16 or more
\* saturates to MaxUint16 << 48.
AbbreviatedKey(key) ==
    IF Len(key) = 0 THEN <<0, 0, 0, 0, 0, 0, 0>>
    ELSE LET ns   == Slice(key, 1, 9)
             rest == Drop(key, 9)
         IN IF \E i \in 1..6 : ns[i] # 0 THEN <<65535, 0, 0, 0, 0, 0, 0>>
            ELSE IF rest = <<>> THEN <<ns[7] * 256 + ns[8], 0, 0, 0, 0, 0, 0>>
            ELSE <<ns[7] * 256 + ns[8], rest[1]>> \o AbbreviatedValue(rest)

=============================================================================
