------------------------------- MODULE Schema -------------------------------
(***************************************************************************)
(* The index declarations of a table schema and the index values syncTable *)
(* reads with them.  TableSchema.Init (pkg/schema/table.go) splits each    *)
(* name of the model's Indexes() at "," and parses each part with          *)
(* ParseKeyPath (pkg/schema/key_path.go); syncTable (internal/database/     *)
(* catalog.go) reads each path with doc.Field from the marshalled document *)
(* and keeps the bytes found, as an msgp.Encoded value.                    *)
(*                                                                         *)
(* Strings are ASCII byte sequences: ParseKeyPath loops with `for i :=     *)
(* range s` and reads s[i], the first byte of each rune only.             *)
(***************************************************************************)
EXTENDS KeyPath, Models

Text(codes) == [type |-> "string", bytes |-> codes, num |-> 0, elems |-> <<>>]

\* strconv.ParseInt(v, 10, 64): an optional sign, then one or more decimal
\* digits; anything else, the empty string included, is an error.
Digits(v) == IF v # <<>> /\ v[1] \in {43, 45} THEN Tail(v) ELSE v
ParsesInt(v) == Digits(v) # <<>> /\ \A i \in DOMAIN Digits(v) : Digits(v)[i] \in 48..57
IntOf(v) ==
    LET n == FoldLeft(LAMBDA acc, d : 10 * acc + d - 48, 0, Digits(v))
    IN IF v[1] = 45 THEN -n ELSE n

\* The int64 ParseInt returns, as an interface value: eight bytes of two's
\* complement (the parsed indices stay within 32 bits).
Int64Step(n) ==
    [type |-> "int64", num |-> n, elems |-> <<>>,
     bytes |-> IF n >= 0 THEN <<0, 0, 0, 0>> \o MakeUvarint(32, n)
               ELSE <<255, 255, 255, 255>> \o Complement(MakeUvarint(32, -n - 1))]

\* ParseKeyPath's loop state: the path p, the buffer buf, and whether a
\* ParseInt failed (the function then returns the error).
ParseStart == [p |-> <<>>, buf |-> <<>>, err |-> FALSE]

\* appendPath: the buffer as a string step, or through ParseInt as an
\* int64 step; the buffer is reset.
AppendPath(st, asInt) ==
    IF ~asInt THEN [p |-> Append(st.p, Text(st.buf)), buf |-> <<>>, err |-> FALSE]
    ELSE IF ParsesInt(st.buf)
         THEN [p |-> Append(st.p, Int64Step(IntOf(st.buf))), buf |-> <<>>, err |-> FALSE]
         ELSE [st EXCEPT !.err = TRUE]

\* One byte of the loop: '[' is skipped, ']' appends the buffer parsed as
\* an integer, '.' appends it as a string, any other byte is buffered.
ParseByte(st, b) ==
    IF st.err THEN st
    ELSE CASE b = 91 -> st
           [] b = 93 -> AppendPath(st, TRUE)
           [] b = 46 -> AppendPath(st, FALSE)
           [] OTHER  -> [st EXCEPT !.buf = Append(@, b)]

\* Mutant of ParseKeyPath: what is left in the buffer after the loop is
\* not appended.
ParseKeyPathNoFlush(s) ==
    LET st == FoldLeft(ParseByte, ParseStart, s)
    IN [err |-> st.err, path |-> IF st.err THEN <<>> ELSE st.p]

\* ParseKeyPath(s): the loop, then a non-empty buffer appended as a string.
ParseKeyPath(s) ==
    LET st == FoldLeft(ParseByte, ParseStart, s)
    IN [err |-> st.err,
        path |-> IF st.err THEN <<>>
                 ELSE IF st.buf # <<>> THEN Append(st.p, Text(st.buf)) ELSE st.p]

\* strings.Split(name, ","): at least one part, the empty ones kept.
SplitComma(s) ==
    FoldLeft(LAMBDA parts, b : IF b = 44 THEN Append(parts, <<>>)
                               ELSE [parts EXCEPT ![Len(parts)] = Append(@, b)],
             <<<<>>>>, s)

\* TableSchema.Init's loop over Indexes(): an IndexSchema of each name's
\* type and parsed paths, or, at the first part that fails to parse, Init's
\* error (the Go map's iteration order only decides which error).
IndexSchemas(indexes) ==
    LET parsed(n) == LET parts == SplitComma(n)
                     IN [i \in DOMAIN parts |-> ParseKeyPath(parts[i])]
    IN IF \E n \in DOMAIN indexes : \E i \in DOMAIN parsed(n) : parsed(n)[i].err
          THEN [err |-> TRUE, schemas |-> <<>>]
          ELSE [err |-> FALSE,
                schemas |-> [n \in DOMAIN indexes |->
                               [indexType |-> indexes[n],
                                paths |-> [i \in DOMAIN parsed(n) |-> parsed(n)[i].path]]]]

\* syncTable's values of one index on the marshalled document raw:
\* d.Field(path...) for each path (msgp.Get), its error returned, the bytes
\* found kept as msgp.Encoded.
IndexValues(raw, paths) ==
    LET got == [i \in DOMAIN paths |-> Get(raw, paths[i])]
    IN IF \E i \in DOMAIN got : got[i].err # "none"
          THEN [err |-> TRUE, values |-> <<>>]
          ELSE [err |-> FALSE,
                values |-> [i \in DOMAIN got |->
                              [type |-> "Encoded", bytes |-> got[i].bytes, num |-> 0, elems |-> <<>>]]]

-----------------------------------------------------------------------------
(* Properties                                                              *)

\* The value of the field the struct encoder writes under wire name n, if
\* typeFields keeps one.
NamedFields(S, t, v, n) ==
    LET fs == TypeFields(S, t)
    IN {FieldByIndex(v, fs[i].index) : i \in {j \in DOMAIN fs : fs[j].name = n}}

\* What an index declaration promises: for every model with Indexes(),
\* Init accepts its declarations, and for every value of the model the
\* values syncTable stores in an index are, part by part of the index's
\* name, the encoded fields the struct encoder writes under that name.
\* It needs ParseKeyPath, strings.Split, typeFields' naming by msgp tags,
\* the struct encoder and msgp.Get to agree.
IndexValuesAreFields(S, indexes, samples) ==
    \A t \in DOMAIN indexes :
        LET is == IndexSchemas(indexes[t]) IN
        /\ ~is.err
        /\ \A n \in DOMAIN is.schemas, v \in samples[t] :
              LET doc   == [type |-> "struct", bytes |-> <<>>, num |-> 0,
                            elems |-> StructElems(S, t, v)]
                  parts == SplitComma(n)
                  iv    == IndexValues(EncodeDocument(doc), is.schemas[n].paths)
              IN /\ ~iv.err
                 /\ Len(iv.values) = Len(parts)
                 /\ \A i \in DOMAIN parts :
                       \E f \in NamedFields(S, t, v, parts[i]) : iv.values[i].bytes = Encode(f)

=============================================================================
