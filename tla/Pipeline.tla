------------------------------ MODULE Pipeline ------------------------------
(***************************************************************************)
(* The operator pipeline of kiwidb (internal/database/stream.go,          *)
(* database.go, pkg/db): a client wires operators with Pipe, runs a chain *)
(* with Database.Execute, or calls Iterate on its tail itself.            *)
(*                                                                         *)
(* Operators are linked through their prev fields (Op.setPrev).  Iterate  *)
(* on the tail calls prev.Iterate with its own continuation down to a     *)
(* source (Omit, or the databaseTx Execute puts in front), which hands    *)
(* each document to the continuations in chain order.  Every call runs    *)
(* synchronously to its end, so one call is one step.  The Table the      *)
(* Insert operator writes is the Users table of the catalog (its lookup   *)
(* succeeds here; Catalog models it); a row is its primary key and name.  *)
(* Documents are msgp values (Msgp): Filter marshals the document and     *)
(* reads its field with msgp.Get (KeyPath) and Unmarshal into an `any`.   *)
(* Op.next is only read by Stringify and is left out.  A client also     *)
(* reads and writes the table directly: tx := d.Begin(), d.Table(tx,     *)
(* model), one of table.Get, Delete or Replace, then tx.Commit on nil and *)
(* tx.Rollback on an error.                                               *)
(***************************************************************************)
EXTENDS Naturals, Sequences, SequencesExt, FiniteSets

CONSTANTS
    Ops,         \* operator instances the client constructs
    Kind,        \* [Ops -> {"omit", "filter", "limit", "offset", "insert", "onconflict"}]
    Arg,         \* the constructor argument: Omit's documents (msgp map
                 \* values), Filter's [field, value] (a Go string and the
                 \* matcher's value of type T), Limit's and Offset's n, Insert's model,
                 \* OnConflict's constraint name (its action is nil:
                 \* DoNothing() and Do() both return nil)
    Models,      \* models handed to Insert (pointers to a struct with schema.PKey)
    ModelName,   \* [Models -> the model's Name field, a Go string value]
    Pipelines,   \* argument lists of the client's Pipe calls
    Nil,         \* a nil Operator or Document
    Tx,          \* the &databaseTx{} Execute pipes in front
    Loop,        \* a prev chain that never reaches a source
    Keys,        \* primary keys a client hands to Table.Get, Delete, Replace
    MaxCalls     \* bound on the client's calls

VARIABLES
    prev,     \* Op.prev of every operator
    pk,       \* the primary key field of each model (0 before table.Insert)
    nextId,   \* next id of the transaction's id generator
    rows,     \* committed rows of the Users table: [pk, name]
    calls,    \* the client's calls so far
    last      \* the last call: what it ran, emitted and returned (history)

vars == <<prev, pk, nextId, rows, calls, last>>

KP == INSTANCE KeyPath
MD == INSTANCE Models

NoErr == [kind |-> "none", name |-> ""]
Err(k) == [kind |-> k, name |-> ""]
ConflictErr(n) == [kind |-> "conflict", name |-> n]   \* *dberr.ConflictError

\* Go values of the User model's fields (pkg/db tests): strings, and the
\* schema.SFID id, a uint64 (MarshalText is not consulted by the encoder).
Text(codes) == [type |-> "string", bytes |-> codes, num |-> 0, elems |-> <<>>]
SFID(k) == [type |-> "uint64", bytes |-> <<0, 0, 0, 0, 0, 0, k \div 256, k % 256>>,
            num |-> k, elems |-> <<>>]
FieldNames == << <<105, 100>>,                                    \* "id"
                 <<99, 111, 110, 115, 116, 114, 97, 105, 110, 116>>, \* "constraint"
                 <<100, 101, 115, 99>> >>                          \* "desc"

\* The document database.DocumentFrom(model) marshals to once the model's
\* primary key is k: the struct User{schema.PKey; Name; Desc}, its fields
\* as the struct encoder resolves them (id promoted from PKey, then
\* constraint and desc); desc is written although tagged omitempty.
ModelDoc(m, k) ==
    [type |-> "struct", bytes |-> <<>>, num |-> 0,
     elems |-> MD!UserElems(SFID(k), ModelName[m], Text(<<>>))]

IsSource(o) == o = Tx \/ (o \in Ops /\ Kind[o] = "omit")

Init ==
    /\ prev = [o \in Ops |-> Nil]
    /\ pk = [m \in Models |-> 0]
    /\ nextId = 1
    /\ rows = {}
    /\ calls = 0
    /\ last = [call |-> "none", piped |-> <<>>, chain |-> <<>>, out |-> <<>>,
               err |-> NoErr, before |-> {}]

-----------------------------------------------------------------------------
(* Iterate                                                                 *)

\* The chain tail.Iterate runs: prev links from the tail back to a source.
\* A nil prev is a method call on a nil interface (a panic); a cycle
\* recurses until the goroutine's stack overflows.
RECURSIVE Upstream(_, _, _)
Upstream(p, o, fuel) ==
    IF o = Nil THEN <<Nil>>
    ELSE IF fuel = 0 THEN <<Loop>>
    ELSE IF IsSource(o) THEN <<o>>
    ELSE Append(Upstream(p, p[o], fuel - 1), o)

Chain(p, h) == Upstream(p, h, Cardinality(Ops) + 1)

\* Mutant of LimitAdmits: one document too many let through.
LimitAdmitsInclusive(count, n) == count <= n

\* limitOperator: count < op.limit lets the document through.
LimitAdmits(count, n) == count < n

\* Mutant of InsertKey: the zero primary key used without tx.ID().
InsertKeyUnallocated(m, acc) == acc.pk[m]

\* table.Insert's key: d.PrimaryKey(), or tx.ID() when it is 0.
InsertKey(m, acc) == IF acc.pk[m] = 0 THEN acc.ids ELSE acc.pk[m]

\* The continuations of the operators, given document doc at stage i; acc
\* carries the operators' counters (locals of their Iterate), the writes
\* of the transaction, the models, the id generator, the documents that
\* reached the caller's callback (which returns nil) and the error.  Each
\* step says whether f(out) is called next (go) and with what.
Stop(acc) == [go |-> FALSE, doc |-> Nil, acc |-> acc]
Go(doc, acc) == [go |-> TRUE, doc |-> doc, acc |-> acc]

\* filterOperator on document doc, whose doc.Field(name) returned f: a nil
\* document is dropped; doc.Field is msgp.Get on the marshalled document,
\* its error returned; Value() unmarshals the bytes found into an `any`
\* (v, a panic on error); a value not of type T, or not equal to the
\* matcher's, is dropped.
Filtered(o, doc, acc, f, v) ==
    IF f.err # "none" THEN Stop([acc EXCEPT !.err = Err(f.err)])
    ELSE IF v.err THEN Stop([acc EXCEPT !.err = Err("panic")])
    ELSE IF ~KP!GoEqual(v.val, Arg[o].value) THEN Stop(acc)
    ELSE Go(doc, acc)
FieldRead(o, doc, acc, f) == Filtered(o, doc, acc, f, KP!DecodeAny(f.bytes))
FilterStep(o, doc, acc) ==
    IF doc = Nil THEN Stop(acc)
    ELSE FieldRead(o, doc, acc, KP!Get(KP!MarshalDoc(doc), <<Arg[o].field>>))

\* limitOperator: count < op.limit lets the document through.
LimitStep(o, i, doc, acc) ==
    IF LimitAdmits(acc.count[i], Arg[o]) THEN Go(doc, [acc EXCEPT !.count[i] = @ + 1])
    ELSE Stop(acc)

\* offsetOperator: the first op.offset documents are counted and dropped.
OffsetStep(o, i, doc, acc) ==
    IF acc.count[i] < Arg[o] THEN Stop([acc EXCEPT !.count[i] = @ + 1])
    ELSE Go(doc, acc)

\* Mutant of InsertStep: the existence test of Session.Insert made on the
\* transaction's own batch only, not on the committed rows below it.
InsertStepBatchOnly(o, acc) ==
    LET m  == Arg[o]
        k  == InsertKey(m, acc)
        a1 == [acc EXCEPT !.pk[m] = k, !.ids = IF acc.pk[m] = 0 THEN @ + 1 ELSE @]
    IN CASE ~acc.db -> Stop([acc EXCEPT !.err = Err("panic")])
         [] k \in {r.pk : r \in acc.pend} -> Stop([a1 EXCEPT !.err = ConflictErr("pk")])
         [] OTHER -> Go(ModelDoc(m, k),
                        [a1 EXCEPT !.pend = @ \cup {[pk |-> k, name |-> ModelName[m]]}])

\* insertOperator: out.Database().Table (nil outside Execute: a panic),
\* then table.Insert: the key, SetPrimaryKey on the model, a pk
\* ConflictError when the key exists in the batch or below it, else the
\* write; the model's document goes on.
InsertStep(o, acc) ==
    LET m  == Arg[o]
        k  == InsertKey(m, acc)
        a1 == [acc EXCEPT !.pk[m] = k, !.ids = IF acc.pk[m] = 0 THEN @ + 1 ELSE @]
    IN CASE ~acc.db -> Stop([acc EXCEPT !.err = Err("panic")])
         [] k \in {r.pk : r \in rows \cup acc.pend} -> Stop([a1 EXCEPT !.err = ConflictErr("pk")])
         [] OTHER -> Go(ModelDoc(m, k),
                        [a1 EXCEPT !.pend = @ \cup {[pk |-> k, name |-> ModelName[m]]}])

\* The step of operator o; onConflict passes everything on.
Step(o, i, doc, acc) ==
    CASE Kind[o] = "filter"     -> FilterStep(o, doc, acc)
      [] Kind[o] = "limit"      -> LimitStep(o, i, doc, acc)
      [] Kind[o] = "offset"     -> OffsetStep(o, i, doc, acc)
      [] Kind[o] = "insert"     -> InsertStep(o, acc)
      [] Kind[o] = "onconflict" -> Go(doc, acc)

\* Stage i of chain c on document doc, and what follows it: past the
\* tail, the caller's callback.  onConflict swallows a downstream
\* ConflictError of its constraint (the action is nil); any other error
\* propagates.
\* onConflict swallows a downstream ConflictError of its constraint (the
\* action is nil); any other error propagates.
Settle(o, r) ==
    IF Kind[o] = "onconflict" /\ r.err = ConflictErr(Arg[o]) THEN [r EXCEPT !.err = NoErr] ELSE r

RECURSIVE Flow(_, _, _, _)

\* Stage i of chain c after its step s: what follows, and onConflict's
\* handling of its result.
Continue(c, i, s) == Settle(c[i], IF s.go THEN Flow(c, i + 1, s.doc, s.acc) ELSE s.acc)

\* Stage i of chain c on document doc, and what follows it: past the
\* tail, the caller's callback.
Flow(c, i, doc, acc) ==
    IF i > Len(c) THEN [acc EXCEPT !.out = Append(@, doc)]
    ELSE Continue(c, i, Step(c[i], i, doc, acc))

\* omitOperator's loop over docs[i..]: each document set on the state and
\* run downstream, stopping at the first error.
RECURSIVE OmitLoop(_, _, _, _)
OmitLoop(c, docs, i, acc) ==
    IF i > Len(docs) \/ acc.err # NoErr THEN acc
    ELSE OmitLoop(c, docs, i + 1, Flow(c, 2, docs[i], acc))

\* tail.Iterate: the source's loop.  omitOperator sets each document and
\* stops at the first error; databaseTx begins a transaction, sets it and
\* the database on the state, and runs downstream once with no document.
Run(c) ==
    LET acc0 == [err |-> NoErr, out |-> <<>>, count |-> [i \in 1..Len(c) |-> 0],
                 pend |-> {}, pk |-> pk, ids |-> nextId, db |-> c[1] = Tx]
    IN CASE c[1] = Nil  -> [acc0 EXCEPT !.err = Err("panic")]
         [] c[1] = Loop -> [acc0 EXCEPT !.err = Err("overflow")]
         [] c[1] = Tx   -> Flow(c, 2, Nil, acc0)
         [] OTHER       -> OmitLoop(c, Arg[c[1]], 1, acc0)

\* Mutant of Commit: the batch committed whatever downstream returned.
CommitIgnoringError(c, r) == IF c[1] = Tx THEN rows \cup r.pend ELSE rows

\* databaseTx: tx.Commit when downstream returned nil, tx.Rollback when it
\* returned an error; a panic leaves the batch uncommitted.
Commit(c, r) == IF c[1] = Tx /\ r.err = NoErr THEN rows \cup r.pend ELSE rows

-----------------------------------------------------------------------------
(* The client's calls                                                      *)

\* Pipe(ops...): nil entries trimmed, then ops[i].setPrev(ops[i-1]) for
\* every i > 0; the tail is returned.
PipeCall(args) ==
    LET ops == SelectSeq(args, LAMBDA o : o # Nil)
        at(o) == SelectInSeq(ops, LAMBDA x : x = o)
    IN /\ calls < MaxCalls
       /\ prev' = [o \in Ops |-> IF at(o) > 1 THEN ops[at(o) - 1] ELSE prev[o]]
       /\ calls' = calls + 1
       /\ last' = [last EXCEPT !.call = "pipe"]
       /\ UNCHANGED <<pk, nextId, rows>>

\* A call that runs chain c from tail h, with the links before the call,
\* and returns r.
Returned(call, p, h, c, r) ==
    /\ calls < MaxCalls
    /\ rows' = Commit(c, r)
    /\ pk' = r.pk
    /\ nextId' = r.ids
    /\ calls' = calls + 1
    /\ last' = [call |-> call, piped |-> Chain(p, h), chain |-> c, out |-> r.out,
                err |-> r.err, before |-> rows]
Ran(call, p, h, c) == Returned(call, p, h, c, Run(c))

\* database.Execute(ctx, op): Pipe(&databaseTx{db: d}, op), which sets
\* op's prev to the databaseTx, then Iterate on op with a callback that
\* returns nil.
Execute(h) ==
    LET p2 == [prev EXCEPT ![h] = Tx] IN
    /\ prev' = p2
    /\ Ran("execute", prev, h, Chain(p2, h))

\* op.Iterate(NewStateWithContext(ctx), f) called directly (pkg/db tests).
Iterate(h) ==
    /\ Ran("iterate", prev, h, Chain(prev, h))
    /\ UNCHANGED prev

\* A client's call on the table of database.Table(tx, model), in a
\* transaction of its own, committed when the call returned nil.
TableReturned(call, out, err, rows2) ==
    /\ calls < MaxCalls
    /\ rows' = IF err = NoErr THEN rows2 ELSE rows
    /\ calls' = calls + 1
    /\ last' = [call |-> call, piped |-> <<>>, chain |-> <<>>, out |-> out,
                err |-> err, before |-> rows]
    /\ UNCHANGED <<prev, pk, nextId>>

Row(k) == {r \in rows : r.pk = k}

\* table.Get: tree.Get of the key; ErrKeyNotFound becomes a NotFoundError.
TableGet(k) ==
    IF Row(k) = {} THEN TableReturned("get", <<>>, Err("notfound"), rows)
    ELSE TableReturned("get", <<CHOOSE r \in Row(k) : TRUE>>, NoErr, rows)

\* table.Delete: tree.Delete of the key; ErrKeyNotFound is success.
TableDelete(k) == TableReturned("delete", <<>>, NoErr, rows \ Row(k))

\* table.Replace(key, DocumentFrom(model)): tree.Exists, a NotFoundError
\* when absent; d.Marshal (a User model always marshals) and tree.Put of
\* the document under the key, whatever primary key the document holds.
TableReplace(k, m) ==
    IF Row(k) = {} THEN TableReturned("replace", <<>>, Err("notfound"), rows)
    ELSE TableReturned("replace", <<>>, NoErr,
                       (rows \ Row(k)) \cup {[pk |-> k, name |-> ModelName[m]]})

\* The client has made its calls.
Done == calls = MaxCalls /\ UNCHANGED vars

Next ==
    \/ \E p \in Pipelines : PipeCall(p)
    \/ \E h \in Ops : Execute(h)
    \/ \E h \in Ops : Iterate(h)
    \/ \E k \in Keys : TableGet(k) \/ TableDelete(k)
    \/ \E k \in Keys, m \in Models : TableReplace(k, m)
    \/ Done

Spec == Init /\ [][Next]_vars

-----------------------------------------------------------------------------
(* Properties                                                              *)

Errors == {NoErr, Err("notfound"), Err("notexists"), Err("format"), Err("decode"), Err("panic"), Err("overflow"), ConflictErr("pk")}

TypeOK ==
    /\ prev \in [Ops -> Ops \cup {Nil, Tx}]
    /\ pk \in [Models -> Nat]
    /\ rows \subseteq [pk : 1..(nextId - 1), name : Range(ModelName)]
    /\ last.err \in Errors

\* A document field holds the matcher's value: the same number for
\* integers (a document's Go int 1 is the int32 1 of Eq[int32](1) in the
\* tests), the same value otherwise.
Means(x, v) ==
    IF x.type \in KP!IntTypes THEN v.type \in KP!IntTypes /\ x.num = v.num
    ELSE x.type = v.type /\ x.bytes = v.bytes
Holds(d, f, v) == \E e \in Range(d.elems) : e[1] = f /\ Means(e[2], v)

\* The documents a chain emits, by the meaning spec 4.7 gives each
\* operator: a source's documents (databaseTx: one state with no
\* document), Filter keeps the documents whose field holds the matcher's
\* value of its type, Offset(n) drops the first n, Limit(n) keeps the first
\* n, Insert emits its model's document, with the key it was given, for
\* each one it receives.
RECURSIVE Reference(_)
Reference(c) ==
    IF Len(c) = 1 THEN (IF c[1] = Tx THEN <<Nil>> ELSE Arg[c[1]])
    ELSE LET up == Reference(Front(c))
             o  == Last(c)
             n  == Len(up)
         IN CASE Kind[o] = "filter" ->
                   SelectSeq(up, LAMBDA d : d # Nil /\ Holds(d, Arg[o].field, Arg[o].value))
              [] Kind[o] = "offset" -> IF Arg[o] >= n THEN <<>> ELSE SubSeq(up, Arg[o] + 1, n)
              [] Kind[o] = "limit"  -> SubSeq(up, 1, IF Arg[o] < n THEN Arg[o] ELSE n)
              [] Kind[o] = "insert" -> [j \in 1..n |-> ModelDoc(Arg[o], pk[Arg[o]])]
              [] Kind[o] = "onconflict" -> up

\* Spec 4.7: a chain that runs to the end delivers to the caller exactly
\* the documents its operators mean, in order, on every run of the same
\* operators: Limit's and Offset's counters start afresh in each Iterate,
\* whatever ran before, and the counters of operators at different places
\* of a chain are not mixed up.
StreamMatchesReference ==
    last.call \in {"execute", "iterate"} /\ last.err = NoErr
        => last.out = Reference(last.chain)

\* Spec 4.7 and 8.7 (transactional atomicity): the committed rows change
\* only in a call that returned nil; a pipeline whose downstream fails
\* after an Insert has written leaves no row behind.
Atomicity ==
    [][rows' # rows => last'.err = NoErr]_vars

\* Spec 4.6 and 8.4 (primary-key uniqueness): the committed table holds at
\* most one row per primary key, whatever mix of pipeline Inserts (of
\* models whose key is already set, after a rollback or a Delete),
\* direct Replaces and Deletes, committed or rolled back, came before.
\* table.Insert must refuse a key present below the batch, and
\* table.Replace must overwrite the row under its key.
RowsKeyed == \A r1, r2 \in rows : r1.pk = r2.pk => r1 = r2

\* Spec 4.7 / data flow: Execute prepends the transaction-seeding operator
\* and runs the chain the client built: every operator of the pipeline
\* handed to Execute takes part in the run (spec seed 6 relies on the
\* OnConflict in front of Insert).
ExecuteRunsPipeline ==
    last.call = "execute" =>
        Range(last.piped) \cap Ops \subseteq Range(last.chain)

=============================================================================
