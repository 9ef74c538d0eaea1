# TLA+ models of kiwidb

kiwidb is an embedded document database written in Go. It stores msgpack-encoded
documents in pebble, which is an LSM key-value store. This directory holds TLA+
models of the parts of kiwidb where concurrency, crashes or ordering make
testing hard. It also holds the TLC configurations that check those models.
All paths below are relative to the repository root (`src/` here).

## The system

| Part | Source | State | Operations |
|---|---|---|---|
| KV store | `pkg/kv/pebble/store.go` | the pebble DB; `sharedSnapshot` (an RWMutex around a `*snapshot`) | `NewSnapshotSession`, `NewBatchSession`, `lockSharedSnapshot`, `unlockSharedSnapshot` |
| Batch session | `pkg/kv/pebble/batch.go` | an indexed `pebble.Batch`; `closed` | `Insert`, `Put`, `Delete`, `Get`, `Exists`, `Iterator`, `ensureBatchSize`, `Commit`, `Close` |
| Snapshot session | not in `src/` (spec section 5) | `*snapshot` with a `refCount` | reads; `Close` (`Done`) |
| Transaction | `internal/database/transaction.go` | one session; hooks | `NewTransaction`, `Commit`, `Rollback`, `ID`, `On` |
| Tree | `internal/tree/tree.go`, `key.go` | a namespace over a session | `Insert`, `Put`, `Get`, `Exists`, `Delete`, `Truncate`, `Range` |
| Table and index | `internal/database/table.go`, `index.go` | trees; namespace = schema ID | table `Insert`/`Replace`/`Get`/`Delete`/`Range`; index `Set`/`Exists`/`Delete`/`Range` |
| Catalog | `internal/database/catalog.go`, `pkg/schema` | `tables` (`sync.Map` cache); the bootstrap table in namespace 0 with a unique `name` index | `TableSchema` (which runs `syncTable` on a cache miss) |
| Pipeline | `internal/database/stream.go`, `database.go`, `pkg/db/*` | operator chains linked by `prev` | `Execute` (`Pipe`), the `Insert`/`OnConflict`/`Filter`/`Limit`/`Offset` operators |
| Codec | `pkg/encoding/msgp/*` | none (pure functions) | the value encoders and decoders, `Compare` (the pebble comparer), `AbbreviatedKey`, `Successor`, `MinValueForType`, `MaxTypeCodeForType` |

How the parts interact:

- Every operation of the database runs in a transaction. A read-only
  transaction holds a snapshot session. A read-write transaction holds a batch
  session.
- A batch session installs a fresh "shared snapshot" in the store. Read
  sessions that begin while it is installed share it and count references to
  it. `Close` of the batch session releases the shared snapshot.
- `Execute` runs a pipeline in one write transaction. The first use of a model
  type goes through the catalog. The catalog opens its *own* write transaction,
  nested inside the pipeline's, on the same goroutine.
- Keys are a namespace followed by msgpack-encoded values. They are ordered by
  the codec's `Compare`, which pebble uses as its comparer.

Hard behaviours:

- Goroutines interleave around the shared snapshot slot and the catalog cache.
- Transactions nest on one goroutine (the catalog inside `Execute`).
- `ensureBatchSize` commits part of a batch early.
- `Truncate` commits the session inside a transaction.
- The process can crash and restart; the catalog cache is then lost, while the
  committed rows persist.
- Byte-level comparison must agree with the encoders.

## Modules

| Module | Models | Run(s) |
|---|---|---|
| `KVStore` | store, batch and snapshot sessions, transactions, tree writes | `kvstore_*` |
| `Catalog` | `catalog.TableSchema` and `syncTable` with the name index; crashes | `catalog_*` |
| `Msgp` | the codec as operators: encoders, `Marshal`, `Unmarshal` of scalars, `Compare`, `Successor`, `AbbreviatedKey`, `key.Bytes` | through `Codec` and `TreeRange` |
| `Codec` | the comparer on pairs of keys, checked against the spec's orders | `codec_*` |
| `TreeRange` | one tree's `Insert`, `Delete` and `Range` over a keyspace shared with neighbouring trees | `treerange_*` |
| `OrderedTree` | the abstract tree of spec 4.2: a set of values and scans, which `TreeRange` refines | `treerange_exact` |
| `StructFields` | `struct.go`'s `typeFields` (breadth-first walk, `dominantField`, `byIndex`) and the struct encoder's field walk, as operators; the embedded-field rule as a reference | `codec_keys` |
| `Models` | the struct types of `pkg/schema` (`PKey`, `TableSchema`, `IndexSchema`) and `pkg/db`'s test `User` as type tables, with their `Indexes()` | through `Codec`, `Document`, `Pipeline` |
| `Schema` | `schema.ParseKeyPath`, the index part of `TableSchema.Init`, and the values `syncTable` reads with the parsed paths | `codec_keys` |
| `KeyPath` | documents as msgp bytes: the struct and map encoders, `Unmarshal` into `any`, and `op.go`'s `Get` and `Set` scanner | through `Pipeline` |
| `Document` | `internal/database/document.go`: one lazily encoded document under `Marshal`, `Value`, `PrimaryKey` and `SetPrimaryKey` | `document_coherence` |
| `Pipeline` | `Pipe`, `Execute`, direct `Iterate`, `databaseTx`, and the `Omit`, `Filter`, `Limit`, `Offset`, `Insert`, `OnConflict` operators with `table.Insert` | `pipeline_*` |
| `MC_KVStore`, `MC_Catalog`, `MC_Codec`, `MC_TreeRange`, `MC_Document`, `MC_Pipeline` | model values, bounds and value sets for TLC | |

### KVStore

Each goroutine (`Procs`) keeps a stack of open transactions, innermost last.
Only the innermost one acts, as in the synchronous Go code.

Data is abstracted to one value per key: the id of the session whose batch wrote
it. That is enough to tell whether a value comes from a transaction that failed.
A pebble snapshot is named by the session that created it. Its `refCount` is
kept per snapshot. The shared slot is `shared`.

Actions and the code each one models:

- `BeginRead` is `NewSnapshotSession`.
- `BeginWrite` is `NewBatchSession` with `lockSharedSnapshot`.
- `Put`, `Insert` and `Delete` are the `BatchSession` calls. Each includes its
  trailing `ensureBatchSize`, which commits and resets a batch that has reached
  `MaxBatchSize`.
- `Truncate` is `Tree.Truncate`: it deletes the keys, then `Session.Commit`.
- `CommitApply` and `CommitClose` are `transaction.Commit`. It is split at
  `Batch.Commit` so that other goroutines can run between applying the batch
  and releasing the snapshot.
- `CommitClosed` is `Commit` refused with "already closed" after a `Truncate`.
- `RollbackWrite` and `RollbackRead` are `transaction.Rollback`.

`Batch.Len()` counts bytes in pebble. The model counts operations instead: every
operation adds at least one byte, so the flush happens in the same places up to
scaling.

History variables that are not program state:

- `outcome` records what each transaction reported.
- `appliedAt` and `completed` record the version a returned commit produced.
- `floor` records the latest completed commit when a reader began.

### Catalog

Each goroutine (`Goroutines`) calls `TableSchema` for a model type. The call
moves through four steps, named by program counter:

1. `Lookup`: the cache check.
2. `Sync`: the name index lookup, then `schemaTable.Insert`, which allocates
   the id or takes the conflict path.
3. `Commit`: the index `Set`, then `tx.Commit`.
4. `Store`: fills the cache.

The write transaction reads its own writes over the committed state. Nothing
orders two transactions. `Crash` is a crash at any point, followed by a restart:
the cache is empty and the rows survive. `nextId` models the snowflake
generator, which stays monotonic across restarts.

The conflict path of `syncTable` would panic. `key, d, err :=
schemaTable.Insert(ctx, d)` sets `d` to nil, and `Replace` calls `d.Marshal()`
on it. That state (`"panicked"`) is never reached, because an earlier defect
masks it.

- `syncTable` hands the name index the name as `msgp.Encoded`.
- `encodeState.marshal` writes an `Encoded` value's bytes and then, since no
  `return` follows, encodes it again as a byte slice (`Msgp!Marshal`).
- An index entry therefore decodes to three values. `IndexEntryValues` is
  computed, not assumed: `NameEntryKey` builds the entry's bytes with the
  codec (`KP!KeyBytes`, `Msgp!Marshal`), in namespace 0, and `KeyValues`
  (`KeyPath`, from `key.Values`) decodes them as `index.Exists` does.
- `index.Exists` then fails with "invalid index value" as soon as an entry of
  that name is present.

So a type registered by an earlier run of the process makes `TableSchema` fail
after a restart. A goroutine that missed the cache while another registered the
type fails the same way. `CatalogIdempotence` states spec 8.8 as one claim:
every `TableSchema` call succeeds, and calls for one type return one ID.

### Msgp

`Msgp` has no variables. A Go value is a record: its Go type, its bytes as Go
holds them, its rank in the order of its type (`num`, used only by the
properties), and the elements of a `[]any`. Numbers are handled as byte
sequences, so 64-bit values never reach TLC's integers.

How the operators correspond to the code:

- **Encoding:** `EncodeInt`, `EncodeUint`, `EncodeFloat`, `EncodeString`,
  `EncodeByteSlice` and `Encode` are the type encoders of `encode.go`. This
  includes the 32-bit case for `reflect.Int` and `reflect.Uint`.
- **`Marshal`:** `encodeState.marshal`, with the `Encoded` double write.
- **`KeyBytes`:** `key.Bytes`.
- **Decoding:** `Decode` is `Unmarshal` through `decodeState.value`, with
  `DecodeNumber`, `DecodeFloat` and `DecodeText` for its groups. `ReadBytes`
  is `decodeState.read` over a `bytes.Buffer`, so a short read is zero-padded
  with no error.
- **Comparer:** `Compare` is `comparer.go` step by step:
  - the outer loop over tags;
  - `compareNextValue`, which reads str and bin lengths with
    `binary.Uvarint` (`UvarintFrom`, Go's semantics);
  - element-wise comparison of arrays.

  An index out of range is the value `Panic`.
- **`Successor` and `AbbreviatedKey`:** the comparer's other two functions.

`CompareNextValue` is split in two: `CompareScalar` covers every tag but the
containers, and `CompareNextValue` adds the element-wise case. The key sort of
`KeyPath` needs only the first, which keeps recursion out of the sort.

### StructFields

A Go struct type is a table from type names to field lists: Go name,
exported, embedded, the parsed `msgp` tag, and the field's type (a key of the
table for a struct or pointer to one, else a scalar kind). Names are byte
sequences, so the encoder can write them.

- `TypeFields` is `typeFields`. `Levels` is its breadth-first loop: one call
  per depth, with `visited`, `count` and `nextCount`. `ScanField` is the
  body for one field: `Ignored` gives the skips and `Recorded` the choice
  between field and embedded struct. `LevelFields` adds the duplicate for a
  struct met twice at a depth. `Dominants` is the sort with `FieldLess`,
  then `DominantField` per name. The result is sorted by `IndexLess`
  (`byIndex.Less`).
- `StructElems` is `structEncoder.encode` after its header: each field's
  name, and the value `FieldByIndex` reaches.
- `VisibleFields` is the rule the code's comment names: Go's selector rule,
  with a tagged field preferred at its depth. It is written independently,
  over every path of embedded structs that visits no struct twice.

`Models` uses these operators for kiwidb's own types. `Pipeline`'s
`ModelDoc` and `MC_Document`'s `User` build the `User` document with
`UserElems`, so the field order the runs see (`id` promoted from `PKey`,
then `constraint`, then `desc`) is computed, not written down.

### Schema

`Schema` extends `KeyPath` and `Models` with what an index declaration
becomes:

- `ParseKeyPath` folds `ParseByte` over the name's bytes from `ParseStart`
  (path, buffer, error): `[` is skipped, `]` appends the buffer through
  `strconv.ParseInt` as an `int64` step (`AppendPath`, `Int64Step`), `.`
  appends it as a string, any other byte is buffered; a non-empty buffer is
  appended at the end.
- `IndexSchemas` is `TableSchema.Init`'s loop over `Indexes()`: each name is
  split at `,` (`SplitComma`), each part parsed; a part that fails is
  `Init`'s error.
- `IndexValues` is `syncTable`'s inner loop: `d.Field(path...)` (`msgp.Get`
  on the marshalled document) for each path, its error returned, the bytes
  kept as `msgp.Encoded`.

`IndexedFields` (in `codec_keys`) composes these with `StructFields` and
`KeyPath`: for `TableSchema`'s `"name"`, `IndexSchema`'s `"owner"`, `User`'s
`"constraint"` and a composite `"a,b"` of `MC_Codec`'s `Pair`, and a sample
value of each, `Init` accepts the declaration and each index value is the
encoding of the field the struct encoder writes under that part's name.

### KeyPath

`KeyPath` extends `Msgp` with what a stored document is made of:

- **Document encoding:** `EncodeDocument` is the struct and map encoders of
  `encode.go`. A struct writes a map16 header and the entries `StructElems`
  resolves, in `byIndex` order, unsorted. A map resolves each key with the string or integer encoder
  (`ResolveKey`), sorts the entries by `Compare` of the resolved keys
  (`SortedEntries`), then writes key and value. `MarshalDoc` is `Marshal` of
  a document.
- **`DecodeAny`:** `Unmarshal` of a scalar into `any`. It gives the Go type
  the decoder produces, for example `int32` for a value written from a Go
  `int`.
- **`DecodeDoc`:** `Unmarshal` of a document into `any`: a map16 or map32
  becomes a `map[string]any` (`ObjectEntries`, `decodeState.object`); a key
  that is not a string is an error; other values go to `DecodeAny`.
- **`KeyValues`:** `key.Values` of `pkg/tree/key.go`. It skips the
  namespace, then decodes values into `any` until the end of the key
  (`ValuesFrom`). Any decode error other than EOF is the code's panic.
- **Scanner:** `Scan` is `scanner.scan` of `op.go`. `SeekValue` is
  `seekValue`, and `Seek` is `seek`: reading past the end is `"eof"`.
  - `ScanMap` decodes each key and compares it with the step by Go interface
    equality (`GoEqual`, type and value).
  - `ScanArray` accepts only a Go `int` step. `ArrayCountWidth` keeps the
    code's `typ == map32Value` test.
  - When the value of a matched last key cannot be sought, the error is
    dropped (`LastStep`), as in the code.
- **`Get` and `Set`:** `Get` is the byte range of the value found, and `Set`
  splices the replacement bytes over it. A path that does not resolve gives
  `KeyPathNotFound`.

Every operator passes intermediate results as parameters, not `LET`s. This
keeps TLC's evaluation linear when the runs are checked with coverage.

`Pipeline`'s `Filter` uses `Get` with a one-step path over the encoded
document. The map branch of the scanner is therefore checked on real bytes.
The array branch, paths of more than one step, and `Set` are translated but
no run evaluates them.

### Document

The state is one `doc`: `value` (`d.value`, or `Nil`) and `raw` (`d.raw`, or
`Nil`), with `panicked` for the caller's goroutine, the history variable
`lastKey` and a call counter bounded by `MaxCalls`. `Init` is `DocumentFrom(v)`
for a value of `Values`, or `DocumentFromBytes` of a stored row's bytes
(`table.Get`, `table.Range`). Each call is an action:

- `MarshalCall`: `doc.Marshal`, and `doc.Field`, whose only effect on the
  document is the same caching of `raw`;
- `ValueCall`: `doc.Value`, decoding `raw` with `DecodeDoc` when `value` is
  nil and panicking on an error;
- `PrimaryKeyCall`: `doc.PrimaryKey`, the `PKey` field of a model or
  `Field("id")` (0 when absent, a panic when not a `uint64`);
- `SetPrimaryKey(k)`: the model's field with `raw` dropped, or `msgp.Set` of
  `"id"` over the marshalled bytes, its error ignored and the result stored.

`DocumentCoherent` says the two representations decode to one record, and
that the document reads back the last key set.

### Codec

The state is the pair of keys `(a, b)` that pebble passes to the comparer. Every
pair of `Keys` is an initial state, and `Swap` is the same call with its
arguments reversed. The properties are invariants over the pair.

### TreeRange

The state is made of:

- `stored`: the keys of this tree and of two neighbouring trees.
- `start`, `end`, `req`, `visited` and `status`: the last `Range` call.

The actions:

- `Insert` and `Delete` are `Tree.Insert` and `Tree.Delete`.
- `RangeScan` is `Tree.Range` as one step:
  - the bound builders (`StartKey`, `EndKey`, `buildMinKeyForType`,
    `buildMaxKeyForType` with `MinValueForType` and `MaxTypeCodeForType`);
  - `Iterate`, the iterator between them under `Compare`;
  - reverse order;
  - either the callback accepts every key (`"done"`), or it returns an error
    after some prefix (`"stopped"`).

A scan writes nothing. Scans are therefore taken only from the states writes
reach (`status = "idle"`), and writes clear the scan history. Every scan of
every reachable keyspace is still explored.

`OrderedTree` is what a tree promises (spec 4.2), with no namespaces or bytes:
`tree` is a set of values, and `scan` holds the last request, the values the
callback received and how the scan ended. Its `Scan` lets any sequence
through that holds the selected values once each, with values of one type
in order (reversed for a reverse scan), whole or cut after some value. The
order across types is left open, because the spec's group order and the
code's tag order differ. `TreeRange` instantiates it (`OT`) with this mapping:

- `tree` is the values of the keys in the tree's namespace;
- `scan.out` is the visited keys' values, with a key of another namespace
  mapped to `Nil`, which no tree holds.

`ImplementsOrderedTree == OT!Spec` is checked as a temporal property.
`Requests` is a constant. The refinement run gives it the requests with both
bounds or none. The open-bound run gives it every request, since a one-sided
request is where the code and the spec part.

### Pipeline

The client's calls are the actions; each runs synchronously to its end, so
one call is one step.

- `PipeCall(args)` is `Pipe`: nil arguments are dropped
  (`SelectSeq`), then each operator's `prev` is set to the one before it.
- `Execute(h)` is `database.Execute`: `Pipe(&databaseTx{}, h)`, which sets
  `prev[h]` to `Tx`, then `Iterate` on `h`.
- `Iterate(h)` is a direct `h.Iterate(NewStateWithContext(ctx), f)`, as the
  `pkg/db` tests do.

`Chain` follows `prev` from the tail back to a source (`Omit` or `Tx`). A
nil `prev` is a panic. A cycle is a stack overflow. `Flow` is the
continuation each operator's `Iterate` passes upstream, applied to one
document:

- `Filter` reads its field as the code does. `Document.Field` is
  `msgp.Get(Marshal(doc), [name])`; here that is `KP!Get` over
  `KP!MarshalDoc`. `Value` is `DecodeAny`, and the `.(T)` assertion
  compares Go types. Nil documents and values of another type are dropped,
  and a missing field is `ErrKeyPathNotExists`. The model's documents are
  the `User` struct of the tests (`id`, `constraint`, `desc`) and flat
  `map[string]any` values with Go `int` entries, which encode as `int32`.
- `Limit` and `Offset` keep counters that are locals of `Iterate`.
- `Insert` looks up its table through `out.Database()` (nil outside
  `Execute`: a panic), then runs `table.Insert`. That call takes the
  model's key or allocates one with `tx.ID()`, writes the key into the
  model, and returns `ConflictError{Name: "pk"}` if the key is already in
  the batch or in the committed rows.
- `OnConflict` swallows a downstream `ConflictError` of its own name. Its
  action is always nil, since `DoNothing()` and `Do()` return nil.

`Commit` is `databaseTx.Iterate`: the batch is committed when downstream
returned nil and rolled back otherwise. Rows are (pk, name) pairs; the
model's key (`pk`) is program state that survives a rollback.

A client also uses the table directly: `d.Begin()`, `d.Table(tx, model)`,
one call, then `Commit` on nil and `Rollback` on an error
(`TableReturned`). The calls are actions of their own:

- `TableGet(k)` is `table.Get`: the row, or a `NotFoundError`.
- `TableDelete(k)` is `table.Delete`: the row removed; a missing key is
  success.
- `TableReplace(k, m)` is `table.Replace(k, DocumentFrom(m))`: a
  `NotFoundError` when `tree.Exists` is false, else the model's document
  put under `k`, whatever key the document itself holds.

`RowsKeyed` says the committed table holds one row per key. Breaking it
takes several calls: an `Insert` commits a row, a `Replace` changes its
name, and a later `Insert` of the same model (its key still set) must meet
the conflict, from the committed rows, not from its own batch.

## Runs

| Run | Expect | Shows |
|---|---|---|
| `kvstore_safety` | pass | `NoUseAfterRelease`: no read session or shared slot holds a released snapshot. `ReadSeesCompletedCommits`: a reader that begins after a commit has returned sees that commit. |
| `kvstore_snapshot_leak` | violation | The overwritten shared snapshot is never released. |
| `kvstore_atomicity` | violation | A rolled-back transaction's full batch was already committed (spec 8.7). |
| `catalog_safety` | pass | Cache, schema rows and name index stay consistent across races and crashes. The nil-`Replace` panic is unreachable. |
| `catalog_idempotence` | violation | Spec 8.8: repeated `TableSchema` calls for one type fail, or return two IDs. Concurrent first use gives two IDs. After a restart, or after losing the race, the call fails on the triple-valued index entry. |
| `codec_keys` | pass | Namespace isolation (spec 8.3). `Compare` = 0 exactly on equal bytes. Sized integers keep their order (spec 8.2). `StructFieldsVisible`: for kiwidb's models and for structs built to hit each case, `typeFields` writes every field the embedded-field rule selects, at the index the rule selects. `IndexedFields`: the models' index declarations, parsed and read with `msgp.Get`, give the encoded fields of those names. |
| `codec_comparer_contract` | violation | pebble's `Comparer` contract fails in three ways. `Compare` panics on a string of 128 bytes or more: its str8 length is read as a Uvarint. `Successor(a)` sorts below `a` for a key with values. `AbbreviatedKey` is not monotone across namespaces 65535 and 65536. |
| `treerange_exact` | pass | `ImplementsOrderedTree`: `Tree.Insert`, `Tree.Delete` and `Tree.Range` with both bounds or none refine `OrderedTree`. A whole scan visits exactly the tree's selected keys, each once, in value order within a type or reversed, never a key of another tree. A stopped scan visits a prefix of that sequence. |
| `treerange_open_bound` | violation | A `Range` with no min below an `int8` max starts at an `int` key, after every `int8` key, and visits nothing. |
| `document_coherence` | violation | `DocumentCoherent` (spec 2, 9) fails. TLC's shortest trace is a map without `"id"`: `SetPrimaryKey(1)` gets `KeyPathNotFound` from `msgp.Set`, ignores it and sets `raw` to nil, so the key is lost. Other inputs of the run show that `SetPrimaryKey` on a map or on stored bytes leaves a decoded `value` stale. They also show that scalars do not round-trip (spec 8.1): -0.0 returns as a NaN, and a Go `int` beyond 32 bits returns truncated. |
| `pipeline_safety` | pass | `RowsKeyed`: pipeline Inserts and direct `table.Get`, `Delete` and `Replace` calls never leave two committed rows with one key. `StreamMatchesReference`: every run that returns nil delivers exactly the documents spec 4.7's operator meanings give (`Reference`, written with sequence operators), on a second run too. `Atomicity`: committed rows change only in a call that returned nil. |
| `pipeline_execute_chain` | violation | `Execute(Insert)` after `Pipe(OnConflict, Insert)` runs only `Tx → Insert`. The OnConflict of spec seed 6 is cut off, and the second insert fails. |

Each passing property has a mutant in `PROJECT.json`: a plausible bug in the
modelled code that TLC finds as a violation of that property.

Bounds:

- **KVStore:**
  - 2 goroutines, 1 key, 4 sessions.
  - `MaxBatchSize` = 2, so a flush happens on the second write.
  - `MaxVersion` = 2.
  - Four sessions allow a nested catalog transaction inside a write
    transaction, next to a reader and a second writer.
- **Catalog:**
  - 2 goroutines, 2 types, 2 names.
  - 2 calls per goroutine, 4 ids, 1 crash.
  - A second call is needed to hit the cache. A crash is needed to lose it.
- **Codec:** namespaces are chosen at the edges that matter:
  - 0;
  - 65535 and 65536, on either side of `AbbreviatedKey`'s 16-bit cut;
  - `MaxUint64`.

  Values are chosen at the same kind of edges:
  - integers at every width and sign boundary, including a Go `int` of 2^31;
  - floats ±Inf, ±1 and ±0;
  - strings "", "a", "ab", "b" and 128 × "a" (the first str8 length with the
    Uvarint continuation bit);
  - two byte slices, an `Encoded` value, nil, bools and small arrays.
- **Struct types** (in `MC_Codec`): kiwidb's `User`, `TableSchema` and
  `IndexSchema`, plus three built types. Each case of `typeFields` happens
  once:
  - `Tags` embeds `A` and `B`. Its own `W` hides `A.W`. `A.P`, tagged `"Q"`,
    beats the untagged `B.Q`. `A.X` and `B.X` annihilate, and so do the
    tagged `A.R` and `B.S`, both `"r"`. It also has a tagged embedded `B`,
    an embedded `*C`, an unexported embedded struct, an unexported field,
    and an unexported embedded non-struct.
  - `Diamond` embeds `Cd` twice at one depth.
  - `Node` embeds `*Node`.
  - `Pair{A "a"; B "b"}` declares the composite index `"a,b"`, so that
    `strings.Split` gives two paths. Each model has one or two sample values
    for `IndexedFields`, with empty and non-empty strings and a negative
    `int`.
- **TreeRange:**
  - a tree in namespace 10 between trees 9 and 11;
  - values `int8` -1 and 1, `uint8` 5, `float64` ±1.0 and "a";
  - every request over those values (both bounds of one type), inclusive and
    exclusive, in both directions.

  Three types next to each other in tag order show a range leaking into a
  neighbouring type. Two values per type show order and exclusivity.
- **Document:** `MaxCalls` = 3, keys 1 and 2. The values are a model with
  `PKey`, a map with `"id"`, a map without it, and a map holding -0.0 and a Go
  `int` of 2^32 + 1. The stored row is a model with key 5. Three calls reach
  `Value` then `SetPrimaryKey` then a read.
- **Pipeline:**
  - seven operators: an `Omit` of three int32 documents, a `Filter` on `a`,
    `Offset(1)`, `Limit(1)`, `OnConflict("name")`, and two `Insert`s of two
    model instances;
  - five `Pipe` calls: Omit→Filter→Offset→Limit, Omit→Limit→Offset,
    OnConflict→Insert (twice), and a nil argument before Insert→Filter;
  - `MaxCalls` = 4;
  - the models are named "hello" and "hi", so a `Replace` changes a row;
    table calls take keys 1 and 2.

  Four calls reach every case:
  - a chain run twice (its counters must restart);
  - a chain with two operators of one kind placed differently;
  - an `Execute` of Insert that commits, then a second insert of the same model;
  - `Execute(OnConflict)`, which leaves the OnConflict linked to a
    `databaseTx`, then `Pipe(OnConflict, Insert)`, `Pipe(nil, Insert,
    Filter)` and a direct `Iterate` of the Filter. That run reaches the
    `databaseTx`, and Insert writes. The Filter then fails on the inserted
    document's missing field, so the run must roll back.

Symmetry on goroutines is used in `KVStore` and `Catalog`, where goroutines
appear only as interchangeable indices.

No fairness is assumed and no liveness property is checked. The code has no
scheduler, retry or background worker whose progress could be claimed.

## Defects found and not kept as runs

The project keeps at most one run per question. These defects were found while
modelling and are described here and in `PROJECT.json`'s hazards:

- Two write sessions can overlap; spec section 5 says there is a single writer.
- The unique `name` index can hold two rows of one name after concurrent
  registration.
- The tag order of the code (bin < float < uint < int < str) is not the group
  order of spec 4.1.
- `Compare` reads string, byte, array and map lengths with `Uvarint`, and
  its outer loop re-slices both keys by what it consumed of `a`
  (`comparer.go:17`). A length byte of 128 or more (a 133-byte string's
  `0x85`) is read as a continuation, so the payloads of two unequal strings
  can compare equal and the rest of `b` is parsed from the wrong offset:
  two unequal keys of two values can compare 0 with no panic. `Codec`'s
  keys hold one value, so `EqualConsistent` (which also excludes panics)
  does not reach this; `ComparerContract` reaches only the panic.
- `schema.ParseKeyPath` skips `[` without ending the current step. So
  `"a.b[0].c"` parses `"b0"` with `ParseInt` and fails, while spec section 2
  gives `["a","b",0,"c"]`. The indices that do parse are `int64`, and
  `op.go`'s array step accepts only `int`, so a bracketed path never
  resolves. `Schema` models the parser, but `IndexedFields` is checked
  on the declarations the repository's models make, none bracketed.
- `ParseKeyPath` loops `for i := range s` over runes but reads the byte
  `s[i]`, so a non-ASCII field name loses its continuation bytes.
- No `IndexSchema` is ever given an ID. `TableSchema.Init` builds
  `IndexSchema{IndexType, Paths}` with ID 0, and `NewIndex` opens namespace
  `s.ID`. Every index, user indexes and the catalog's name index alike,
  therefore lives in namespace 0 with the schema rows. Spec 4.5 and 4.6
  give each index its own namespace. `Index.Truncate` of any index deletes
  the catalog, `Exists` of a `uint` value meets a schema row and fails, and
  `Index.Range` panics on the `[]byte` assertion of `index.go:99`.
- `index.Exists` accepts only entries of exactly two values, but `Set`
  writes `len(Paths)+1`: `Exists` on a composite index fails with "invalid
  index value" whenever an entry matches.
- `table.Replace` writes a document under the key it is given without
  comparing the document's own primary key, so a row can hold a document
  whose `id` names another row (`table.go:106`).
- `database.Index` with a name the model does not declare passes nil to
  `NewIndex`, which panics.
- `op.go` reads an `array32` count with 2 bytes, because it tests
  `typ == map32Value`. This needs more than 65535 elements.
- `typeFields` writes a field that the embedded-field rule makes ambiguous,
  when it lies two levels below a struct embedded twice at one depth.
  `count` duplicates only the twice-embedded struct's own fields; the
  structs it embeds are enqueued once. For `MC_Codec`'s `Diamond`
  (`A2` and `B2` both embed `Cd{M; Dd{N}}`), `M` is dropped as the rule
  says, but `N` is written. Spec 4.1 says such a collision drops the field.
  No kiwidb type has this shape.
- `doc.SetPrimaryKey` on a document that is not a `PKey` model updates only
  `raw`, so a `value` decoded before keeps the old key. On a map without
  `"id"` it drops the key. Both are in `document_coherence`.
- A float64 `Range` with a min and no max is empty: `MaxTypeCodeForType` gives
  float64 the float64 tag itself.

## Not modelled

See `PROJECT.json` for each component and the reason it is left out.

- `KeyPath.String` and `IsEqual` (never called under `src/`), and the
  reflection of `TableSchemaFor` and `CanTableName`.
- Schema reflection, engine setup and the id generator are configuration or
  external code.
- In the pipeline: `Stringify` and `Op.next` (formatting only); storage
  errors of `tree.Insert`, which `table.Insert` swallows (`table.go:59`);
  `table.Range` and `Truncate` for clients, and a `Replace` whose document
  fails to marshal (`table.go:102`; a `User` always marshals).
- `Tree.Put`, `Get`, `Exists` and multi-value range bounds (index ranges) are
  not in `TreeRange`.
- Decoding arrays, decoding into structs, and maps nested in a document are
  not modelled. `EncodeDocument` encodes one level of document, and
  `DecodeDoc` decodes one level of map into `any`.
- The struct encoder's branch for a nil embedded pointer. It calls the field
  encoder on `nullValue` and then on the nil pointer, which gives a recovered
  panic or extra values. No kiwidb type embeds a pointer. `nameIndex`, and
  decoding into a struct, are not modelled either.
- `msgp` tags are given already parsed: `parseTag` is not in the repository.
- `doc.Unmarshal` copies `raw` into a caller's value and changes nothing in
  the document. Nothing under `src/` calls it.
- `Tree.Truncate`'s `Namespace+1` wraps at `MaxUint64`. Real namespaces are
  snowflake IDs far below it.

## Plan

1. **Document paths:** check `Get` over nested paths and arrays, and `Set`
   against a reference, over spec seeds 4 and 5. This needs nested
   encoding in `EncodeDocument`.
2. **Index ranges:** multi-value keys in `TreeRange`, the `len > 1` branches of
   `buildMinKeyForType` and `buildMaxKeyForType`, and index `Set`/`Delete`.
3. **Composition:** the catalog transaction nested inside `Execute`'s, over
   `KVStore`'s sessions.
4. **Refinement of index ranges:** extend `OrderedTree` to multi-value keys.
