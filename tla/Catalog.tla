------------------------------ MODULE Catalog ------------------------------
(***************************************************************************)
(* The catalog of kiwidb (internal/database/catalog.go): catalog.TableSchema *)
(* looks a model type up in an in-process cache (sync.Map) and, on a miss, *)
(* syncTable persists the schema row in the bootstrap table (namespace 0)  *)
(* together with an entry of its "name" index, in a write transaction of   *)
(* its own, then caches the schema.  The schema's ID is the row's primary  *)
(* key, allocated by the id generator on first registration.              *)
(*                                                                         *)
(* Goroutines call TableSchema concurrently.  A write transaction reads    *)
(* its own writes over the currently committed state (pebble indexed      *)
(* batch); nothing orders two write transactions.  The process can crash  *)
(* and restart at any point: the cache and open batches are lost, the      *)
(* committed state survives (commits are synced).                         *)
(***************************************************************************)
EXTENDS Naturals, FiniteSets, Sequences

CONSTANTS
    Goroutines,   \* goroutines calling catalog.TableSchema
    Types,        \* model types handed to the catalog
    TypeName,     \* [Types -> Names]: TableSchema.Init's Name (reflect Name())
    Names,
    MaxIds,       \* bound on ids handed out by the id generator
    MaxCalls,     \* bound on TableSchema calls per goroutine
    MaxCrashes    \* bound on crashes and restarts

IDs  == 1..MaxIds
NoID == 0         \* no cached schema / primary key 0 (not yet allocated)
NoName == "none"  \* no row under this primary key

VARIABLES
    cache,     \* catalog.tables: [Types -> IDs \cup {NoID}]
    rows,      \* committed schema rows: primary key -> Name
    idx,       \* committed "name" index entries: set of <<Name, primary key>>
    nextId,    \* next id of the id generator (monotonic across restarts)
    pc,        \* where each goroutine is in TableSchema
    typ,       \* the model type of the goroutine's call
    pk,        \* the schema document's primary key (0 until allocated)
    calls,     \* TableSchema calls made by each goroutine
    crashes,   \* crashes so far
    returned,  \* history: <<type, ID>> for every schema TableSchema returned
    failed     \* history: types for which a TableSchema call returned an error

vars == <<cache, rows, idx, nextId, pc, typ, pk, calls, crashes, returned, failed>>

Init ==
    /\ cache = [t \in Types |-> NoID]
    /\ rows = [i \in IDs |-> NoName]
    /\ idx = {}
    /\ nextId = 1
    /\ pc = [g \in Goroutines |-> "idle"]
    /\ typ = [g \in Goroutines |-> CHOOSE t \in Types : TRUE]
    /\ pk = [g \in Goroutines |-> NoID]
    /\ calls = [g \in Goroutines |-> 0]
    /\ crashes = 0
    /\ returned = {}
    /\ failed = {}

-----------------------------------------------------------------------------

KP == INSTANCE KeyPath

\* A Go value of the codec (Msgp) with its bytes.
GoValue(t, bs) == [type |-> t, bytes |-> bs, num |-> 0, elems |-> <<>>]
NS0 == <<0, 0, 0, 0, 0, 0, 0, 0>>

\* The bytes of the "name" index entry syncTable writes for a schema row:
\* d.Field("name") is the name's msgp string, held as msgp.Encoded(raw);
\* key is schemaTable.Insert's tree.NewKey(pk), whose Bytes() carry
\* namespace 0; index.Set puts tree.NewKey(Encoded(raw), key.Bytes()) in
\* the index's namespace, 0 since no IndexSchema is given an ID.  The
\* number of values it decodes to does not depend on the name or the key.
NameEntryKey ==
    LET raw == KP!EncodeString(GoValue("string", <<117>>))
        key == KP!KeyBytes([ns |-> NS0, vals |-> <<GoValue("uint64", NS0)>>])
    IN KP!KeyBytes([ns |-> NS0, vals |-> <<GoValue("Encoded", raw), GoValue("[]byte", key)>>])

\* k.Values() of an index entry, as index.Exists decodes it.
IndexEntryValues == Len(KP!KeyValues(NameEntryKey))

\* index.Exists([name]) on the bootstrap name index: ranges over the
\* entries with that prefix in key order (by primary key) and stops at the
\* first; an entry that does not decode to exactly two values is an
\* "invalid index value" error.
NameLookup(n) ==
    LET found == {i \in IDs : <<n, i>> \in idx} IN
    IF found = {} THEN [err |-> FALSE, id |-> NoID]
    ELSE IF IndexEntryValues # 2 THEN [err |-> TRUE, id |-> NoID]
    ELSE [err |-> FALSE, id |-> CHOOSE i \in found : \A j \in found : i <= j]

\* catalog.TableSchema: TableSchemaFor(model) then the cache lookup.  A hit
\* returns the cached schema; a miss initialises the schema and goes on to
\* syncTable.
Lookup(g, t) ==
    /\ pc[g] = "idle"
    /\ calls[g] < MaxCalls
    /\ calls' = [calls EXCEPT ![g] = @ + 1]
    /\ typ' = [typ EXCEPT ![g] = t]
    /\ pk' = [pk EXCEPT ![g] = NoID]
    /\ IF cache[t] # NoID
          THEN /\ returned' = returned \cup {<<t, cache[t]>>}
               /\ UNCHANGED pc
          ELSE /\ pc' = [pc EXCEPT ![g] = "sync"]
               /\ UNCHANGED returned
    /\ UNCHANGED <<cache, rows, idx, nextId, crashes, failed>>

\* Mutant of Sync: schemaTable.Insert without the tx.ID() allocation of a
\* zero primary key.
SyncWithoutAllocation(g) ==
    LET r == NameLookup(TypeName[typ[g]]) IN
    /\ pc[g] = "sync"
    /\ ~r.err /\ r.id = NoID
    /\ pc' = [pc EXCEPT ![g] = "commit"]
    /\ UNCHANGED <<cache, rows, idx, nextId, typ, pk, calls, crashes, returned,
                   failed>>

\* syncTable up to the row write, in the transaction it begins.  The name
\* index lookup either fails (syncTable returns the error, its deferred
\* Rollback closes the transaction, TableSchema returns the error), or finds
\* the existing row's key, or finds nothing.  Then schemaTable.Insert
\* allocates an id (tx.ID) for a zero key, or fails with a pk ConflictError
\* when the row exists.  On that conflict `key, d, err :=
\* schemaTable.Insert(ctx, d)` has set d to nil, and schemaTable.Replace(
\* ce.Key, d) calls d.Marshal() on it: a nil-interface panic, which takes the
\* process down.
Sync(g) ==
    LET r == NameLookup(TypeName[typ[g]]) IN
    /\ pc[g] = "sync"
    /\ \/ /\ r.err
          /\ pc' = [pc EXCEPT ![g] = "idle"]
          /\ failed' = failed \cup {typ[g]}
          /\ UNCHANGED <<pk, nextId>>
       \/ /\ ~r.err /\ r.id # NoID
          /\ pc' = [pc EXCEPT ![g] = "panicked"]
          /\ pk' = [pk EXCEPT ![g] = r.id]
          /\ UNCHANGED <<nextId, failed>>
       \/ /\ ~r.err /\ r.id = NoID
          /\ nextId <= MaxIds
          /\ pk' = [pk EXCEPT ![g] = nextId]
          /\ nextId' = nextId + 1
          /\ pc' = [pc EXCEPT ![g] = "commit"]
          /\ UNCHANGED failed
    /\ UNCHANGED <<cache, rows, idx, typ, calls, crashes, returned>>

\* Mutant of Commit: the bootstrap index entries are not re-emitted.
CommitWithoutIndex(g) ==
    /\ pc[g] = "commit"
    /\ rows' = [rows EXCEPT ![pk[g]] = TypeName[typ[g]]]
    /\ pc' = [pc EXCEPT ![g] = "store"]
    /\ UNCHANGED <<cache, idx, nextId, typ, pk, calls, crashes, returned, failed>>

\* syncTable's end: idx.Set([name], key) for the bootstrap name index, then
\* tx.Commit, which applies the row and the index entry together.
Commit(g) ==
    /\ pc[g] = "commit"
    /\ rows' = [rows EXCEPT ![pk[g]] = TypeName[typ[g]]]
    /\ idx' = idx \cup {<<TypeName[typ[g]], pk[g]>>}
    /\ pc' = [pc EXCEPT ![g] = "store"]
    /\ UNCHANGED <<cache, nextId, typ, pk, calls, crashes, returned, failed>>

\* c.tables.Store(ts.Type, ts), and TableSchema returns ts.
Store(g) ==
    /\ pc[g] = "store"
    /\ cache' = [cache EXCEPT ![typ[g]] = pk[g]]
    /\ returned' = returned \cup {<<typ[g], pk[g]>>}
    /\ pc' = [pc EXCEPT ![g] = "idle"]
    /\ UNCHANGED <<rows, idx, nextId, typ, pk, calls, crashes, failed>>

\* The process dies (a panic of the catalog, or an external crash) and
\* restarts: the cache and every open transaction are lost.
Restart ==
    /\ cache' = [t \in Types |-> NoID]
    /\ pc' = [g \in Goroutines |-> "idle"]
    /\ pk' = [g \in Goroutines |-> NoID]
    /\ UNCHANGED <<rows, idx, nextId, typ, calls, returned, failed>>

\* A crash, or the panic of a goroutine, takes the process down and it
\* restarts.
Crash ==
    /\ crashes < MaxCrashes
    /\ Restart
    /\ crashes' = crashes + 1

\* Every goroutine has made all its calls and returned.
Finished ==
    /\ \A g \in Goroutines : pc[g] = "idle" /\ calls[g] = MaxCalls
    /\ UNCHANGED vars

Next ==
    \/ \E g \in Goroutines :
          \/ \E t \in Types : Lookup(g, t)
          \/ Sync(g)
          \/ Commit(g)
          \/ Store(g)
    \/ Crash
    \/ Finished

Spec == Init /\ [][Next]_vars

-----------------------------------------------------------------------------
(* Properties                                                              *)

TypeOK ==
    /\ cache \in [Types -> IDs \cup {NoID}]
    /\ rows \in [IDs -> Names \cup {NoName}]
    /\ idx \subseteq Names \X IDs
    /\ nextId \in 1..(MaxIds + 1)
    /\ pc \in [Goroutines -> {"idle", "sync", "panicked", "commit", "store"}]
    /\ pk \in [Goroutines -> IDs \cup {NoID}]
    /\ returned \subseteq Types \X IDs
    /\ failed \subseteq Types

\* The cache and the persistent catalog agree, across crashes and
\* concurrent registrations: a cached schema's ID is the key of a committed
\* row with the type's name and is reachable through the name index, and
\* every name index entry points at a committed row of that name.
CatalogConsistent ==
    /\ \A t \in Types :
          cache[t] # NoID =>
             /\ rows[cache[t]] = TypeName[t]
             /\ <<TypeName[t], cache[t]>> \in idx
    /\ \A e \in idx : rows[e[2]] = e[1]

\* TableSchema never panics: registering a type whose row is already
\* persisted (after a restart, or found by a goroutine that missed the
\* cache while another registered it) must not reach the nil-document
\* Replace.
NoPanic ==
    \A g \in Goroutines : pc[g] # "panicked"

\* Spec 8.8 (catalog idempotence): every TableSchema call for a type
\* yields the same ID and the same persisted row; in particular no call
\* fails.  Two goroutines that both miss the cache register the type twice,
\* each in its own transaction; a call that misses the cache after the row
\* was committed (by another goroutine, or before a restart) must find it.
CatalogIdempotence ==
    /\ failed = {}
    /\ \A a, b \in returned : a[1] = b[1] => a[2] = b[2]

=============================================================================
