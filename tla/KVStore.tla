------------------------------ MODULE KVStore ------------------------------
(***************************************************************************)
(* The pebble-backed KV store of kiwidb (pkg/kv/pebble) and the           *)
(* transaction wrapper around its sessions (internal/database/            *)
(* transaction.go).                                                        *)
(*                                                                         *)
(* A goroutine opens transactions synchronously, one inside another (the  *)
(* catalog opens its own write transaction while an Execute pipeline's    *)
(* write transaction is open), so each goroutine keeps a stack of open    *)
(* sessions and only the innermost one acts.  Goroutines interleave.       *)
(*                                                                         *)
(* Data is abstracted to one value per key: the id of the session whose   *)
(* batch wrote it.  A pebble snapshot is identified with the session that *)
(* created it (a session creates at most one), and Batch.Len() with the   *)
(* number of operations in the batch.                                      *)
(***************************************************************************)
EXTENDS Naturals, Sequences, FiniteSets

CONSTANTS
    Procs,          \* goroutines calling into the store
    Keys,           \* encoded keys
    MaxSessions,    \* bound on the sessions opened in a behaviour
    MaxBatchSize,   \* kv.Options.MaxBatchSize, in batch operations
    MaxVersion      \* bound on db versions: no write call once reached

Sessions == 1..MaxSessions
NoVal    == 0    \* key absent from the committed state
NoSnap   == 0    \* a nil *snapshot

VARIABLES
    db,          \* committed pebble state: [Keys -> Sessions \cup {NoVal}]
    version,     \* number of batches applied to db so far
    shared,      \* store.sharedSnapshot.snapshot
    snapVersion, \* db version captured by the snapshot created by a session
    refCount,    \* snapshot.refCount of that snapshot
    kind,        \* "unused", "batch" (BatchSession) or "snap" (SnapshotSession)
    closed,      \* the session's closed flag
    snapOf,      \* the snapshot a SnapshotSession reads
    batch,       \* pending writes of a BatchSession: key -> "none" | "set" | "del"
    batchLen,    \* Batch.Len()
    stack,       \* [Procs -> Seq(Sessions)]: open transactions, innermost last
    nextSession, \* id of the next session
    outcome,     \* what the transaction reported: "open", "committing",
                 \* "committed" or "failed"
    appliedAt,   \* db version produced by the session's final Batch.Commit
    completed,   \* newest db version produced by a Commit that has returned
    floor        \* completed when a read session began

vars == <<db, version, shared, snapVersion, refCount, kind, closed, snapOf,
          batch, batchLen, stack, nextSession, outcome, appliedAt, completed,
          floor>>

NoWrites == [k \in Keys |-> "none"]

Init ==
    /\ db = [k \in Keys |-> NoVal]
    /\ version = 0
    /\ shared = NoSnap
    /\ snapVersion = [s \in Sessions |-> 0]
    /\ refCount = [s \in Sessions |-> 0]
    /\ kind = [s \in Sessions |-> "unused"]
    /\ closed = [s \in Sessions |-> FALSE]
    /\ snapOf = [s \in Sessions |-> NoSnap]
    /\ batch = [s \in Sessions |-> NoWrites]
    /\ batchLen = [s \in Sessions |-> 0]
    /\ stack = [p \in Procs |-> <<>>]
    /\ nextSession = 1
    /\ outcome = [s \in Sessions |-> "open"]
    /\ appliedAt = [s \in Sessions |-> 0]
    /\ completed = 0
    /\ floor = [s \in Sessions |-> 0]

-----------------------------------------------------------------------------
(* Helpers                                                                 *)

Top(p) == stack[p][Len(stack[p])]
Pop(p) == [stack EXCEPT ![p] = SubSeq(@, 1, Len(@) - 1)]

\* The goroutine is not inside a Commit call, so it can issue a new call.
Idle(p) == \A i \in 1..Len(stack[p]) : outcome[stack[p][i]] = "open"

\* Apply the batch b written by session s to the committed state d.
Apply(d, b, s) ==
    [k \in Keys |-> IF b[k] = "set" THEN s ELSE IF b[k] = "del" THEN NoVal ELSE d[k]]

\* BatchSession.Exists: an indexed batch reads its own writes over the
\* current committed state (not over a snapshot).
Visible(s, k) == IF batch[s][k] = "none" THEN db[k] # NoVal ELSE batch[s][k] = "set"

\* snapshot.Done on snapshot i, as a new refCount function.
Done(rc, i) == [rc EXCEPT ![i] = @ - 1]

\* Mutant of UnlockShared: the shared slot is not reset to nil.
UnlockSharedKeepSnapshot ==
    /\ refCount' = IF shared = NoSnap THEN refCount ELSE Done(refCount, shared)
    /\ UNCHANGED shared

\* store.unlockSharedSnapshot: Done on the shared snapshot, then nil it.
\* (With a nil shared snapshot the Done call has no count to decrement.)
UnlockShared ==
    /\ refCount' = IF shared = NoSnap THEN refCount ELSE Done(refCount, shared)
    /\ shared' = NoSnap

\* BatchSession.Close: refused when already closed; otherwise mark closed,
\* release the shared snapshot and drop the pending batch.
CloseBatch(s) ==
    \/ /\ closed[s]
       /\ UNCHANGED <<closed, refCount, shared>>
    \/ /\ ~closed[s]
       /\ closed' = [closed EXCEPT ![s] = TRUE]
       /\ UnlockShared

\* Mutant of EnsureBatchSize: flushes only once the batch exceeds the size.
EnsureBatchSizeLate(s, b, n) ==
    \/ /\ n <= MaxBatchSize
       /\ batch' = [batch EXCEPT ![s] = b]
       /\ batchLen' = [batchLen EXCEPT ![s] = n]
       /\ UNCHANGED <<db, version>>
    \/ /\ n > MaxBatchSize
       /\ db' = Apply(db, b, s)
       /\ version' = version + 1
       /\ batch' = [batch EXCEPT ![s] = NoWrites]
       /\ batchLen' = [batchLen EXCEPT ![s] = 0]

\* BatchSession.ensureBatchSize after a write left batch b of length n in
\* session s: a batch that reached MaxBatchSize is committed to db (NoSync)
\* and reset, although the transaction has not committed.
EnsureBatchSize(s, b, n) ==
    \/ /\ n < MaxBatchSize
       /\ batch' = [batch EXCEPT ![s] = b]
       /\ batchLen' = [batchLen EXCEPT ![s] = n]
       /\ UNCHANGED <<db, version>>
    \/ /\ n >= MaxBatchSize
       /\ db' = Apply(db, b, s)
       /\ version' = version + 1
       /\ batch' = [batch EXCEPT ![s] = NoWrites]
       /\ batchLen' = [batchLen EXCEPT ![s] = 0]

\* A write call on the innermost, open, write transaction of p.
Writable(p) ==
    /\ version < MaxVersion
    /\ stack[p] # <<>>
    /\ kind[Top(p)] = "batch"
    /\ outcome[Top(p)] = "open"
    /\ ~closed[Top(p)]

-----------------------------------------------------------------------------
(* Actions                                                                 *)

\* NewTransaction(readOnly) -> store.NewSnapshotSession: share the writer's
\* snapshot if there is one, else take a private one.
BeginRead(p) ==
    LET s == nextSession IN
    /\ nextSession <= MaxSessions
    /\ Idle(p)
    /\ kind' = [kind EXCEPT ![s] = "snap"]
    /\ IF shared = NoSnap
          THEN /\ snapOf' = [snapOf EXCEPT ![s] = s]
               /\ snapVersion' = [snapVersion EXCEPT ![s] = version]
               /\ refCount' = [refCount EXCEPT ![s] = 1]
          ELSE /\ snapOf' = [snapOf EXCEPT ![s] = shared]
               /\ refCount' = [refCount EXCEPT ![shared] = @ + 1]
               /\ UNCHANGED snapVersion
    /\ floor' = [floor EXCEPT ![s] = completed]
    /\ stack' = [stack EXCEPT ![p] = Append(@, s)]
    /\ nextSession' = s + 1
    /\ UNCHANGED <<db, version, shared, closed, batch, batchLen, outcome,
                   appliedAt, completed>>

\* NewTransaction(read-write) -> store.NewBatchSession: lockSharedSnapshot
\* installs a fresh snapshot as the shared one, whatever was there.
BeginWrite(p) ==
    LET s == nextSession IN
    /\ nextSession <= MaxSessions
    /\ Idle(p)
    /\ kind' = [kind EXCEPT ![s] = "batch"]
    /\ shared' = s
    /\ snapVersion' = [snapVersion EXCEPT ![s] = version]
    /\ refCount' = [refCount EXCEPT ![s] = 1]
    /\ stack' = [stack EXCEPT ![p] = Append(@, s)]
    /\ nextSession' = s + 1
    /\ UNCHANGED <<db, version, closed, snapOf, batch, batchLen, outcome,
                   appliedAt, completed, floor>>

\* Tree.Put -> BatchSession.Put.
Put(p, k) ==
    LET s == Top(p) IN
    /\ Writable(p)
    /\ EnsureBatchSize(s, [batch[s] EXCEPT ![k] = "set"], batchLen[s] + 1)
    /\ UNCHANGED <<shared, snapVersion, refCount, kind, closed, snapOf, stack,
                   nextSession, outcome, appliedAt, completed, floor>>

\* Tree.Insert -> BatchSession.Insert: ErrKeyAlreadyExists (no write) when
\* the key is visible to the batch.
Insert(p, k) ==
    LET s == Top(p) IN
    /\ Writable(p)
    /\ ~Visible(s, k)
    /\ EnsureBatchSize(s, [batch[s] EXCEPT ![k] = "set"], batchLen[s] + 1)
    /\ UNCHANGED <<shared, snapVersion, refCount, kind, closed, snapOf, stack,
                   nextSession, outcome, appliedAt, completed, floor>>

\* Tree.Delete -> BatchSession.Delete.
Delete(p, k) ==
    LET s == Top(p) IN
    /\ Writable(p)
    /\ EnsureBatchSize(s, [batch[s] EXCEPT ![k] = "del"], batchLen[s] + 1)
    /\ UNCHANGED <<shared, snapVersion, refCount, kind, closed, snapOf, stack,
                   nextSession, outcome, appliedAt, completed, floor>>

\* Mutant of Truncate: the batch is committed but the session stays open.
TruncateKeepOpen(p) ==
    LET s == Top(p)
        b == [k \in Keys |-> IF Visible(s, k) THEN "del" ELSE batch[s][k]]
    IN
    /\ Writable(p)
    /\ db' = Apply(db, b, s)
    /\ version' = version + 1
    /\ completed' = version + 1
    /\ batch' = [batch EXCEPT ![s] = NoWrites]
    /\ batchLen' = [batchLen EXCEPT ![s] = 0]
    /\ UNCHANGED <<closed, refCount, shared, snapVersion, kind, snapOf, stack,
                   nextSession, outcome, appliedAt, floor>>

\* Tree.Truncate: delete every key visible in the namespace, then
\* Session.Commit, which commits the batch and closes the session while the
\* transaction that owns it is still open.
Truncate(p) ==
    LET s == Top(p)
        b == [k \in Keys |-> IF Visible(s, k) THEN "del" ELSE batch[s][k]]
    IN
    /\ Writable(p)
    /\ db' = Apply(db, b, s)
    /\ version' = version + 1
    /\ completed' = version + 1
    /\ batch' = [batch EXCEPT ![s] = NoWrites]
    /\ batchLen' = [batchLen EXCEPT ![s] = 0]
    /\ CloseBatch(s)
    /\ UNCHANGED <<snapVersion, kind, snapOf, stack, nextSession, outcome,
                   appliedAt, floor>>

\* transaction.Commit, first half: BatchSession.Commit applies the batch
\* (Batch.Commit) ...
CommitApply(p) ==
    LET s == Top(p) IN
    /\ stack[p] # <<>>
    /\ kind[s] = "batch"
    /\ outcome[s] = "open"
    /\ ~closed[s]
    /\ db' = Apply(db, batch[s], s)
    /\ version' = version + 1
    /\ appliedAt' = [appliedAt EXCEPT ![s] = version + 1]
    /\ batch' = [batch EXCEPT ![s] = NoWrites]
    /\ batchLen' = [batchLen EXCEPT ![s] = 0]
    /\ outcome' = [outcome EXCEPT ![s] = "committing"]
    /\ UNCHANGED <<shared, snapVersion, refCount, kind, closed, snapOf, stack,
                   nextSession, completed, floor>>

\* ... second half: BatchSession.Close (releasing the shared snapshot), the
\* transaction's own extra Close (refused: already closed), and return.
CommitClose(p) ==
    LET s == Top(p) IN
    /\ stack[p] # <<>>
    /\ outcome[s] = "committing"
    /\ CloseBatch(s)
    /\ outcome' = [outcome EXCEPT ![s] = "committed"]
    /\ completed' = IF appliedAt[s] > completed THEN appliedAt[s] ELSE completed
    /\ stack' = Pop(p)
    /\ UNCHANGED <<db, version, snapVersion, kind, snapOf, batch, batchLen,
                   nextSession, appliedAt, floor>>

\* transaction.Commit on a session that Truncate already closed:
\* BatchSession.Commit returns "already closed" and the caller gives up on
\* the transaction (a deferred Rollback is refused the same way).
CommitClosed(p) ==
    LET s == Top(p) IN
    /\ stack[p] # <<>>
    /\ kind[s] = "batch"
    /\ outcome[s] = "open"
    /\ closed[s]
    /\ outcome' = [outcome EXCEPT ![s] = "failed"]
    /\ stack' = Pop(p)
    /\ UNCHANGED <<db, version, shared, snapVersion, refCount, kind, closed,
                   snapOf, batch, batchLen, nextSession, appliedAt, completed,
                   floor>>

\* transaction.Rollback of a write transaction: BatchSession.Close.
RollbackWrite(p) ==
    LET s == Top(p) IN
    /\ stack[p] # <<>>
    /\ kind[s] = "batch"
    /\ outcome[s] = "open"
    /\ CloseBatch(s)
    /\ outcome' = [outcome EXCEPT ![s] = "failed"]
    /\ stack' = Pop(p)
    /\ UNCHANGED <<db, version, snapVersion, kind, snapOf, batch, batchLen,
                   nextSession, appliedAt, completed, floor>>

\* transaction.Rollback of a read-only transaction: SnapshotSession.Close,
\* which releases the session's reference to its snapshot.
RollbackRead(p) ==
    LET s == Top(p) IN
    /\ stack[p] # <<>>
    /\ kind[s] = "snap"
    /\ outcome[s] = "open"
    /\ ~closed[s]
    /\ closed' = [closed EXCEPT ![s] = TRUE]
    /\ refCount' = Done(refCount, snapOf[s])
    /\ outcome' = [outcome EXCEPT ![s] = "failed"]
    /\ stack' = Pop(p)
    /\ UNCHANGED <<db, version, shared, snapVersion, kind, snapOf, batch,
                   batchLen, nextSession, appliedAt, completed, floor>>

\* Every session of the bound has been used and every transaction has ended.
Finished ==
    /\ nextSession > MaxSessions
    /\ \A p \in Procs : stack[p] = <<>>
    /\ UNCHANGED vars

Next ==
    \/ \E p \in Procs :
          \/ BeginRead(p)
          \/ BeginWrite(p)
          \/ \E k \in Keys : Put(p, k) \/ Insert(p, k) \/ Delete(p, k)
          \/ Truncate(p)
          \/ CommitApply(p)
          \/ CommitClose(p)
          \/ CommitClosed(p)
          \/ RollbackWrite(p)
          \/ RollbackRead(p)
    \/ Finished

Spec == Init /\ [][Next]_vars

-----------------------------------------------------------------------------
(* Properties                                                              *)

\* A snapshot some session created (a writer always creates one; a reader
\* only when no shared snapshot existed).
Created(i) == kind[i] = "batch" \/ (kind[i] = "snap" /\ snapOf[i] = i)

\* Types; a batch never holds MaxBatchSize operations, because
\* ensureBatchSize flushes it as soon as it reaches that size.
TypeOK ==
    /\ db \in [Keys -> Sessions \cup {NoVal}]
    /\ version \in Nat
    /\ shared \in Sessions \cup {NoSnap}
    /\ refCount \in [Sessions -> Nat]
    /\ kind \in [Sessions -> {"unused", "batch", "snap"}]
    /\ closed \in [Sessions -> BOOLEAN]
    /\ snapOf \in [Sessions -> Sessions \cup {NoSnap}]
    /\ batch \in [Sessions -> [Keys -> {"none", "set", "del"}]]
    /\ batchLen \in [Sessions -> 0..(MaxBatchSize - 1)]
    /\ \A p \in Procs : stack[p] \in Seq(Sessions)
    /\ outcome \in [Sessions -> {"open", "committing", "committed", "failed"}]

\* No snapshot is used after it was released: every open read session and
\* the shared slot hold a snapshot whose refCount is still positive.  Writers
\* overwrite and release the shared slot without any mutual exclusion
\* between them (lockSharedSnapshot / unlockSharedSnapshot), so a release
\* by one writer lands on another writer's snapshot.
NoUseAfterRelease ==
    /\ \A s \in Sessions :
          (kind[s] = "snap" /\ ~closed[s]) => refCount[snapOf[s]] > 0
    /\ shared # NoSnap => refCount[shared] > 0

\* A read-only transaction begun after a Commit returned reads a snapshot
\* that contains that commit: the shared snapshot handed to readers is never
\* older than a commit that has completed.
ReadSeesCompletedCommits ==
    \A s \in Sessions :
        (kind[s] = "snap" /\ outcome[s] = "open")
            => snapVersion[snapOf[s]] >= floor[s]

\* Once every transaction has ended, every snapshot taken has been released
\* (its pebble snapshot closed); lockSharedSnapshot overwrites the shared
\* slot without releasing the snapshot already there.
NoSnapshotLeak ==
    (\A p \in Procs : stack[p] = <<>>)
        => \A i \in Sessions : Created(i) => refCount[i] = 0

\* Spec section 8.7: writes of a transaction that did not commit are never
\* visible in the committed state; ensureBatchSize commits a full batch
\* before the transaction decides.
Atomicity ==
    \A k \in Keys : db[k] # NoVal => outcome[db[k]] # "failed"

=============================================================================
