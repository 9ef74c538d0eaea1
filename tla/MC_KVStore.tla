---------------------------- MODULE MC_KVStore ----------------------------
(* Model-checking instance of KVStore: two goroutines, one or two keys,   *)
(* four sessions, and a batch size of two operations so that an           *)
(* intermediary flush of a batch happens within a short transaction.      *)
EXTENDS KVStore, TLC

CONSTANTS p1, p2, k1, k2

MCProcs == {p1, p2}
MCKeys == {k1}
MCKeys2 == {k1, k2}
MCMaxSessions == 4
MCMaxBatchSize == 2
MCMaxVersion == 2

\* Goroutines are interchangeable; keys are interchangeable.
MCSymmetry == Permutations(MCProcs)

=============================================================================
