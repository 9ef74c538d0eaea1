---------------------------- MODULE MC_Catalog ----------------------------
(* Model-checking instance of Catalog: two goroutines, two model types    *)
(* with distinct names, two calls per goroutine, one external crash.      *)
EXTENDS Catalog, TLC

CONSTANTS g1, g2, t1, t2, n1, n2

MCGoroutines == {g1, g2}
MCTypes == {t1, t2}
MCNames == {n1, n2}
MCTypeName == (t1 :> n1) @@ (t2 :> n2)
MCMaxCalls == 2
MCMaxIds == 4      \* one id per call: every Sync can allocate
MCMaxCrashes == 1
MCOneGoroutine == {g1}

\* Goroutines are interchangeable (types are not: each has its own name).
MCSymmetry == Permutations(MCGoroutines)

=============================================================================
