------------------------------ MODULE MCCCalls ------------------------------
(* CCalls for TLC: two goroutines on two threads, any two calls.           *)
EXTENDS CCalls, TLC

CONSTANTS t1, t2, g1, g2

MCThreads    == {t1, t2}
MCGoroutines == {g1, g2}

Symmetry == Permutations(MCThreads) \cup Permutations(MCGoroutines)
=============================================================================
