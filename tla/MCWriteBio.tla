----------------------------- MODULE MCWriteBio -----------------------------
(* Values of the constants of WriteBio for TLC.                            *)
EXTENDS WriteBio, TLC

\* Goroutines are interchangeable, and so are arrays.
FlushersAndArrays == Permutations(Flushers) \cup Permutations(Arrays)
=============================================================================
