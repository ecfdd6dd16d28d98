------------------------------ MODULE MCCrypto ------------------------------
(* Crypto for TLC: two chunks, IVs, associated data and plaintexts, one of  *)
(* these of partial length.                                                *)
EXTENDS Crypto, TLC

CONSTANTS c1, c2, i1, i2, s1, s2, a, b

Symmetry ==
    Permutations({c1, c2}) \cup Permutations({i1, i2}) \cup Permutations({a, b})
=============================================================================
