------------------------------ MODULE MCObjects ------------------------------
(* Objects for TLC: two contexts, one connection, two certificates, one    *)
(* store and one further wrapper.                                          *)
EXTENDS Objects, TLC

CONSTANTS x, y, k, c, d, s, w, p

MCPeer == [n \in {k} |-> p]

Symmetry == Permutations({x, y}) \cup Permutations({c, d})
=============================================================================
