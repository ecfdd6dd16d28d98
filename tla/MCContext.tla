------------------------------ MODULE MCContext ------------------------------
(***************************************************************************)
(* Context with two contexts: b is what the SNI callback of a switches to. *)
(***************************************************************************)
EXTENDS Context, TLC

CONSTANTS a, b, m1

Plain(m) == [verify |-> None, sni |-> None, alpn |-> "none", store |-> m]

\* What the program set before the handshakes; one more setter is called while
\* they run.
MCConfigs ==
  { \* a and b share a store
    (a :> [Plain(m1) EXCEPT !.sni = b, !.alpn = "list"]) @@ (b :> Plain(m1)),
    \* the same, and both verify
    (a :> [Plain(m1) EXCEPT !.sni = b, !.verify = "reject"])
      @@ (b :> [Plain(m1) EXCEPT !.verify = "accept"]),
    \* only a has a store, and the callback of b is the one that rejects
    (a :> [Plain(m1) EXCEPT !.sni = b, !.verify = "accept"])
      @@ (b :> [Plain(None) EXCEPT !.verify = "reject"]),
    \* only b has a store
    (a :> [Plain(None) EXCEPT !.sni = b]) @@ (b :> Plain(m1)),
    \* each switches to the other
    (a :> [Plain(m1) EXCEPT !.sni = b]) @@ (b :> [Plain(m1) EXCEPT !.sni = a]) }

Symmetry == Permutations(Conns)
=============================================================================
