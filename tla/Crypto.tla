------------------------------- MODULE Crypto -------------------------------
(***************************************************************************)
(* A program that uses one hash object (Digest) or one pair of cipher      *)
(* contexts (Cipher): the two have nothing in common.                      *)
(***************************************************************************)
EXTENDS Digest, Cipher

VARIABLE uses \* "digest" or "cipher"

Init ==
    /\ uses \in {"digest", "cipher"}
    /\ InitDigest /\ (uses = "cipher" => kind = "md5" /\ ~silent)
    /\ InitCipher /\ (uses = "digest" => mode = "plain")

Next ==
    \/ uses = "digest" /\ DigestNext /\ UNCHANGED <<cipherVars, uses>>
    \/ uses = "cipher" /\ CipherNext /\ UNCHANGED <<digestVars, uses>>

Spec == Init /\ [][Next]_<<digestVars, cipherVars, uses>>

(* The type of the variables of both parts. *)
TypeOK ==
    /\ uses \in {"digest", "cipher"}
    /\ DigestTypeOK
    /\ CipherTypeOK
=============================================================================
