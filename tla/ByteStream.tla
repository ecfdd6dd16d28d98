----------------------------- MODULE ByteStream -----------------------------
(***************************************************************************)
(* What a memory BIO promises: a byte stream.  Bytes are accepted at one   *)
(* end and delivered at the other, each once and in order.  Byte i of the  *)
(* stream is the number i.                                                 *)
(***************************************************************************)
EXTENDS Naturals, Sequences

VARIABLES
  accepted,  \* how many bytes were accepted
  delivered  \* the bytes delivered

Init == accepted = 0 /\ delivered = <<>>

Accept ==
  /\ accepted' \in Nat /\ accepted' > accepted
  /\ UNCHANGED delivered

Deliver ==
  /\ Len(delivered) < accepted
  /\ delivered' = Append(delivered, Len(delivered) + 1)
  /\ UNCHANGED accepted

Next == Accept \/ Deliver

Spec == Init /\ [][Next]_<<accepted, delivered>>
=============================================================================
