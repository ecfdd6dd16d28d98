------------------------------- MODULE Digest -------------------------------
(***************************************************************************)
(* One hash object: MD5, SM3, SHA1, SHA256 or HMAC around a digest context *)
(* of the C library.  MD5 and SM3 finalise a copy, as hash.Hash asks for;  *)
(* the others finalise the context itself and reset it.  Every C call may  *)
(* fail (an engine, memory).  The program uses an object from one          *)
(* goroutine and, once a Reset has failed, only resets it.                 *)
(***************************************************************************)
EXTENDS Naturals, Sequences

CONSTANTS
    Chunks,   \* what a Write may pass
    MaxChunks \* bound: writes that one context takes in

ASSUME DigestAssumption ==
    MaxChunks \in Nat /\ "garbage" \notin Chunks

Kinds   == {"md5", "sm3", "sha1", "sha256", "hmac"}
Copying == {"md5", "sm3"}

\* the content of a context that was finalised or never initialised
Garbage == <<"garbage">>

VARIABLES
    kind,    \* what the object is
    ctx,     \* what the C context has taken in
    written, \* what the program wrote since the last reset that it asked for
    sum,     \* the last digest returned without error: of what, and of what
             \* it should be
    broken,  \* the program was told that a reset failed
    silent   \* a C call failed and no method said so

digestVars == <<kind, ctx, written, sum, broken, silent>>

\* New: md5 and sm3 do not look at what their Reset did; the others give the
\* object to nobody if it failed
InitDigest ==
    /\ kind \in Kinds
    /\ written = <<>> /\ broken = FALSE
    /\ sum = [of |-> <<>>, asked |-> <<>>]
    /\ \/ ctx = <<>> /\ silent = FALSE
       \/ kind \in Copying /\ ctx = Garbage /\ silent = TRUE

\* Write: nothing is taken in when the C call fails
Write(data) ==
    /\ ~broken
    /\ Len(written) < MaxChunks /\ Len(ctx) < MaxChunks
    /\ \/ /\ ctx' = IF ctx = Garbage THEN Garbage ELSE Append(ctx, data)
          /\ written' = Append(written, data)
       \/ UNCHANGED <<ctx, written>>
    /\ UNCHANGED <<kind, sum, broken, silent>>

\* C.X_EVP_DigestInit_ex or C.X_HMAC_Init_ex, as what the C call did
Initialised == ctx' = <<>> /\ broken' = FALSE

\* Reset of md5 and sm3 says nothing when the C call fails
ResetCopying ==
    /\ kind \in Copying
    /\ written' = <<>>
    /\ \/ Initialised /\ silent' = silent
       \/ silent' = TRUE /\ UNCHANGED <<ctx, broken>>
    /\ UNCHANGED <<kind, sum>>

ResetFinalising ==
    /\ kind \notin Copying
    /\ \/ Initialised /\ written' = <<>>
       \/ broken' = TRUE /\ UNCHANGED <<ctx, written>>
    /\ UNCHANGED <<kind, sum, silent>>

Reset == ResetCopying \/ ResetFinalising

Returned == sum' = [of |-> ctx, asked |-> written]

\* (The slip: md5 and sm3 finalise their own context.)
BadSumOfCopy ==
    /\ kind \in Copying
    /\ Returned
    /\ ctx' = Garbage
    /\ UNCHANGED <<kind, written, broken, silent>>

\* Sum of md5 and sm3: checkSum on a copy; a failed copy is a panic, a failed
\* DigestFinal a result of zeros
SumOfCopy ==
    /\ kind \in Copying
    /\ \/ Returned /\ UNCHANGED silent
       \/ sum' = [of |-> Garbage, asked |-> written] /\ silent' = TRUE
    /\ UNCHANGED <<kind, ctx, written, broken>>

\* Sum of sha1 and sha256, Final of HMAC: an error of either call is returned
SumAndReset ==
    /\ kind \notin Copying /\ ~broken
    /\ \/ Returned /\ Initialised /\ written' = <<>>
       \/ broken' = TRUE /\ ctx' = Garbage /\ UNCHANGED <<written, sum>>
    /\ UNCHANGED <<kind, silent>>

DigestNext ==
    \/ \E data \in Chunks : Write(data)
    \/ Reset \/ SumOfCopy \/ SumAndReset

DigestTypeOK ==
    /\ kind \in Kinds
    /\ written \in Seq(Chunks) /\ Len(written) <= MaxChunks
    /\ ctx = Garbage \/ ctx \in Seq(Chunks)
    /\ DOMAIN sum = {"of", "asked"}
    /\ broken \in BOOLEAN /\ silent \in BOOLEAN
    /\ broken => kind \notin Copying

(* A digest that was returned without error is that of what the program    *)
(* wrote since its last reset, whatever failed before, was reset, or was   *)
(* asked for in between; only md5 and sm3, which look at the result of     *)
(* neither DigestInit (sm3.go:73) nor DigestFinal (sm3.go:103), can return *)
(* another one, and only after such a call has failed.                     *)
DigestOfWrites ==
    sum.of = sum.asked \/ (silent /\ kind \in Copying)
=============================================================================
