------------------------------- MODULE Cipher -------------------------------
(***************************************************************************)
(* Two cipher contexts with the same key, one that encrypts and one that   *)
(* decrypts, used over and over: through sm4.EncryptAll and DecryptAll, or *)
(* through the streams of crypto.NewGCM...  What matters is the order in   *)
(* which tag, IV, the length for CCM, associated data (AAD) and input      *)
(* reach the context of the C library, and what an earlier use left there. *)
(* Any C call may fail.  Messages are not empty.                           *)
(***************************************************************************)
EXTENDS Naturals, Sequences

CONSTANTS
    Ivs, Aads, \* initialization vectors and associated data
    Srcs,      \* plaintexts
    Partial,   \* those whose length is not a multiple of the block size
    MaxPieces, \* bound: pieces of a streamed message
    None

Ends    == {"enc", "dec"}
TagLens == {12, 16}

\* what an authentication tag depends on: IV, AAD, input and, in CCM, the
\* length chosen before the key was set
Tags   == [iv : Ivs \cup {None}, aad : Aads \cup {None}, data : Seq(Srcs), m : TagLens]
Tag(k) == [iv |-> k.iv, aad |-> k.aad, data |-> k.data, m |-> k.m]
Forged == [iv |-> None, aad |-> None, data |-> <<>>, m |-> 12]

\* None is no value
ASSUME CipherAssumption ==
    /\ MaxPieces \in Nat /\ Partial \subseteq Srcs
    /\ None \notin Ivs \cup Aads /\ None \notin Tags

VARIABLES
    mode,   \* "plain" (ECB, CBC), "ccm", "gcm" by the sm4 package, or "stream"
    c,      \* end -> the C context
    fields, \* end -> what the program has set: IV, AAD, tag, tag length;
            \* for a stream the pieces passed
    sent,   \* the last message the encrypter completed, if no call has failed
            \* since; tag is what GetTag returned
    last    \* the result of a decryption, for the step that made it;
            \* exact: the output is what was sent, clean: every C call worked,
            \* match: the input and the arguments were those of what was sent,
            \* genuine: the tag is that of the input and the arguments

cipherVars == <<mode, c, fields, sent, last>>

NoMessage == [iv |-> None, aad |-> None, data |-> <<>>, pad |-> TRUE,
              mac |-> None, tag |-> None, tagLen |-> 12]

NoResult == [ok |-> FALSE, exact |-> FALSE, clean |-> FALSE, match |-> FALSE,
             genuine |-> FALSE]

NotDecrypted == last' = NoResult

\* NewEncrypter and NewDecrypter (which set the length of the IV only), or
\* NewGCMEncryptionCipherCtx and NewGCMDecryptionCipherCtx (which set the IV)
InitCipher ==
    /\ mode \in {"plain", "ccm", "gcm", "stream"}
    /\ \E ivs \in [Ends -> Ivs] :
         /\ c = [e \in Ends |->
                  [iv |-> IF mode = "stream" THEN ivs[e] ELSE None, aad |-> None,
                   data |-> <<>>, tag |-> None, tagLen |-> 12, m |-> 12,
                   len |-> FALSE, pad |-> TRUE]]
         /\ fields = [e \in Ends |->
                  [iv |-> ivs[e], aad |-> None, data |-> <<>>, tag |-> None,
                   tagLen |-> IF mode = "ccm" THEN 12 ELSE 16]]
    /\ sent = NoMessage
    /\ last = NoResult

-----------------------------------------------------------------------------
(* The C library.  A run r = [ok, k], k a context, goes through calls in   *)
(* order and ends at the call named fail, or at one that the library does  *)
(* not accept.                                                             *)

CallNames == {"none", "ctrl", "init", "len", "aad", "update", "final"}

Start(e) == [ok |-> TRUE, k |-> c[e]]

Call(r, name, fail, accepted, k) ==
    IF r.ok /\ name # fail /\ accepted THEN [ok |-> TRUE, k |-> k]
                                       ELSE [r EXCEPT !.ok = FALSE]

\* EVP_CTRL_AEAD_SET_TAG, with the tag to compare or with a length only
CtrlTag(r, fail, tag) ==
    Call(r, "ctrl", fail, TRUE, [r.k EXCEPT !.tag = tag, !.tagLen = tag.m])
CtrlTagLen(r, fail, n) == Call(r, "ctrl", fail, TRUE, [r.k EXCEPT !.tagLen = n])

\* SetKeyAndIV: EVP_EncryptInit_ex or EVP_DecryptInit_ex; fails also when the
\* key or the IV has the wrong size.  CCM takes the length of its tag from
\* the context when the key is set.
SetKeyAndIV(r, fail, iv) ==
    Call(r, "init", fail, TRUE,
         [r.k EXCEPT !.iv = iv, !.aad = None, !.data = <<>>,
                     !.m = IF mode = "ccm" THEN r.k.tagLen ELSE 12])

\* the length of a CCM message, declared by an update without data; it stays
\* declared until input comes
DeclareLen(r, fail) == Call(r, "len", fail, TRUE, [r.k EXCEPT !.len = TRUE])

\* associated data: an update without output
AddAad(r, fail, aad) ==
    Call(r, "aad", fail,
         r.k.iv # None /\ r.k.data = <<>> /\ (mode = "ccm" => r.k.len),
         [r.k EXCEPT !.aad = aad])

\* EncryptUpdate, DecryptUpdate; a CCM context takes one input, of the length
\* declared, or of any length if none was
Update(r, fail, piece) ==
    Call(r, "update", fail,
         /\ r.k.iv # None
         /\ mode = "ccm" => r.k.data = <<>> /\ (r.k.len => r.k.aad # None),
         [r.k EXCEPT !.data = Append(@, piece), !.len = FALSE])

\* EncryptFinal, DecryptFinal; without padding only for whole blocks
Final(r, fail) ==
    Call(r, "final", fail,
         /\ r.k.iv # None
         /\ mode = "plain" /\ ~r.k.pad =>
              \A i \in DOMAIN r.k.data : r.k.data[i] \notin Partial,
         r.k)

\* the comparison of the tag, in CCM with the input, in GCM at the end
Verify(r) == [r EXCEPT !.ok = @ /\ r.k.tag = Tag(r.k)]

\* a context between two messages: what the next one sets in any case is not
\* kept.  An authenticated mode takes in nothing before it gets a new IV, and
\* CCM forgets the tag.
Idle(k) == [k EXCEPT !.iv = None, !.aad = None, !.data = <<>>, !.m = 12,
                     !.tag = IF mode = "ccm" THEN None ELSE @]

\* the encrypter after a message, with the tag for GetTag
Sealed(k) == [Idle(k) EXCEPT !.tag = Tag(k), !.m = k.m]

-----------------------------------------------------------------------------
(* What the program sets on an sm4 encrypter or decrypter: fields that are *)
(* used by every later call.  AAD and tags are for the authenticated modes.*)

Sm4Aead == mode \in {"ccm", "gcm"}

SetAAD(e, aad) ==
    /\ Sm4Aead
    /\ fields' = [fields EXCEPT ![e].aad = aad]
    /\ NotDecrypted /\ UNCHANGED <<mode, c, sent>>

\* (The slip: in bits.)
BadSetTagLen(n) ==
    /\ mode = "ccm"
    /\ fields' = [fields EXCEPT !["enc"].tagLen = 8 * n]
    /\ NotDecrypted /\ UNCHANGED <<mode, c, sent>>

SetTagLen(n) ==
    /\ mode = "ccm"
    /\ fields' = [fields EXCEPT !["enc"].tagLen = n]
    /\ NotDecrypted /\ UNCHANGED <<mode, c, sent>>

SetPadding(e, pad) ==
    /\ mode = "plain"
    /\ c' = [c EXCEPT ![e].pad = pad]
    /\ NotDecrypted /\ UNCHANGED <<mode, fields, sent>>

\* the decrypter is given the tag of the message, or another
SetTag(tag) ==
    /\ Sm4Aead
    /\ tag = Forged \/ (tag = sent.tag /\ tag # None)
    /\ fields' = [fields EXCEPT !["dec"].tag = tag]
    /\ NotDecrypted /\ UNCHANGED <<mode, c, sent>>

\* the AAD of a message, in CCM after the length
WithAad(r, fail, aad) ==
    IF aad = None THEN r
    ELSE AddAad(IF mode = "ccm" THEN DeclareLen(r, fail) ELSE r, fail, aad)

\* a message, with what the program had set for it; k made it
Completed(k, f, data) ==
    [iv |-> f.iv, aad |-> f.aad, data |-> data, pad |-> k.pad, mac |-> Tag(k),
     tag |-> None, tagLen |-> f.tagLen]

\* EncryptAll, up to the AAD
Prepare(fail) ==
    LET f == fields["enc"]
    IN  SetKeyAndIV(IF mode = "ccm" THEN CtrlTagLen(Start("enc"), fail, f.tagLen)
                    ELSE Start("enc"), fail, f.iv)

EncryptAll(src, fail) ==
    LET f == fields["enc"]
        r == Final(Update(WithAad(Prepare(fail), fail, f.aad), fail, src), fail)
    IN  /\ mode # "stream"
        /\ c' = [c EXCEPT !["enc"] =
                   IF r.ok THEN Sealed(r.k) ELSE Idle(r.k)]
        /\ sent' = IF r.ok THEN Completed(r.k, f, <<src>>) ELSE NoMessage
        /\ NotDecrypted /\ UNCHANGED <<mode, fields>>

\* GetTag, after a message; CCM gives it once, and in the length that it was
\* made for
GetTag ==
    /\ sent # NoMessage /\ mode # "plain"
    /\ c["enc"].tag # None
    /\ mode = "ccm" => fields["enc"].tagLen = c["enc"].m
    /\ sent' = [sent EXCEPT !.tag = c["enc"].tag]
    /\ c' = [c EXCEPT !["enc"].tag = IF mode = "ccm" THEN None ELSE @]
    /\ NotDecrypted /\ UNCHANGED <<mode, fields>>

\* the decryption of data with tag, on a context k whose input is complete
Decrypted(r, k, tag, data, clean) ==
    LET f == fields["dec"]
    IN  last' = [exact |-> r.ok /\ k.iv = sent.iv /\ data = sent.data,
                 ok |-> r.ok, clean |-> clean,
                 match |-> /\ sent # NoMessage /\ data = sent.data
                           /\ f.iv = sent.iv /\ f.aad = sent.aad
                           /\ IF mode = "plain" THEN k.pad = sent.pad ELSE tag = sent.mac,
                 genuine |-> mode # "plain" /\ tag # None /\
                             tag = [iv |-> f.iv, aad |-> f.aad, data |-> data, m |-> tag.m]]

\* (The slip: a tag that the program set is passed on after the key.)
BadExpectTag(fail) ==
    LET f == fields["dec"]
        r == SetKeyAndIV(Start("dec"), fail, f.iv)
    IN  IF f.tag = None THEN r ELSE CtrlTag(r, fail, f.tag)

ExpectTag(fail) ==
    LET f == fields["dec"]
    IN  SetKeyAndIV(IF f.tag = None THEN Start("dec")
                    ELSE CtrlTag(Start("dec"), fail, f.tag), fail, f.iv)

\* DecryptAll of the ciphertext of src.  clean leaves out a CCM context with a
\* declared length from a call that failed, used without AAD.
DecryptAll(src, fail) ==
    LET f   == fields["dec"]
        in  == Update(WithAad(ExpectTag(fail), fail, f.aad), fail, src)
        r   == IF mode = "plain" THEN Final(in, fail) ELSE Final(Verify(in), fail)
    IN  /\ mode # "stream"
        /\ c' = [c EXCEPT !["dec"] = Idle(r.k)]
        /\ Decrypted(r, r.k, f.tag, <<src>>,
                     fail = "none" /\ (mode = "ccm" /\ f.aad = None => ~c["dec"].len))
        /\ UNCHANGED <<mode, fields, sent>>

-----------------------------------------------------------------------------
(* The streams of crypto.NewGCMEncryptionCipherCtx and -DecryptionCipherCtx *)

\* SetKeyAndIV: the next message
Restart(e, iv, fail) ==
    LET r == SetKeyAndIV(Start(e), fail, iv)
    IN  /\ mode = "stream"
        /\ c' = [c EXCEPT ![e] = r.k]
        /\ fields' = IF ~r.ok THEN fields
                     ELSE [fields EXCEPT ![e].iv = iv, ![e].aad = None, ![e].data = <<>>]
        /\ NotDecrypted /\ UNCHANGED <<mode, sent>>

\* ExtraData, once per message
ExtraData(e, aad, fail) ==
    LET r == AddAad(Start(e), fail, aad)
    IN  /\ mode = "stream" /\ fields[e].aad = None
        /\ c' = [c EXCEPT ![e] = r.k]
        /\ fields' = IF r.ok THEN [fields EXCEPT ![e].aad = aad] ELSE fields
        /\ NotDecrypted /\ UNCHANGED <<mode, sent>>

\* EncryptUpdate, DecryptUpdate
Pass(e, piece, fail) ==
    LET r == Update(Start(e), fail, piece)
    IN  /\ mode = "stream" /\ Len(fields[e].data) < MaxPieces
        /\ c' = [c EXCEPT ![e] = r.k]
        /\ fields' = IF r.ok THEN [fields EXCEPT ![e].data = Append(@, piece)] ELSE fields
        /\ NotDecrypted /\ UNCHANGED <<mode, sent>>

EncryptFinal(fail) ==
    LET r == Final(Start("enc"), fail)
        f == fields["enc"]
    IN  /\ mode = "stream"
        /\ c' = [c EXCEPT !["enc"] =
                   IF r.ok THEN Sealed(r.k) ELSE r.k]
        /\ sent' = IF r.ok THEN Completed(r.k, f, f.data) ELSE sent
        /\ NotDecrypted /\ UNCHANGED <<mode, fields>>

\* SetTag of a stream, at any time before DecryptFinal
SetStreamTag(tag, fail) ==
    LET r == CtrlTag(Start("dec"), fail, tag)
    IN  /\ mode = "stream"
        /\ tag = Forged \/ (tag = sent.tag /\ tag # None)
        /\ c' = [c EXCEPT !["dec"] = r.k]
        /\ NotDecrypted /\ UNCHANGED <<mode, fields, sent>>

DecryptFinal(fail) ==
    LET r == Verify(Final(Start("dec"), fail))
    IN  /\ mode = "stream"
        /\ c' = [c EXCEPT !["dec"] = IF r.ok THEN Idle(r.k) ELSE r.k]
        /\ Decrypted(r, r.k, r.k.tag, fields["dec"].data, fail = "none" /\ c["dec"].iv # None)
        /\ UNCHANGED <<mode, fields, sent>>

CipherNext ==
    \/ \E e \in Ends, aad \in Aads \cup {None} : SetAAD(e, aad)
    \/ \E n \in TagLens : SetTagLen(n)
    \/ \E e \in Ends, pad \in BOOLEAN : SetPadding(e, pad)
    \/ \E tag \in {Forged, sent.tag} : SetTag(tag)
    \/ GetTag
    \/ \E src \in Srcs, fail \in CallNames : EncryptAll(src, fail) \/ DecryptAll(src, fail)
    \/ \E e \in Ends :
         \/ \E iv \in Ivs, fail \in {"none", "init"} : Restart(e, iv, fail)
         \/ \E aad \in Aads, fail \in {"none", "aad"} : ExtraData(e, aad, fail)
         \/ \E piece \in Srcs \ Partial, fail \in {"none", "update"} : Pass(e, piece, fail)
    \/ \E fail \in {"none", "final"} : EncryptFinal(fail) \/ DecryptFinal(fail)
    \/ \E tag \in {Forged, sent.tag}, fail \in {"none", "ctrl"} : SetStreamTag(tag, fail)

-----------------------------------------------------------------------------
(* Properties *)

\* what the contexts and the fields may hold
Contexts ==
    \A e \in Ends :
        /\ c[e].iv \in Ivs \cup {None} /\ c[e].aad \in Aads \cup {None}
        /\ c[e].data \in Seq(Srcs)
        /\ c[e].tagLen \in TagLens /\ c[e].m \in TagLens
        /\ c[e].len \in BOOLEAN /\ c[e].pad \in BOOLEAN
        /\ fields[e].tagLen \in TagLens

CipherTypeOK ==
    /\ mode \in {"plain", "ccm", "gcm", "stream"}
    /\ Contexts
    /\ \A e \in Ends : fields[e].data \in Seq(Srcs) /\ Len(fields[e].data) <= MaxPieces
    /\ sent.tag \in {None, sent.mac}

(* Whatever was encrypted, decrypted or failed before on the two contexts: *)
(* what was sent comes back when the decrypter has the IV, AAD, tag and    *)
(* padding of the message and no C call fails, and in the authenticated    *)
(* modes nothing is returned that does not have the tag, with the IV and   *)
(* the AAD, that the program has set (sm4.go:222, 271; "all previous       *)
(* plaintext returned must be considered faked", ciphers.go:358).  A CCM   *)
(* message has the tag length that was set when it was encrypted.          *)
RoundTrip ==
    /\ last.match /\ last.clean => last.ok /\ last.exact
    /\ mode # "plain" /\ last.ok => last.genuine
    /\ mode = "ccm" /\ sent # NoMessage => sent.mac.m = sent.tagLen
=============================================================================
