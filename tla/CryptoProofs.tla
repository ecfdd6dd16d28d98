---------------------------- MODULE CryptoProofs ----------------------------
(***************************************************************************)
(* Digests and ciphers, for any chunks, keys, messages and bounds.         *)
(***************************************************************************)
EXTENDS Crypto, TLAPS

-----------------------------------------------------------------------------
(* Digests.  What the context has taken in is what the program wrote since *)
(* its last reset, unless the program was told of a failure, or an md5 or  *)
(* sm3 object kept one to itself.                                          *)

Kept == ctx = written \/ broken \/ (silent /\ kind \in Copying)

DigestInv == DigestTypeOK /\ Kept /\ DigestOfWrites

LEMMA GarbageIsNoInput ==
    Garbage \notin Seq(Chunks)
<1>1. Garbage[1] = "garbage" /\ Len(Garbage) = 1
  BY DEF Garbage
<1>2. ASSUME Garbage \in Seq(Chunks) PROVE FALSE
  <2>1. Garbage[1] \in Chunks
    BY <1>1, <1>2
  <2> QED  BY <2>1, <1>1, DigestAssumption DEF DigestAssumption
<1> QED  BY <1>2

LEMMA DigestStep ==
    ASSUME DigestInv, [DigestNext]_digestVars
    PROVE  DigestInv'
<1> USE DEF DigestInv, Kept, DigestOfWrites, DigestTypeOK
<1>1. ASSUME NEW data \in Chunks, Write(data)
      PROVE  DigestInv'
  <2>1. CASE UNCHANGED <<ctx, written>>
    BY <1>1, <2>1 DEF Write
  <2>2. CASE /\ ctx' = IF ctx = Garbage THEN Garbage ELSE Append(ctx, data)
             /\ written' = Append(written, data)
    <3>1. written' \in Seq(Chunks) /\ Len(written') <= MaxChunks
      BY <1>1, <2>2, DigestAssumption DEF Write, DigestAssumption
    <3>2. ctx' = Garbage \/ ctx' \in Seq(Chunks)
      BY <2>2
    <3>3. ctx = written => ctx' = written'
      BY <2>2, GarbageIsNoInput
    <3> QED  BY <1>1, <3>1, <3>2, <3>3 DEF Write
  <2> QED  BY <1>1, <2>1, <2>2 DEF Write
<1>2. ASSUME Reset
      PROVE  DigestInv'
  <2>0. <<>> \in Seq(Chunks) /\ Len(<<>>) <= MaxChunks
    BY DigestAssumption DEF DigestAssumption
  <2>1. CASE ResetCopying
    <3>1. UNCHANGED <<kind, sum>> /\ written' = <<>> /\ kind \in Copying
      BY <2>1 DEF ResetCopying
    <3>2. CASE Initialised /\ silent' = silent
      BY <2>0, <3>1, <3>2 DEF Initialised
    <3>3. CASE silent' = TRUE /\ UNCHANGED <<ctx, broken>>
      BY <2>0, <3>1, <3>3
    <3> QED  BY <2>1, <3>2, <3>3 DEF ResetCopying
  <2>2. CASE ResetFinalising
    <3>1. UNCHANGED <<kind, sum, silent>> /\ kind \notin Copying
      BY <2>2 DEF ResetFinalising
    <3>2. CASE Initialised /\ written' = <<>>
      BY <2>0, <3>1, <3>2 DEF Initialised
    <3>3. CASE broken' = TRUE /\ UNCHANGED <<ctx, written>>
      BY <3>1, <3>3
    <3> QED  BY <2>2, <3>2, <3>3 DEF ResetFinalising
  <2> QED  BY <1>2, <2>1, <2>2 DEF Reset
<1>3. ASSUME SumOfCopy
      PROVE  DigestInv'
  <2>1. UNCHANGED <<kind, ctx, written, broken>> /\ kind \in Copying
    BY <1>3 DEF SumOfCopy
  <2>2. CASE Returned /\ UNCHANGED silent
    <3>1. sum'.of = ctx /\ sum'.asked = written /\ DOMAIN sum' = {"of", "asked"}
      BY <2>2 DEF Returned
    <3> QED  BY <2>1, <2>2, <3>1
  <2>3. CASE sum' = [of |-> Garbage, asked |-> written] /\ silent' = TRUE
    <3>1. DOMAIN sum' = {"of", "asked"}
      BY <2>3
    <3> QED  BY <2>1, <2>3, <3>1
  <2> QED  BY <1>3, <2>2, <2>3 DEF SumOfCopy
<1>4. ASSUME SumAndReset
      PROVE  DigestInv'
  <2>0. <<>> \in Seq(Chunks) /\ Len(<<>>) <= MaxChunks
    BY DigestAssumption DEF DigestAssumption
  <2>1. UNCHANGED <<kind, silent>> /\ kind \notin Copying /\ ~broken
    BY <1>4 DEF SumAndReset
  <2>2. CASE Returned /\ Initialised /\ written' = <<>>
    <3>1. sum'.of = ctx /\ sum'.asked = written /\ DOMAIN sum' = {"of", "asked"}
      BY <2>2 DEF Returned
    <3>2. ctx' = <<>> /\ broken' = FALSE /\ written' = <<>>
      BY <2>2 DEF Initialised
    <3> QED  BY <2>0, <2>1, <3>1, <3>2
  <2>3. CASE broken' = TRUE /\ ctx' = Garbage /\ UNCHANGED <<written, sum>>
    BY <2>1, <2>3
  <2> QED  BY <1>4, <2>2, <2>3 DEF SumAndReset
<1>5. CASE UNCHANGED digestVars
  BY <1>5 DEF digestVars
<1> QED  BY <1>1, <1>2, <1>3, <1>4, <1>5 DEF DigestNext

LEMMA DigestInvariant == Spec => []DigestInv
<1>1. Init => DigestInv
  <2>1. <<>> \in Seq(Chunks) /\ Len(<<>>) <= MaxChunks
    BY DigestAssumption DEF DigestAssumption
  <2> SUFFICES ASSUME InitDigest PROVE DigestInv
    BY DEF Init
  <2> USE DEF DigestInv, Kept, DigestOfWrites, DigestTypeOK
  <2>2. kind \in Kinds /\ written = <<>> /\ broken = FALSE
    BY DEF InitDigest
  <2>3. sum.of = sum.asked /\ DOMAIN sum = {"of", "asked"}
    BY DEF InitDigest
  <2>4. CASE ctx = <<>> /\ silent = FALSE
    BY <2>1, <2>2, <2>3, <2>4
  <2>5. CASE kind \in Copying /\ ctx = Garbage /\ silent = TRUE
    BY <2>1, <2>2, <2>3, <2>5
  <2> QED  BY <2>4, <2>5 DEF InitDigest
<1>2. ASSUME DigestInv, [Next]_<<digestVars, cipherVars, uses>>
      PROVE  DigestInv'
  <2>1. [DigestNext]_digestVars
    BY <1>2 DEF Next
  <2> QED  BY <1>2, <2>1, DigestStep
<1> QED  BY <1>1, <1>2, PTL DEF Spec

(* A digest is that of what was written since the last reset, for every    *)
(* history of failing calls (md5.go, sha1.go, sha256.go, sm3.go, hmac.go). *)
THEOREM DigestsAreOfWrites == Spec => []DigestOfWrites
<1>1. DigestInv => DigestOfWrites
  BY DEF DigestInv
<1> QED  BY <1>1, DigestInvariant, PTL

-----------------------------------------------------------------------------
(* Ciphers.  The types of a context, of what the program has set and of a  *)
(* run of C calls.                                                         *)

Context == [iv : Ivs \cup {None}, aad : Aads \cup {None}, data : Seq(Srcs),
            tag : Tags \cup {None}, tagLen : TagLens, m : TagLens,
            len : BOOLEAN, pad : BOOLEAN]

Setting == [iv : Ivs, aad : Aads \cup {None}, data : Seq(Srcs),
            tag : Tags \cup {None}, tagLen : TagLens]

Run == [ok : BOOLEAN, k : Context]

LEMMA CallFacts ==
    ASSUME NEW r \in Run, NEW name, NEW fail, NEW accepted \in BOOLEAN,
           NEW k \in Context
    PROVE  LET s == Call(r, name, fail, accepted, k) IN
           /\ s \in Run
           /\ s.ok <=> r.ok /\ name # fail /\ accepted
           /\ s.ok => s.k = k
           /\ ~s.ok => s.k = r.k
BY DEF Call, Run

LEMMA TagIsTag ==
    ASSUME NEW k \in Context
    PROVE  /\ Tag(k) \in Tags /\ Tag(k) # None
           /\ Tag(k).iv = k.iv /\ Tag(k).aad = k.aad /\ Tag(k).data = k.data
           /\ Tag(k).m = k.m
BY CipherAssumption DEF Tag, Tags, Context

LEMMA ForgedIsTag == Forged \in Tags /\ Forged # None
<1>1. <<>> \in Seq(Srcs) /\ 12 \in TagLens
  BY DEF TagLens
<1>2. Forged \in Tags
  BY <1>1 DEF Forged, Tags
<1> QED
  BY <1>2, CipherAssumption

LEMMA IdleFacts ==
    ASSUME NEW k \in Context
    PROVE  /\ Idle(k) \in Context /\ Idle(k).iv = None
           /\ Idle(k).tag = IF mode = "ccm" THEN None ELSE k.tag
           /\ Sealed(k) \in Context /\ Sealed(k).iv = None
           /\ Sealed(k).tag = Tag(k)
<1>1. /\ Idle(k) \in Context /\ Idle(k).iv = None
      /\ Idle(k).tag = IF mode = "ccm" THEN None ELSE k.tag
  <2>1. <<>> \in Seq(Srcs) /\ 12 \in TagLens
    BY DEF TagLens
  <2>2. PICK tag \in Tags \cup {None} : tag = IF mode = "ccm" THEN None ELSE k.tag
    BY DEF Context
  <2>3. Idle(k) = [k EXCEPT !.iv = None, !.aad = None, !.data = <<>>, !.m = 12,
                            !.tag = tag]
    BY <2>2 DEF Idle, Context
  <2> QED
    BY <2>1, <2>2, <2>3 DEF Context
<1>2. /\ Sealed(k) \in Context /\ Sealed(k).iv = None
      /\ Sealed(k).tag = Tag(k)
  <2>1. Tag(k) \in Tags /\ k.m \in TagLens
    BY TagIsTag DEF Context
  <2> QED
    BY <1>1, <2>1 DEF Sealed, Context
<1> QED
  BY <1>1, <1>2

-----------------------------------------------------------------------------
(* What each C call does to a run. *)

LEMMA CtrlTagFacts ==
    ASSUME NEW r \in Run, NEW fail, NEW tag \in Tags
    PROVE  LET s == CtrlTag(r, fail, tag) IN
           /\ s \in Run
           /\ s.ok <=> r.ok /\ fail # "ctrl"
           /\ s.ok => s.k = [r.k EXCEPT !.tag = tag, !.tagLen = tag.m]
           /\ ~s.ok => s.k = r.k
<1> DEFINE k == [r.k EXCEPT !.tag = tag, !.tagLen = tag.m]
<1>1. k \in Context
  BY DEF Run, Context, Tags
<1>2. CtrlTag(r, fail, tag) = Call(r, "ctrl", fail, TRUE, k)
  BY DEF CtrlTag
<1> HIDE DEF k
<1>3. LET s == Call(r, "ctrl", fail, TRUE, k) IN
      /\ s \in Run
      /\ s.ok <=> r.ok /\ fail # "ctrl"
      /\ s.ok => s.k = k
      /\ ~s.ok => s.k = r.k
  BY <1>1 DEF Call, Run
<1> QED
  BY <1>2, <1>3 DEF k

LEMMA CtrlTagLenFacts ==
    ASSUME NEW r \in Run, NEW fail, NEW n \in TagLens
    PROVE  LET s == CtrlTagLen(r, fail, n) IN
           /\ s \in Run
           /\ s.ok <=> r.ok /\ fail # "ctrl"
           /\ s.ok => s.k = [r.k EXCEPT !.tagLen = n]
           /\ ~s.ok => s.k = r.k
<1> DEFINE k == [r.k EXCEPT !.tagLen = n]
<1>1. k \in Context
  BY DEF Run, Context
<1>2. CtrlTagLen(r, fail, n) = Call(r, "ctrl", fail, TRUE, k)
  BY DEF CtrlTagLen
<1> HIDE DEF k
<1>3. LET s == Call(r, "ctrl", fail, TRUE, k) IN
      /\ s \in Run
      /\ s.ok <=> r.ok /\ fail # "ctrl"
      /\ s.ok => s.k = k
      /\ ~s.ok => s.k = r.k
  BY <1>1 DEF Call, Run
<1> QED
  BY <1>2, <1>3 DEF k

LEMMA SetKeyAndIVFacts ==
    ASSUME NEW r \in Run, NEW fail, NEW iv \in Ivs
    PROVE  LET s == SetKeyAndIV(r, fail, iv) IN
           /\ s \in Run
           /\ s.ok <=> r.ok /\ fail # "init"
           /\ s.ok => s.k = [r.k EXCEPT !.iv = iv, !.aad = None, !.data = <<>>,
                               !.m = IF mode = "ccm" THEN r.k.tagLen ELSE 12]
           /\ ~s.ok => s.k = r.k
<1> DEFINE k == [r.k EXCEPT !.iv = iv, !.aad = None, !.data = <<>>,
                            !.m = IF mode = "ccm" THEN r.k.tagLen ELSE 12]
<1>1. k \in Context
  <2>1. <<>> \in Seq(Srcs)
    OBVIOUS
  <2>2. PICK m \in TagLens : m = IF mode = "ccm" THEN r.k.tagLen ELSE 12
    BY DEF Run, Context, TagLens
  <2>3. k = [r.k EXCEPT !.iv = iv, !.aad = None, !.data = <<>>, !.m = m]
    BY <2>2
  <2> HIDE DEF k
  <2> QED
    BY <2>1, <2>2, <2>3 DEF Run, Context
<1>2. SetKeyAndIV(r, fail, iv) = Call(r, "init", fail, TRUE, k)
  BY DEF SetKeyAndIV
<1> HIDE DEF k
<1>3. LET s == Call(r, "init", fail, TRUE, k) IN
      /\ s \in Run
      /\ s.ok <=> r.ok /\ fail # "init"
      /\ s.ok => s.k = k
      /\ ~s.ok => s.k = r.k
  BY <1>1 DEF Call, Run
<1> QED
  BY <1>2, <1>3 DEF k

LEMMA DeclareLenFacts ==
    ASSUME NEW r \in Run, NEW fail
    PROVE  LET s == DeclareLen(r, fail) IN
           /\ s \in Run
           /\ s.ok <=> r.ok /\ fail # "len"
           /\ s.ok => s.k = [r.k EXCEPT !.len = TRUE]
           /\ ~s.ok => s.k = r.k
<1> DEFINE k == [r.k EXCEPT !.len = TRUE]
<1>1. k \in Context
  BY DEF Run, Context
<1>2. DeclareLen(r, fail) = Call(r, "len", fail, TRUE, k)
  BY DEF DeclareLen
<1> HIDE DEF k
<1>3. LET s == Call(r, "len", fail, TRUE, k) IN
      /\ s \in Run
      /\ s.ok <=> r.ok /\ fail # "len"
      /\ s.ok => s.k = k
      /\ ~s.ok => s.k = r.k
  BY <1>1 DEF Call, Run
<1> QED
  BY <1>2, <1>3 DEF k

LEMMA AddAadFacts ==
    ASSUME NEW r \in Run, NEW fail, NEW aad \in Aads
    PROVE  LET s == AddAad(r, fail, aad) IN
           /\ s \in Run
           /\ s.ok <=> /\ r.ok /\ fail # "aad"
                       /\ r.k.iv # None /\ r.k.data = <<>>
                       /\ mode = "ccm" => r.k.len
           /\ s.ok => s.k = [r.k EXCEPT !.aad = aad]
           /\ ~s.ok => s.k = r.k
<1> DEFINE k == [r.k EXCEPT !.aad = aad]
           accepted == r.k.iv # None /\ r.k.data = <<>> /\ (mode = "ccm" => r.k.len)
<1>1. k \in Context /\ accepted \in BOOLEAN
  BY DEF Run, Context
<1>2. AddAad(r, fail, aad) = Call(r, "aad", fail, accepted, k)
  BY DEF AddAad
<1> HIDE DEF k, accepted
<1>3. LET s == Call(r, "aad", fail, accepted, k) IN
      /\ s \in Run
      /\ s.ok <=> r.ok /\ fail # "aad" /\ accepted
      /\ s.ok => s.k = k
      /\ ~s.ok => s.k = r.k
  BY <1>1, CallFacts
<1> QED
  BY <1>2, <1>3 DEF k, accepted

LEMMA UpdateFacts ==
    ASSUME NEW r \in Run, NEW fail, NEW piece \in Srcs
    PROVE  LET s == Update(r, fail, piece) IN
           /\ s \in Run
           /\ s.ok <=> /\ r.ok /\ fail # "update"
                       /\ r.k.iv # None
                       /\ mode = "ccm" =>
                            r.k.data = <<>> /\ (r.k.len => r.k.aad # None)
           /\ s.ok => s.k = [r.k EXCEPT !.data = Append(@, piece), !.len = FALSE]
           /\ ~s.ok => s.k = r.k
<1> DEFINE k == [r.k EXCEPT !.data = Append(@, piece), !.len = FALSE]
           accepted == /\ r.k.iv # None
                       /\ mode = "ccm" =>
                            r.k.data = <<>> /\ (r.k.len => r.k.aad # None)
<1>1. k \in Context /\ accepted \in BOOLEAN
  <2>1. Append(r.k.data, piece) \in Seq(Srcs)
    BY DEF Run, Context
  <2>2. k \in Context
    BY <2>1 DEF Run, Context
  <2> QED
    BY <2>2
<1>2. Update(r, fail, piece) = Call(r, "update", fail, accepted, k)
  BY DEF Update
<1> HIDE DEF k, accepted
<1>3. LET s == Call(r, "update", fail, accepted, k) IN
      /\ s \in Run
      /\ s.ok <=> r.ok /\ fail # "update" /\ accepted
      /\ s.ok => s.k = k
      /\ ~s.ok => s.k = r.k
  BY <1>1, CallFacts
<1> QED
  BY <1>2, <1>3 DEF k, accepted

LEMMA FinalFacts ==
    ASSUME NEW r \in Run, NEW fail
    PROVE  LET s == Final(r, fail) IN
           /\ s \in Run /\ s.k = r.k
           /\ s.ok <=> /\ r.ok /\ fail # "final"
                       /\ r.k.iv # None
                       /\ mode = "plain" /\ ~r.k.pad =>
                            \A i \in DOMAIN r.k.data : r.k.data[i] \notin Partial
<1> DEFINE accepted == /\ r.k.iv # None
                       /\ mode = "plain" /\ ~r.k.pad =>
                            \A i \in DOMAIN r.k.data : r.k.data[i] \notin Partial
<1>1. r.k \in Context /\ accepted \in BOOLEAN
  BY DEF Run
<1>2. Final(r, fail) = Call(r, "final", fail, accepted, r.k)
  BY DEF Final
<1> HIDE DEF accepted
<1>3. LET s == Call(r, "final", fail, accepted, r.k) IN
      /\ s \in Run /\ s.k = r.k
      /\ s.ok <=> r.ok /\ fail # "final" /\ accepted
  BY <1>1, CallFacts
<1> QED
  BY <1>2, <1>3 DEF accepted

LEMMA VerifyFacts ==
    ASSUME NEW r \in Run
    PROVE  /\ Verify(r) \in Run /\ Verify(r).k = r.k
           /\ Verify(r).ok <=> r.ok /\ r.k.tag = Tag(r.k)
BY DEF Verify, Run

-----------------------------------------------------------------------------
(* What a sequence of C calls does: the inductive invariant is about the   *)
(* contexts that these leave behind.                                       *)

Message == [iv : Ivs, aad : Aads \cup {None}, data : Seq(Srcs), pad : BOOLEAN,
            mac : Tags, tag : Tags \cup {None}, tagLen : TagLens]

CipherTypes ==
    /\ mode \in {"plain", "ccm", "gcm", "stream"}
    /\ c \in [Ends -> Context]
    /\ fields \in [Ends -> Setting]
    /\ \A e \in Ends : Len(fields[e].data) <= MaxPieces
    /\ sent \in Message \cup {NoMessage}

LEMMA StartIsRun ==
    ASSUME CipherTypes, NEW e \in Ends
    PROVE  /\ Start(e) \in Run /\ Start(e).ok /\ Start(e).k = c[e]
           /\ c[e] \in Context /\ fields[e] \in Setting
BY DEF CipherTypes, Start, Run

\* the AAD, if there is one, and the declared length that CCM needs for it
LEMMA WithAadFacts ==
    ASSUME NEW r \in Run, NEW fail, NEW aad \in Aads \cup {None}
    PROVE  LET s == WithAad(r, fail, aad) IN
           /\ s \in Run /\ s.k.tag = r.k.tag
           /\ s.ok => /\ r.ok
                      /\ s.k.iv = r.k.iv /\ s.k.data = r.k.data /\ s.k.m = r.k.m
                      /\ s.k.pad = r.k.pad
                      /\ s.k.aad = IF aad = None THEN r.k.aad ELSE aad
           /\ aad = None => s = r
           /\ fail = "none" /\ r.ok /\ r.k.iv # None /\ r.k.data = <<>> => s.ok
<1>1. CASE aad = None
  BY <1>1 DEF WithAad
<1>2. CASE aad # None
  <2> DEFINE p == IF mode = "ccm" THEN DeclareLen(r, fail) ELSE r
             s == AddAad(p, fail, aad)
  <2>1. /\ p \in Run /\ p.k.tag = r.k.tag
        /\ p.ok => /\ r.ok
                   /\ p.k.iv = r.k.iv /\ p.k.data = r.k.data /\ p.k.m = r.k.m
                   /\ p.k.pad = r.k.pad /\ p.k.aad = r.k.aad
                   /\ mode = "ccm" => p.k.len
        /\ fail = "none" /\ r.ok => p.ok
    <3>1. CASE mode = "ccm"
      <4>1. PICK q : q = DeclareLen(r, fail)
        OBVIOUS
      <4>2. /\ q \in Run
            /\ q.ok <=> r.ok /\ fail # "len"
            /\ q.ok => q.k = [r.k EXCEPT !.len = TRUE]
            /\ ~q.ok => q.k = r.k
        BY <4>1, DeclareLenFacts
      <4>3. r.k \in Context
        BY DEF Run
      <4>4. p = q
        BY <3>1, <4>1
      <4> HIDE DEF p
      <4> QED  BY <4>2, <4>3, <4>4 DEF Context
    <3>2. CASE mode # "ccm"
      BY <3>2
    <3> QED  BY <3>1, <3>2
  <2>2. WithAad(r, fail, aad) = s
    BY <1>2 DEF WithAad
  <2>3. aad \in Aads
    BY <1>2
  <2> HIDE DEF p
  <2>4. /\ s \in Run
        /\ s.ok <=> /\ p.ok /\ fail # "aad"
                    /\ p.k.iv # None /\ p.k.data = <<>>
                    /\ mode = "ccm" => p.k.len
        /\ s.ok => s.k = [p.k EXCEPT !.aad = aad]
        /\ ~s.ok => s.k = p.k
    BY <2>1, <2>3, AddAadFacts
  <2>5. p.k \in Context
    BY <2>1 DEF Run
  <2> HIDE DEF s
  <2>6. s.k.tag = p.k.tag
    BY <2>4, <2>5 DEF Context
  <2>7. s.ok => /\ s.k.iv = p.k.iv /\ s.k.data = p.k.data /\ s.k.m = p.k.m
                /\ s.k.pad = p.k.pad /\ s.k.aad = aad
    BY <2>4, <2>5 DEF Context
  <2>8. fail = "none" /\ r.ok /\ r.k.iv # None /\ r.k.data = <<>> => s.ok
    BY <2>1, <2>4
  <2> QED
    BY <1>2, <2>1, <2>2, <2>4, <2>6, <2>7, <2>8
<1> QED
  BY <1>1, <1>2

\* a run's input and end, on a context that has an IV and no input yet
LEMMA InputFacts ==
    ASSUME NEW r \in Run, NEW fail, NEW src \in Srcs
    PROVE  LET s == Update(r, fail, src) IN
           /\ s \in Run /\ s.k.tag = r.k.tag
           /\ s.ok => /\ r.ok /\ r.k.iv # None
                      /\ s.k.iv = r.k.iv /\ s.k.aad = r.k.aad /\ s.k.m = r.k.m
                      /\ s.k.pad = r.k.pad
                      /\ s.k.data = Append(r.k.data, src)
           /\ fail = "none" /\ r.ok /\ r.k.iv # None
                /\ (mode = "ccm" => r.k.data = <<>> /\ (r.k.len => r.k.aad # None))
              => s.ok
<1> DEFINE s == Update(r, fail, src)
<1>1. /\ s \in Run
      /\ s.ok <=> /\ r.ok /\ fail # "update"
                  /\ r.k.iv # None
                  /\ mode = "ccm" =>
                       r.k.data = <<>> /\ (r.k.len => r.k.aad # None)
      /\ s.ok => s.k = [r.k EXCEPT !.data = Append(@, src), !.len = FALSE]
      /\ ~s.ok => s.k = r.k
  BY UpdateFacts
<1>2. r.k \in Context
  BY DEF Run
<1> HIDE DEF s
<1>3. s.k.tag = r.k.tag
  BY <1>1, <1>2 DEF Context
<1>4. s.ok => /\ s.k.iv = r.k.iv /\ s.k.aad = r.k.aad /\ s.k.m = r.k.m
              /\ s.k.pad = r.k.pad
              /\ s.k.data = Append(r.k.data, src)
  BY <1>1, <1>2 DEF Context
<1> QED
  BY <1>1, <1>3, <1>4 DEF s

LEMMA PrepareFacts ==
    ASSUME CipherTypes, NEW fail
    PROVE  LET s == Prepare(fail)
               f == fields["enc"] IN
           /\ s \in Run
           /\ s.ok => /\ s.k.iv = f.iv /\ s.k.aad = None /\ s.k.data = <<>>
                      /\ s.k.m = IF mode = "ccm" THEN f.tagLen ELSE 12
<1> DEFINE f == fields["enc"]
           p == IF mode = "ccm" THEN CtrlTagLen(Start("enc"), fail, f.tagLen)
                ELSE Start("enc")
           s == SetKeyAndIV(p, fail, f.iv)
<1>1. "enc" \in Ends
  BY DEF Ends
<1>2. /\ Start("enc") \in Run /\ Start("enc").ok
      /\ f.tagLen \in TagLens /\ f.iv \in Ivs
  BY <1>1, StartIsRun DEF Setting
<1>3. Prepare(fail) = s
  BY DEF Prepare
<1>4. p \in Run /\ (mode = "ccm" /\ p.ok => p.k.tagLen = f.tagLen)
  <2>1. CASE mode = "ccm"
    <3>1. PICK q : q = CtrlTagLen(Start("enc"), fail, f.tagLen)
      OBVIOUS
    <3>2. q \in Run /\ (q.ok => q.k = [Start("enc").k EXCEPT !.tagLen = f.tagLen])
      BY <1>2, <3>1, CtrlTagLenFacts
    <3>3. Start("enc").k \in Context
      BY <1>2 DEF Run
    <3>4. p = q
      BY <2>1, <3>1
    <3> HIDE DEF p
    <3> QED  BY <3>2, <3>3, <3>4 DEF Context
  <2>2. CASE mode # "ccm"
    BY <1>2, <2>2
  <2> QED  BY <2>1, <2>2
<1> HIDE DEF p
<1>5. /\ s \in Run
      /\ s.ok <=> p.ok /\ fail # "init"
      /\ s.ok => s.k = [p.k EXCEPT !.iv = f.iv, !.aad = None, !.data = <<>>,
                          !.m = IF mode = "ccm" THEN p.k.tagLen ELSE 12]
      /\ ~s.ok => s.k = p.k
  BY <1>2, <1>4, SetKeyAndIVFacts
<1>6. p.k \in Context
  BY <1>4 DEF Run
<1> HIDE DEF s
<1>7. s.ok => /\ s.k.iv = f.iv /\ s.k.aad = None /\ s.k.data = <<>>
              /\ s.k.m = IF mode = "ccm" THEN p.k.tagLen ELSE 12
  BY <1>5, <1>6, ZenonT(60) DEF Context
<1> QED
  BY <1>3, <1>4, <1>5, <1>7

LEMMA ExpectTagFacts ==
    ASSUME CipherTypes, NEW fail
    PROVE  LET s == ExpectTag(fail)
               f == fields["dec"] IN
           /\ s \in Run
           /\ f.tag = None => s.k.tag = c["dec"].tag
           /\ s.ok => /\ s.k.iv = f.iv /\ s.k.aad = None /\ s.k.data = <<>>
                      /\ mode # "ccm" => s.k.m = 12
                      /\ f.tag # None => /\ s.k.tag = f.tag
                                         /\ mode = "ccm" => s.k.m = f.tag.m
                      /\ s.k.len = c["dec"].len
           /\ fail = "none" => s.ok
<1> DEFINE f == fields["dec"]
           p == IF f.tag = None THEN Start("dec")
                ELSE CtrlTag(Start("dec"), fail, f.tag)
           s == SetKeyAndIV(p, fail, f.iv)
<1>1. "dec" \in Ends
  BY DEF Ends
<1>2. /\ Start("dec") \in Run /\ Start("dec").ok /\ Start("dec").k = c["dec"]
      /\ f.tag \in Tags \cup {None} /\ f.iv \in Ivs
  BY <1>1, StartIsRun DEF Setting
<1>3. ExpectTag(fail) = s
  BY DEF ExpectTag
<1>4. /\ p \in Run
      /\ f.tag = None => p.k.tag = c["dec"].tag
      /\ p.ok => /\ f.tag # None => p.k.tag = f.tag /\ p.k.tagLen = f.tag.m
                 /\ p.k.len = c["dec"].len
      /\ fail = "none" => p.ok
  <2>1. CASE f.tag # None
    <3>1. PICK q : q = CtrlTag(Start("dec"), fail, f.tag)
      OBVIOUS
    <3>2. /\ q \in Run
          /\ q.ok <=> Start("dec").ok /\ fail # "ctrl"
          /\ q.ok => q.k = [Start("dec").k EXCEPT !.tag = f.tag, !.tagLen = f.tag.m]
          /\ ~q.ok => q.k = Start("dec").k
      <4>1. f.tag \in Tags
        BY <1>2, <2>1
      <4>2. PICK r \in Run, tag \in Tags : r = Start("dec") /\ tag = f.tag
        BY <1>2, <4>1
      <4>3. q = CtrlTag(r, fail, tag)
        BY <3>1, <4>2
      <4>4. /\ q \in Run
            /\ q.ok <=> r.ok /\ fail # "ctrl"
            /\ q.ok => q.k = [r.k EXCEPT !.tag = tag, !.tagLen = tag.m]
            /\ ~q.ok => q.k = r.k
        BY <4>3, CtrlTagFacts
      <4> HIDE DEF f
      <4> QED  BY <4>2, <4>4
    <3>3. Start("dec").k \in Context
      BY <1>2 DEF Run
    <3>4. p = q
      BY <2>1, <3>1
    <3>5. q.ok => q.k.tag = f.tag /\ q.k.tagLen = f.tag.m /\ q.k.len = c["dec"].len
      BY <1>2, <3>2, <3>3 DEF Context
    <3> HIDE DEF p
    <3> QED  BY <1>2, <2>1, <3>2, <3>4, <3>5
  <2>2. CASE f.tag = None
    BY <1>2, <2>2
  <2> QED  BY <2>1, <2>2
<1> HIDE DEF p
<1>5. /\ s \in Run
      /\ s.ok <=> p.ok /\ fail # "init"
      /\ s.ok => s.k = [p.k EXCEPT !.iv = f.iv, !.aad = None, !.data = <<>>,
                          !.m = IF mode = "ccm" THEN p.k.tagLen ELSE 12]
      /\ ~s.ok => s.k = p.k
  BY <1>2, <1>4, SetKeyAndIVFacts
<1>6. p.k \in Context
  BY <1>4 DEF Run
<1> HIDE DEF s
<1>7. s.ok => /\ s.k.iv = f.iv /\ s.k.aad = None /\ s.k.data = <<>>
              /\ s.k.m = IF mode = "ccm" THEN p.k.tagLen ELSE 12
              /\ s.k.len = p.k.len
  BY <1>5, <1>6, ZenonT(60) DEF Context
<1>8. s.k.tag = p.k.tag
  BY <1>5, <1>6 DEF Context
<1> QED
  BY <1>3, <1>4, <1>5, <1>7, <1>8

\* EncryptAll
LEMMA EncryptFacts ==
    ASSUME CipherTypes, NEW src \in Srcs, NEW fail
    PROVE  LET f == fields["enc"]
               r == Final(Update(WithAad(Prepare(fail), fail, f.aad), fail, src), fail) IN
           /\ r \in Run
           /\ r.ok => /\ r.k.iv = f.iv /\ r.k.aad = f.aad /\ r.k.data = <<src>>
                      /\ r.k.m = IF mode = "ccm" THEN f.tagLen ELSE 12
                      /\ mode = "plain" /\ ~r.k.pad => src \notin Partial
<1> DEFINE f == fields["enc"]
<1>1. f.aad \in Aads \cup {None} /\ f.iv \in Ivs
  BY StartIsRun DEF Setting, Ends
<1>2. PICK aad \in Aads \cup {None} : aad = f.aad
  BY <1>1
<1>3. PICK p : p = Prepare(fail)
  OBVIOUS
<1>4. PICK w : w = WithAad(p, fail, aad)
  OBVIOUS
<1>5. PICK u : u = Update(w, fail, src)
  OBVIOUS
<1>6. PICK r : r = Final(u, fail)
  OBVIOUS
<1>7. /\ p \in Run
      /\ p.ok => /\ p.k.iv = f.iv /\ p.k.aad = None /\ p.k.data = <<>>
                 /\ p.k.m = IF mode = "ccm" THEN f.tagLen ELSE 12
  BY <1>3, PrepareFacts
<1> HIDE DEF f
<1>8. /\ w \in Run
      /\ w.ok => /\ p.ok
                 /\ w.k.iv = p.k.iv /\ w.k.data = p.k.data /\ w.k.m = p.k.m
                 /\ w.k.aad = IF aad = None THEN p.k.aad ELSE aad
  BY <1>4, <1>7, WithAadFacts
<1>9. /\ u \in Run
      /\ u.ok => /\ w.ok
                 /\ u.k.iv = w.k.iv /\ u.k.aad = w.k.aad /\ u.k.m = w.k.m
                 /\ u.k.data = Append(w.k.data, src)
  BY <1>5, <1>8, InputFacts
<1>10. /\ r \in Run /\ r.k = u.k
       /\ r.ok <=> /\ u.ok /\ fail # "final"
                   /\ u.k.iv # None
                   /\ mode = "plain" /\ ~u.k.pad =>
                        \A i \in DOMAIN u.k.data : u.k.data[i] \notin Partial
  BY <1>6, <1>9, FinalFacts
<1>11. r.ok => r.k.iv = f.iv /\ r.k.aad = f.aad
  BY <1>2, <1>7, <1>8, <1>9, <1>10
<1>12. r.ok => r.k.data = <<src>>
  <2>1. Append(<<>>, src) = <<src>>
    OBVIOUS
  <2> QED  BY <2>1, <1>7, <1>8, <1>9, <1>10
<1>13. r.ok => r.k.m = IF mode = "ccm" THEN f.tagLen ELSE 12
  BY <1>7, <1>8, <1>9, <1>10
<1>14. r.ok => (mode = "plain" /\ ~r.k.pad => src \notin Partial)
  <2>1. 1 \in DOMAIN <<src>> /\ <<src>>[1] = src
    OBVIOUS
  <2> QED  BY <2>1, <1>10, <1>12
<1>15. r = Final(Update(WithAad(Prepare(fail), fail, f.aad), fail, src), fail)
  BY <1>2, <1>3, <1>4, <1>5, <1>6
<1> QED
  BY <1>10, <1>11, <1>12, <1>13, <1>14, <1>15 DEF f

\* DecryptAll.  The last part is what makes a call succeed.
LEMMA DecryptFacts ==
    ASSUME CipherTypes, NEW src \in Srcs, NEW fail
    PROVE  LET f == fields["dec"]
               s == Update(WithAad(ExpectTag(fail), fail, f.aad), fail, src)
               r == IF mode = "plain" THEN Final(s, fail) ELSE Final(Verify(s), fail) IN
           /\ r \in Run
           /\ f.tag = None => r.k.tag = c["dec"].tag
           /\ r.ok => /\ r.k.iv = f.iv /\ r.k.aad = f.aad /\ r.k.data = <<src>>
                      /\ f.tag # None => r.k.tag = f.tag
                      /\ mode # "plain" => r.k.tag = Tag(r.k)
           /\ /\ fail = "none"
              /\ mode = "ccm" /\ f.aad = None => ~c["dec"].len
              /\ mode = "plain" => r.k.pad \/ src \notin Partial
              /\ mode # "plain" =>
                   /\ f.tag # None
                   /\ f.tag.iv = f.iv /\ f.tag.aad = f.aad /\ f.tag.data = <<src>>
                   /\ mode # "ccm" => f.tag.m = 12
              => r.ok
<1> DEFINE f == fields["dec"]
<1>1. f.aad \in Aads \cup {None} /\ f.iv \in Ivs /\ f.tag \in Tags \cup {None}
  BY StartIsRun DEF Setting, Ends
<1>2. PICK aad \in Aads \cup {None} : aad = f.aad
  BY <1>1
<1>3. PICK p : p = ExpectTag(fail)
  OBVIOUS
<1>4. PICK w : w = WithAad(p, fail, aad)
  OBVIOUS
<1>5. PICK u : u = Update(w, fail, src)
  OBVIOUS
<1>6. PICK v : v = IF mode = "plain" THEN u ELSE Verify(u)
  OBVIOUS
<1>7. PICK r : r = Final(v, fail)
  OBVIOUS
<1>8. /\ p \in Run
      /\ f.tag = None => p.k.tag = c["dec"].tag
      /\ p.ok => /\ p.k.iv = f.iv /\ p.k.aad = None /\ p.k.data = <<>>
                 /\ mode # "ccm" => p.k.m = 12
                 /\ f.tag # None => /\ p.k.tag = f.tag
                                    /\ mode = "ccm" => p.k.m = f.tag.m
                 /\ p.k.len = c["dec"].len
      /\ fail = "none" => p.ok
  BY <1>3, ExpectTagFacts
<1> HIDE DEF f
<1>9. /\ w \in Run /\ w.k.tag = p.k.tag
      /\ w.ok => /\ p.ok
                 /\ w.k.iv = p.k.iv /\ w.k.data = p.k.data /\ w.k.m = p.k.m
                 /\ w.k.aad = IF aad = None THEN p.k.aad ELSE aad
      /\ aad = None => w = p
      /\ fail = "none" /\ p.ok /\ p.k.iv # None /\ p.k.data = <<>> => w.ok
  BY <1>4, <1>8, WithAadFacts
<1>10. /\ u \in Run /\ u.k.tag = w.k.tag
       /\ u.ok => /\ w.ok
                  /\ u.k.iv = w.k.iv /\ u.k.aad = w.k.aad /\ u.k.m = w.k.m
                  /\ u.k.data = Append(w.k.data, src)
       /\ fail = "none" /\ w.ok /\ w.k.iv # None
            /\ (mode = "ccm" => w.k.data = <<>> /\ (w.k.len => w.k.aad # None))
          => u.ok
  BY <1>5, <1>9, InputFacts
<1>11. /\ v \in Run /\ v.k = u.k
       /\ v.ok <=> u.ok /\ (mode # "plain" => u.k.tag = Tag(u.k))
  <2>1. CASE mode = "plain"
    BY <1>6, <1>10, <2>1
  <2>2. CASE mode # "plain"
    BY <1>6, <1>10, <2>2, VerifyFacts
  <2> QED  BY <2>1, <2>2
<1>12. /\ r \in Run /\ r.k = v.k
       /\ r.ok <=> /\ v.ok /\ fail # "final"
                   /\ v.k.iv # None
                   /\ mode = "plain" /\ ~v.k.pad =>
                        \A i \in DOMAIN v.k.data : v.k.data[i] \notin Partial
  BY <1>7, <1>11, FinalFacts
<1>13. u.ok => u.k.iv = f.iv /\ u.k.aad = f.aad
  BY <1>2, <1>8, <1>9, <1>10
<1>14. u.ok => u.k.data = <<src>>
  <2>1. Append(<<>>, src) = <<src>>
    OBVIOUS
  <2> QED  BY <2>1, <1>8, <1>9, <1>10
<1>15. u.ok /\ f.tag # None => u.k.tag = f.tag /\ (mode = "ccm" => u.k.m = f.tag.m)
  BY <1>8, <1>9, <1>10
<1>16. u.ok /\ mode # "ccm" => u.k.m = 12
  BY <1>8, <1>9, <1>10
<1>17. f.tag = None => r.k.tag = c["dec"].tag
  BY <1>8, <1>9, <1>10, <1>11, <1>12
<1>18. ASSUME fail = "none",
              mode = "ccm" /\ f.aad = None => ~c["dec"].len,
              mode = "plain" => r.k.pad \/ src \notin Partial,
              mode # "plain" =>
                   /\ f.tag # None
                   /\ f.tag.iv = f.iv /\ f.tag.aad = f.aad /\ f.tag.data = <<src>>
                   /\ mode # "ccm" => f.tag.m = 12
       PROVE  r.ok
  <2>1. f.iv # None
    BY <1>1, CipherAssumption DEF CipherAssumption
  <2>2. w.ok
    BY <1>8, <1>9, <1>18, <2>1
  <2>3. mode = "ccm" /\ w.k.len => w.k.aad # None
    BY <1>2, <1>8, <1>9, <1>18, <2>2
  <2>4. u.ok
    BY <1>8, <1>9, <1>10, <1>18, <2>1, <2>2, <2>3
  <2>5. mode # "plain" => u.k.tag = Tag(u.k)
    <3> HAVE mode # "plain"
    <3>1. u.k \in Context
      BY <1>10 DEF Run
    <3>2. f.tag \in Tags /\ Tag(u.k) \in Tags
      BY <1>1, <1>18, <3>1, TagIsTag
    <3>3. /\ Tag(u.k).iv = f.tag.iv /\ Tag(u.k).aad = f.tag.aad
          /\ Tag(u.k).data = f.tag.data /\ Tag(u.k).m = f.tag.m
      BY <1>13, <1>14, <1>15, <1>16, <1>18, <2>4, <3>1, TagIsTag
    <3>4. Tag(u.k) = f.tag
      BY <3>2, <3>3 DEF Tags
    <3> QED  BY <1>15, <1>18, <2>4, <3>4
  <2>6. ASSUME mode = "plain", ~v.k.pad, NEW i \in DOMAIN v.k.data
        PROVE  v.k.data[i] \notin Partial
    <3>1. i \in DOMAIN <<src>> /\ v.k.data[i] = src
      BY <1>11, <1>14, <2>4, <2>6
    <3> QED  BY <1>12, <1>18, <2>6, <3>1
  <2> QED
    BY <1>11, <1>12, <1>13, <1>18, <2>1, <2>4, <2>5, <2>6
<1>19. r = IF mode = "plain"
           THEN Final(Update(WithAad(ExpectTag(fail), fail, f.aad), fail, src), fail)
           ELSE Final(Verify(Update(WithAad(ExpectTag(fail), fail, f.aad), fail, src)), fail)
  BY <1>2, <1>3, <1>4, <1>5, <1>6, <1>7
<1>20. r.ok => /\ r.k.iv = f.iv /\ r.k.aad = f.aad /\ r.k.data = <<src>>
               /\ f.tag # None => r.k.tag = f.tag
               /\ mode # "plain" => r.k.tag = Tag(r.k)
  BY <1>11, <1>12, <1>13, <1>14, <1>15
<1> QED
  BY <1>12, <1>17, <1>18, <1>19, <1>20 DEF f

-----------------------------------------------------------------------------
(* The inductive invariant: the tag of the last message is that of what    *)
(* was sent, and only that tag is with the encrypter; a stream has in its  *)
(* context what the program passed, as long as the context has an IV; a    *)
(* decrypter that was given no tag has none.                               *)

MessageInv ==
    sent \in Message =>
        /\ sent.mac.iv = sent.iv /\ sent.mac.aad = sent.aad
        /\ sent.mac.data = sent.data
        /\ sent.mac.m = IF mode = "ccm" THEN sent.tagLen ELSE 12
        /\ sent.tag \in {None, sent.mac} /\ c["enc"].tag \in {None, sent.mac}
        /\ mode = "plain" /\ ~sent.pad =>
             \A i \in DOMAIN sent.data : sent.data[i] \notin Partial

ContextInv ==
    /\ \A e \in Ends :
         /\ mode # "ccm" => c[e].m = 12
         /\ mode = "stream" /\ c[e].iv # None =>
              /\ c[e].iv = fields[e].iv /\ c[e].aad = fields[e].aad
              /\ c[e].data = fields[e].data
    /\ mode # "stream" /\ fields["dec"].tag = None => c["dec"].tag = None

LastInv ==
    /\ last.match /\ last.clean => last.ok /\ last.exact
    /\ mode # "plain" /\ last.ok => last.genuine

CipherInv == CipherTypes /\ MessageInv /\ ContextInv /\ LastInv

LEMMA NoMessageIsNone ==
    /\ NoMessage \notin Message /\ NoMessage.tag = None
    /\ NoMessage.iv = None
BY CipherAssumption DEF NoMessage, Message, CipherAssumption

\* a step at one end: what the context k and the settings g must satisfy
LEMMA EndStep ==
    ASSUME CipherTypes, ContextInv,
           NEW e \in Ends, NEW k \in Context, NEW g \in Setting,
           mode' = mode, c' = [c EXCEPT ![e] = k],
           fields' = [fields EXCEPT ![e] = g],
           sent' \in Message \cup {NoMessage},
           Len(g.data) <= MaxPieces,
           mode # "ccm" => k.m = 12,
           mode = "stream" /\ k.iv # None =>
             k.iv = g.iv /\ k.aad = g.aad /\ k.data = g.data,
           e = "dec" /\ mode # "stream" /\ g.tag = None => k.tag = None
    PROVE  CipherTypes' /\ ContextInv'
<1>1. c \in [Ends -> Context] /\ fields \in [Ends -> Setting]
  BY DEF CipherTypes
<1>2. c' \in [Ends -> Context] /\ fields' \in [Ends -> Setting]
  BY <1>1
<1>3. c'[e] = k /\ fields'[e] = g
  BY <1>1
<1>4. \A d \in Ends \ {e} : c'[d] = c[d] /\ fields'[d] = fields[d]
  BY <1>1
<1>5. CipherTypes'
  BY <1>2, <1>3, <1>4 DEF CipherTypes
<1>6. ASSUME NEW d \in Ends
      PROVE  /\ mode' # "ccm" => c'[d].m = 12
             /\ mode' = "stream" /\ c'[d].iv # None =>
                  /\ c'[d].iv = fields'[d].iv /\ c'[d].aad = fields'[d].aad
                  /\ c'[d].data = fields'[d].data
  <2>1. CASE d = e
    BY <1>3, <2>1
  <2>2. CASE d # e
    <3>1. c'[d] = c[d] /\ fields'[d] = fields[d]
      BY <1>4, <2>2
    <3> QED  BY <3>1 DEF ContextInv
  <2> QED  BY <2>1, <2>2
<1>7. mode' # "stream" /\ fields'["dec"].tag = None => c'["dec"].tag = None
  <2>1. CASE e = "dec"
    BY <1>3, <2>1
  <2>2. CASE e # "dec"
    <3>1. c'["dec"] = c["dec"] /\ fields'["dec"] = fields["dec"]
      BY <1>4, <2>2 DEF Ends
    <3> QED  BY <3>1 DEF ContextInv
  <2> QED  BY <2>1, <2>2
<1>8. ContextInv'
  BY <1>6, <1>7 DEF ContextInv
<1> QED
  BY <1>5, <1>8

\* a step that leaves the message alone and gives the encrypter no new tag
LEMMA MessageStays ==
    ASSUME MessageInv, mode' = mode, sent' = sent,
           c'["enc"].tag \in {None, c["enc"].tag}
    PROVE  MessageInv'
BY DEF MessageInv, Message

LEMMA NothingDecrypted ==
    ASSUME NotDecrypted
    PROVE  LastInv'
BY DEF NotDecrypted, NoResult, LastInv

\* a step at one end, without a message or a decryption
LEMMA QuietStep ==
    ASSUME CipherInv, NotDecrypted,
           NEW e \in Ends, NEW k \in Context, NEW g \in Setting,
           mode' = mode, c' = [c EXCEPT ![e] = k],
           fields' = [fields EXCEPT ![e] = g],
           sent' = sent,
           Len(g.data) <= MaxPieces,
           mode # "ccm" => k.m = 12,
           mode = "stream" /\ k.iv # None =>
             k.iv = g.iv /\ k.aad = g.aad /\ k.data = g.data,
           e = "enc" => k.tag \in {None, c["enc"].tag},
           e = "dec" /\ mode # "stream" /\ g.tag = None => k.tag = None
    PROVE  CipherInv'
<1>1. sent' \in Message \cup {NoMessage}
  BY DEF CipherInv, CipherTypes
<1>2. CipherTypes' /\ ContextInv'
  BY <1>1, EndStep DEF CipherInv
<1>3. c'["enc"].tag \in {None, c["enc"].tag}
  <2>1. c \in [Ends -> Context] /\ "enc" \in Ends
    BY DEF CipherInv, CipherTypes, Ends
  <2>2. CASE e = "enc"
    BY <2>1, <2>2
  <2>3. CASE e # "enc"
    BY <2>1, <2>3
  <2> QED  BY <2>2, <2>3
<1>4. MessageInv'
  BY <1>3, MessageStays DEF CipherInv
<1>5. LastInv'
  BY NothingDecrypted
<1> QED
  BY <1>2, <1>4, <1>5 DEF CipherInv

\* what holds at an end before a step
LEMMA EndFacts ==
    ASSUME CipherInv, NEW e \in Ends
    PROVE  /\ c[e] \in Context /\ fields[e] \in Setting
           /\ c = [c EXCEPT ![e] = c[e]]
           /\ fields = [fields EXCEPT ![e] = fields[e]]
           /\ Len(fields[e].data) <= MaxPieces
           /\ mode # "ccm" => c[e].m = 12
           /\ mode = "stream" /\ c[e].iv # None =>
                /\ c[e].iv = fields[e].iv /\ c[e].aad = fields[e].aad
                /\ c[e].data = fields[e].data
           /\ mode # "stream" /\ fields["dec"].tag = None => c["dec"].tag = None
BY DEF CipherInv, CipherTypes, ContextInv

LEMMA SentTag ==
    ASSUME CipherInv, NEW tag,
           tag = Forged \/ (tag = sent.tag /\ tag # None)
    PROVE  tag \in Tags
<1>1. CASE tag = Forged
  BY <1>1, ForgedIsTag
<1>2. CASE tag = sent.tag /\ tag # None
  <2>1. sent \in Message
    BY <1>2, NoMessageIsNone DEF CipherInv, CipherTypes
  <2> QED  BY <1>2, <2>1 DEF Message
<1> QED  BY <1>1, <1>2

-----------------------------------------------------------------------------
(* One lemma per operation. *)

LEMMA SetAADStep ==
    ASSUME CipherInv, NEW e \in Ends, NEW aad \in Aads \cup {None}, SetAAD(e, aad)
    PROVE  CipherInv'
<1> DEFINE g == [fields[e] EXCEPT !.aad = aad]
<1>1. /\ mode # "stream" /\ mode' = mode /\ sent' = sent /\ NotDecrypted
      /\ c' = [c EXCEPT ![e] = c[e]]
  BY EndFacts DEF SetAAD, Sm4Aead
<1>2. g \in Setting /\ g.data = fields[e].data /\ g.tag = fields[e].tag
  BY EndFacts DEF Setting
<1>3. fields' = [fields EXCEPT ![e] = g]
  BY EndFacts DEF SetAAD
<1> HIDE DEF g
<1> QED
  BY <1>1, <1>2, <1>3, EndFacts, QuietStep

LEMMA SetTagLenStep ==
    ASSUME CipherInv, NEW n \in TagLens, SetTagLen(n)
    PROVE  CipherInv'
<1> DEFINE g == [fields["enc"] EXCEPT !.tagLen = n]
<1>0. "enc" \in Ends /\ "enc" # "dec"
  BY DEF Ends
<1>1. /\ mode # "stream" /\ mode' = mode /\ sent' = sent /\ NotDecrypted
      /\ c' = [c EXCEPT !["enc"] = c["enc"]]
  BY <1>0, EndFacts DEF SetTagLen
<1>2. g \in Setting /\ g.data = fields["enc"].data
  BY <1>0, EndFacts DEF Setting
<1>3. fields' = [fields EXCEPT !["enc"] = g]
  BY <1>0, EndFacts DEF SetTagLen
<1> HIDE DEF g
<1> QED
  BY <1>0, <1>1, <1>2, <1>3, EndFacts, QuietStep

LEMMA SetPaddingStep ==
    ASSUME CipherInv, NEW e \in Ends, NEW pad \in BOOLEAN, SetPadding(e, pad)
    PROVE  CipherInv'
<1> DEFINE k == [c[e] EXCEPT !.pad = pad]
<1>1. /\ mode # "stream" /\ mode' = mode /\ sent' = sent /\ NotDecrypted
      /\ fields' = [fields EXCEPT ![e] = fields[e]]
  BY EndFacts DEF SetPadding
<1>2. k \in Context /\ k.tag = c[e].tag /\ k.m = c[e].m
  BY EndFacts DEF Context
<1>3. c' = [c EXCEPT ![e] = k]
  BY EndFacts DEF SetPadding
<1> HIDE DEF k
<1>4. fields[e] \in Setting /\ Len(fields[e].data) <= MaxPieces
  BY EndFacts
<1>5. mode # "ccm" => k.m = 12
  BY <1>2, EndFacts
<1>6. e = "enc" => k.tag \in {None, c["enc"].tag}
  BY <1>2
<1>7. e = "dec" /\ mode # "stream" /\ fields[e].tag = None => k.tag = None
  BY <1>2, EndFacts
<1> QED
  BY <1>1, <1>2, <1>3, <1>4, <1>5, <1>6, <1>7, QuietStep

LEMMA SetTagStep ==
    ASSUME CipherInv, NEW tag, SetTag(tag)
    PROVE  CipherInv'
<1> DEFINE g == [fields["dec"] EXCEPT !.tag = tag]
<1>0. "dec" \in Ends /\ "enc" # "dec"
  BY DEF Ends
<1>1. /\ mode # "stream" /\ mode' = mode /\ sent' = sent /\ NotDecrypted
      /\ c' = [c EXCEPT !["dec"] = c["dec"]]
  BY <1>0, EndFacts DEF SetTag, Sm4Aead
<1>2. tag \in Tags /\ tag # None
  BY SentTag, CipherAssumption DEF SetTag, CipherAssumption
<1>3. g \in Setting /\ g.data = fields["dec"].data /\ g.tag = tag
  BY <1>0, <1>2, EndFacts DEF Setting
<1>4. fields' = [fields EXCEPT !["dec"] = g]
  BY <1>0, EndFacts DEF SetTag
<1> HIDE DEF g
<1> QED
  BY <1>0, <1>1, <1>2, <1>3, <1>4, EndFacts, QuietStep

LEMMA GetTagStep ==
    ASSUME CipherInv, GetTag
    PROVE  CipherInv'
<1>0. "enc" \in Ends /\ "enc" # "dec"
  BY DEF Ends
<1>1. sent \in Message /\ c["enc"].tag = sent.mac
  BY DEF GetTag, CipherInv, CipherTypes, MessageInv
<1>2. PICK tag \in {None, sent.mac} : tag = IF mode = "ccm" THEN None ELSE c["enc"].tag
  BY <1>1
<1> DEFINE k == [c["enc"] EXCEPT !.tag = tag]
           g == fields["enc"]
<1>3. /\ k \in Context /\ k.tag = tag /\ k.m = c["enc"].m /\ k.iv = c["enc"].iv
      /\ k.aad = c["enc"].aad /\ k.data = c["enc"].data
  BY <1>0, <1>1, <1>2, EndFacts DEF Context, Message
<1>4. /\ mode' = mode /\ NotDecrypted /\ c' = [c EXCEPT !["enc"] = k]
      /\ fields' = [fields EXCEPT !["enc"] = g]
  BY <1>0, <1>2, EndFacts DEF GetTag
<1>5. sent' = [sent EXCEPT !.tag = sent.mac]
  BY <1>1 DEF GetTag
<1>6. /\ sent' \in Message /\ sent'.tag = sent.mac /\ sent'.mac = sent.mac
      /\ sent'.iv = sent.iv /\ sent'.aad = sent.aad /\ sent'.data = sent.data
      /\ sent'.tagLen = sent.tagLen /\ sent'.pad = sent.pad
  BY <1>1, <1>5 DEF Message
<1>7. g \in Setting
  BY <1>0, EndFacts
<1> HIDE DEF k
<1>8. CipherTypes' /\ ContextInv'
  <2>1. Len(g.data) <= MaxPieces
    BY <1>0, EndFacts
  <2>2. mode # "ccm" => k.m = 12
    BY <1>0, <1>3, EndFacts
  <2>3. mode = "stream" /\ k.iv # None =>
          k.iv = g.iv /\ k.aad = g.aad /\ k.data = g.data
    BY <1>0, <1>3, EndFacts
  <2> HIDE DEF g
  <2> QED
    BY <1>0, <1>3, <1>4, <1>6, <1>7, <2>1, <2>2, <2>3, EndStep DEF CipherInv
<1>9. c'["enc"].tag \in {None, sent.mac}
  <2>1. c'["enc"] = k
    BY <1>0, <1>4 DEF CipherInv, CipherTypes
  <2> QED  BY <1>2, <1>3, <2>1
<1>10. MessageInv'
  BY <1>1, <1>4, <1>6, <1>9 DEF MessageInv, CipherInv
<1> QED
  BY <1>4, <1>8, <1>10, NothingDecrypted DEF CipherInv

LEMMA CompletedFacts ==
    ASSUME NEW k \in Context, NEW f \in Setting, NEW data \in Seq(Srcs)
    PROVE  LET m == Completed(k, f, data) IN
           /\ m \in Message /\ m.iv = f.iv /\ m.aad = f.aad /\ m.data = data
           /\ m.pad = k.pad /\ m.mac = Tag(k) /\ m.tag = None /\ m.tagLen = f.tagLen
BY TagIsTag DEF Completed, Message, Context, Setting

LEMMA EncryptAllStep ==
    ASSUME CipherInv, NEW src \in Srcs, NEW fail, EncryptAll(src, fail)
    PROVE  CipherInv'
<1> DEFINE f == fields["enc"]
<1>0. "enc" \in Ends /\ "enc" # "dec"
  BY DEF Ends
<1>1. f \in Setting /\ Len(f.data) <= MaxPieces
  BY <1>0, EndFacts
<1>2. PICK r : r = Final(Update(WithAad(Prepare(fail), fail, f.aad), fail, src), fail)
  OBVIOUS
<1>3. /\ r \in Run
      /\ r.ok => /\ r.k.iv = f.iv /\ r.k.aad = f.aad /\ r.k.data = <<src>>
                 /\ r.k.m = IF mode = "ccm" THEN f.tagLen ELSE 12
                 /\ mode = "plain" /\ ~r.k.pad => src \notin Partial
  BY <1>2, EncryptFacts DEF CipherInv
<1>4. r.k \in Context
  BY <1>3 DEF Run
<1>5. /\ mode # "stream" /\ mode' = mode /\ NotDecrypted
      /\ fields' = [fields EXCEPT !["enc"] = f]
      /\ c' = [c EXCEPT !["enc"] = IF r.ok THEN Sealed(r.k) ELSE Idle(r.k)]
      /\ sent' = IF r.ok THEN Completed(r.k, f, <<src>>) ELSE NoMessage
  BY <1>0, <1>2, EndFacts DEF EncryptAll
<1> HIDE DEF f
<1>6. Idle(r.k).m = 12 /\ Sealed(r.k).m = r.k.m
  BY <1>4, TagIsTag DEF Idle, Sealed, Context
<1>7. CASE r.ok
  <2> DEFINE k == Sealed(r.k)
             m == Completed(r.k, f, <<src>>)
  <2>1. k \in Context /\ k.iv = None /\ k.tag = Tag(r.k)
    BY <1>4, IdleFacts
  <2>2. /\ m \in Message /\ m.iv = f.iv /\ m.aad = f.aad /\ m.data = <<src>>
        /\ m.pad = r.k.pad /\ m.mac = Tag(r.k) /\ m.tag = None /\ m.tagLen = f.tagLen
    <3>1. <<src>> \in Seq(Srcs)
      OBVIOUS
    <3> HIDE DEF m
    <3> QED  BY <1>1, <1>4, <3>1, CompletedFacts DEF m
  <2>3. sent' = m /\ c' = [c EXCEPT !["enc"] = k]
    BY <1>5, <1>7
  <2>4. mode # "ccm" => k.m = 12
    BY <1>3, <1>6, <1>7
  <2> HIDE DEF k, m
  <2>5. CipherTypes' /\ ContextInv'
    BY <1>0, <1>1, <1>5, <2>1, <2>2, <2>3, <2>4, EndStep, ZenonT(60) DEF CipherInv
  <2>6. c'["enc"].tag = m.mac
    BY <1>0, <2>1, <2>2, <2>3 DEF CipherInv, CipherTypes
  <2>7. /\ m.mac.iv = r.k.iv /\ m.mac.aad = r.k.aad /\ m.mac.data = r.k.data
        /\ m.mac.m = r.k.m
    BY <1>4, <2>2, TagIsTag
  <2>8. mode = "plain" /\ ~m.pad =>
          \A i \in DOMAIN m.data : m.data[i] \notin Partial
    BY <1>3, <1>7, <2>2
  <2>9. MessageInv'
    BY <1>3, <1>5, <1>7, <2>2, <2>3, <2>6, <2>7, <2>8 DEF MessageInv
  <2> QED
    BY <1>5, <2>5, <2>9, NothingDecrypted DEF CipherInv
<1>8. CASE ~r.ok
  <2> DEFINE k == Idle(r.k)
  <2>1. k \in Context /\ k.iv = None
    BY <1>4, IdleFacts
  <2>2. sent' = NoMessage /\ c' = [c EXCEPT !["enc"] = k]
    BY <1>5, <1>8
  <2>3. k.m = 12
    BY <1>6
  <2> HIDE DEF k
  <2>4. CipherTypes' /\ ContextInv'
    BY <1>0, <1>1, <1>5, <2>1, <2>2, <2>3, EndStep DEF CipherInv
  <2>5. MessageInv'
    BY <2>2, NoMessageIsNone DEF MessageInv
  <2> QED
    BY <1>5, <2>4, <2>5, NothingDecrypted DEF CipherInv
<1> QED
  BY <1>7, <1>8

\* a tag has the parts it is compared with
LEMMA GenuineTag ==
    ASSUME NEW tag \in Tags
    PROVE  tag = [iv |-> tag.iv, aad |-> tag.aad, data |-> tag.data, m |-> tag.m]
BY DEF Tags

LEMMA DecryptAllStep ==
    ASSUME CipherInv, NEW src \in Srcs, NEW fail, DecryptAll(src, fail)
    PROVE  CipherInv'
<1> DEFINE f == fields["dec"]
           s == Update(WithAad(ExpectTag(fail), fail, f.aad), fail, src)
           clean == fail = "none" /\ (mode = "ccm" /\ f.aad = None => ~c["dec"].len)
<1>0. "dec" \in Ends /\ "enc" \in Ends /\ "enc" # "dec"
  BY DEF Ends
<1>1. f \in Setting /\ Len(f.data) <= MaxPieces
  BY <1>0, EndFacts
<1>2. PICK r : r = IF mode = "plain" THEN Final(s, fail) ELSE Final(Verify(s), fail)
  OBVIOUS
<1>3. /\ r \in Run
      /\ f.tag = None => r.k.tag = c["dec"].tag
      /\ r.ok => /\ r.k.iv = f.iv /\ r.k.aad = f.aad /\ r.k.data = <<src>>
                 /\ f.tag # None => r.k.tag = f.tag
                 /\ mode # "plain" => r.k.tag = Tag(r.k)
      /\ /\ fail = "none"
         /\ mode = "ccm" /\ f.aad = None => ~c["dec"].len
         /\ mode = "plain" => r.k.pad \/ src \notin Partial
         /\ mode # "plain" =>
              /\ f.tag # None
              /\ f.tag.iv = f.iv /\ f.tag.aad = f.aad /\ f.tag.data = <<src>>
              /\ mode # "ccm" => f.tag.m = 12
         => r.ok
  BY <1>2, DecryptFacts DEF CipherInv
<1>4. r.k \in Context
  BY <1>3 DEF Run
<1>5. /\ mode # "stream" /\ mode' = mode /\ sent' = sent
      /\ fields' = [fields EXCEPT !["dec"] = f]
      /\ c' = [c EXCEPT !["dec"] = Idle(r.k)]
      /\ Decrypted(r, r.k, f.tag, <<src>>, clean)
  BY <1>0, <1>2, EndFacts DEF DecryptAll
<1> DEFINE k == Idle(r.k)
<1> HIDE DEF s
<1>6. /\ k \in Context /\ k.iv = None
      /\ k.tag = IF mode = "ccm" THEN None ELSE r.k.tag
  BY <1>4, IdleFacts
<1>7. k.m = 12
  BY <1>4 DEF Idle, Context
<1>8. f.tag = None => k.tag = None
  BY <1>0, <1>3, <1>5, <1>6, EndFacts
<1>9. sent' \in Message \cup {NoMessage}
  BY <1>5 DEF CipherInv, CipherTypes
<1>10. CipherTypes' /\ ContextInv'
  <2> HIDE DEF k, f, clean
  <2>1. c' = [c EXCEPT !["dec"] = k]
    BY <1>5 DEF k
  <2> QED
    BY <1>0, <1>1, <1>5, <1>6, <1>7, <1>8, <1>9, <2>1, EndStep DEF CipherInv
<1>11. c'["enc"] = c["enc"]
  BY <1>0, <1>5 DEF CipherInv, CipherTypes
<1>12. MessageInv'
  BY <1>5, <1>11, MessageStays DEF CipherInv
<1>13. /\ last'.ok = r.ok /\ last'.clean = clean
       /\ last'.exact = (r.ok /\ r.k.iv = sent.iv /\ <<src>> = sent.data)
       /\ last'.match = (/\ sent # NoMessage /\ <<src>> = sent.data
                         /\ f.iv = sent.iv /\ f.aad = sent.aad
                         /\ IF mode = "plain" THEN r.k.pad = sent.pad
                            ELSE f.tag = sent.mac)
       /\ last'.genuine = (mode # "plain" /\ f.tag # None /\
              f.tag = [iv |-> f.iv, aad |-> f.aad, data |-> <<src>>, m |-> f.tag.m])
  BY <1>5 DEF Decrypted
<1>14. ASSUME mode # "plain", r.ok
       PROVE  /\ f.tag # None
              /\ f.tag = [iv |-> f.iv, aad |-> f.aad, data |-> <<src>>, m |-> f.tag.m]
  <2>1. f.tag # None
    <3>1. ASSUME f.tag = None PROVE FALSE
      <4>1. r.k.tag = None
        BY <1>0, <1>3, <1>5, <3>1, EndFacts
      <4>2. Tag(r.k) # None
        BY <1>4, TagIsTag
      <4> QED  BY <1>3, <1>14, <4>1, <4>2
    <3> QED  BY <3>1
  <2>2. f.tag = Tag(r.k)
    BY <1>3, <1>14, <2>1
  <2>3. /\ f.tag \in Tags
        /\ f.tag.iv = f.iv /\ f.tag.aad = f.aad /\ f.tag.data = <<src>>
    BY <1>3, <1>4, <1>14, <2>2, TagIsTag
  <2> QED
    BY <2>1, <2>3, GenuineTag
<1>15. ASSUME last'.match, last'.clean
       PROVE  last'.ok /\ last'.exact
  <2>1. /\ sent \in Message /\ sent.data = <<src>>
        /\ sent.iv = f.iv /\ sent.aad = f.aad
        /\ IF mode = "plain" THEN r.k.pad = sent.pad ELSE f.tag = sent.mac
    BY <1>13, <1>15 DEF CipherInv, CipherTypes
  <2>2. clean
    BY <1>13, <1>15
  <2>3. mode = "plain" => r.k.pad \/ src \notin Partial
    <3>1. 1 \in DOMAIN <<src>> /\ <<src>>[1] = src
      OBVIOUS
    <3> QED  BY <2>1, <3>1 DEF CipherInv, MessageInv
  <2>4. mode # "plain" =>
          /\ f.tag # None
          /\ f.tag.iv = f.iv /\ f.tag.aad = f.aad /\ f.tag.data = <<src>>
          /\ mode # "ccm" => f.tag.m = 12
    <3> HAVE mode # "plain"
    <3>1. f.tag = sent.mac /\ f.tag \in Tags
      BY <2>1 DEF Message
    <3>2. f.tag # None
      BY <3>1, CipherAssumption DEF CipherAssumption
    <3>3. /\ sent.mac.iv = sent.iv /\ sent.mac.aad = sent.aad
          /\ sent.mac.data = sent.data
          /\ sent.mac.m = IF mode = "ccm" THEN sent.tagLen ELSE 12
      BY <2>1 DEF CipherInv, MessageInv
    <3> QED  BY <2>1, <3>1, <3>2, <3>3
  <2>5. r.ok
    BY <1>3, <2>2, <2>3, <2>4
  <2>6. r.k.iv = sent.iv
    BY <1>3, <2>1, <2>5
  <2> QED
    BY <1>13, <2>1, <2>5, <2>6
<1>16. LastInv'
  BY <1>5, <1>13, <1>14, <1>15 DEF LastInv
<1> QED
  BY <1>10, <1>12, <1>16 DEF CipherInv

-----------------------------------------------------------------------------
(* Streams. *)

LEMMA StreamStays ==
    ASSUME CipherInv, NotDecrypted, NEW e \in Ends, mode' = mode, sent' = sent,
           c' = [c EXCEPT ![e] = c[e]], fields' = fields
    PROVE  CipherInv'
<1>1. PICK k \in Context, g \in Setting : k = c[e] /\ g = fields[e]
  BY EndFacts
<1>2. c' = [c EXCEPT ![e] = k] /\ fields' = [fields EXCEPT ![e] = g]
  BY <1>1, EndFacts
<1>3. Len(g.data) <= MaxPieces /\ (mode # "ccm" => k.m = 12)
  BY <1>1, EndFacts
<1>4. mode = "stream" /\ k.iv # None =>
        k.iv = g.iv /\ k.aad = g.aad /\ k.data = g.data
  BY <1>1, EndFacts
<1>5. e = "enc" => k.tag \in {None, c["enc"].tag}
  BY <1>1
<1>6. e = "dec" /\ mode # "stream" /\ g.tag = None => k.tag = None
  BY <1>1, EndFacts
<1> QED
  BY <1>2, <1>3, <1>4, <1>5, <1>6, QuietStep, ZenonT(60)

\* a step of a stream, which leaves the tag to the program
LEMMA StreamStep ==
    ASSUME CipherInv, NotDecrypted, NEW e \in Ends, mode = "stream", mode' = mode,
           sent' = sent, NEW k \in Context, NEW g \in Setting,
           c' = [c EXCEPT ![e] = k], fields' = [fields EXCEPT ![e] = g],
           Len(g.data) <= MaxPieces, k.m = 12,
           k.iv # None => k.iv = g.iv /\ k.aad = g.aad /\ k.data = g.data,
           e = "dec" \/ k.tag = c[e].tag
    PROVE  CipherInv'
<1>1. e = "enc" => k.tag \in {None, c["enc"].tag}
  BY DEF Ends
<1> QED
  BY <1>1, QuietStep

LEMMA RestartStep ==
    ASSUME CipherInv, NEW e \in Ends, NEW iv \in Ivs, NEW fail, Restart(e, iv, fail)
    PROVE  CipherInv'
<1>1. PICK r : r = SetKeyAndIV(Start(e), fail, iv)
  OBVIOUS
<1>2. /\ Start(e) \in Run /\ Start(e).ok /\ Start(e).k = c[e] /\ c[e] \in Context
  BY StartIsRun DEF CipherInv
<1>3. PICK p \in Run : p = Start(e)
  BY <1>2
<1>4. /\ r \in Run
      /\ r.ok <=> p.ok /\ fail # "init"
      /\ r.ok => r.k = [p.k EXCEPT !.iv = iv, !.aad = None, !.data = <<>>,
                          !.m = IF mode = "ccm" THEN p.k.tagLen ELSE 12]
      /\ ~r.ok => r.k = p.k
  <2>1. r = SetKeyAndIV(p, fail, iv)
    BY <1>1, <1>3
  <2> QED
    BY <2>1, SetKeyAndIVFacts
<1>5. /\ mode = "stream" /\ mode' = mode /\ sent' = sent /\ NotDecrypted
      /\ c' = [c EXCEPT ![e] = r.k]
      /\ fields' = IF ~r.ok THEN fields
                   ELSE [fields EXCEPT ![e].iv = iv, ![e].aad = None, ![e].data = <<>>]
  BY <1>1 DEF Restart
<1>6. r.k \in Context /\ p.k = c[e]
  BY <1>2, <1>3, <1>4 DEF Run
<1>7. CASE r.ok
  <2> DEFINE g == [fields[e] EXCEPT !.iv = iv, !.aad = None, !.data = <<>>]
  <2>1. <<>> \in Seq(Srcs) /\ Len(<<>>) <= MaxPieces
    BY CipherAssumption DEF CipherAssumption
  <2>2. g \in Setting /\ g.iv = iv /\ g.aad = None /\ g.data = <<>>
    BY <2>1, EndFacts DEF Setting
  <2>3. fields' = [fields EXCEPT ![e] = g]
    BY <1>5, <1>7, EndFacts DEF Setting
  <2>4. PICK k \in Context : k = r.k
    BY <1>6
  <2>5. k = [p.k EXCEPT !.iv = iv, !.aad = None, !.data = <<>>, !.m = 12]
    BY <1>4, <1>5, <1>7, <2>4
  <2>6. /\ k.iv = iv /\ k.aad = None /\ k.data = <<>>
        /\ k.m = 12 /\ k.tag = c[e].tag
    BY <1>2, <1>6, <2>5 DEF Context
  <2>7. c' = [c EXCEPT ![e] = k]
    BY <1>5, <2>4
  <2> HIDE DEF g
  <2>8. PICK h \in Setting : h = g
    BY <2>1, <2>2, <2>3, <2>6, <2>7
  <2>9. /\ mode = "stream" /\ mode' = mode /\ sent' = sent /\ NotDecrypted
         /\ fields' = [fields EXCEPT ![e] = h]
    BY <1>5, <2>8, <2>3
  <2>10. Len(h.data) <= MaxPieces /\ k.m = 12 /\ k.tag = c[e].tag
    BY <2>8, <2>1, <2>2, <2>3, <2>6, <2>7
  <2>11. k.iv # None => k.iv = h.iv /\ k.aad = h.aad /\ k.data = h.data
    BY <2>8, <2>1, <2>2, <2>3, <2>6, <2>7
  <2> QED
    BY <2>8, <2>9, <2>10, <2>11, <2>7, StreamStep
<1>8. CASE ~r.ok
  <2>1. c' = [c EXCEPT ![e] = c[e]] /\ fields' = fields
    BY <1>4, <1>5, <1>6, <1>8
  <2> QED
    BY <1>5, <2>1, StreamStays
<1> QED
  BY <1>7, <1>8

LEMMA ExtraDataStep ==
    ASSUME CipherInv, NEW e \in Ends, NEW aad \in Aads, NEW fail,
           ExtraData(e, aad, fail)
    PROVE  CipherInv'
<1>1. PICK r : r = AddAad(Start(e), fail, aad)
  OBVIOUS
<1>2. /\ Start(e) \in Run /\ Start(e).ok /\ Start(e).k = c[e] /\ c[e] \in Context
  BY StartIsRun DEF CipherInv
<1>3. PICK p \in Run : p = Start(e)
  BY <1>2
<1>4. /\ r \in Run
      /\ r.ok <=> /\ p.ok /\ fail # "aad"
                  /\ p.k.iv # None /\ p.k.data = <<>>
                  /\ mode = "ccm" => p.k.len
      /\ r.ok => r.k = [p.k EXCEPT !.aad = aad]
      /\ ~r.ok => r.k = p.k
  <2>1. r = AddAad(p, fail, aad)
    BY <1>1, <1>3
  <2> QED
    BY <2>1, AddAadFacts
<1>5. /\ mode = "stream" /\ mode' = mode /\ sent' = sent /\ NotDecrypted
      /\ c' = [c EXCEPT ![e] = r.k]
      /\ fields' = IF r.ok THEN [fields EXCEPT ![e].aad = aad] ELSE fields
  BY <1>1 DEF ExtraData
<1>6. r.k \in Context /\ p.k = c[e]
  BY <1>2, <1>3, <1>4 DEF Run
<1>7. CASE r.ok
  <2> DEFINE g == [fields[e] EXCEPT !.aad = aad]
  <2>1. /\ g \in Setting /\ g.iv = fields[e].iv /\ g.aad = aad
        /\ g.data = fields[e].data
    BY EndFacts DEF Setting
  <2>2. fields' = [fields EXCEPT ![e] = g]
    BY <1>5, <1>7, EndFacts
  <2>3. PICK k \in Context : k = r.k
    BY <1>6
  <2>4. /\ k.iv = c[e].iv /\ k.aad = aad /\ k.data = c[e].data
        /\ k.m = c[e].m /\ k.tag = c[e].tag
    BY <1>2, <1>4, <1>6, <1>7, <2>3 DEF Context
  <2>5. c' = [c EXCEPT ![e] = k]
    BY <1>5, <2>3
  <2> HIDE DEF g
  <2>6. k.m = 12 /\ Len(g.data) <= MaxPieces
    BY <1>5, <2>1, <2>4, EndFacts
  <2>7. k.iv # None => k.iv = g.iv /\ k.aad = g.aad /\ k.data = g.data
    BY <1>5, <2>1, <2>4, EndFacts
  <2>8. PICK h \in Setting : h = g
    BY <2>1, <2>2, <2>4, <2>5, <2>6, <2>7
  <2>9. /\ mode = "stream" /\ mode' = mode /\ sent' = sent /\ NotDecrypted
         /\ fields' = [fields EXCEPT ![e] = h]
    BY <1>5, <2>8, <2>2
  <2>10. Len(h.data) <= MaxPieces /\ k.m = 12 /\ k.tag = c[e].tag
    BY <2>8, <2>1, <2>2, <2>4, <2>5, <2>6, <2>7
  <2>11. k.iv # None => k.iv = h.iv /\ k.aad = h.aad /\ k.data = h.data
    BY <2>8, <2>1, <2>2, <2>4, <2>5, <2>6, <2>7
  <2> QED
    BY <2>8, <2>9, <2>10, <2>11, <2>5, StreamStep
<1>8. CASE ~r.ok
  <2>1. c' = [c EXCEPT ![e] = c[e]] /\ fields' = fields
    BY <1>4, <1>5, <1>6, <1>8
  <2> QED
    BY <1>5, <2>1, StreamStays
<1> QED
  BY <1>7, <1>8

LEMMA PassStep ==
    ASSUME CipherInv, NEW e \in Ends, NEW piece \in Srcs, NEW fail,
           Pass(e, piece, fail)
    PROVE  CipherInv'
<1>1. PICK r : r = Update(Start(e), fail, piece)
  OBVIOUS
<1>2. /\ Start(e) \in Run /\ Start(e).ok /\ Start(e).k = c[e] /\ c[e] \in Context
  BY StartIsRun DEF CipherInv
<1>3. PICK p \in Run : p = Start(e)
  BY <1>2
<1>4. /\ r \in Run
      /\ r.ok <=> /\ p.ok /\ fail # "update"
                  /\ p.k.iv # None
                  /\ mode = "ccm" =>
                       p.k.data = <<>> /\ (p.k.len => p.k.aad # None)
      /\ r.ok => r.k = [p.k EXCEPT !.data = Append(@, piece), !.len = FALSE]
      /\ ~r.ok => r.k = p.k
  <2>1. r = Update(p, fail, piece)
    BY <1>1, <1>3
  <2> QED
    BY <2>1, UpdateFacts, ZenonT(60)
<1>5. /\ mode = "stream" /\ mode' = mode /\ sent' = sent /\ NotDecrypted
      /\ Len(fields[e].data) < MaxPieces
      /\ c' = [c EXCEPT ![e] = r.k]
      /\ fields' = IF r.ok THEN [fields EXCEPT ![e].data = Append(@, piece)] ELSE fields
  BY <1>1 DEF Pass
<1>6. r.k \in Context /\ p.k = c[e]
  BY <1>2, <1>3, <1>4 DEF Run
<1>7. CASE r.ok
  <2> DEFINE d == Append(fields[e].data, piece)
             g == [fields[e] EXCEPT !.data = d]
  <2>1. fields[e].data \in Seq(Srcs)
    BY EndFacts DEF Setting
  <2>2. d \in Seq(Srcs) /\ Len(d) = Len(fields[e].data) + 1
    BY <2>1
  <2>3. Len(d) <= MaxPieces
    BY <1>5, <2>1, <2>2, CipherAssumption DEF CipherAssumption
  <2>4. fields' = [fields EXCEPT ![e] = g]
    BY <1>5, <1>7, EndFacts DEF Setting
  <2>5. PICK k \in Context : k = r.k
    BY <1>6
  <2>6. k = [c[e] EXCEPT !.data = Append(@, piece), !.len = FALSE]
    BY <1>4, <1>6, <1>7, <2>5
  <2>7. /\ k.iv = c[e].iv /\ k.aad = c[e].aad /\ k.m = c[e].m
        /\ k.data = Append(c[e].data, piece) /\ k.tag = c[e].tag
    BY <1>2, <2>6 DEF Context
  <2>8. k.iv # None => k.data = d
    BY <1>5, <2>7, EndFacts
  <2> HIDE DEF d
  <2>9. /\ g \in Setting /\ g.iv = fields[e].iv /\ g.aad = fields[e].aad
        /\ g.data = d
    BY <2>2, EndFacts DEF Setting
  <2> HIDE DEF g
  <2>10. c' = [c EXCEPT ![e] = k] /\ k.m = 12
    BY <1>5, <2>5, <2>7, EndFacts
  <2>11. k.iv # None => k.iv = g.iv /\ k.aad = g.aad /\ k.data = g.data
    BY <1>5, <2>7, <2>8, <2>9, EndFacts
  <2>12. PICK h \in Setting : h = g
    BY <2>3, <2>4, <2>7, <2>9, <2>10, <2>11
  <2>13. /\ mode = "stream" /\ mode' = mode /\ sent' = sent /\ NotDecrypted
         /\ fields' = [fields EXCEPT ![e] = h]
    BY <1>5, <2>12, <2>4
  <2>14. Len(h.data) <= MaxPieces /\ k.m = 12 /\ k.tag = c[e].tag
    BY <2>12, <2>3, <2>4, <2>7, <2>9, <2>10, <2>11
  <2>15. k.iv # None => k.iv = h.iv /\ k.aad = h.aad /\ k.data = h.data
    BY <2>12, <2>3, <2>4, <2>7, <2>9, <2>10, <2>11
  <2> QED
    BY <2>12, <2>13, <2>14, <2>15, <2>10, StreamStep
<1>8. CASE ~r.ok
  <2>1. c' = [c EXCEPT ![e] = c[e]] /\ fields' = fields
    BY <1>4, <1>5, <1>6, <1>8
  <2> QED
    BY <1>5, <2>1, StreamStays
<1> QED
  BY <1>7, <1>8

LEMMA EncryptFinalStep ==
    ASSUME CipherInv, NEW fail, EncryptFinal(fail)
    PROVE  CipherInv'
<1> DEFINE f == fields["enc"]
<1>0. "enc" \in Ends /\ "enc" # "dec"
  BY DEF Ends
<1>1. PICK r : r = Final(Start("enc"), fail)
  OBVIOUS
<1>2. /\ Start("enc") \in Run /\ Start("enc").k = c["enc"] /\ c["enc"] \in Context
  BY <1>0, StartIsRun DEF CipherInv
<1>3. /\ r \in Run /\ r.k = c["enc"] /\ (r.ok => r.k.iv # None)
  BY <1>1, <1>2, FinalFacts
<1>4. /\ mode = "stream" /\ mode' = mode /\ NotDecrypted
      /\ fields' = [fields EXCEPT !["enc"] = f]
      /\ c' = [c EXCEPT !["enc"] = IF r.ok THEN Sealed(r.k) ELSE r.k]
      /\ sent' = IF r.ok THEN Completed(r.k, f, f.data) ELSE sent
  BY <1>0, <1>1, EndFacts DEF EncryptFinal
<1>5. /\ f \in Setting /\ Len(f.data) <= MaxPieces /\ f.data \in Seq(Srcs)
  BY <1>0, EndFacts DEF Setting
<1>6. r.ok => /\ r.k.iv = f.iv /\ r.k.aad = f.aad /\ r.k.data = f.data
  BY <1>0, <1>3, <1>4, EndFacts
<1>7. r.k.m = 12 /\ r.k \in Context
  BY <1>0, <1>2, <1>3, <1>4, EndFacts
<1>8. Sealed(r.k).m = r.k.m
  BY <1>7, TagIsTag DEF Idle, Sealed, Context
<1>9. CASE r.ok
  <2> DEFINE k == Sealed(r.k)
             m == Completed(r.k, f, f.data)
  <2>1. k \in Context /\ k.iv = None /\ k.tag = Tag(r.k)
    BY <1>7, IdleFacts
  <2>2. /\ m \in Message /\ m.iv = f.iv /\ m.aad = f.aad /\ m.data = f.data
        /\ m.pad = r.k.pad /\ m.mac = Tag(r.k) /\ m.tag = None /\ m.tagLen = f.tagLen
    <3> HIDE DEF f, m
    <3> QED  BY <1>5, <1>7, CompletedFacts DEF m
  <2>3. sent' = m /\ c' = [c EXCEPT !["enc"] = k]
    BY <1>4, <1>9
  <2>4. k.m = 12
    BY <1>7, <1>8
  <2> HIDE DEF k, m, f
  <2>5. CipherTypes' /\ ContextInv'
    BY <1>0, <1>4, <1>5, <2>1, <2>2, <2>3, <2>4, EndStep, ZenonT(60) DEF CipherInv
  <2>6. c'["enc"].tag = m.mac
    BY <1>0, <2>1, <2>2, <2>3 DEF CipherInv, CipherTypes
  <2>7. /\ m.mac.iv = r.k.iv /\ m.mac.aad = r.k.aad /\ m.mac.data = r.k.data
        /\ m.mac.m = r.k.m
    BY <1>7, <2>2, TagIsTag
  <2>8. MessageInv'
    BY <1>4, <1>6, <1>7, <1>9, <2>2, <2>3, <2>6, <2>7 DEF MessageInv
  <2> QED
    BY <1>4, <2>5, <2>8, NothingDecrypted DEF CipherInv
<1>10. CASE ~r.ok
  <2>1. c' = [c EXCEPT !["enc"] = c["enc"]] /\ sent' = sent
    BY <1>3, <1>4, <1>10
  <2>2. fields' = fields
    BY <1>0, <1>4, EndFacts
  <2> HIDE DEF f
  <2> QED
    BY <1>0, <1>4, <2>1, <2>2, StreamStays
<1> QED
  BY <1>9, <1>10

LEMMA SetStreamTagStep ==
    ASSUME CipherInv, NEW tag, NEW fail, SetStreamTag(tag, fail)
    PROVE  CipherInv'
<1>0. "dec" \in Ends /\ "enc" # "dec"
  BY DEF Ends
<1>1. tag \in Tags
  BY SentTag DEF SetStreamTag
<1>2. PICK r : r = CtrlTag(Start("dec"), fail, tag)
  OBVIOUS
<1>3. /\ Start("dec") \in Run /\ Start("dec").k = c["dec"] /\ c["dec"] \in Context
  BY <1>0, StartIsRun DEF CipherInv
<1>4. PICK p \in Run : p = Start("dec")
  BY <1>3
<1>5. /\ r \in Run
      /\ r.ok <=> p.ok /\ fail # "ctrl"
      /\ r.ok => r.k = [p.k EXCEPT !.tag = tag, !.tagLen = tag.m]
      /\ ~r.ok => r.k = p.k
  BY <1>1, <1>2, <1>4, CtrlTagFacts, ZenonT(60)
<1>6. /\ r.k \in Context /\ p.k = c["dec"]
  BY <1>3, <1>4, <1>5 DEF Run
<1>7. /\ r.k.iv = c["dec"].iv /\ r.k.aad = c["dec"].aad
      /\ r.k.data = c["dec"].data /\ r.k.m = c["dec"].m
  BY <1>3, <1>5, <1>6, ZenonT(60) DEF Context
<1>8. /\ mode = "stream" /\ mode' = mode /\ sent' = sent /\ NotDecrypted
      /\ c' = [c EXCEPT !["dec"] = r.k]
      /\ fields' = [fields EXCEPT !["dec"] = fields["dec"]]
  BY <1>0, <1>2, EndFacts DEF SetStreamTag
<1>9. PICK k \in Context, g \in Setting : k = r.k /\ g = fields["dec"]
  BY <1>0, <1>6, EndFacts
<1>10. Len(g.data) <= MaxPieces /\ k.m = 12
  BY <1>0, <1>7, <1>8, <1>9, EndFacts
<1>11. k.iv # None => k.iv = g.iv /\ k.aad = g.aad /\ k.data = g.data
  BY <1>0, <1>7, <1>8, <1>9, EndFacts
<1>12. c' = [c EXCEPT !["dec"] = k] /\ fields' = [fields EXCEPT !["dec"] = g]
  BY <1>8, <1>9
<1> QED
  BY <1>0, <1>8, <1>10, <1>11, <1>12, StreamStep

LEMMA DecryptFinalStep ==
    ASSUME CipherInv, NEW fail, DecryptFinal(fail)
    PROVE  CipherInv'
<1> DEFINE f == fields["dec"]
           clean == fail = "none" /\ c["dec"].iv # None
<1>0. "dec" \in Ends /\ "enc" \in Ends /\ "enc" # "dec"
  BY DEF Ends
<1>1. /\ f \in Setting /\ Len(f.data) <= MaxPieces
  BY <1>0, EndFacts
<1>2. PICK p \in Run : p = Start("dec") /\ p.ok /\ p.k = c["dec"]
  BY <1>0, StartIsRun DEF CipherInv
<1>3. PICK q : q = Final(p, fail)
  OBVIOUS
<1>4. PICK r : r = Verify(q)
  OBVIOUS
<1>5. /\ mode = "stream" /\ mode' = mode /\ sent' = sent
      /\ fields' = [fields EXCEPT !["dec"] = f]
      /\ c' = [c EXCEPT !["dec"] = IF r.ok THEN Idle(r.k) ELSE r.k]
      /\ Decrypted(r, r.k, r.k.tag, f.data, clean)
  BY <1>0, <1>2, <1>3, <1>4, EndFacts DEF DecryptFinal
<1>6. /\ q \in Run /\ q.k = p.k
      /\ q.ok <=> p.ok /\ fail # "final" /\ p.k.iv # None
  BY <1>3, <1>5, FinalFacts
<1>7. /\ r \in Run /\ r.k = c["dec"]
      /\ r.ok <=> /\ fail # "final" /\ c["dec"].iv # None
                  /\ c["dec"].tag = Tag(c["dec"])
  BY <1>2, <1>4, <1>6, VerifyFacts
<1>8. r.k \in Context /\ r.k.m = 12
  BY <1>0, <1>5, <1>7, EndFacts
<1>9. r.k.iv # None => r.k.iv = f.iv /\ r.k.aad = f.aad /\ r.k.data = f.data
  BY <1>0, <1>5, <1>7, EndFacts
<1>10. sent' \in Message \cup {NoMessage}
  BY <1>5 DEF CipherInv, CipherTypes
<1>11. CipherTypes' /\ ContextInv'
  <2> HIDE DEF f, clean
  <2>1. CASE r.ok
    <3> DEFINE k == Idle(r.k)
    <3>1. k \in Context /\ k.iv = None /\ k.m = 12
      BY <1>8, IdleFacts DEF Idle, Context
    <3>2. c' = [c EXCEPT !["dec"] = k]
      BY <1>5, <2>1
    <3> HIDE DEF k
    <3> QED
      BY <1>0, <1>1, <1>5, <1>10, <3>1, <3>2, EndStep DEF CipherInv
  <2>2. CASE ~r.ok
    <3>1. c' = [c EXCEPT !["dec"] = r.k]
      BY <1>5, <2>2
    <3> QED
      BY <1>0, <1>1, <1>5, <1>8, <1>9, <1>10, <3>1, EndStep DEF CipherInv
  <2> QED  BY <2>1, <2>2
<1>12. c'["enc"] = c["enc"]
  BY <1>0, <1>5 DEF CipherInv, CipherTypes
<1>13. MessageInv'
  BY <1>5, <1>12, MessageStays DEF CipherInv
<1>14. /\ last'.ok = r.ok /\ last'.clean = clean
       /\ last'.exact = (r.ok /\ r.k.iv = sent.iv /\ f.data = sent.data)
       /\ last'.match = (/\ sent # NoMessage /\ f.data = sent.data
                         /\ f.iv = sent.iv /\ f.aad = sent.aad
                         /\ IF mode = "plain" THEN r.k.pad = sent.pad
                            ELSE r.k.tag = sent.mac)
       /\ last'.genuine = (mode # "plain" /\ r.k.tag # None /\
              r.k.tag = [iv |-> f.iv, aad |-> f.aad, data |-> f.data, m |-> r.k.tag.m])
  BY <1>5 DEF Decrypted
<1>15. ASSUME r.ok
       PROVE  /\ r.k.tag # None
              /\ r.k.tag = [iv |-> f.iv, aad |-> f.aad, data |-> f.data, m |-> r.k.tag.m]
  <2>1. r.k.tag = Tag(r.k) /\ r.k.iv # None
    BY <1>7, <1>15
  <2>2. /\ r.k.tag \in Tags /\ r.k.tag # None
        /\ r.k.tag.iv = f.iv /\ r.k.tag.aad = f.aad /\ r.k.tag.data = f.data
    BY <1>8, <1>9, <2>1, TagIsTag
  <2> QED
    BY <2>2, GenuineTag
<1>16. ASSUME last'.match, last'.clean
       PROVE  last'.ok /\ last'.exact
  <2>1. /\ sent \in Message /\ sent.data = f.data
        /\ sent.iv = f.iv /\ sent.aad = f.aad /\ r.k.tag = sent.mac
    BY <1>5, <1>14, <1>16 DEF CipherInv, CipherTypes
  <2>2. fail = "none" /\ r.k.iv # None
    BY <1>7, <1>14, <1>16
  <2>3. /\ sent.mac.iv = sent.iv /\ sent.mac.aad = sent.aad
        /\ sent.mac.data = sent.data /\ sent.mac.m = 12 /\ sent.mac \in Tags
    BY <1>5, <2>1 DEF CipherInv, MessageInv, Message
  <2>4. /\ Tag(r.k) \in Tags
        /\ Tag(r.k).iv = sent.mac.iv /\ Tag(r.k).aad = sent.mac.aad
        /\ Tag(r.k).data = sent.mac.data /\ Tag(r.k).m = sent.mac.m
    BY <1>8, <1>9, <2>1, <2>2, <2>3, TagIsTag
  <2>5. Tag(r.k) = sent.mac
    BY <2>3, <2>4 DEF Tags
  <2>6. r.ok
    BY <1>7, <2>1, <2>2, <2>5
  <2> QED
    BY <1>9, <1>14, <2>1, <2>2, <2>6
<1>17. LastInv'
  BY <1>14, <1>15, <1>16, <1>5 DEF LastInv
<1> QED
  BY <1>11, <1>13, <1>17 DEF CipherInv

LEMMA CipherStep ==
    ASSUME CipherInv, [CipherNext]_cipherVars
    PROVE  CipherInv'
<1>1. CASE UNCHANGED cipherVars
  BY <1>1 DEF cipherVars, CipherInv, CipherTypes, MessageInv, ContextInv, LastInv
<1>2. ASSUME NEW e \in Ends, NEW aad \in Aads \cup {None}, SetAAD(e, aad)
      PROVE  CipherInv'
  BY <1>2, SetAADStep
<1>3. ASSUME NEW n \in TagLens, SetTagLen(n)
      PROVE  CipherInv'
  BY <1>3, SetTagLenStep
<1>4. ASSUME NEW e \in Ends, NEW pad \in BOOLEAN, SetPadding(e, pad)
      PROVE  CipherInv'
  BY <1>4, SetPaddingStep
<1>5. ASSUME NEW tag, SetTag(tag)
      PROVE  CipherInv'
  BY <1>5, SetTagStep
<1>6. CASE GetTag
  BY <1>6, GetTagStep
<1>7. ASSUME NEW src \in Srcs, NEW fail, EncryptAll(src, fail)
      PROVE  CipherInv'
  BY <1>7, EncryptAllStep
<1>8. ASSUME NEW src \in Srcs, NEW fail, DecryptAll(src, fail)
      PROVE  CipherInv'
  BY <1>8, DecryptAllStep
<1>9. ASSUME NEW e \in Ends, NEW iv \in Ivs, NEW fail, Restart(e, iv, fail)
      PROVE  CipherInv'
  BY <1>9, RestartStep
<1>10. ASSUME NEW e \in Ends, NEW aad \in Aads, NEW fail, ExtraData(e, aad, fail)
       PROVE  CipherInv'
  BY <1>10, ExtraDataStep
<1>11. ASSUME NEW e \in Ends, NEW piece \in Srcs, NEW fail, Pass(e, piece, fail)
       PROVE  CipherInv'
  BY <1>11, PassStep
<1>12. ASSUME NEW fail, EncryptFinal(fail)
       PROVE  CipherInv'
  BY <1>12, EncryptFinalStep
<1>13. ASSUME NEW fail, DecryptFinal(fail)
       PROVE  CipherInv'
  BY <1>13, DecryptFinalStep
<1>14. ASSUME NEW tag, NEW fail, SetStreamTag(tag, fail)
       PROVE  CipherInv'
  BY <1>14, SetStreamTagStep
<1> QED
  BY <1>1, <1>2, <1>3, <1>4, <1>5, <1>6, <1>7, <1>8, <1>9, <1>10, <1>11,
     <1>12, <1>13, <1>14 DEF CipherNext

LEMMA CipherInit == InitCipher => CipherInv
<1> SUFFICES ASSUME InitCipher PROVE CipherInv
  OBVIOUS
<1>0. "enc" \in Ends /\ "dec" \in Ends
  BY DEF Ends
<1>1. <<>> \in Seq(Srcs) /\ Len(<<>>) <= MaxPieces /\ 12 \in TagLens /\ 16 \in TagLens
  BY CipherAssumption DEF CipherAssumption, TagLens
<1>2. mode \in {"plain", "ccm", "gcm", "stream"} /\ sent = NoMessage /\ last = NoResult
  BY DEF InitCipher
<1>3. PICK ivs \in [Ends -> Ivs] :
        /\ c = [e \in Ends |->
                 [iv |-> IF mode = "stream" THEN ivs[e] ELSE None, aad |-> None,
                  data |-> <<>>, tag |-> None, tagLen |-> 12, m |-> 12,
                  len |-> FALSE, pad |-> TRUE]]
        /\ fields = [e \in Ends |->
                 [iv |-> ivs[e], aad |-> None, data |-> <<>>, tag |-> None,
                  tagLen |-> IF mode = "ccm" THEN 12 ELSE 16]]
  BY DEF InitCipher
<1>4. ASSUME NEW e \in Ends
      PROVE  /\ c[e] \in Context /\ fields[e] \in Setting
             /\ c[e].m = 12 /\ c[e].tag = None
             /\ fields[e].data = <<>>
             /\ mode = "stream" =>
                  /\ c[e].iv = fields[e].iv /\ c[e].aad = fields[e].aad
                  /\ c[e].data = fields[e].data
  <2>1. PICK iv \in Ivs \cup {None}, i \in Ivs, n \in TagLens :
          /\ iv = IF mode = "stream" THEN ivs[e] ELSE None
          /\ i = ivs[e] /\ n = IF mode = "ccm" THEN 12 ELSE 16
    BY <1>1
  <2>2. c[e] = [iv |-> iv, aad |-> None, data |-> <<>>, tag |-> None,
                tagLen |-> 12, m |-> 12, len |-> FALSE, pad |-> TRUE]
    BY <1>3, <2>1
  <2>3. fields[e] = [iv |-> i, aad |-> None, data |-> <<>>, tag |-> None, tagLen |-> n]
    BY <1>3, <2>1
  <2>4. c[e] \in Context
    BY <1>1, <2>2 DEF Context
  <2>5. fields[e] \in Setting
    BY <1>1, <2>3 DEF Setting
  <2> QED
    BY <2>1, <2>2, <2>3, <2>4, <2>5
<1>5. c \in [Ends -> Context] /\ fields \in [Ends -> Setting]
  <2>1. /\ c = [e \in Ends |-> c[e]] /\ fields = [e \in Ends |-> fields[e]]
    BY <1>3
  <2> QED  BY <1>4, <2>1
<1>6. CipherTypes
  BY <1>1, <1>2, <1>4, <1>5 DEF CipherTypes
<1>7. MessageInv
  BY <1>2, NoMessageIsNone DEF MessageInv
<1>8. ContextInv
  BY <1>0, <1>4 DEF ContextInv
<1>9. LastInv
  BY <1>2 DEF LastInv, NoResult
<1> QED
  BY <1>6, <1>7, <1>8, <1>9 DEF CipherInv

LEMMA CipherInvariant == Spec => []CipherInv
<1>1. Init => CipherInv
  BY CipherInit DEF Init
<1>2. ASSUME CipherInv, [Next]_<<digestVars, cipherVars, uses>>
      PROVE  CipherInv'
  <2>1. [CipherNext]_cipherVars
    BY <1>2 DEF Next
  <2> QED  BY <1>2, <2>1, CipherStep
<1> QED  BY <1>1, <1>2, PTL DEF Spec

(* Whatever was done before on the two contexts, for messages of any       *)
(* length: a decryption with what the message was sent with gives it back, *)
(* and an authenticated mode returns only what has the tag                 *)
(* (sm4.go, ciphers.go, ciphers_gcm.go).                                   *)
THEOREM CiphersRoundTrip == Spec => []RoundTrip
<1>1. CipherInv => RoundTrip
  <2> SUFFICES ASSUME CipherInv PROVE RoundTrip
    OBVIOUS
  <2>1. mode = "ccm" /\ sent # NoMessage => sent.mac.m = sent.tagLen
    BY DEF CipherInv, CipherTypes, MessageInv
  <2> QED
    BY <2>1 DEF CipherInv, LastInv, RoundTrip
<1> QED  BY <1>1, CipherInvariant, PTL

OneUse == uses \in {"digest", "cipher"}

(* The types of a digest object and of the two contexts of a cipher.       *)
THEOREM CryptoTypes == Spec => []TypeOK
<1>1. CipherInv => CipherTypeOK
  <2> SUFFICES ASSUME CipherInv PROVE CipherTypeOK
    OBVIOUS
  <2>1. ASSUME NEW e \in Ends
        PROVE  /\ c[e].iv \in Ivs \cup {None} /\ c[e].aad \in Aads \cup {None}
               /\ c[e].data \in Seq(Srcs)
               /\ c[e].tagLen \in TagLens /\ c[e].m \in TagLens
               /\ c[e].len \in BOOLEAN /\ c[e].pad \in BOOLEAN
               /\ fields[e].tagLen \in TagLens /\ fields[e].data \in Seq(Srcs)
               /\ Len(fields[e].data) <= MaxPieces
    BY EndFacts DEF Context, Setting
  <2>2. sent.tag \in {None, sent.mac}
    BY NoMessageIsNone DEF CipherInv, CipherTypes, MessageInv
  <2>3. mode \in {"plain", "ccm", "gcm", "stream"}
    BY DEF CipherInv, CipherTypes
  <2> QED
    BY <2>1, <2>2, <2>3 DEF CipherTypeOK, Contexts
<1>2. Spec => []OneUse
  <2>1. Init => OneUse
    BY DEF Init, OneUse
  <2>2. ASSUME OneUse, [Next]_<<digestVars, cipherVars, uses>>
        PROVE  OneUse'
    BY <2>2 DEF Next, OneUse
  <2> QED  BY <2>1, <2>2, PTL DEF Spec
<1>3. DigestInv => DigestTypeOK
  BY DEF DigestInv
<1>4. OneUse /\ DigestTypeOK /\ CipherTypeOK => TypeOK
  BY DEF TypeOK, OneUse
<1> QED  BY <1>1, <1>2, <1>3, <1>4, DigestInvariant, CipherInvariant, PTL
=============================================================================
