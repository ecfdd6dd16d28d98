-------------------------- MODULE ConnOutputProofs --------------------------
(***************************************************************************)
(* Data in Conn, as general as ConnProofs: what the library wrote reaches  *)
(* the wire, all of it before a Write or a Close says so, and Read says    *)
(* io.EOF only when all that the peer sent was read.                       *)
(***************************************************************************)
EXTENDS ConnProofs

(***************************************************************************)
(* Nothing is lost, repeated or reordered on its way to the wire.          *)
(***************************************************************************)
\* A step that neither produces nor flushes, or that produces one item,
\* keeps the three in agreement.
LEMMA WireFrame ==
  ASSUME TypeInv, WireIsFaithful, UNCHANGED <<wire, flight>>,
         UNCHANGED <<fromSSL, appended>> \/ \E item \in OutItem : Emit(item)
  PROVE  WireIsFaithful'
<1>1. /\ fromSSL \in Seq(OutItem) /\ wire \in Seq(OutItem)
      /\ appended \in Seq(OutItem)
      /\ Len(fromSSL) \in Nat /\ flight.n \in Nat /\ flight.n <= Len(fromSSL)
  BY DEF TypeInv, TypeOK, FlushInv
<1>2. CASE UNCHANGED <<fromSSL, appended>>
  BY <1>2 DEF WireIsFaithful
<1>3. ASSUME NEW item \in OutItem, Emit(item)
      PROVE  WireIsFaithful'
  <2>1. /\ fromSSL' = Append(fromSSL, item)
        /\ appended' = Append(appended, item)
        /\ wire' = wire /\ flight' = flight
    BY <1>3 DEF Emit
  <2>2. SubSeq(Append(fromSSL, item), flight.n + 1, Len(fromSSL) + 1) =
          Append(SubSeq(fromSSL, flight.n + 1, Len(fromSSL)), item)
    <3> DEFINE pre == SubSeq(fromSSL, 1, flight.n)
               suf == SubSeq(fromSSL, flight.n + 1, Len(fromSSL))
               all == Append(fromSSL, item)
               tail == Append(suf, item)
    <3>1. /\ flight.n \in (1 - 1)..Len(fromSSL)
          /\ Len(fromSSL) \in flight.n..Len(fromSSL)
          /\ 1 \in 1..(Len(fromSSL) + 1)
      BY <1>1
    <3>2. fromSSL = pre \o suf
      BY <1>1, <3>1, ConcatAdjacentSubSeq, SubSeqFull
    <3>3. /\ pre \in Seq(OutItem) /\ Len(pre) = flight.n
          /\ suf \in Seq(OutItem) /\ Len(suf) = Len(fromSSL) - flight.n
      BY <1>1
    <3>4. /\ tail \in Seq(OutItem) /\ all \in Seq(OutItem)
          /\ Len(tail) = Len(fromSSL) - flight.n + 1
      BY <1>1, <3>3
    <3> HIDE DEF pre, suf
    <3>5. all = pre \o tail
      <4>1. <<item>> \in Seq(OutItem)
        OBVIOUS
      <4>2. all = fromSSL \o <<item>> /\ tail = suf \o <<item>>
        BY <1>1, <3>3, AppendIsConcat
      <4> QED BY <3>2, <3>3, <4>1, <4>2, ConcatAssociative
    <3> HIDE DEF tail
    <3>6. /\ flight.n + 1 \in (Len(pre) + 1)..(Len(pre) + Len(tail))
          /\ Len(fromSSL) + 1 \in (Len(pre) + 1)..(Len(pre) + Len(tail))
          /\ (flight.n + 1) - Len(pre) = 1
          /\ (Len(fromSSL) + 1) - Len(pre) = Len(tail)
      BY <1>1, <3>3, <3>4, SMTT(30)
    <3>7. SubSeq(pre \o tail, flight.n + 1, Len(fromSSL) + 1) =
            SubSeq(tail, (flight.n + 1) - Len(pre), (Len(fromSSL) + 1) - Len(pre))
      BY <3>3, <3>4, <3>6, SubSeqOfConcat2, ZenonT(60)
    <3>8. SubSeq(tail, 1, Len(tail)) = tail
      BY <3>4, SubSeqFull
    <3>9. SubSeq(all, flight.n + 1, Len(fromSSL) + 1) = tail
      BY <3>5, <3>6, <3>7, <3>8
    <3> QED BY <3>9 DEF tail, suf
  <2>3. Len(fromSSL') = Len(fromSSL) + 1
    BY <1>1, <2>1
  <2>4. SubSeq(fromSSL, flight.n + 1, Len(fromSSL)) \in Seq(OutItem)
    BY <1>1
  <2>5. ASSUME NEW s \in Seq(OutItem)
        PROVE  wire \o Append(s, item) = Append(wire \o s, item)
    <3>1. /\ wire \o s \in Seq(OutItem) /\ <<item>> \in Seq(OutItem)
          /\ wire \in Seq(OutItem)
      BY <1>1, ConcatProperties
    <3>2. /\ Append(s, item) = s \o <<item>>
          /\ Append(wire \o s, item) = (wire \o s) \o <<item>>
      BY <3>1, AppendIsConcat
    <3> QED BY <3>1, <3>2, ConcatAssociative
  <2> QED BY <2>1, <2>2, <2>3, <2>4, <2>5 DEF WireIsFaithful
<1> QED BY <1>2, <1>3

LEMMA WireStep ==
  ASSUME TypeInv, WireIsFaithful, [Next]_vars
  PROVE  WireIsFaithful'
<1>0. /\ fromSSL \in Seq(OutItem) /\ wire \in Seq(OutItem)
      /\ appended \in Seq(OutItem) /\ Len(fromSSL) \in Nat
      /\ flight \in [len : Nat, n : Nat, err : {"nil", "err"}]
      /\ flight.n \in Nat /\ flight.len \in Nat /\ flight.n <= flight.len
      /\ flight.len <= Len(fromSSL)
      /\ opMtx = NoThread => flight.len = 0
      /\ \A a \in Actors : pc[a] = "fwrite" => flight.n = 0
  BY DEF TypeInv, TypeOK, FlushInv
<1>1. ASSUME NEW t \in Threads, LibraryStep(t)
      PROVE  WireIsFaithful'
  <2>1. UNCHANGED <<wire, flight>>
    BY <1>1 DEF LibraryStep, LibraryFrame, flushVars, SslHandshakeOut,
      SslHandshakeIn, SslFragment, SslWantRead, SslEof, SslReject, SslBroken,
      SslHandshakeDone, SslRead, SslZeroReturn, SslWrite, SslShutdown
  <2>2. {"hs", "fatal", "rec", "notify"} \subseteq OutItem
    BY DEF OutItem
  <2>3. UNCHANGED writeVars \/ \E item \in OutItem : Emit(item)
    BY <1>1, <2>2 DEF LibraryStep, SslHandshakeOut, SslHandshakeIn,
      SslFragment, SslWantRead, SslEof, SslReject, SslBroken,
      SslHandshakeDone, SslRead, SslZeroReturn, SslWrite, SslShutdown
  <2> QED BY <2>1, <2>3, WireFrame DEF writeVars
<1>2. ASSUME NEW t \in Threads,
             \/ \E a \in Calls : CallStart(t, a)
             \/ Lock(t) \/ FillData(t) \/ FillEof(t) \/ FillError(t)
             \/ MarkEOF(t) \/ ClearFuture(t) \/ SetFuture(t) \/ WaitDone(t)
             \/ CloseLock(t) \/ NetClose(t)
      PROVE  WireIsFaithful'
  <2>1. UNCHANGED <<writeVars, flushVars>>
    BY <1>2 DEF CallStart, Lock, FillData, FillEof, FillError, FillFrame,
      MarkEOF, ClearFuture, SetFuture, WaitDone, CloseLock, NetClose
  <2> QED BY <2>1, WireFrame DEF writeVars, flushVars
<1>3. ASSUME NEW a \in Actors, FlushLock(a)
      PROVE  WireIsFaithful'
  <2>1. UNCHANGED <<fromSSL, appended, wire>> /\ opMtx = NoThread
    BY <1>3 DEF FlushLock, writeVars
  <2>2. flight' = flight \/ flight'.n = 0
    BY <1>3 DEF FlushLock
  <2>3. flight.n = 0
    BY <1>0, <2>1
  <2> QED BY <2>1, <2>2, <2>3 DEF WireIsFaithful
<1>4. ASSUME NEW a \in Actors, NetWrite(a)
      PROVE  WireIsFaithful'
  <2>1. PICK n \in 0..flight.len :
          /\ flight' = [flight EXCEPT !.n = n, !.err = WriteErr(n)]
          /\ wire' = wire \o SubSeq(fromSSL, 1, n)
    BY <1>4 DEF NetWrite
  <2>2. UNCHANGED <<fromSSL, appended>> /\ flight.n = 0
    BY <1>0, <1>4 DEF NetWrite, writeVars
  <2>3. flight'.n = n
    BY <1>0, <2>1
  <2>4. appended = wire \o fromSSL
    BY <1>0, <2>2 DEF WireIsFaithful
  <2>5. n \in 0..Len(fromSSL)
    BY <1>0, <2>1
  <2>6. fromSSL = SubSeq(fromSSL, 1, n) \o SubSeq(fromSSL, n + 1, Len(fromSSL))
    <3>1. 1 \in 1..(Len(fromSSL) + 1) /\ n \in (1 - 1)..Len(fromSSL)
          /\ Len(fromSSL) \in n..Len(fromSSL)
      BY <1>0, <2>5
    <3>2. SubSeq(fromSSL, 1, n) \o SubSeq(fromSSL, n + 1, Len(fromSSL)) =
            SubSeq(fromSSL, 1, Len(fromSSL))
      BY <1>0, <3>1, ConcatAdjacentSubSeq
    <3> QED BY <1>0, <3>2, SubSeqFull
  <2>7. \A x, y \in Seq(OutItem) : wire \o (x \o y) = (wire \o x) \o y
    <3>1. wire \in Seq(OutItem)
      BY <1>0
    <3> QED BY <3>1, ConcatAssociative, SMTT(30)
  <2>8. /\ SubSeq(fromSSL, 1, n) \in Seq(OutItem)
        /\ SubSeq(fromSSL, n + 1, Len(fromSSL)) \in Seq(OutItem)
    BY <1>0, <2>5
  <2> QED BY <2>1, <2>2, <2>3, <2>4, <2>6, <2>7, <2>8 DEF WireIsFaithful
<1>5. ASSUME NEW a \in Actors, Trim(a)
      PROVE  WireIsFaithful'
  <2>1. /\ fromSSL' = SubSeq(fromSSL, flight.n + 1, Len(fromSSL))
        /\ flight'.n = 0 /\ UNCHANGED <<appended, wire>>
    BY <1>5 DEF Trim, Remaining
  <2>2. fromSSL' \in Seq(OutItem)
    BY <1>0, <2>1
  <2>3. SubSeq(fromSSL', 1, Len(fromSSL')) = fromSSL'
    BY <2>2
  <2>4. appended = wire \o fromSSL'
    BY <2>1 DEF WireIsFaithful
  <2>5. flight'.n + 1 = 1
    BY <2>1
  <2> QED BY <2>1, <2>3, <2>4, <2>5 DEF WireIsFaithful
<1>6. CASE FlushStart \/ PeerSend \/ PeerFin
  <2>1. UNCHANGED <<writeVars, flushVars>>
    BY <1>6 DEF FlushStart, PeerSend, PeerFin
  <2> QED BY <2>1, WireFrame DEF writeVars, flushVars
<1>7. CASE UNCHANGED vars
  BY <1>7 DEF vars, writeVars, flushVars, WireIsFaithful
<1>8. Threads \subseteq Actors /\ Flusher \in Actors
  BY DEF Actors
<1> QED
  BY <1>1, <1>2, <1>3, <1>4, <1>5, <1>6, <1>7, <1>8
  DEF Next, ThreadStep, FlusherStep, FlushStep, Done

\* What the library writes reaches the wrapped connection once and in order,
\* whichever goroutines run WriteTo and however their writes fail.
THEOREM NothingLostOrRepeated == Spec => []WireIsFaithful
<1>1. Init => WireIsFaithful
  BY DEF Init, WireIsFaithful
<1>2. TypeInv /\ WireIsFaithful /\ [Next]_vars => WireIsFaithful'
  BY WireStep
<1> QED BY <1>1, <1>2, Types, PTL DEF Spec

(***************************************************************************)
(* What a goroutine may say of the output.                                 *)
(***************************************************************************)
Notified == appended # <<>> /\ appended[Len(appended)] = "notify"

Flushing(t) == pc[t] \in {"flock", "fwrite", "ftrim"}
Writing(t)  == pc[t] \in {"fwrite", "ftrim"}

\* A Close flushes after close_notify, which nothing follows, so that its
\* snapshot is all there is; a Write flushes after its own record, which is in
\* the snapshot unless it is on the wire already.  A WriteTo that reports no
\* error wrote all of its snapshot.
Output(u) ==
  /\ pc[u] = "ftrim" /\ flight.err = "nil" => flight.n = flight.len
  /\ cont[u] # "none" /\ Flushing(u) => Notified
  /\ cont[u] # "none" /\ Writing(u) => flight.len = Len(fromSSL)
  /\ pc[u] = "netclose" /\ err[u] = "nil" => wire = appended /\ Notified
  /\ cont[u] = "none" /\ Flushing(u) =>
       api[u] = "Write" /\ mark[u] \in 1..Len(appended)
  /\ cont[u] = "none" /\ Writing(u) =>
       mark[u] + flight.n <= Len(wire) + flight.len
  /\ api[u] = "Write" /\ ret[u] = "nil" => mark[u] \in 1..Len(wire)

\* Results come at the end of a call; a read of the wrapped connection never
\* answers nil, to its own goroutine or through the future.
Answers(u) ==
  /\ pc[u] # "idle" => ret[u] = "none"
  /\ pc[u] \in {"clear", "set"} => err[u] \in {"again", "err"}
  /\ got[u] \in {"none", "again", "err"}
  /\ cont[u] = "user" => api[u] = "Close"

OutputInv == \A u \in Threads : Output(u) /\ Answers(u)

(***************************************************************************)
(* Whose step it is.                                                       *)
(***************************************************************************)
Untouched(u) ==
  /\ pc'[u] = pc[u] /\ cont'[u] = cont[u] /\ err'[u] = err[u]
  /\ ret'[u] = ret[u] /\ api'[u] = api[u] /\ mark'[u] = mark[u]

StepOf(t) == ThreadStep(t) \/ \E a \in Calls : CallStart(t, a)

LEMMA CloseReturnOnly ==
  ASSUME TypeOK, NEW t \in Threads, NEW e, CloseReturn(t, e),
         NEW u \in Threads, u # t
  PROVE  pc'[u] = pc[u] /\ cont'[u] = cont[u] /\ err'[u] = err[u] /\ ret'[u] = ret[u]
BY SMTT(30) DEF TypeOK, Actors, CloseReturn, Return, Goto, SetErr, doneVars, Conts

LEMMA AfterFlushOnly ==
  ASSUME TypeOK, NEW a \in Actors, NEW e, AfterFlush(a, e),
         NEW u \in Threads, u # a
  PROVE  pc'[u] = pc[u] /\ err'[u] = err[u] /\ ret'[u] = ret[u]
BY DEF TypeOK, Actors, AfterFlush, Return, Goto, SetErr, doneVars

LEMMA OthersUntouched ==
  ASSUME TypeOK, NEW t \in Threads, StepOf(t), NEW u \in Threads, u # t
  PROVE  Untouched(u)
<1>0. TypeOK
  OBVIOUS
<1> USE DEF TypeOK, Actors, Untouched
<1>1. ASSUME NEW a \in Calls, CallStart(t, a) PROVE Untouched(u)
  BY <1>1 DEF CallStart, Goto
<1>2. CASE Lock(t)
  BY <1>2 DEF Lock, Return, Goto, doneVars, callVars
<1>3. CASE SslHandshakeOut(t) \/ SslHandshakeIn(t) \/ SslFragment(t)
           \/ SslWantRead(t)
  BY <1>3 DEF SslHandshakeOut, SslHandshakeIn, SslFragment, SslWantRead, Goto,
    doneVars, callVars
<1>4. CASE SslEof(t) \/ SslReject(t) \/ SslBroken(t) \/ SslHandshakeDone(t)
           \/ SslRead(t)
  BY <1>4 DEF SslEof, SslReject, SslBroken, SslHandshakeDone, SslRead, Return,
    Goto, callVars
<1>5. CASE SslZeroReturn(t) \/ SslWrite(t)
  BY <1>5 DEF SslZeroReturn, SslWrite, ThenFlush, Goto, doneVars, callVars
<1>6. CASE SslShutdown(t)
  BY <1>6 DEF SslShutdown, ThenFlush, Goto, doneVars, callVars
<1>7. CASE FillData(t) \/ FillEof(t) \/ FillError(t) \/ MarkEOF(t)
           \/ ClearFuture(t)
  BY <1>7 DEF FillData, FillEof, FillError, FillFrame, MarkEOF, ClearFuture,
    SetErr, Goto, doneVars, callVars
<1>8. CASE SetFuture(t) \/ WaitDone(t)
  BY <1>8 DEF SetFuture, WaitDone, Retry, Return, SetErr, Goto, doneVars, callVars
<1>9. CASE CloseLock(t)
  <2>1. UNCHANGED callVars
    BY <1>9 DEF CloseLock
  <2>2. CASE CloseReturn(t, "nil")
    <3>1. pc'[u] = pc[u] /\ cont'[u] = cont[u] /\ err'[u] = err[u] /\ ret'[u] = ret[u]
      BY <1>0, <2>2, CloseReturnOnly, SMTT(30)
    <3> QED
      BY <2>1, <3>1 DEF callVars
  <2>3. CASE Goto(t, "lock") /\ UNCHANGED <<cont, err, doneVars>>
    BY <2>1, <2>3 DEF Goto, doneVars, callVars
  <2> QED
    BY <1>9, <2>2, <2>3 DEF CloseLock
<1>10. CASE NetClose(t)
  BY <1>10, CloseReturnOnly, SMTT(30) DEF NetClose, callVars
<1>11. CASE FlushStep(t)
  <2>1. cont' = cont /\ UNCHANGED callVars
    BY <1>11 DEF FlushStep, FlushLock, NetWrite, Trim
  <2>2. CASE \E e : AfterFlush(t, e)
    BY <2>1, <2>2, AfterFlushOnly, SMTT(30) DEF callVars
  <2>3. CASE (\E p : Goto(t, p)) /\ UNCHANGED <<err, doneVars>>
    BY <2>1, <2>3 DEF Goto, doneVars, callVars
  <2> QED
    BY <1>11, <2>2, <2>3 DEF FlushStep, FlushLock, NetWrite, Trim
<1> QED
  BY <1>1, <1>2, <1>3, <1>4, <1>5, <1>6, <1>7, <1>8, <1>9, <1>10, <1>11
  DEF StepOf, ThreadStep, LibraryStep

LEMMA FlusherUntouched ==
  ASSUME TypeOK, FlusherStep, NEW u \in Threads
  PROVE  Untouched(u) /\ got' = got
<1>1. u # Flusher /\ Flusher \in Actors
  BY ConnAssumption DEF Actors
<1>2. CASE FlushStart
  BY <1>1, <1>2 DEF FlushStart, Goto, TypeOK, Actors, Untouched, callVars, waitVars
<1>3. CASE FlushStep(Flusher)
  <2>1. cont' = cont /\ UNCHANGED <<callVars, waitVars>>
    BY <1>3 DEF FlushStep, FlushLock, NetWrite, Trim
  <2>2. CASE \E e : AfterFlush(Flusher, e)
    BY <1>1, <2>1, <2>2, AfterFlushOnly DEF Untouched, callVars, waitVars
  <2>3. CASE /\ \E p : Goto(Flusher, p)
             /\ UNCHANGED <<err, doneVars>>
    BY <1>1, <2>1, <2>3 DEF Goto, TypeOK, Actors, Untouched, doneVars,
      callVars, waitVars
  <2> QED
    BY <1>3, <2>2, <2>3 DEF FlushStep, FlushLock, NetWrite, Trim
<1> QED
  BY <1>2, <1>3 DEF FlusherStep

(***************************************************************************)
(* What a step does to the output.                                         *)
(***************************************************************************)
StillOutput == UNCHANGED <<fromSSL, appended, wire, flight>>

Produces ==
  /\ NoNotify /\ UNCHANGED <<wire, flight>>
  /\ \E item \in OutItem : Emit(item)

LEMMA OutputOfStep ==
  ASSUME TypeOK, MutexInv, [Next]_vars
  PROVE  StillOutput \/ Produces \/ \E a \in Actors : FlushStep(a)
<1> USE DEF StillOutput
<1>1. ASSUME NEW t \in Threads, LibraryStep(t)
      PROVE  StillOutput \/ Produces
  <2>1. UNCHANGED <<wire, flight>>
    BY <1>1 DEF LibraryStep, LibraryFrame, flushVars, SslHandshakeOut,
      SslHandshakeIn, SslFragment, SslWantRead, SslEof, SslReject, SslBroken,
      SslHandshakeDone, SslRead, SslZeroReturn, SslWrite, SslShutdown
  <2>2. {"hs", "fatal", "rec", "notify"} \subseteq OutItem
    BY DEF OutItem
  <2>3. UNCHANGED writeVars \/ \E item \in OutItem : Emit(item)
    BY <1>1, <2>2 DEF LibraryStep, SslHandshakeOut, SslHandshakeIn,
      SslFragment, SslWantRead, SslEof, SslReject, SslBroken,
      SslHandshakeDone, SslRead, SslZeroReturn, SslWrite, SslShutdown
  <2>4. pc[t] = "ssl"
    BY <1>1 DEF LibraryStep, InLibrary, NeedsInput, SslHandshakeOut,
      SslHandshakeIn, SslFragment, SslWantRead, SslEof, SslReject, SslBroken,
      SslHandshakeDone, SslRead, SslZeroReturn, SslWrite, SslShutdown
  <2>5. NoNotify
    BY <2>4 DEF MutexInv, Places, OneShutdown, Closing
  <2> QED BY <2>1, <2>3, <2>5 DEF writeVars, Produces
<1>2. ASSUME NEW t \in Threads,
             \/ \E a \in Calls : CallStart(t, a)
             \/ Lock(t) \/ FillData(t) \/ FillEof(t) \/ FillError(t)
             \/ MarkEOF(t) \/ ClearFuture(t) \/ SetFuture(t) \/ WaitDone(t)
             \/ CloseLock(t) \/ NetClose(t)
      PROVE  StillOutput
  BY <1>2 DEF CallStart, Lock, FillData, FillEof, FillError, FillFrame,
    MarkEOF, ClearFuture, SetFuture, WaitDone, CloseLock, NetClose, writeVars,
    flushVars
<1>3. CASE FlushStart \/ PeerSend \/ PeerFin \/ Done \/ UNCHANGED vars
  BY <1>3 DEF FlushStart, PeerSend, PeerFin, Done, vars, writeVars, flushVars
<1>4. Threads \subseteq Actors /\ Flusher \in Actors
  BY DEF Actors
<1> QED
  BY <1>1, <1>2, <1>3, <1>4 DEF Next, ThreadStep, FlusherStep

(* One more item: nobody flushes for a Close yet, and the others' records  *)
(* and snapshots are what they were.                                       *)
LEMMA ProducedFacts ==
  ASSUME TypeOK, Produces
  PROVE  /\ Len(appended') = Len(appended) + 1 /\ Len(appended) \in Nat
         /\ ~Notified
<1>1. appended \in Seq(OutItem) /\ Len(appended) \in Nat
  BY DEF TypeOK
<1>2. \E item \in OutItem : appended' = Append(appended, item)
  BY DEF Produces, Emit
<1>3. ~Notified
  BY <1>1 DEF Produces, NoNotify, Notified
<1> QED
  BY <1>1, <1>2, <1>3

\* What NetWrite and Trim leave of the three.
LEMMA WrittenFacts ==
  ASSUME TypeInv, NEW a \in Actors, NetWrite(a)
  PROVE  /\ flight.n = 0 /\ flight'.n \in 0..flight.len
         /\ flight'.len = flight.len
         /\ flight'.err = "nil" => flight'.n = flight.len
         /\ Len(wire) \in Nat /\ Len(wire') = Len(wire) + flight'.n
         /\ flight'.n = 0 => wire' = wire
         /\ UNCHANGED <<fromSSL, appended>>
<1>1. PICK n \in 0..flight.len :
        /\ flight' = [flight EXCEPT !.n = n, !.err = WriteErr(n)]
        /\ wire' = wire \o SubSeq(fromSSL, 1, n)
  BY DEF NetWrite
<1>2. /\ flight \in [len : Nat, n : Nat, err : {"nil", "err"}]
      /\ wire \in Seq(OutItem) /\ fromSSL \in Seq(OutItem)
      /\ flight.len <= Len(fromSSL) /\ flight.n = 0
  BY DEF TypeInv, TypeOK, FlushInv, NetWrite
<1>3. flight'.n = n /\ flight'.len = flight.len /\ flight'.err = WriteErr(n)
  BY <1>1, <1>2
<1>4. SubSeq(fromSSL, 1, n) \in Seq(OutItem) /\ Len(SubSeq(fromSSL, 1, n)) = n
  BY <1>1, <1>2
<1>5. Len(wire') = Len(wire) + n /\ Len(wire) \in Nat
  BY <1>1, <1>2, <1>4
<1>6. flight'.err = "nil" => n = flight.len
  BY <1>3 DEF WriteErr
<1>7. n = 0 => wire' = wire
  <2>1. SubSeq(fromSSL, 1, 0) = <<>>
    BY <1>2, <1>4, EmptySeq
  <2> QED
    BY <1>1, <1>2, <2>1, ConcatEmptySeq
<1> QED
  BY <1>1, <1>2, <1>3, <1>5, <1>6, <1>7 DEF NetWrite, writeVars

\* All that the library produced is on the wire: then nothing waits for a
\* flush, and a flush writes nothing.
LEMMA WireFull ==
  ASSUME TypeInv, WireIsFaithful
  PROVE  /\ Len(appended) = Len(wire) + Len(fromSSL) - flight.n
         /\ wire = appended <=> flight.n = Len(fromSSL)
<1>1. /\ fromSSL \in Seq(OutItem) /\ wire \in Seq(OutItem)
      /\ Len(fromSSL) \in Nat /\ flight.n \in Nat /\ flight.n <= Len(fromSSL)
  BY SMTT(30) DEF TypeInv, TypeOK, FlushInv
<1> DEFINE rest == SubSeq(fromSSL, flight.n + 1, Len(fromSSL))
<1>2. rest \in Seq(OutItem) /\ Len(rest) = Len(fromSSL) - flight.n
  BY <1>1
<1>3. appended = wire \o rest
  BY DEF WireIsFaithful
<1> HIDE DEF rest
<1>4. Len(appended) = Len(wire) + Len(rest) /\ Len(wire) \in Nat
  BY <1>1, <1>2, <1>3
<1>5. rest = <<>> => wire \o rest = wire
  BY <1>1, ConcatEmptySeq
<1> QED
  BY <1>1, <1>2, <1>3, <1>4, <1>5, EmptySeq

(***************************************************************************)
(* The steps of the others.                                                *)
(***************************************************************************)
LEMMA OutputOfOthers ==
  ASSUME TypeInv, WireIsFaithful, NEW u \in Threads,
         Untouched(u), Output(u),
         \/ StillOutput \/ Produces
         \/ \E a \in Actors \ {u} : FlushStep(a)
  PROVE  Output(u)'
<1>0. /\ flight \in [len : Nat, n : Nat, err : {"nil", "err"}]
      /\ Len(wire) \in Nat /\ Len(fromSSL) \in Nat /\ mark[u] \in Nat
      /\ flight.len <= Len(fromSSL)
  <2>1. /\ wire \in Seq(OutItem) /\ fromSSL \in Seq(OutItem)
        /\ flight \in [len : Nat, n : Nat, err : {"nil", "err"}]
        /\ mark \in [Threads -> Nat]
    BY DEF TypeInv, TypeOK
  <2>2. flight.len <= Len(fromSSL)
    BY DEF TypeInv, FlushInv
  <2> QED
    BY <2>1, <2>2
<1>1. CASE StillOutput
  BY <1>1 DEF StillOutput, Untouched, Output, Flushing, Writing, Notified
<1>2. CASE Produces
  <2>1. wire' = wire /\ flight' = flight
    BY <1>2 DEF Produces
  <2> QED
    BY <1>0, <1>2, <2>1, ProducedFacts
    DEF Untouched, Output, Flushing, Writing, TypeInv
<1>3. ASSUME NEW a \in Actors, a # u, FlushStep(a) PROVE Output(u)'
  <2>0. u \in Actors
    BY DEF Actors
  <2>1. ~Writing(u) /\ appended' = appended
    BY <1>3, <2>0, ConnAssumption DEF FlushStep, FlushLock, NetWrite, Trim, Writing,
      TypeInv, FlushInv, writeVars
  <2>2. Len(wire') \in Nat /\ Len(wire') >= Len(wire)
    <3>1. CASE NetWrite(a)
      BY <1>0, <3>1, WrittenFacts
    <3>2. CASE FlushLock(a) \/ Trim(a)
      BY <1>0, <3>2 DEF FlushLock, Trim
    <3> QED
      BY <1>3, <3>1, <3>2 DEF FlushStep
  <2>3. wire = appended => wire' = appended
    <3>1. CASE NetWrite(a)
      <4> SUFFICES ASSUME wire = appended PROVE wire' = appended
        OBVIOUS
      <4>1. flight.n = Len(fromSSL)
        BY WireFull
      <4> QED
        BY <1>0, <3>1, <4>1, WrittenFacts
    <3>2. CASE FlushLock(a) \/ Trim(a)
      BY <3>2 DEF FlushLock, Trim
    <3> QED
      BY <1>3, <3>1, <3>2 DEF FlushStep
  <2> QED
    BY <1>0, <2>1, <2>2, <2>3, SMTT(30) DEF Untouched, Output, Flushing, Writing, Notified
<1> QED
  BY <1>1, <1>2, <1>3

(***************************************************************************)
(* The steps of t itself.                                                  *)
(***************************************************************************)
LEMMA Away ==
  ASSUME NEW t \in Threads, ~Flushing(t)', pc'[t] # "netclose",
         api'[t] = "Write" => ret'[t] # "nil"
  PROVE  Output(t)'
BY DEF Output, Flushing, Writing

LEMMA ReturnAnswer ==
  ASSUME TypeOK, NEW t \in Threads, NEW r, Return(t, r)
  PROVE  /\ pc'[t] = "idle"
         /\ ret'[t] = IF api[t] = "Read" THEN ReadResult(r) ELSE r
BY DEF TypeOK, Return, Goto, Actors

LEMMA RetryAnswer ==
  ASSUME TypeOK, NEW t \in Threads, NEW r \in {"again", "err"}, Retry(t, r),
         ret[t] = "none"
  PROVE  /\ pc'[t] \in {"idle", "lock"} /\ ret'[t] \notin {"nil", "eof"}
         /\ pc'[t] = "lock" => ret'[t] = "none"
<1>1. CASE r = "again"
  BY <1>1 DEF Retry, Goto, doneVars, TypeOK, Actors
<1>2. CASE r = "err"
  BY <1>2, ReturnAnswer DEF Retry, ReadResult
<1> QED
  BY <1>1, <1>2

LEMMA CloseReturnAnswer ==
  ASSUME TypeOK, NEW t \in Threads, NEW e \in Errs, CloseReturn(t, e),
         ret[t] = "none", cont[t] # "none", Answers(t), api' = api
  PROVE  /\ pc'[t] \in {"idle", "clear"} /\ cont'[t] = "none"
         /\ api[t] = "Write" => ret'[t] # "nil"
         /\ pc'[t] = "clear" => ret'[t] = "none" /\ err'[t] \in {"again", "err"}
<1>0. cont'[t] = "none" /\ cont[t] \in {"user", "eof", "zero"}
  BY DEF CloseReturn, TypeOK, Conts
<1>1. CASE cont[t] = "user"
  <2>1. Return(t, e) /\ api[t] = "Close"
    BY <1>1 DEF CloseReturn, Answers
  <2> QED
    BY <1>0, <2>1, ReturnAnswer
<1>2. CASE cont[t] = "zero"
  <2>1. Return(t, "ueof")
    BY <1>2 DEF CloseReturn
  <2> QED
    BY <1>0, <2>1, ReturnAnswer DEF ReadResult
<1>3. CASE cont[t] = "eof"
  BY <1>0, <1>3 DEF CloseReturn, Goto, SetErr, doneVars, TypeOK, Actors
<1> QED
  BY <1>0, <1>1, <1>2, <1>3

(* Outside WriteTo: the output of a Close that only begins to flush, and of*)
(* a Write, is what SslShutdown and SslWrite say; all other steps lead away*)
(* from it.                                                                *)
LEMMA OwnStep ==
  ASSUME TypeInv, MutexInv, NEW t \in Threads, Output(t), Answers(t),
         StepOf(t), ~FlushStep(t)
  PROVE  Output(t)' /\ Answers(t)'
<1> DEFINE Goal == Output(t)' /\ Answers(t)'
<1>0. /\ TypeOK /\ t \in Actors /\ got[t] \in {"none", "again", "err"}
      /\ pc \in [Actors -> Pcs] /\ cont \in [Threads -> Conts]
      /\ ret \in [Threads -> Errs \cup {"none"}] /\ api \in [Threads -> Api]
      /\ err \in [Threads -> Errs]
  BY DEF TypeInv, TypeOK, Actors, Answers
<1>1. ASSUME NEW a \in Calls, CallStart(t, a) PROVE Goal
  <2>1. /\ pc'[t] \in {"lock", "close"} /\ ret'[t] = "none" /\ got' = got
        /\ api'[t] = a /\ cont'[t] = (IF a = "Close" THEN "user" ELSE "none")
    BY <1>0, <1>1 DEF CallStart, Goto, waitVars, TypeOK
  <2>2. Output(t)'
    BY <2>1, Away DEF Flushing
  <2> QED
    BY <1>0, <2>1, <2>2 DEF Answers
<1>2. CASE Lock(t)
  <2>0. /\ UNCHANGED <<cont, err, got, api>> /\ pc[t] = "lock" /\ ret[t] = "none"
        /\ cont[t] = "user" => api[t] = "Close"
    BY <1>2 DEF Lock, waitVars, callVars, Answers
  <2>1. CASE Refused(t)
    <3>1. Return(t, Refusal(api[t]))
      BY <1>2, <2>1 DEF Lock
    <3>2. pc'[t] = "idle" /\ (api[t] = "Write" => ret'[t] = "shut")
      BY <1>0, <3>1, ReturnAnswer DEF Refusal
    <3>3. Output(t)'
      BY <2>0, <3>2, Away DEF Flushing
    <3> QED
      BY <1>0, <2>0, <3>2, <3>3 DEF Answers
  <2>2. CASE ~Refused(t)
    <3>1. pc'[t] = "ssl" /\ ret' = ret
      BY <1>0, <1>2, <2>2 DEF Lock, Goto, doneVars
    <3>2. Output(t)'
      BY <2>0, <3>1, Away DEF Flushing
    <3> QED
      BY <1>0, <2>0, <3>1, <3>2 DEF Answers
  <2> QED
    BY <2>1, <2>2
<1>3. CASE SslHandshakeOut(t) \/ SslHandshakeIn(t) \/ SslFragment(t)
           \/ SslWantRead(t) \/ SslZeroReturn(t)
  <2>1. /\ pc'[t] \in {"ssl", "wait", "fill", "close"} /\ ret'[t] = "none"
        /\ UNCHANGED <<err, got, api>>
        /\ cont'[t] = "user" => api[t] = "Close"
    BY <1>0, <1>3 DEF SslHandshakeOut, SslHandshakeIn, SslFragment, SslWantRead,
      SslZeroReturn, NeedsInput, InLibrary, Goto, doneVars, waitVars, callVars,
      Answers
  <2>2. Output(t)'
    BY <2>1, Away DEF Flushing
  <2> QED
    BY <1>0, <2>1, <2>2 DEF Answers
<1>4. CASE SslEof(t) \/ SslReject(t) \/ SslBroken(t) \/ SslHandshakeDone(t)
           \/ SslRead(t)
  <2>1. /\ UNCHANGED <<cont, err, got, api>> /\ cont[t] = "none"
        /\ Return(t, "err") \/ (Return(t, "nil") /\ api[t] # "Write")
    BY <1>4 DEF SslEof, SslReject, SslBroken, SslHandshakeDone, SslRead,
      NeedsInput, InLibrary, waitVars, callVars
  <2>2. pc'[t] = "idle" /\ (api'[t] = "Write" => ret'[t] # "nil")
    BY <1>0, <2>1, ReturnAnswer
  <2>3. Output(t)'
    BY <2>2, Away DEF Flushing
  <2> QED
    BY <1>0, <2>1, <2>2, <2>3 DEF Answers
<1>5. CASE SslWrite(t)
  <2>1. /\ pc'[t] = "flock" /\ ret'[t] = "none" /\ cont'[t] = "none"
        /\ api'[t] = "Write" /\ got' = got /\ mark'[t] = Len(appended')
    BY <1>0, <1>5 DEF SslWrite, InLibrary, ThenFlush, Goto, doneVars, waitVars,
      callVars, Answers, TypeOK
  <2>2. Len(appended') \in Nat /\ Len(appended') >= 1
    <3>1. appended \in Seq(OutItem) /\ appended' = Append(appended, "rec")
      BY <1>0, <1>5 DEF SslWrite, Emit, TypeOK
    <3> QED
      BY <3>1
  <2>3. Output(t)'
    BY <2>1, <2>2 DEF Output, Flushing, Writing
  <2> QED
    BY <1>0, <2>1, <2>3 DEF Answers
<1>6. CASE SslShutdown(t)
  <2>1. /\ pc[t] = "ssl" /\ cont[t] # "none"
        /\ UNCHANGED <<got, api, cont, ret, wire, flight>>
    BY <1>6 DEF SslShutdown, doneVars, callVars, waitVars, LibraryFrame, flushVars
  <2>2. CASE Emit("notify") /\ ThenFlush(t)
    <3>1. pc'[t] = "flock"
      BY <1>0, <2>2 DEF ThenFlush, Goto
    <3>2. Notified'
      <4>1. appended \in Seq(OutItem) /\ appended' = Append(appended, "notify")
        BY <1>0, <2>2 DEF Emit, TypeOK
      <4> QED
        BY <4>1 DEF Notified
    <3>3. ret[t] = "none" /\ (cont[t] = "user" => api[t] = "Close")
      BY <2>1 DEF Answers
    <3>4. Output(t)'
      BY <2>1, <3>1, <3>2, <3>3 DEF Output, Flushing, Writing
    <3> QED
      BY <1>0, <2>1, <3>1, <3>3, <3>4 DEF Answers
  <2>3. CASE err' = [err EXCEPT ![t] = "err"] /\ Goto(t, "netclose")
    <3>1. pc'[t] = "netclose" /\ err'[t] = "err"
      BY <1>0, <2>3 DEF Goto
    <3>2. ret[t] = "none" /\ (cont[t] = "user" => api[t] = "Close")
      BY <2>1 DEF Answers
    <3>3. Output(t)'
      BY <2>1, <3>1, <3>2 DEF Output, Flushing, Writing
    <3> QED
      BY <1>0, <2>1, <3>1, <3>2, <3>3 DEF Answers
  <2> QED
    BY <1>6, <2>2, <2>3 DEF SslShutdown
<1>7. CASE FillData(t) \/ FillEof(t) \/ FillError(t) \/ MarkEOF(t)
  <2>1. /\ pc'[t] \in {"clear", "eof", "close"} /\ ret'[t] = "none"
        /\ UNCHANGED <<got, api>> /\ (pc'[t] = "clear" => err'[t] \in {"again", "err"})
        /\ cont'[t] = "user" => api[t] = "Close"
    BY <1>0, <1>7 DEF FillData, FillEof, FillError, MarkEOF, FillFrame, SetErr,
      Goto, doneVars, waitVars, callVars, Answers
  <2>2. Output(t)'
    BY <2>1, Away DEF Flushing
  <2> QED
    BY <1>0, <2>1, <2>2 DEF Answers
<1>8. CASE ClearFuture(t)
  <2>1. /\ pc'[t] = "set" /\ ret'[t] = "none" /\ UNCHANGED <<got, api, cont, err>>
        /\ pc[t] = "clear"
    BY <1>0, <1>8 DEF ClearFuture, Goto, doneVars, waitVars, callVars, Answers
  <2>2. Output(t)'
    BY <2>1, Away DEF Flushing
  <2> QED
    BY <1>0, <2>1, <2>2 DEF Answers
<1>9. CASE SetFuture(t)
  <2>1. /\ err[t] \in {"again", "err"} /\ ret[t] = "none" /\ Retry(t, err[t])
        /\ UNCHANGED <<api, cont>> /\ got'[t] \in {got[t], err[t]}
    BY <1>9 DEF SetFuture, callVars, Answers
  <2>2. /\ pc'[t] \in {"idle", "lock"} /\ ret'[t] # "nil"
        /\ pc'[t] = "lock" => ret'[t] = "none"
    BY <1>0, <2>1, RetryAnswer
  <2>3. Output(t)'
    BY <2>2, Away DEF Flushing
  <2> QED
    BY <1>0, <2>1, <2>2, <2>3 DEF Answers
<1>10. CASE WaitDone(t)
  <2>1. /\ got[t] \in {"again", "err"} /\ ret[t] = "none" /\ Retry(t, got[t])
        /\ UNCHANGED <<api, cont>> /\ got' = [got EXCEPT ![t] = "none"]
    BY <1>0, <1>10 DEF WaitDone, callVars, Answers
  <2>2. /\ pc'[t] \in {"idle", "lock"} /\ ret'[t] # "nil"
        /\ pc'[t] = "lock" => ret'[t] = "none"
    BY <1>0, <2>1, RetryAnswer
  <2>3. Output(t)' /\ got'[t] \in {"none", "again", "err"}
    BY <1>0, <2>1, <2>2, Away DEF Flushing, TypeOK
  <2> QED
    BY <1>0, <2>1, <2>2, <2>3 DEF Answers
<1>11. CASE CloseLock(t) \/ NetClose(t)
  <2>1. /\ UNCHANGED <<got, api>> /\ ret[t] = "none" /\ cont[t] # "none"
        /\ cont[t] = "user" => api[t] = "Close"
    BY <1>11 DEF CloseLock, NetClose, waitVars, callVars, Answers, MutexInv, Places
  <2>2. CASE \E e \in Errs : CloseReturn(t, e)
    <3>1. /\ pc'[t] \in {"idle", "clear"} /\ cont'[t] = "none"
          /\ api[t] = "Write" => ret'[t] # "nil"
          /\ pc'[t] = "clear" => ret'[t] = "none" /\ err'[t] \in {"again", "err"}
      BY <1>0, <2>1, <2>2, CloseReturnAnswer
    <3>2. Output(t)'
      BY <2>1, <3>1, Away DEF Flushing
    <3> QED
      BY <1>0, <2>1, <3>1, <3>2 DEF Answers
  <2>3. CASE Goto(t, "lock") /\ UNCHANGED <<cont, err, doneVars>>
    <3>1. pc'[t] = "lock" /\ ret'[t] = "none" /\ cont' = cont
      BY <1>0, <2>1, <2>3 DEF Goto, doneVars
    <3>2. Output(t)'
      BY <3>1, Away DEF Flushing
    <3> QED
      BY <1>0, <2>1, <3>1, <3>2 DEF Answers
  <2>4. "nil" \in Errs /\ err[t] \in Errs
    BY <1>0 DEF Errs
  <2> QED
    BY <1>11, <2>2, <2>3, <2>4 DEF CloseLock, NetClose
<1> QED
  BY <1>1, <1>2, <1>3, <1>4, <1>5, <1>6, <1>7, <1>8, <1>9, <1>10, <1>11
  DEF StepOf, ThreadStep, LibraryStep

LEMMA AfterFlushAnswer ==
  ASSUME TypeOK, NEW t \in Threads, NEW e, AfterFlush(t, e), Answers(t),
         pc[t] # "idle"
  PROVE  /\ cont[t] = "none" =>
              /\ pc'[t] = "idle"
              /\ api[t] = "Write" => ret'[t] = e
         /\ cont[t] # "none" =>
              pc'[t] = "netclose" /\ err'[t] = e /\ ret'[t] = "none"
<1>0. t # Flusher /\ t \in Actors
  BY ConnAssumption DEF Actors
<1>1. CASE cont[t] = "none"
  BY <1>0, <1>1, ReturnAnswer DEF AfterFlush
<1>2. CASE cont[t] # "none"
  BY <1>0, <1>2 DEF AfterFlush, Goto, SetErr, doneVars, TypeOK, Answers
<1> QED
  BY <1>1, <1>2

(* WriteTo, run by t: it ends without an error only with all of its        *)
(* snapshot written, which for a Close is all there is.                    *)
LEMMA OwnFlush ==
  ASSUME TypeInv, WireIsFaithful, NEW t \in Threads, Output(t), Answers(t),
         FlushStep(t)
  PROVE  Output(t)' /\ Answers(t)'
<1> DEFINE Goal == Output(t)' /\ Answers(t)'
<1>0. /\ TypeOK /\ t \in Actors /\ Flushing(t) /\ ret[t] = "none"
      /\ got[t] \in {"none", "again", "err"}
      /\ cont[t] = "user" => api[t] = "Close"
      /\ UNCHANGED <<cont, api, mark, got, appended>>
  BY DEF TypeInv, Actors, FlushStep, FlushLock, NetWrite, Trim, Flushing,
    Answers, writeVars, callVars, waitVars
<1>1. /\ flight \in [len : Nat, n : Nat, err : {"nil", "err"}]
      /\ Len(wire) \in Nat /\ Len(fromSSL) \in Nat /\ Len(appended) \in Nat
      /\ mark[t] \in Nat /\ Notified' = Notified /\ pc \in [Actors -> Pcs]
      /\ fromSSL \in Seq(OutItem)
  BY <1>0, SMTT(30) DEF TypeOK, Notified
<1>2. Len(appended) = Len(wire) + Len(fromSSL) - flight.n
  BY WireFull
<1>a. ASSUME NEW e \in {"nil", "err"}, AfterFlush(t, e), wire' = wire,
             flight'.n = flight'.len,
             cont[t] = "none" /\ e = "nil" => mark[t] \in 1..Len(wire),
             cont[t] # "none" /\ e = "nil" => wire = appended /\ Notified
      PROVE  Goal
  <2>1. pc[t] # "idle"
    BY <1>0 DEF Flushing
  <2>2. CASE cont[t] = "none"
    <3>1. pc'[t] = "idle" /\ ret'[t] = e /\ api[t] = "Write"
      BY <1>0, <1>a, <2>1, <2>2, AfterFlushAnswer DEF Output
    <3> QED
      BY <1>0, <1>a, <2>2, <3>1 DEF Output, Answers, Flushing, Writing
  <2>3. CASE cont[t] # "none"
    <3>1. pc'[t] = "netclose" /\ err'[t] = e /\ ret'[t] = "none"
      BY <1>0, <1>a, <2>1, <2>3, AfterFlushAnswer
    <3> QED
      BY <1>0, <1>1, <1>a, <2>3, <3>1 DEF Output, Answers, Flushing, Writing
  <2> QED
    BY <2>2, <2>3
<1>3. CASE FlushLock(t)
  <2>0. /\ pc[t] = "flock" /\ wire' = wire /\ flight.len = 0 /\ flight.n = 0
    BY <1>1, <1>3 DEF FlushLock, TypeInv, FlushInv
  <2>1. CASE fromSSL = <<>>
    <3>1. AfterFlush(t, "nil") /\ flight' = flight
      BY <1>3, <2>1 DEF FlushLock
    <3>2. wire = appended
      BY <1>1, <2>0, <2>1, WireFull, EmptySeq
    <3> QED
      BY <1>0, <1>1, <1>a, <2>0, <3>1, <3>2 DEF Output
  <2>2. CASE fromSSL # <<>>
    <3>1. /\ pc' = [pc EXCEPT ![t] = "fwrite"]
          /\ flight' = [len |-> Len(fromSSL), n |-> 0, err |-> "nil"]
          /\ UNCHANGED <<err, ret, fromSSL>>
      BY <1>3, <2>2 DEF FlushLock, Goto, doneVars, writeVars
    <3>2. pc'[t] = "fwrite" /\ flight'.len = Len(fromSSL) /\ flight'.n = 0
      BY <1>0, <1>1, <3>1
    <3>3. cont[t] = "none" =>
            api[t] = "Write" /\ mark[t] \in 1..Len(appended)
      BY <1>0 DEF Output
    <3>4. cont[t] # "none" => Notified
      BY <1>0 DEF Output
    <3>5. Output(t)'
      BY <1>0, <1>1, <1>2, <2>0, <3>1, <3>2, <3>3, <3>4
      DEF Output, Flushing, Writing
    <3> QED
      BY <1>0, <3>1, <3>2, <3>5 DEF Answers
  <2> QED
    BY <2>1, <2>2
<1>4. CASE NetWrite(t)
  <2>1. /\ flight.n = 0 /\ flight'.n \in 0..flight.len
        /\ flight'.len = flight.len
        /\ flight'.err = "nil" => flight'.n = flight.len
        /\ Len(wire') = Len(wire) + flight'.n /\ fromSSL' = fromSSL
    BY <1>0, <1>4, WrittenFacts
  <2>2. /\ pc[t] = "fwrite" /\ pc'[t] = "ftrim" /\ UNCHANGED <<err, ret>>
    BY <1>0, <1>1, <1>4 DEF NetWrite, Goto, doneVars
  <2>3. /\ cont[t] = "none" =>
             /\ api[t] = "Write" /\ mark[t] \in 1..Len(appended)
             /\ mark[t] + flight.n <= Len(wire) + flight.len
        /\ cont[t] # "none" => Notified /\ flight.len = Len(fromSSL)
    BY <2>2 DEF Output, Flushing, Writing
  <2>4. Output(t)'
    BY <1>0, <1>1, <2>1, <2>2, <2>3, SMTT(30) DEF Output, Flushing, Writing
  <2> QED
    BY <1>0, <2>2, <2>4 DEF Answers
<1>5. CASE Trim(t)
  <2>1. /\ pc[t] = "ftrim" /\ AfterFlush(t, flight.err) /\ wire' = wire
        /\ flight'.n = flight'.len
    BY <1>5 DEF Trim
  <2>2. flight.err = "nil" => flight.n = flight.len
    BY <2>1 DEF Output
  <2>3. cont[t] = "none" => mark[t] >= 1 /\ mark[t] + flight.n <= Len(wire) + flight.len
    BY <1>1, <2>1 DEF Output, Flushing, Writing
  <2>4. cont[t] # "none" => Notified /\ flight.len = Len(fromSSL)
    BY <2>1 DEF Output, Flushing, Writing
  <2>5. cont[t] # "none" /\ flight.err = "nil" => wire = appended
    BY <2>2, <2>4, WireFull
  <2> QED
    BY <1>1, <1>a, <2>1, <2>2, <2>3, <2>4, <2>5
<1> QED
  BY <1>3, <1>4, <1>5 DEF FlushStep

(***************************************************************************)
(* The invariant.                                                          *)
(***************************************************************************)
\* The future of t reaches u with what t's own read answered.
LEMMA AnswersOfOthers ==
  ASSUME TypeInv, NEW t \in Threads, StepOf(t), Answers(t),
         NEW u \in Threads, u # t, Untouched(u), Answers(u)
  PROVE  Answers(u)'
<1>1. got'[u] \in {"none", "again", "err"}
  <2>0. got \in [Threads -> Errs \cup {"none"}] /\ got[u] \in {"none", "again", "err"}
    BY DEF TypeInv, TypeOK, Answers
  <2>1. CASE SetFuture(t)
    BY <2>0, <2>1 DEF SetFuture, Answers
  <2>2. CASE WaitDone(t)
    BY <2>0, <2>2 DEF WaitDone
  <2>3. CASE ~SetFuture(t) /\ ~WaitDone(t)
    <3>1. got' = got
      BY <2>3 DEF StepOf, ThreadStep, CallStart, Lock, LibraryStep, FillData,
        FillEof, FillError, FillFrame, MarkEOF, ClearFuture, CloseLock,
        NetClose, FlushStep, FlushLock, NetWrite, Trim, SslHandshakeOut,
        SslHandshakeIn, SslFragment, SslWantRead, SslEof, SslReject, SslBroken,
        SslHandshakeDone, SslRead, SslZeroReturn, SslWrite, SslShutdown, waitVars
    <3> QED
      BY <2>0, <3>1, SMTT(30)
  <2> QED
    BY <2>1, <2>2, <2>3
<1> QED
  BY <1>1 DEF Answers, Untouched

LEMMA OutputInit == Init => OutputInv
<1> SUFFICES ASSUME Init, NEW u \in Threads PROVE Output(u) /\ Answers(u)
  BY DEF OutputInv
<1>1. /\ pc[u] = "idle" /\ cont[u] = "none" /\ ret[u] = "none"
      /\ got[u] = "none"
  BY DEF Init, Actors
<1>2. Output(u)
  BY <1>1 DEF Output, Flushing, Writing
<1>3. Answers(u)
  BY <1>1 DEF Answers
<1> QED
  BY <1>2, <1>3

LEMMA OutputStep ==
  TypeInv /\ MutexInv /\ WireIsFaithful /\ OutputInv /\ [Next]_vars => OutputInv'
<1> SUFFICES ASSUME TypeInv, MutexInv, WireIsFaithful, OutputInv, [Next]_vars,
                    NEW u \in Threads
             PROVE  Output(u)' /\ Answers(u)'
  BY DEF OutputInv
<1>0. TypeOK /\ Output(u) /\ Answers(u) /\ u \in Actors /\ u # Flusher
  BY ConnAssumption DEF TypeInv, OutputInv, Actors
<1>1. StillOutput \/ Produces \/ \E a \in Actors : FlushStep(a)
  BY <1>0, OutputOfStep
<1>2. CASE StepOf(u)
  BY <1>0, <1>2, OwnStep, OwnFlush
<1>a. ASSUME Untouched(u), ~FlushStep(u) PROVE Output(u)'
  BY <1>0, <1>1, <1>a, OutputOfOthers
<1>3. ASSUME NEW t \in Threads, t # u, StepOf(t) PROVE Output(u)' /\ Answers(u)'
  <2>1. Untouched(u) /\ Answers(t)
    BY <1>0, <1>3, OthersUntouched DEF OutputInv
  <2>2. CASE FlushStep(u)
    BY <1>0, <2>2, OwnFlush
  <2>3. ~FlushStep(u) => Output(u)'
    BY <1>a, <2>1
  <2>4. Answers(u)'
    BY <1>0, <1>3, <2>1, AnswersOfOthers
  <2> QED
    BY <2>2, <2>3, <2>4
<1>4. CASE FlusherStep \/ PeerSend \/ PeerFin \/ Done \/ UNCHANGED vars
  <2>1. Untouched(u) /\ got' = got
    <3>1. CASE FlusherStep
      BY <1>0, <3>1, FlusherUntouched
    <3>2. CASE PeerSend \/ PeerFin \/ Done \/ UNCHANGED vars
      BY <3>2 DEF PeerSend, PeerFin, Done, vars, Untouched, callVars, doneVars,
        waitVars
    <3> QED
      BY <1>4, <3>1, <3>2
  <2>2. Answers(u)'
    BY <1>0, <2>1 DEF Answers, Untouched
  <2>3. CASE FlushStep(u)
    BY <1>0, <2>3, OwnFlush
  <2> QED
    BY <1>a, <2>1, <2>2, <2>3
<1> QED
  BY <1>2, <1>3, <1>4 DEF Next, StepOf

THEOREM OutputCorrect == Spec => []OutputInv
<1> QED
  BY OutputInit, OutputStep, Types, MutexCorrect, NothingLostOrRepeated, PTL
  DEF Spec

(* A Write that reports success has its own record on the wire, whoever    *)
(* wrote it (conn.go, Write and flushOutputBuffer).                        *)
THEOREM WriteReachesWire == Spec => []WriteOkOnWire
<1>1. OutputInv => WriteOkOnWire
  BY DEF OutputInv, Output, WriteOkOnWire
<1> QED
  BY <1>1, OutputCorrect, PTL

(* A Close that gets to conn.Close without an error has put all that the   *)
(* library produced on the wire, close_notify last (shutdownLoop).         *)
THEOREM CloseLeavesNothing == Spec => []CleanClose
<1>1. OutputInv => CleanClose
  BY DEF OutputInv, Output, CleanClose, Notified
<1> QED
  BY <1>1, OutputCorrect, PTL

(***************************************************************************)
(* The end of the input.                                                   *)
(***************************************************************************)
\* What the peer sent and the library did not consume, and what it will send.
Pipe == intoSSL \o net
Left == Pipe \o script

\* From the record number a, p leads to the record number b: n[i] records of
\* data were sent up to the i-th item of p.
Leads(p, a, b) ==
  \E n \in [0..Len(p) -> Nat] :
    /\ n[0] = a /\ n[Len(p)] = b
    /\ \A i \in 1..Len(p) : n[i] = IF p[i] = "data" THEN n[i - 1] + 1 ELSE n[i - 1]

AlertLast(s) == \A i \in 1..Len(s) : s[i] = "alert" => i = Len(s)

\* Nothing is left of what the peer sent, and it will send nothing.
Drained == Pipe = <<>> /\ (fin \/ script = <<>>)

InputInv ==
  /\ Leads(Pipe, recvd, sent)
  /\ AlertLast(Left)
  /\ rcvdClose => Left = <<>>

\* Who found the end of the input is right, and who closes the connection for
\* that reason is, or the program closed it.
AtEnd(t) ==
  /\ pc[t] = "eof" \/ cont[t] \in {"eof", "zero"} => Drained
  /\ cont[t] = "user" => userClosed
  /\ api[t] = "Read" /\ ret[t] = "eof" => Drained \/ userClosed

EofInv ==
  /\ InputInv
  /\ isShutdown => Drained \/ userClosed
  /\ \A t \in Threads : AtEnd(t)

(***************************************************************************)
(* Sequences.                                                              *)
(***************************************************************************)
LEMMA LeadsEmpty ==
  ASSUME NEW a \in Nat, NEW b
  PROVE  Leads(<<>>, a, b) <=> a = b
<1>0. Len(<<>>) = 0 /\ 1..0 = {}
  OBVIOUS
<1>1. ASSUME a = b PROVE Leads(<<>>, a, b)
  <2> DEFINE n == [i \in 0..0 |-> a]
  <2>1. n \in [0..0 -> Nat] /\ n[0] = a
    OBVIOUS
  <2> HIDE DEF n
  <2> QED
    BY <1>0, <1>1, <2>1 DEF Leads
<1>2. ASSUME Leads(<<>>, a, b) PROVE a = b
  BY <1>0, <1>2 DEF Leads
<1> QED
  BY <1>1, <1>2

LEMMA LeadsAppend ==
  ASSUME NEW p \in Seq(Item), NEW a, NEW b, NEW x \in Item, Leads(p, a, b)
  PROVE  Leads(Append(p, x), a, IF x = "data" THEN b + 1 ELSE b)
<1> DEFINE c == IF x = "data" THEN b + 1 ELSE b
           q == Append(p, x)
<1>1. PICK n \in [0..Len(p) -> Nat] :
        /\ n[0] = a /\ n[Len(p)] = b
        /\ \A i \in 1..Len(p) : n[i] = IF p[i] = "data" THEN n[i - 1] + 1 ELSE n[i - 1]
  BY DEF Leads
<1>2. /\ Len(p) \in Nat /\ Len(q) = Len(p) + 1 /\ q[Len(p) + 1] = x
      /\ \A i \in 1..Len(p) : q[i] = p[i]
  OBVIOUS
<1> HIDE DEF q
<1> DEFINE m == [i \in 0..Len(q) |-> IF i = Len(q) THEN c ELSE n[i]]
<1>3. b \in Nat /\ c \in Nat
  BY <1>1, <1>2
<1> HIDE DEF c
<1>4. m \in [0..Len(q) -> Nat]
  BY <1>2, <1>3
<1>5. m[0] = a /\ m[Len(q)] = c
  BY <1>1, <1>2
<1>6. ASSUME NEW i \in 1..Len(q)
      PROVE  m[i] = IF q[i] = "data" THEN m[i - 1] + 1 ELSE m[i - 1]
  <2>1. CASE i = Len(q)
    BY <1>1, <1>2, <2>1 DEF c
  <2>2. CASE i # Len(q)
    BY <1>1, <1>2, <2>2
  <2> QED
    BY <2>1, <2>2
<1> HIDE DEF m
<1>7. Leads(q, a, c)
  BY <1>4, <1>5, <1>6 DEF Leads
<1> QED
  BY <1>7 DEF q, c

LEMMA LeadsTail ==
  ASSUME NEW p \in Seq(Item), NEW a, NEW b, Leads(p, a, b), p # <<>>
  PROVE  Leads(Tail(p), IF Head(p) = "data" THEN a + 1 ELSE a, b)
<1> DEFINE c == IF Head(p) = "data" THEN a + 1 ELSE a
           q == Tail(p)
<1>1. PICK n \in [0..Len(p) -> Nat] :
        /\ n[0] = a /\ n[Len(p)] = b
        /\ \A i \in 1..Len(p) : n[i] = IF p[i] = "data" THEN n[i - 1] + 1 ELSE n[i - 1]
  BY DEF Leads
<1>2. /\ Len(p) \in Nat /\ Len(p) >= 1 /\ Len(q) = Len(p) - 1 /\ Head(p) = p[1]
      /\ \A i \in 1..Len(q) : q[i] = p[i + 1]
  BY HeadTailProperties, EmptySeq
<1> HIDE DEF q
<1> DEFINE m == [i \in 0..Len(q) |-> n[i + 1]]
<1>3. m \in [0..Len(q) -> Nat]
  BY <1>2
<1>4. m[0] = c /\ m[Len(q)] = b
  BY <1>1, <1>2
<1>5. ASSUME NEW i \in 1..Len(q)
      PROVE  m[i] = IF q[i] = "data" THEN m[i - 1] + 1 ELSE m[i - 1]
  BY <1>1, <1>2
<1> HIDE DEF m, c
<1>6. Leads(q, c, b)
  BY <1>3, <1>4, <1>5 DEF Leads
<1> QED
  BY <1>6 DEF q, c

\* Both buffers are parts of one sequence: the head of the first is its head,
\* and what moves from the second to the first does not change it.
LEMMA TailOfConcat ==
  ASSUME NEW S, NEW s \in Seq(S), NEW r \in Seq(S), s # <<>>
  PROVE  /\ s \o r # <<>> /\ Head(s \o r) = Head(s)
         /\ Tail(s) \o r = Tail(s \o r)
<1>1. Len(s) \in Nat \ {0} /\ Len(r) \in Nat
  BY EmptySeq, LenProperties
<1>2. /\ s \o r \in Seq(S) /\ Len(s \o r) = Len(s) + Len(r)
      /\ \A i \in 1..(Len(s) + Len(r)) :
           (s \o r)[i] = IF i <= Len(s) THEN s[i] ELSE r[i - Len(s)]
  BY ConcatProperties
<1>3. s \o r # <<>>
  BY <1>1, <1>2, EmptySeq
<1>4. /\ Tail(s) \in Seq(S) /\ Len(Tail(s)) = Len(s) - 1
      /\ \A i \in 1..Len(Tail(s)) : Tail(s)[i] = s[i + 1]
  BY HeadTailProperties
<1>5. /\ Tail(s \o r) \in Seq(S) /\ Len(Tail(s \o r)) = Len(s) + Len(r) - 1
      /\ \A i \in 1..Len(Tail(s \o r)) : Tail(s \o r)[i] = (s \o r)[i + 1]
  <2> DEFINE z == s \o r
  <2>1. z \in Seq(S) /\ z # <<>> /\ Len(z) = Len(s) + Len(r)
    BY <1>2, <1>3
  <2> HIDE DEF z
  <2>2. /\ Tail(z) \in Seq(S) /\ Len(Tail(z)) = Len(z) - 1
        /\ \A i \in 1..Len(Tail(z)) : Tail(z)[i] = z[i + 1]
    BY <2>1, HeadTailProperties
  <2> QED
    BY <2>1, <2>2 DEF z
<1>6. /\ Tail(s) \o r \in Seq(S) /\ Len(Tail(s) \o r) = Len(s) - 1 + Len(r)
      /\ \A i \in 1..(Len(s) - 1 + Len(r)) :
           (Tail(s) \o r)[i] = IF i <= Len(s) - 1 THEN Tail(s)[i]
                               ELSE r[i - (Len(s) - 1)]
  BY <1>4, ConcatProperties
<1>7. \A i \in 1..(Len(s) - 1 + Len(r)) : (Tail(s) \o r)[i] = Tail(s \o r)[i]
  <2> TAKE i \in 1..(Len(s) - 1 + Len(r))
  <2>1. (s \o r)[i + 1] = IF i + 1 <= Len(s) THEN s[i + 1] ELSE r[i + 1 - Len(s)]
    BY <1>1, <1>2
  <2>2. i - (Len(s) - 1) = i + 1 - Len(s)
    BY <1>1
  <2> QED
    BY <1>1, <1>4, <1>5, <1>6, <2>1, <2>2
<1>8. Tail(s) \o r = Tail(s \o r)
  BY <1>5, <1>6, <1>7, SeqEqual
<1>9. Head(s \o r) = Head(s)
  BY <1>1, <1>2, <1>3
<1> QED
  BY <1>3, <1>8, <1>9

LEMMA AppendToConcat ==
  ASSUME NEW S, NEW s \in Seq(S), NEW r \in Seq(S), NEW x \in S
  PROVE  s \o Append(r, x) = Append(s \o r, x)
<1>1. s \o r \in Seq(S) /\ <<x>> \in Seq(S)
  BY ConcatProperties
<1>2. Append(r, x) = r \o <<x>> /\ Append(s \o r, x) = (s \o r) \o <<x>>
  BY <1>1, AppendIsConcat
<1> QED
  BY <1>1, <1>2, ConcatAssociative

LEMMA HeadMoves ==
  ASSUME NEW S, NEW s \in Seq(S), NEW r \in Seq(S), r # <<>>
  PROVE  Append(s, Head(r)) \o Tail(r) = s \o r
<1>1. Head(r) \in S /\ Tail(r) \in Seq(S) /\ <<Head(r)>> \in Seq(S)
  BY HeadTailProperties
<1>2. Append(s, Head(r)) = s \o <<Head(r)>>
  BY <1>1, AppendIsConcat
<1>3. r = <<Head(r)>> \o Tail(r)
  <2>1. Len(r) \in Nat \ {0}
    BY EmptySeq
  <2>2. SubSeq(r, 1, Len(r)) = <<r[1]>> \o SubSeq(r, 2, Len(r))
    <3>1. 1 \in 1..Len(r) /\ Len(r) \in 1..Len(r)
      BY <2>1
    <3> QED
      BY <3>1, SubSeqRecursiveFirst
  <2> QED
    BY <2>1, <2>2, SubSeqFull, TailIsSubSeq
<1> QED
  BY <1>1, <1>2, <1>3, ConcatAssociative

LEMMA AlertTail ==
  ASSUME NEW s \in Seq(Item), s # <<>>, AlertLast(s)
  PROVE  /\ Tail(s) \in Seq(Item) /\ AlertLast(Tail(s))
         /\ Head(s) = "alert" => Tail(s) = <<>>
<1>1. /\ Len(s) \in Nat \ {0} /\ Len(Tail(s)) = Len(s) - 1 /\ Head(s) = s[1]
      /\ \A i \in 1..Len(Tail(s)) : Tail(s)[i] = s[i + 1]
      /\ Tail(s) \in Seq(Item)
  BY HeadTailProperties, EmptySeq
<1>2. \A i \in 1..Len(s) : s[i] = "alert" => i = Len(s)
  BY DEF AlertLast
<1> DEFINE r == Tail(s)
<1>3. /\ r \in Seq(Item) /\ Len(r) = Len(s) - 1
      /\ \A i \in 1..Len(r) : r[i] = s[i + 1]
  BY <1>1
<1>4. s[1] = "alert" => Len(s) = 1
  <2>1. 1 \in 1..Len(s)
    BY <1>1
  <2> QED
    BY <1>2, <2>1
<1> HIDE DEF r
<1>5. ASSUME NEW i \in 1..Len(r), r[i] = "alert" PROVE i = Len(r)
  <2>1. i + 1 \in 1..Len(s) /\ i \in Nat /\ Len(s) \in Nat
    BY <1>1, <1>3
  <2>2. s[i + 1] = "alert"
    BY <1>3, <1>5
  <2>3. i + 1 = Len(s)
    BY <1>2, <2>1, <2>2
  <2> QED
    BY <1>3, <2>1, <2>3
<1>6. AlertLast(r)
  BY <1>5 DEF AlertLast
<1>7. s[1] = "alert" => r = <<>>
  BY <1>1, <1>3, <1>4, EmptySeq
<1> QED
  BY <1>1, <1>3, <1>6, <1>7 DEF r

(***************************************************************************)
(* What a step does to the input.                                          *)
(***************************************************************************)
Rest == UNCHANGED <<script, fin, sent>>

StillInput == UNCHANGED <<intoSSL, net, recvd, rcvdClose>> /\ Rest

Consumes ==
  /\ intoSSL # <<>> /\ intoSSL' = Tail(intoSSL)
  /\ recvd' = IF Head(intoSSL) = "data" THEN recvd + 1 ELSE recvd
  /\ rcvdClose' => rcvdClose \/ Head(intoSSL) = "alert"
  /\ UNCHANGED net /\ Rest

Fills ==
  /\ \E k \in 1..Len(net) :
       /\ intoSSL' = intoSSL \o SubSeq(net, 1, k)
       /\ net' = SubSeq(net, k + 1, Len(net))
  /\ UNCHANGED <<recvd, rcvdClose>> /\ Rest

Sends ==
  /\ ~fin /\ script # <<>> /\ script' = Tail(script)
  /\ net' = Append(net, Head(script))
  /\ sent' = IF Head(script) = "data" THEN sent + 1 ELSE sent
  /\ UNCHANGED <<intoSSL, recvd, rcvdClose, fin>>

Ends == fin' = TRUE /\ UNCHANGED <<intoSSL, net, recvd, rcvdClose, script, sent>>

Input == StillInput \/ Consumes \/ Fills \/ Sends \/ Ends

LEMMA InputOfStep ==
  ASSUME [Next]_vars
  PROVE  Input
<1> USE DEF Rest, StillInput
<1>1. ASSUME NEW t \in Threads, LibraryStep(t)
      PROVE  StillInput \/ Consumes
  <2>0. Rest /\ net' = net
    BY <1>1 DEF LibraryStep, LibraryFrame, peerVars, netVars, SslHandshakeOut,
      SslHandshakeIn, SslFragment, SslWantRead, SslEof, SslReject, SslBroken,
      SslHandshakeDone, SslRead, SslZeroReturn, SslWrite, SslShutdown
  <2>1. CASE SslHandshakeIn(t) \/ SslFragment(t) \/ SslReject(t) \/ SslRead(t)
    BY <2>0, <2>1 DEF Consumes, SslHandshakeIn, SslFragment, SslReject, SslRead,
      Has, sslVars
  <2>2. CASE SslZeroReturn(t)
    BY <2>0, <2>2 DEF Consumes, SslZeroReturn, Has
  <2>3. CASE \/ SslHandshakeOut(t) \/ SslWantRead(t) \/ SslEof(t)
             \/ SslBroken(t) \/ SslHandshakeDone(t) \/ SslWrite(t)
             \/ SslShutdown(t)
    BY <2>0, <2>3 DEF SslHandshakeOut, SslWantRead, SslEof, SslBroken,
      SslHandshakeDone, SslWrite, SslShutdown, sslVars
  <2> QED
    BY <1>1, <2>1, <2>2, <2>3 DEF LibraryStep
<1>2. ASSUME NEW t \in Threads, FillData(t) PROVE Fills
  BY <1>2 DEF Fills, FillData, FillFrame, peerVars, sslVars
<1>3. ASSUME NEW t \in Threads,
             \/ \E a \in Calls : CallStart(t, a)
             \/ Lock(t) \/ FillEof(t) \/ FillError(t) \/ MarkEOF(t)
             \/ ClearFuture(t) \/ SetFuture(t) \/ WaitDone(t)
             \/ CloseLock(t) \/ NetClose(t)
      PROVE  StillInput
  BY <1>3 DEF CallStart, Lock, FillEof, FillError, FillFrame, MarkEOF,
    ClearFuture, SetFuture, WaitDone, CloseLock, NetClose, peerVars, sslVars,
    readVars, netVars
<1>4. ASSUME NEW a, FlushStep(a) PROVE StillInput
  BY <1>4 DEF FlushStep, FlushLock, NetWrite, Trim, peerVars, sslVars, readVars,
    netVars
<1>5. PeerSend => Sends
  BY DEF Sends, PeerSend, sslVars, readVars
<1>6. PeerFin => Ends
  BY DEF Ends, PeerFin, sslVars, readVars, netVars
<1>7. FlushStart \/ Done \/ UNCHANGED vars => StillInput
  BY DEF FlushStart, Done, vars, sslVars, readVars, netVars, peerVars
<1> QED
  BY <1>1, <1>2, <1>3, <1>4, <1>5, <1>6, <1>7
  DEF Next, ThreadStep, FlusherStep, Input

(* The library takes the first item of what is left; nothing else changes  *)
(* what is left, and what the library did not take only grows by what the  *)
(* peer sends.                                                             *)
LEMMA InputStep ==
  ASSUME TypeOK, Input, InputInv
  PROVE  InputInv' /\ (Drained => Drained')
<1>0. /\ intoSSL \in Seq(Item) /\ net \in Seq(Item) /\ script \in Seq(Item)
      /\ Pipe \in Seq(Item) /\ Left \in Seq(Item)
      /\ recvd \in Nat /\ sent \in Nat
  <2>1. intoSSL \in Seq(Item) /\ net \in Seq(Item) /\ script \in Seq(Item)
        /\ recvd \in Nat /\ sent \in Nat
    BY DEF TypeOK
  <2>2. Pipe \in Seq(Item)
    BY <2>1, ConcatProperties DEF Pipe
  <2>3. Left \in Seq(Item)
    BY <2>1, <2>2, ConcatProperties DEF Left
  <2> QED
    BY <2>1, <2>2, <2>3
<1>1. Leads(Pipe, recvd, sent) /\ AlertLast(Left) /\ (rcvdClose => Left = <<>>)
  BY DEF InputInv
<1>2. Left = <<>> => Pipe = <<>> /\ script = <<>>
  BY <1>0, ConcatEqualIffEmpty DEF Left
<1>a. ASSUME Pipe' = Pipe, Left' = Left, UNCHANGED <<recvd, sent, rcvdClose>>
      PROVE  InputInv'
  BY <1>1, <1>a DEF InputInv, AlertLast
<1>3. CASE StillInput
  <2>1. Pipe' = Pipe /\ Left' = Left
    BY <1>3 DEF StillInput, Rest, Pipe, Left
  <2> QED
    BY <1>3, <1>a, <2>1 DEF StillInput, Rest, Drained
<1>4. CASE Ends
  <2>1. Pipe' = Pipe /\ Left' = Left
    BY <1>4 DEF Ends, Pipe, Left
  <2> QED
    BY <1>4, <1>a, <2>1 DEF Ends, Drained
<1>5. CASE Consumes
  <2>1. /\ Pipe # <<>> /\ Head(Pipe) = Head(intoSSL) /\ Pipe' = Tail(Pipe)
        /\ sent' = sent
    BY <1>0, <1>5, TailOfConcat DEF Consumes, Pipe, Rest
  <2>2. /\ Left # <<>> /\ Head(Left) = Head(Pipe) /\ Left' = Tail(Left)
    BY <1>0, <1>5, <2>1, TailOfConcat DEF Consumes, Left, Rest
  <2>3. Leads(Pipe, recvd, sent)'
    BY <1>0, <1>1, <1>5, <2>1, LeadsTail DEF Consumes
  <2>4. AlertLast(Left') /\ (Head(Left) = "alert" => Left' = <<>>)
    BY <1>0, <1>1, <2>2, AlertTail
  <2>5. rcvdClose' => Left' = <<>>
    BY <1>1, <1>5, <2>1, <2>2, <2>4 DEF Consumes
  <2>6. ~Drained
    BY <2>1 DEF Drained
  <2> QED
    BY <2>3, <2>4, <2>5, <2>6 DEF InputInv, AlertLast
<1>6. CASE Fills
  <2>1. PICK k \in 1..Len(net) :
          /\ intoSSL' = intoSSL \o SubSeq(net, 1, k)
          /\ net' = SubSeq(net, k + 1, Len(net))
    BY <1>6 DEF Fills
  <2>2. Len(net) \in Nat
    BY <1>0
  <2>3. SubSeq(net, 1, k) \o SubSeq(net, k + 1, Len(net)) = net
    <3>1. 1 \in 1..(Len(net) + 1) /\ k \in (1 - 1)..Len(net)
          /\ Len(net) \in k..Len(net)
      BY <2>1, <2>2
    <3>2. SubSeq(net, 1, k) \o SubSeq(net, k + 1, Len(net)) =
            SubSeq(net, 1, Len(net))
      BY <1>0, <3>1, ConcatAdjacentSubSeq
    <3> QED BY <1>0, <3>2, SubSeqFull
  <2>4. /\ SubSeq(net, 1, k) \in Seq(Item)
        /\ SubSeq(net, k + 1, Len(net)) \in Seq(Item)
    BY <1>0, <2>1, <2>2, SMTT(30)
  <2>5. Pipe' = Pipe
    <3>1. ASSUME NEW x \in Seq(Item), NEW y \in Seq(Item)
          PROVE  (intoSSL \o x) \o y = intoSSL \o (x \o y)
      <4>1. intoSSL \in Seq(Item)
        BY <1>0
      <4> QED
        BY <4>1, ConcatAssociative, SMTT(30)
    <3> QED
      BY <2>1, <2>3, <2>4, <3>1 DEF Pipe
  <2>6. Left' = Left
    BY <1>6, <2>5 DEF Fills, Rest, Left
  <2> QED
    BY <1>6, <1>a, <2>5, <2>6 DEF Fills, Rest, Drained
<1>7. CASE Sends
  <2>0. /\ Head(script) \in Item /\ net' = Append(net, Head(script))
        /\ script # <<>> /\ intoSSL' = intoSSL
    BY <1>0, <1>7, HeadTailProperties DEF Sends
  <2>1. Pipe' = Append(Pipe, Head(script))
    BY <1>0, <2>0, AppendToConcat DEF Pipe
  <2>2. Left' = Left
    BY <1>0, <1>7, <2>0, <2>1, HeadMoves DEF Left, Sends
  <2>3. Leads(Pipe, recvd, sent)'
    BY <1>0, <1>1, <1>7, <2>0, <2>1, LeadsAppend DEF Sends
  <2>4. ~Drained /\ rcvdClose' = rcvdClose
    BY <1>7 DEF Sends, Drained
  <2> QED
    BY <1>1, <2>2, <2>3, <2>4 DEF InputInv, AlertLast
<1> QED
  BY <1>3, <1>4, <1>5, <1>6, <1>7 DEF Input

LEMMA InputInit == Init => InputInv
<1> SUFFICES ASSUME Init PROVE InputInv
  OBVIOUS
<1>0. /\ script \in Scripts /\ intoSSL = <<>> /\ net = <<>> /\ sent = 0
      /\ recvd = 0 /\ rcvdClose = FALSE
  BY DEF Init
<1>1. script \in Seq(Item) /\ (\A i \in DOMAIN script : script[i] = "alert" => i = Len(script))
  BY <1>0, ConnAssumption DEF PeerScript
<1>2. Pipe = <<>> /\ Left = script
  <2>1. Pipe = <<>>
    BY <1>0, EmptySeq, ConcatEmptySeq DEF Pipe
  <2> QED
    BY <1>1, <2>1, ConcatEmptySeq DEF Left
<1>3. AlertLast(Left)
  BY <1>1, <1>2 DEF AlertLast
<1> QED
  BY <1>0, <1>2, <1>3, LeadsEmpty DEF InputInv

(***************************************************************************)
(* Who finds the end of the input.                                         *)
(***************************************************************************)
Over == Drained \/ userClosed

LEMMA NotOver ==
  ASSUME NEW t \in Threads, pc'[t] # "eof", cont'[t] = "none",
         ret'[t] # "eof"
  PROVE  AtEnd(t)'
BY DEF AtEnd

LEMMA SameCloser ==
  ASSUME NEW t \in Threads, AtEnd(t), pc'[t] # "eof", cont'[t] = cont[t],
         ret'[t] # "eof", Drained => Drained', userClosed => userClosed'
  PROVE  AtEnd(t)'
BY DEF AtEnd

LEMMA CloseReturnEnd ==
  ASSUME TypeOK, NEW t \in Threads, NEW e \in Errs, CloseReturn(t, e),
         cont[t] # "none", ret[t] = "none", Answers(t), AtEnd(t), api' = api,
         Drained => Drained', userClosed => userClosed'
  PROVE  AtEnd(t)'
<1>0. cont'[t] = "none" /\ cont[t] \in {"user", "eof", "zero"}
  BY DEF CloseReturn, TypeOK, Conts
<1>1. CASE cont[t] = "user"
  <2>1. Return(t, e) /\ api[t] = "Close" /\ api'[t] = "Close"
    BY <1>1 DEF CloseReturn, Answers
  <2>2. pc'[t] = "idle"
    BY <2>1, ReturnAnswer
  <2> QED
    BY <1>0, <2>1, <2>2 DEF AtEnd
<1>2. CASE cont[t] = "zero"
  <2>1. Return(t, "ueof") /\ Drained'
    BY <1>2 DEF CloseReturn, AtEnd
  <2>2. pc'[t] = "idle"
    BY <2>1, ReturnAnswer
  <2> QED
    BY <1>0, <2>1, <2>2 DEF AtEnd
<1>3. CASE cont[t] = "eof"
  BY <1>0, <1>3, NotOver DEF CloseReturn, Goto, SetErr, doneVars, TypeOK, Actors
<1> QED
  BY <1>0, <1>1, <1>2, <1>3

LEMMA OwnEnd ==
  ASSUME ~DataWithEof, TypeInv, MutexInv, NEW t \in Threads, StepOf(t),
         Answers(t), AtEnd(t), InputInv', isShutdown => Over,
         Drained => Drained', userClosed => userClosed'
  PROVE  AtEnd(t)' /\ (isShutdown' => Over')
<1> DEFINE Goal == AtEnd(t)' /\ (isShutdown' => Over')
<1>0. /\ TypeOK /\ t \in Actors /\ got[t] \in {"none", "again", "err"}
      /\ pc \in [Actors -> Pcs] /\ cont \in [Threads -> Conts]
      /\ ret \in [Threads -> Errs \cup {"none"}] /\ api \in [Threads -> Api]
      /\ err \in [Threads -> Errs]
      /\ pc[t] # "idle" => ret[t] = "none"
  BY DEF TypeInv, TypeOK, Actors, Answers
<1>a. isShutdown' = isShutdown => (isShutdown' => Over')
  BY DEF Over
<1>1. ASSUME NEW a \in Calls, CallStart(t, a) PROVE Goal
  <2>1. /\ pc'[t] # "eof" /\ ret'[t] = "none" /\ isShutdown' = isShutdown
        /\ cont'[t] = "none" \/ (cont'[t] = "user" /\ userClosed')
    BY <1>0, <1>1 DEF CallStart, Goto, TypeOK, connVars
  <2>2. AtEnd(t)'
    BY <2>1 DEF AtEnd
  <2> QED
    BY <1>a, <2>1, <2>2
<1>2. CASE Lock(t)
  <2>0. UNCHANGED <<cont, isShutdown>> /\ pc[t] = "lock"
    BY <1>2 DEF Lock
  <2>1. CASE Refused(t)
    <3>1. Return(t, Refusal(api[t])) /\ cont'[t] = "none" /\ Over
      BY <1>2, <2>0, <2>1 DEF Lock, Refused
    <3>2. pc'[t] = "idle"
      BY <1>0, <3>1, ReturnAnswer
    <3>3. AtEnd(t)'
      BY <3>1, <3>2 DEF AtEnd, Over
    <3> QED
      BY <1>a, <2>0, <3>3
  <2>2. CASE ~Refused(t)
    <3>1. pc'[t] = "ssl" /\ ret'[t] = "none"
      BY <1>0, <1>2, <2>0, <2>2 DEF Lock, Goto, doneVars
    <3>2. AtEnd(t)'
      BY <2>0, <3>1, SameCloser
    <3> QED
      BY <1>a, <2>0, <3>2
  <2> QED
    BY <2>1, <2>2
<1>3. CASE SslHandshakeOut(t) \/ SslHandshakeIn(t) \/ SslFragment(t)
           \/ SslWantRead(t) \/ SslWrite(t) \/ SslShutdown(t)
  <2>1. /\ pc[t] = "ssl" /\ ret' = ret /\ UNCHANGED <<cont, isShutdown>>
    BY <1>3 DEF SslHandshakeOut, SslHandshakeIn, SslFragment, SslWantRead,
      SslWrite, SslShutdown, NeedsInput, InLibrary, LibraryFrame, doneVars
  <2>2. pc'[t] \in {"ssl", "wait", "fill", "flock", "netclose"}
    BY <1>0, <1>3, <2>1 DEF SslHandshakeOut, SslHandshakeIn, SslFragment,
      SslWantRead, SslWrite, SslShutdown, ThenFlush, Goto
  <2>3. AtEnd(t)'
    BY <1>0, <2>1, <2>2, SameCloser
  <2> QED
    BY <1>a, <2>1, <2>3
<1>4. CASE SslEof(t) \/ SslReject(t) \/ SslBroken(t) \/ SslHandshakeDone(t)
           \/ SslRead(t)
  <2>1. /\ UNCHANGED <<cont, isShutdown>> /\ cont[t] = "none"
        /\ Return(t, "err") \/ Return(t, "nil")
    BY <1>4 DEF SslEof, SslReject, SslBroken, SslHandshakeDone, SslRead,
      NeedsInput, InLibrary, LibraryFrame
  <2>2. pc'[t] = "idle" /\ ret'[t] # "eof"
    BY <1>0, <2>1, ReturnAnswer DEF ReadResult
  <2>3. AtEnd(t)'
    BY <2>1, <2>2, NotOver
  <2> QED
    BY <1>a, <2>1, <2>3
<1>5. CASE SslZeroReturn(t)
  <2>1. /\ pc'[t] = "close" /\ cont'[t] = "zero" /\ ret'[t] = "none"
        /\ rcvdClose' /\ isShutdown' = isShutdown
    BY <1>0, <1>5 DEF SslZeroReturn, InLibrary, Goto, LibraryFrame, doneVars
  <2>2. Left' = <<>>
    BY <2>1 DEF InputInv
  <2>3. Drained'
    <3>1. /\ (intoSSL \in Seq(Item))' /\ (net \in Seq(Item))'
          /\ (script \in Seq(Item))'
      <4>1. [Next]_vars
        BY <1>5 DEF Next, ThreadStep, LibraryStep
      <4> QED
        BY <4>1, TypeStep DEF TypeInv, TypeOK
    <3>2. (Pipe \in Seq(Item))'
      BY <3>1, ConcatProperties DEF Pipe
    <3>3. (Pipe = <<>> /\ script = <<>>)'
      BY <2>2, <3>1, <3>2, ConcatEqualIffEmpty DEF Left
    <3> QED
      BY <3>3 DEF Drained
  <2>4. AtEnd(t)'
    BY <2>1, <2>3 DEF AtEnd
  <2> QED
    BY <1>a, <2>1, <2>4
<1>6. CASE FillData(t) \/ FillError(t) \/ ClearFuture(t)
  <2>1. /\ pc'[t] \in {"clear", "set"} /\ ret'[t] = "none"
        /\ UNCHANGED <<cont, isShutdown>>
    BY <1>0, <1>6 DEF FillData, FillError, ClearFuture, FillFrame, SetErr,
      Goto, doneVars
  <2>2. AtEnd(t)'
    BY <2>1, SameCloser
  <2> QED
    BY <1>a, <2>1, <2>2
<1>7. CASE FillEof(t)
  <2>1. /\ pc[t] = "fill" /\ fin /\ net = <<>> /\ ret'[t] = "none"
        /\ UNCHANGED <<cont, isShutdown>>
    BY <1>0, <1>7 DEF FillEof, FillFrame, doneVars
  <2>2. Drained
    <3>1. intoSSL = <<>>
      BY <2>1 DEF MutexInv, Futures, FillDiscipline
    <3> QED
      BY <2>1, <3>1, EmptySeq, ConcatEmptySeq DEF Drained, Pipe
  <2>3. AtEnd(t)'
    BY <2>1, <2>2 DEF AtEnd
  <2> QED
    BY <1>a, <2>1, <2>3
<1>8. CASE MarkEOF(t)
  <2>1. /\ pc[t] = "eof" /\ ret'[t] = "none" /\ cont'[t] = "eof"
        /\ isShutdown' = isShutdown
    BY <1>0, <1>8 DEF MarkEOF, doneVars
  <2>2. Drained'
    BY <2>1 DEF AtEnd
  <2>3. AtEnd(t)'
    BY <2>1, <2>2 DEF AtEnd
  <2> QED
    BY <1>a, <2>1, <2>3
<1>9. CASE SetFuture(t) \/ WaitDone(t)
  <2>1. /\ pc[t] # "idle" /\ UNCHANGED <<cont, isShutdown>>
        /\ \E r \in {"again", "err"} : Retry(t, r)
    BY <1>0, <1>9 DEF SetFuture, WaitDone, Answers, connVars
  <2>2. pc'[t] \in {"idle", "lock"} /\ ret'[t] # "eof"
    BY <1>0, <2>1, RetryAnswer
  <2>3. AtEnd(t)'
    BY <2>1, <2>2, SameCloser
  <2> QED
    BY <1>a, <2>1, <2>3
<1>10. CASE CloseLock(t)
  <2>0. pc[t] = "close" /\ cont[t] # "none" /\ ret[t] = "none" /\ api' = api
    BY <1>0, <1>10 DEF CloseLock, MutexInv, Places, callVars
  <2>1. CASE ClosedBefore
    <3>1. CloseReturn(t, "nil") /\ isShutdown' = isShutdown
      BY <1>10, <2>1 DEF CloseLock
    <3>2. AtEnd(t)'
      <4>1. "nil" \in Errs
        BY DEF Errs
      <4> QED
        BY <1>0, <2>0, <3>1, <4>1, CloseReturnEnd
    <3> QED
      BY <1>a, <3>1, <3>2
  <2>2. CASE ~ClosedBefore
    <3>1. pc'[t] = "lock" /\ ret'[t] = "none" /\ cont'[t] = cont[t]
      BY <1>0, <1>10, <2>0, <2>2 DEF CloseLock, Goto, doneVars
    <3>2. AtEnd(t)'
      BY <3>1, SameCloser
    <3>3. Over
      BY <1>0, <2>0 DEF AtEnd, Over, Conts
    <3>4. Over'
      BY <3>3 DEF Over
    <3> QED
      BY <3>2, <3>4
  <2> QED
    BY <2>1, <2>2
<1>11. CASE NetClose(t)
  <2>1. /\ pc[t] = "netclose" /\ cont[t] # "none" /\ ret[t] = "none"
        /\ api' = api /\ isShutdown' = isShutdown /\ CloseReturn(t, err[t])
        /\ err[t] \in Errs
    BY <1>0, <1>11 DEF NetClose, MutexInv, Places, callVars, connVars
  <2>2. AtEnd(t)'
    BY <1>0, <2>1, CloseReturnEnd
  <2> QED
    BY <1>a, <2>1, <2>2
<1>12. CASE FlushStep(t)
  <2>0. /\ pc[t] # "idle" /\ UNCHANGED <<cont, isShutdown>> /\ ret[t] = "none"
    BY <1>0, <1>12 DEF FlushStep, FlushLock, NetWrite, Trim, connVars
  <2>1. pc'[t] # "eof" /\ ret'[t] # "eof"
    <3>1. CASE \E e \in {"nil", "err"} : AfterFlush(t, e)
      <4>1. PICK e \in {"nil", "err"} : AfterFlush(t, e)
        BY <3>1
      <4>2. t # Flusher
        BY ConnAssumption
      <4>3. CASE cont[t] = "none"
        BY <1>0, <4>1, <4>2, <4>3, ReturnAnswer DEF AfterFlush, ReadResult
      <4>4. CASE cont[t] # "none"
        BY <1>0, <2>0, <4>1, <4>2, <4>4 DEF AfterFlush, Goto, doneVars
      <4> QED
        BY <4>3, <4>4
    <3>2. CASE (\E p \in {"fwrite", "ftrim"} : Goto(t, p)) /\ UNCHANGED doneVars
      BY <1>0, <2>0, <3>2 DEF Goto, doneVars
    <3>3. flight.err \in {"nil", "err"}
      BY <1>0 DEF TypeOK
    <3> QED
      BY <1>12, <3>1, <3>2, <3>3 DEF FlushStep, FlushLock, NetWrite, Trim
  <2>2. AtEnd(t)'
    BY <2>0, <2>1, SameCloser
  <2> QED
    BY <1>a, <2>0, <2>2
<1> QED
  BY <1>1, <1>2, <1>3, <1>4, <1>5, <1>6, <1>7, <1>8, <1>9, <1>10, <1>11, <1>12
  DEF StepOf, ThreadStep, LibraryStep

LEMMA EofStep ==
  ASSUME ~DataWithEof, TypeInv, MutexInv, OutputInv, EofInv, [Next]_vars
  PROVE  EofInv'
<1>0. TypeOK /\ Input /\ InputInv
  BY InputOfStep DEF TypeInv, EofInv
<1>1. InputInv' /\ (Drained => Drained')
  BY <1>0, InputStep
<1>2. userClosed => userClosed'
  <2>1. ASSUME NEW t \in Threads, ThreadStep(t) PROVE userClosed' = userClosed
    BY <2>1 DEF ThreadStep, Lock, LibraryStep, FillData,
      FillEof, FillError, FillFrame, MarkEOF, ClearFuture, SetFuture, WaitDone,
      CloseLock, NetClose, FlushStep, FlushLock, NetWrite, Trim,
      SslHandshakeOut, SslHandshakeIn, SslFragment, SslWantRead, SslEof,
      SslReject, SslBroken, SslHandshakeDone, SslRead, SslZeroReturn, SslWrite,
      SslShutdown, callVars
  <2>2. ASSUME NEW t \in Threads, NEW a \in Calls, CallStart(t, a)
        PROVE  userClosed => userClosed'
    BY <2>2 DEF CallStart
  <2>3. FlusherStep \/ PeerSend \/ PeerFin \/ Done \/ UNCHANGED vars
          => userClosed' = userClosed
    BY DEF FlusherStep, FlushStart, FlushStep, FlushLock, NetWrite, Trim,
      PeerSend, PeerFin, Done, vars, callVars
  <2> QED
    BY <2>1, <2>2, <2>3 DEF Next
<1>a. ASSUME NEW u \in Threads, Untouched(u) PROVE AtEnd(u)'
  BY <1>1, <1>2, <1>a DEF Untouched, AtEnd, EofInv
<1>3. ASSUME NEW t \in Threads, StepOf(t) PROVE EofInv'
  <2>1. AtEnd(t)' /\ (isShutdown' => Over')
    BY <1>1, <1>2, <1>3, OwnEnd DEF EofInv, OutputInv, Over
  <2>2. ASSUME NEW u \in Threads, u # t PROVE AtEnd(u)'
    BY <1>0, <1>3, <1>a, <2>2, OthersUntouched
  <2> QED
    BY <1>1, <2>1, <2>2 DEF EofInv, Over
<1>4. CASE FlusherStep \/ PeerSend \/ PeerFin \/ Done \/ UNCHANGED vars
  <2>1. isShutdown' = isShutdown
    BY <1>4 DEF FlusherStep, FlushStart, FlushStep, FlushLock, NetWrite, Trim,
      PeerSend, PeerFin, Done, vars, connVars
  <2>2. ASSUME NEW u \in Threads PROVE Untouched(u)
    <3>1. CASE FlusherStep
      BY <1>0, <3>1, FlusherUntouched
    <3>2. CASE PeerSend \/ PeerFin \/ Done \/ UNCHANGED vars
      BY <3>2 DEF PeerSend, PeerFin, Done, vars, Untouched, callVars, doneVars
    <3> QED
      BY <1>4, <3>1, <3>2
  <2> QED
    BY <1>1, <1>2, <1>a, <2>1, <2>2 DEF EofInv
<1> QED
  BY <1>3, <1>4 DEF Next, StepOf

\* Over a net.Conn that does not report data together with io.EOF, Read says
\* io.EOF only when all that the peer sent has been read, unless the program
\* closed the connection (conn.go, Read, fillInputBuffer and Close).
THEOREM EndOfData ==
  ASSUME ~DataWithEof
  PROVE  Spec => []EofIsComplete
<1>1. Init => EofInv
  <2> SUFFICES ASSUME Init PROVE EofInv
    OBVIOUS
  <2>1. ASSUME NEW t \in Threads PROVE AtEnd(t)
    <3>1. pc[t] = "idle" /\ cont[t] = "none" /\ ret[t] = "none"
      BY DEF Init, Actors
    <3> QED
      BY <3>1 DEF AtEnd
  <2>2. ~isShutdown
    BY DEF Init
  <2> QED
    BY <2>1, <2>2, InputInit DEF EofInv
<1>2. TypeInv /\ MutexInv /\ OutputInv /\ EofInv /\ [Next]_vars => EofInv'
  BY EofStep
<1>3. TypeInv /\ EofInv => EofIsComplete
  <2> SUFFICES ASSUME TypeInv, EofInv, NEW t \in Threads, ~userClosed,
                      api[t] = "Read", ret[t] = "eof"
               PROVE  recvd = sent
    BY DEF EofIsComplete
  <2>1. Pipe = <<>>
    BY DEF EofInv, AtEnd, Drained
  <2>2. Leads(Pipe, recvd, sent) /\ recvd \in Nat
    BY DEF EofInv, InputInv, TypeInv, TypeOK
  <2> QED
    BY <2>1, <2>2, LeadsEmpty
<1> QED
  BY <1>1, <1>2, <1>3, Types, MutexCorrect, OutputCorrect, PTL DEF Spec
=============================================================================
