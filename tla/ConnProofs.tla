----------------------------- MODULE ConnProofs -----------------------------
(***************************************************************************)
(* Control in Conn, for any number of goroutines, calls, faults and flush  *)
(* goroutines, any peer and either role: the types, the discipline of      *)
(* opMtx, and what c.mtx protects.  One goroutine at a time reads the      *)
(* wrapped connection, nobody waits for a future that nobody will Set, and *)
(* once isShutdown is set the library only shuts down, once.               *)
(***************************************************************************)
EXTENDS Conn, SequenceTheorems, TLAPS

(***************************************************************************)
(* What the operators that end a call do to pc, ret and nflush.            *)
(***************************************************************************)
LEMMA ReturnFacts ==
  ASSUME TypeOK, NEW t \in Threads, NEW r \in Errs, Return(t, r)
  PROVE  /\ pc' = [pc EXCEPT ![t] = "idle"]
         /\ ret' \in [Threads -> Errs \cup {"none"}]
         /\ nflush' \in 0..MaxFlush
<1>1. ReadResult(r) \in Errs
  BY DEF ReadResult, Errs
<1>2. nflush' = nflush \/ Spawn
  BY DEF Return
<1>3. nflush' \in 0..MaxFlush
  BY <1>2, ConnAssumption, SMTT(30) DEF TypeOK, Spawn
<1> QED BY <1>1, <1>3 DEF Return, Goto, TypeOK

LEMMA RetryFacts ==
  ASSUME TypeOK, NEW t \in Threads, NEW r \in Errs, Retry(t, r)
  PROVE  /\ \E p \in {"lock", "idle"} : pc' = [pc EXCEPT ![t] = p]
         /\ ret' \in [Threads -> Errs \cup {"none"}]
         /\ nflush' \in 0..MaxFlush
<1>1. CASE r = "again"
  BY <1>1 DEF Retry, Goto, doneVars, TypeOK
<1>2. CASE r # "again"
  BY <1>2, ReturnFacts DEF Retry
<1> QED BY <1>1, <1>2

LEMMA CloseReturnFacts ==
  ASSUME TypeOK, NEW t \in Threads, NEW e \in Errs, CloseReturn(t, e)
  PROVE  /\ \/ cont[t] \in {"user", "zero"} /\ pc' = [pc EXCEPT ![t] = "idle"]
            \/ cont[t] \in {"none", "eof"} /\ pc' = [pc EXCEPT ![t] = "clear"]
         /\ cont' = [cont EXCEPT ![t] = "none"]
         /\ ret' \in [Threads -> Errs \cup {"none"}]
         /\ nflush' \in 0..MaxFlush
         /\ err' \in [Threads -> Errs]
<1>0. err \in [Threads -> Errs] /\ "nil" \in Errs
  BY DEF TypeOK, Errs
<1>1. cont[t] \in {"none", "user", "eof", "zero"}
  BY DEF TypeOK, Conts
<1>2. CASE cont[t] = "user"
  <2>1. Return(t, e) /\ SetErr(t, "nil") /\ cont' = [cont EXCEPT ![t] = "none"]
    BY <1>2 DEF CloseReturn
  <2>2. /\ pc' = [pc EXCEPT ![t] = "idle"]
        /\ ret' \in [Threads -> Errs \cup {"none"}]
        /\ nflush' \in 0..MaxFlush
    BY <2>1, ReturnFacts
  <2>3. err' \in [Threads -> Errs]
    BY <1>0, <2>1 DEF SetErr
  <2> QED BY <1>2, <2>1, <2>2, <2>3
<1>3. CASE cont[t] = "zero"
  <2>1. /\ Return(t, "ueof") /\ SetErr(t, "nil")
        /\ cont' = [cont EXCEPT ![t] = "none"]
    BY <1>3 DEF CloseReturn
  <2>2. "ueof" \in Errs
    BY DEF Errs
  <2>3. /\ pc' = [pc EXCEPT ![t] = "idle"]
        /\ ret' \in [Threads -> Errs \cup {"none"}]
        /\ nflush' \in 0..MaxFlush
    BY <2>1, <2>2, ReturnFacts
  <2>4. err' \in [Threads -> Errs]
    BY <1>0, <2>1 DEF SetErr
  <2> QED BY <1>3, <2>1, <2>3, <2>4
<1>4. CASE cont[t] \in {"none", "eof"}
  BY <1>4 DEF CloseReturn, Goto, SetErr, doneVars, TypeOK, Errs
<1> QED BY <1>1, <1>2, <1>3, <1>4

LEMMA AfterFlushFacts ==
  ASSUME TypeOK, NEW a \in Actors, NEW e \in {"nil", "err"}, AfterFlush(a, e)
  PROVE  /\ \/ a = Flusher /\ pc' = [pc EXCEPT ![a] = "idle"]
            \/ /\ a \in Threads /\ cont[a] = "none"
               /\ pc' = [pc EXCEPT ![a] = "idle"]
            \/ /\ a \in Threads /\ cont[a] # "none"
               /\ pc' = [pc EXCEPT ![a] = "netclose"]
         /\ ret' \in [Threads -> Errs \cup {"none"}]
         /\ nflush' \in 0..MaxFlush
         /\ err' \in [Threads -> Errs]
<1>0. e \in Errs
  BY DEF Errs
<1>1. CASE a = Flusher
  BY <1>1 DEF AfterFlush, Goto, doneVars, TypeOK
<1>2. CASE a \in Threads /\ a # Flusher /\ cont[a] = "none"
  BY <1>0, <1>2, ReturnFacts DEF AfterFlush, TypeOK
<1>3. CASE a \in Threads /\ a # Flusher /\ cont[a] # "none"
  <2>1. /\ pc' = [pc EXCEPT ![a] = "netclose"]
        /\ err' = [err EXCEPT ![a] = e] /\ ret' = ret /\ nflush' = nflush
    BY <1>3 DEF AfterFlush, Goto, SetErr, doneVars
  <2> QED BY <1>0, <1>3, <2>1 DEF TypeOK
<1> QED BY <1>1, <1>2, <1>3 DEF Actors

(***************************************************************************)
(* Types, and the discipline of opMtx.                                     *)
(***************************************************************************)
\* opMtx is held in the part of WriteTo that it protects, and the snapshot
\* is a prefix of what the buffer holds.
FlushInv ==
  /\ \A a \in Actors : opMtx = a <=> pc[a] \in {"fwrite", "ftrim"}
  /\ flight.n <= flight.len /\ flight.len <= Len(fromSSL)
  /\ \A a \in Actors : pc[a] = "fwrite" => flight.n = 0
  /\ opMtx = NoThread => flight.len = 0

TypeInv == TypeOK /\ FlushInv

LEMMA TypeInit == Init => TypeInv
<1> SUFFICES ASSUME Init PROVE TypeInv
  OBVIOUS
<1> USE ConnAssumption
<1>1. script \in Seq(Item)
  BY DEF Init, PeerScript
<1>2. TypeOK
  <2>1. MaxCalls \in Nat /\ MaxFlush \in Nat /\ MaxFaults \in Nat
        /\ Roles \subseteq BOOLEAN
    OBVIOUS
  <2>2. /\ calls \in [Threads -> 0..MaxCalls] /\ mark \in [Threads -> Nat]
        /\ nflush \in 0..MaxFlush /\ faults \in 0..MaxFaults
    BY <2>1 DEF Init
  <2>3. /\ isShutdown \in BOOLEAN /\ eof \in BOOLEAN /\ isClient \in BOOLEAN
        /\ broken \in BOOLEAN /\ rcvdClose \in BOOLEAN /\ fin \in BOOLEAN
        /\ netClosed \in BOOLEAN /\ userClosed \in BOOLEAN
    BY <2>1 DEF Init
  <2>4. /\ pc \in [Actors -> Pcs]
        /\ pc[Flusher] \in {"idle", "flock", "fwrite", "ftrim"}
    BY DEF Init, Pcs, Actors
  <2>5. /\ api \in [Threads -> Api] /\ cont \in [Threads -> Conts]
        /\ err \in [Threads -> Errs] /\ got \in [Threads -> Errs \cup {"none"}]
        /\ waitOn \in [Threads -> Threads \cup {NoThread}]
        /\ ret \in [Threads -> Errs \cup {"none"}]
    BY DEF Init, Api, Conts, Errs
  <2>6. /\ flight \in [len : Nat, n : Nat, err : {"nil", "err"}]
        /\ hs \in 0..4 /\ recvd \in Nat /\ sent \in Nat
    BY DEF Init
  <2>7. /\ mtx \in Threads \cup {NoThread} /\ opMtx \in Actors \cup {NoThread}
        /\ wantReadFuture \in Threads \cup {NoThread}
        /\ intoSSL \in Seq(Item) /\ fromSSL \in Seq(OutItem)
        /\ appended \in Seq(OutItem) /\ wire \in Seq(OutItem)
        /\ net \in Seq(Item)
    BY DEF Init
  <2> QED BY <1>1, <2>2, <2>3, <2>4, <2>5, <2>6, <2>7 DEF TypeOK
<1>3. FlushInv
  BY DEF Init, FlushInv, Actors
<1> QED BY <1>2, <1>3 DEF TypeInv

\* A step that moves t between places outside WriteTo, and at most adds to
\* fromSSL, keeps FlushInv.
LEMMA FlushFrame ==
  ASSUME TypeInv, NEW t \in Actors, NEW p \in Pcs \ {"fwrite", "ftrim"},
         pc[t] \notin {"fwrite", "ftrim"},
         pc' = [pc EXCEPT ![t] = p] \/ pc' = pc,
         UNCHANGED <<opMtx, flight>>,
         fromSSL' = fromSSL \/ \E item \in OutItem : Emit(item)
  PROVE  FlushInv'
<1>1. Len(fromSSL) \in Nat /\ Len(fromSSL') \in Nat /\ Len(fromSSL') >= Len(fromSSL)
  BY SMTT(30) DEF TypeInv, TypeOK, Emit
<1>2. flight.n \in Nat /\ flight.len \in Nat
  BY DEF TypeInv, TypeOK
<1>3. \A a \in Actors : pc'[a] \in {"fwrite", "ftrim"} <=> pc[a] \in {"fwrite", "ftrim"}
  BY DEF TypeInv, TypeOK
<1>4. \A a \in Actors : pc'[a] = "fwrite" => pc[a] = "fwrite"
  BY DEF TypeInv, TypeOK
<1> QED BY <1>1, <1>2, <1>3, <1>4 DEF TypeInv, FlushInv

\* The steps of the library.
LEMMA LibraryTypes ==
  ASSUME TypeInv, NEW t \in Threads, LibraryStep(t)
  PROVE  TypeInv'
<1> USE ConnAssumption
<1>0. /\ TypeOK /\ t \in Actors /\ t # Flusher
      /\ {"idle", "wait", "fill", "close", "flock", "netclose"} \subseteq
           Pcs \ {"fwrite", "ftrim"}
      /\ {"nil", "err"} \subseteq Errs
  BY DEF TypeInv, Actors, Pcs, Errs
<1>a. InLibrary(t) \/ pc[t] = "ssl" => pc[t] \notin {"fwrite", "ftrim"}
  BY DEF InLibrary
<1>b. ASSUME NEW item \in OutItem, Emit(item)
      PROVE  fromSSL' \in Seq(OutItem) /\ appended' \in Seq(OutItem)
             /\ Len(appended') \in Nat
  BY <1>0, <1>b DEF Emit, TypeOK
<1>c. ASSUME intoSSL # <<>>
      PROVE  Tail(intoSSL) \in Seq(Item)
  BY <1>0, <1>c DEF TypeOK
<1>d. ASSUME NEW p \in Pcs \ {"fwrite", "ftrim"}, pc' = [pc EXCEPT ![t] = p]
      PROVE  /\ pc' \in [Actors -> Pcs]
             /\ pc'[Flusher] \in {"idle", "flock", "fwrite", "ftrim"}
  BY <1>0, <1>d DEF TypeOK, Actors
<1>e. /\ waitOn \in [Threads -> Threads \cup {NoThread}]
      /\ wantReadFuture \in Threads \cup {NoThread}
      /\ err \in [Threads -> Errs] /\ "err" \in Errs
  BY <1>0 DEF TypeOK
<1>1. CASE SslHandshakeOut(t)
  <2>1. pc' = pc
    BY <1>1 DEF SslHandshakeOut
  <2>2. /\ pc' \in [Actors -> Pcs]
        /\ pc'[Flusher] \in {"idle", "flock", "fwrite", "ftrim"}
    BY <1>0, <2>1 DEF TypeOK
  <2>3. Emit("hs")
    BY <1>1 DEF SslHandshakeOut
  <2>4. UNCHANGED <<mtx, isShutdown, wantReadFuture, intoSSL, eof, opMtx,
                     flight, isClient, broken, rcvdClose, api, cont, err, waitOn,
                     got, ret, calls, mark, nflush, script, net, fin, netClosed,
                     faults, wire, sent, recvd, userClosed>>
    BY <1>1
    DEF SslHandshakeOut, LibraryFrame, sslVars, waitVars, callVars, doneVars, flushVars,
      peerVars, netVars, writeVars, readVars, connVars
  <2>5. /\ hs' \in 0..4
        /\ fromSSL' \in Seq(OutItem)
        /\ appended' \in Seq(OutItem)
    BY <1>0, <1>b, <1>c, <1>1, <2>3
    DEF SslHandshakeOut, TypeOK, Established, OutItem
  <2>6. TypeOK'
    BY <1>0, <2>2, <2>4, <2>5, SMTT(60) DEF TypeOK
  <2>7. FlushInv'
    BY <1>0, <1>a, <1>1, <2>1, <2>4, <2>3, FlushFrame
    DEF SslHandshakeOut, InLibrary, NeedsInput, OutItem, writeVars
  <2> QED BY <2>6, <2>7 DEF TypeInv
<1>2. CASE SslHandshakeIn(t)
  <2>1. pc' = pc
    BY <1>2 DEF SslHandshakeIn
  <2>2. /\ pc' \in [Actors -> Pcs]
        /\ pc'[Flusher] \in {"idle", "flock", "fwrite", "ftrim"}
    BY <1>0, <2>1 DEF TypeOK
  <2>3. UNCHANGED <<mtx, isShutdown, wantReadFuture, eof, fromSSL, opMtx,
                     flight, isClient, broken, rcvdClose, api, cont, err, waitOn,
                     got, ret, calls, mark, nflush, script, net, fin, netClosed,
                     faults, appended, wire, sent, recvd, userClosed>>
    BY <1>2
    DEF SslHandshakeIn, LibraryFrame, sslVars, waitVars, callVars, doneVars, flushVars,
      peerVars, netVars, writeVars, readVars, connVars
  <2>4. /\ hs' \in 0..4
        /\ intoSSL' \in Seq(Item)
    BY <1>0, <1>b, <1>c, <1>2
    DEF SslHandshakeIn, TypeOK, NeedsInput, Has, Established, OutItem
  <2>5. TypeOK'
    BY <1>0, <2>2, <2>3, <2>4, SMTT(60) DEF TypeOK
  <2>6. FlushInv'
    BY <1>0, <1>a, <1>2, <2>1, <2>3, FlushFrame
    DEF SslHandshakeIn, InLibrary, NeedsInput, OutItem, writeVars
  <2> QED BY <2>5, <2>6 DEF TypeInv
<1>3. CASE SslFragment(t)
  <2>1. pc' = pc
    BY <1>3 DEF SslFragment
  <2>2. /\ pc' \in [Actors -> Pcs]
        /\ pc'[Flusher] \in {"idle", "flock", "fwrite", "ftrim"}
    BY <1>0, <2>1 DEF TypeOK
  <2>3. UNCHANGED <<mtx, isShutdown, wantReadFuture, eof, fromSSL, opMtx,
                     flight, isClient, hs, broken, rcvdClose, api, cont, err,
                     waitOn, got, ret, calls, mark, nflush, script, net, fin,
                     netClosed, faults, appended, wire, sent, recvd, userClosed>>
    BY <1>3
    DEF SslFragment, LibraryFrame, sslVars, waitVars, callVars, doneVars, flushVars,
      peerVars, netVars, writeVars, readVars, connVars
  <2>4. intoSSL' \in Seq(Item)
    BY <1>0, <1>b, <1>c, <1>3
    DEF SslFragment, TypeOK, NeedsInput, Has, OutItem
  <2>5. TypeOK'
    BY <1>0, <2>2, <2>3, <2>4, SMTT(60) DEF TypeOK
  <2>6. FlushInv'
    BY <1>0, <1>a, <1>3, <2>1, <2>3, FlushFrame
    DEF SslFragment, InLibrary, NeedsInput, OutItem, writeVars
  <2> QED BY <2>5, <2>6 DEF TypeInv
<1>4. CASE SslWantRead(t)
  <2>1. \E p \in {"wait", "fill"} : pc' = [pc EXCEPT ![t] = p]
    BY <1>4 DEF SslWantRead, SomeoneReads, Goto
  <2>2. /\ pc' \in [Actors -> Pcs]
        /\ pc'[Flusher] \in {"idle", "flock", "fwrite", "ftrim"}
    BY <1>0, <1>d, <2>1
  <2>3. UNCHANGED <<isShutdown, intoSSL, eof, fromSSL, opMtx, flight, isClient,
                     hs, broken, rcvdClose, api, cont, err, got, ret, calls,
                     mark, script, net, fin, netClosed, faults, appended, wire,
                     sent, recvd, userClosed>>
    BY <1>4
    DEF SslWantRead, LibraryFrame, sslVars, waitVars, callVars, doneVars, flushVars,
      peerVars, netVars, writeVars, readVars, connVars
  <2>4. /\ mtx' \in Threads \cup {NoThread}
        /\ wantReadFuture' \in Threads \cup {NoThread}
    BY <1>0, <1>b, <1>c, <1>4
    DEF SslWantRead, TypeOK, SomeoneReads, Spawn, Goto, OutItem
  <2>5. waitOn' \in {waitOn, [waitOn EXCEPT ![t] = wantReadFuture]}
    BY <1>4 DEF SslWantRead, SomeoneReads
  <2>6. waitOn' \in [Threads -> Threads \cup {NoThread}]
    BY <1>e, <2>5
  <2>7. nflush' \in 0..MaxFlush
    BY <1>0, <1>b, <1>c, <1>4
    DEF SslWantRead, TypeOK, SomeoneReads, Spawn, Goto, OutItem
  <2>8. TypeOK'
    BY <1>0, <2>2, <2>3, <2>4, <2>6, <2>7, SMTT(60) DEF TypeOK
  <2>9. FlushInv'
    BY <1>0, <1>a, <1>4, <2>1, <2>3, FlushFrame
    DEF SslWantRead, InLibrary, NeedsInput, OutItem, writeVars
  <2> QED BY <2>8, <2>9 DEF TypeInv
<1>5. CASE SslEof(t)
  <2>1. Return(t, "err")
    BY <1>5 DEF SslEof
  <2>2. /\ pc' = [pc EXCEPT ![t] = "idle"] /\ nflush' \in 0..MaxFlush
        /\ ret' \in [Threads -> Errs \cup {"none"}]
    BY <1>0, <2>1, ReturnFacts
  <2>3. /\ pc' \in [Actors -> Pcs]
        /\ pc'[Flusher] \in {"idle", "flock", "fwrite", "ftrim"}
    BY <1>0, <1>d, <2>2
  <2>4. UNCHANGED <<isShutdown, wantReadFuture, intoSSL, eof, fromSSL, opMtx,
                     flight, isClient, hs, broken, rcvdClose, api, cont, err,
                     waitOn, got, calls, mark, script, net, fin, netClosed,
                     faults, appended, wire, sent, recvd, userClosed>>
    BY <1>5
    DEF SslEof, LibraryFrame, sslVars, waitVars, callVars, doneVars, flushVars,
      peerVars, netVars, writeVars, readVars, connVars
  <2>5. mtx' \in Threads \cup {NoThread}
    BY <1>0, <1>b, <1>c, <1>5
    DEF SslEof, TypeOK, OutItem
  <2>6. TypeOK'
    BY <1>0, <2>2, <2>3, <2>4, <2>5, SMTT(60) DEF TypeOK
  <2>7. FlushInv'
    BY <1>0, <1>a, <1>5, <2>2, <2>4, FlushFrame
    DEF SslEof, InLibrary, NeedsInput, OutItem, writeVars
  <2> QED BY <2>6, <2>7 DEF TypeInv
<1>6. CASE SslReject(t)
  <2>1. Return(t, "err")
    BY <1>6 DEF SslReject
  <2>2. /\ pc' = [pc EXCEPT ![t] = "idle"] /\ nflush' \in 0..MaxFlush
        /\ ret' \in [Threads -> Errs \cup {"none"}]
    BY <1>0, <2>1, ReturnFacts
  <2>3. /\ pc' \in [Actors -> Pcs]
        /\ pc'[Flusher] \in {"idle", "flock", "fwrite", "ftrim"}
    BY <1>0, <1>d, <2>2
  <2>4. Emit("fatal")
    BY <1>6 DEF SslReject
  <2>5. UNCHANGED <<isShutdown, wantReadFuture, eof, opMtx, flight, isClient,
                     hs, rcvdClose, api, cont, err, waitOn, got, calls, mark,
                     script, net, fin, netClosed, faults, wire, sent, recvd,
                     userClosed>>
    BY <1>6
    DEF SslReject, LibraryFrame, sslVars, waitVars, callVars, doneVars, flushVars,
      peerVars, netVars, writeVars, readVars, connVars
  <2>6. /\ mtx' \in Threads \cup {NoThread}
        /\ intoSSL' \in Seq(Item)
        /\ broken' \in BOOLEAN
        /\ fromSSL' \in Seq(OutItem)
        /\ appended' \in Seq(OutItem)
    BY <1>0, <1>b, <1>c, <1>6, <2>4
    DEF SslReject, TypeOK, Has, OutItem, NeedsInput
  <2>7. TypeOK'
    BY <1>0, <2>2, <2>3, <2>5, <2>6, SMTT(60) DEF TypeOK
  <2>8. FlushInv'
    BY <1>0, <1>a, <1>6, <2>2, <2>5, <2>4, FlushFrame
    DEF SslReject, InLibrary, NeedsInput, OutItem, writeVars
  <2> QED BY <2>7, <2>8 DEF TypeInv
<1>7. CASE SslBroken(t)
  <2>1. Return(t, "err")
    BY <1>7 DEF SslBroken
  <2>2. /\ pc' = [pc EXCEPT ![t] = "idle"] /\ nflush' \in 0..MaxFlush
        /\ ret' \in [Threads -> Errs \cup {"none"}]
    BY <1>0, <2>1, ReturnFacts
  <2>3. /\ pc' \in [Actors -> Pcs]
        /\ pc'[Flusher] \in {"idle", "flock", "fwrite", "ftrim"}
    BY <1>0, <1>d, <2>2
  <2>4. UNCHANGED <<isShutdown, wantReadFuture, intoSSL, eof, fromSSL, opMtx,
                     flight, isClient, hs, broken, rcvdClose, api, cont, err,
                     waitOn, got, calls, mark, script, net, fin, netClosed,
                     faults, appended, wire, sent, recvd, userClosed>>
    BY <1>7
    DEF SslBroken, LibraryFrame, sslVars, waitVars, callVars, doneVars, flushVars,
      peerVars, netVars, writeVars, readVars, connVars
  <2>5. mtx' \in Threads \cup {NoThread}
    BY <1>0, <1>b, <1>c, <1>7
    DEF SslBroken, TypeOK, OutItem
  <2>6. TypeOK'
    BY <1>0, <2>2, <2>3, <2>4, <2>5, SMTT(60) DEF TypeOK
  <2>7. FlushInv'
    BY <1>0, <1>a, <1>7, <2>2, <2>4, FlushFrame
    DEF SslBroken, InLibrary, NeedsInput, OutItem, writeVars
  <2> QED BY <2>6, <2>7 DEF TypeInv
<1>8. CASE SslHandshakeDone(t)
  <2>1. Return(t, "nil")
    BY <1>8 DEF SslHandshakeDone
  <2>2. /\ pc' = [pc EXCEPT ![t] = "idle"] /\ nflush' \in 0..MaxFlush
        /\ ret' \in [Threads -> Errs \cup {"none"}]
    BY <1>0, <2>1, ReturnFacts
  <2>3. /\ pc' \in [Actors -> Pcs]
        /\ pc'[Flusher] \in {"idle", "flock", "fwrite", "ftrim"}
    BY <1>0, <1>d, <2>2
  <2>4. UNCHANGED <<isShutdown, wantReadFuture, intoSSL, eof, fromSSL, opMtx,
                     flight, isClient, hs, broken, rcvdClose, api, cont, err,
                     waitOn, got, calls, mark, script, net, fin, netClosed,
                     faults, appended, wire, sent, recvd, userClosed>>
    BY <1>8
    DEF SslHandshakeDone, LibraryFrame, sslVars, waitVars, callVars, doneVars, flushVars,
      peerVars, netVars, writeVars, readVars, connVars
  <2>5. mtx' \in Threads \cup {NoThread}
    BY <1>0, <1>b, <1>c, <1>8
    DEF SslHandshakeDone, TypeOK, OutItem
  <2>6. TypeOK'
    BY <1>0, <2>2, <2>3, <2>4, <2>5, SMTT(60) DEF TypeOK
  <2>7. FlushInv'
    BY <1>0, <1>a, <1>8, <2>2, <2>4, FlushFrame
    DEF SslHandshakeDone, InLibrary, NeedsInput, OutItem, writeVars
  <2> QED BY <2>6, <2>7 DEF TypeInv
<1>9. CASE SslRead(t)
  <2>1. Return(t, "nil")
    BY <1>9 DEF SslRead
  <2>2. /\ pc' = [pc EXCEPT ![t] = "idle"] /\ nflush' \in 0..MaxFlush
        /\ ret' \in [Threads -> Errs \cup {"none"}]
    BY <1>0, <2>1, ReturnFacts
  <2>3. /\ pc' \in [Actors -> Pcs]
        /\ pc'[Flusher] \in {"idle", "flock", "fwrite", "ftrim"}
    BY <1>0, <1>d, <2>2
  <2>4. UNCHANGED <<isShutdown, wantReadFuture, eof, fromSSL, opMtx, flight,
                     isClient, hs, broken, rcvdClose, api, cont, err, waitOn,
                     got, calls, mark, script, net, fin, netClosed, faults,
                     appended, wire, sent, userClosed>>
    BY <1>9
    DEF SslRead, LibraryFrame, sslVars, waitVars, callVars, doneVars, flushVars,
      peerVars, netVars, writeVars, readVars, connVars
  <2>5. /\ mtx' \in Threads \cup {NoThread}
        /\ intoSSL' \in Seq(Item)
        /\ recvd' \in Nat
    BY <1>0, <1>b, <1>c, <1>9
    DEF SslRead, TypeOK, Has, OutItem, NeedsInput
  <2>6. TypeOK'
    BY <1>0, <2>2, <2>3, <2>4, <2>5, SMTT(60) DEF TypeOK
  <2>7. FlushInv'
    BY <1>0, <1>a, <1>9, <2>2, <2>4, FlushFrame
    DEF SslRead, InLibrary, NeedsInput, OutItem, writeVars
  <2> QED BY <2>6, <2>7 DEF TypeInv
<1>10. CASE SslZeroReturn(t)
  <2>1. \E p \in {"close"} : pc' = [pc EXCEPT ![t] = p]
    BY <1>10 DEF SslZeroReturn, Goto
  <2>2. /\ pc' \in [Actors -> Pcs]
        /\ pc'[Flusher] \in {"idle", "flock", "fwrite", "ftrim"}
    BY <1>0, <1>d, <2>1
  <2>3. UNCHANGED <<isShutdown, wantReadFuture, eof, fromSSL, opMtx, flight,
                     isClient, hs, broken, api, err, waitOn, got, ret, calls,
                     mark, nflush, script, net, fin, netClosed, faults, appended,
                     wire, sent, recvd, userClosed>>
    BY <1>10
    DEF SslZeroReturn, LibraryFrame, sslVars, waitVars, callVars, doneVars, flushVars,
      peerVars, netVars, writeVars, readVars, connVars
  <2>4. /\ mtx' \in Threads \cup {NoThread}
        /\ cont' \in [Threads -> Conts]
        /\ intoSSL' \in Seq(Item)
        /\ rcvdClose' \in BOOLEAN
    BY <1>0, <1>b, <1>c, <1>10
    DEF SslZeroReturn, TypeOK, Has, Goto, Conts, OutItem
  <2>5. TypeOK'
    BY <1>0, <2>2, <2>3, <2>4, SMTT(60) DEF TypeOK
  <2>6. FlushInv'
    BY <1>0, <1>a, <1>10, <2>1, <2>3, FlushFrame
    DEF SslZeroReturn, InLibrary, NeedsInput, OutItem, writeVars
  <2> QED BY <2>5, <2>6 DEF TypeInv
<1>11. CASE SslWrite(t)
  <2>1. \E p \in {"flock"} : pc' = [pc EXCEPT ![t] = p]
    BY <1>11 DEF SslWrite, ThenFlush, Goto
  <2>2. /\ pc' \in [Actors -> Pcs]
        /\ pc'[Flusher] \in {"idle", "flock", "fwrite", "ftrim"}
    BY <1>0, <1>d, <2>1
  <2>3. Emit("rec")
    BY <1>11 DEF SslWrite
  <2>4. UNCHANGED <<isShutdown, wantReadFuture, intoSSL, eof, opMtx, flight,
                     isClient, hs, broken, rcvdClose, api, cont, err, waitOn,
                     got, ret, calls, nflush, script, net, fin, netClosed,
                     faults, wire, sent, recvd, userClosed>>
    BY <1>11
    DEF SslWrite, LibraryFrame, sslVars, waitVars, callVars, doneVars, flushVars,
      peerVars, netVars, writeVars, readVars, connVars
  <2>5. /\ mtx' \in Threads \cup {NoThread}
        /\ mark' \in [Threads -> Nat]
        /\ fromSSL' \in Seq(OutItem)
        /\ appended' \in Seq(OutItem)
    BY <1>0, <1>b, <1>c, <1>11, <2>3
    DEF SslWrite, TypeOK, ThenFlush, Goto, OutItem
  <2>6. TypeOK'
    BY <1>0, <2>2, <2>4, <2>5, SMTT(60) DEF TypeOK
  <2>7. FlushInv'
    BY <1>0, <1>a, <1>11, <2>1, <2>4, <2>3, FlushFrame
    DEF SslWrite, InLibrary, NeedsInput, OutItem, writeVars
  <2> QED BY <2>6, <2>7 DEF TypeInv
<1>12. CASE SslShutdown(t)
  <2>1. \E p \in {"flock", "netclose"} : pc' = [pc EXCEPT ![t] = p]
    BY <1>12 DEF SslShutdown, ThenFlush, Goto
  <2>2. /\ pc' \in [Actors -> Pcs]
        /\ pc'[Flusher] \in {"idle", "flock", "fwrite", "ftrim"}
    BY <1>0, <1>d, <2>1
  <2>3. Emit("notify") \/ UNCHANGED writeVars
    BY <1>12 DEF SslShutdown
  <2>4. UNCHANGED <<isShutdown, wantReadFuture, intoSSL, eof, opMtx, flight,
                     isClient, hs, broken, rcvdClose, api, cont, waitOn, got,
                     ret, calls, mark, nflush, script, net, fin, netClosed,
                     faults, wire, sent, recvd, userClosed>>
    BY <1>12
    DEF SslShutdown, LibraryFrame, sslVars, waitVars, callVars, doneVars, flushVars,
      peerVars, netVars, writeVars, readVars, connVars
  <2>5. mtx' \in Threads \cup {NoThread}
    BY <1>0, <1>b, <1>c, <1>12, <2>3
    DEF SslShutdown, TypeOK, ThenFlush, Goto, OutItem, writeVars
  <2>6. err' \in {err, [err EXCEPT ![t] = "err"]}
    BY <1>12 DEF SslShutdown
  <2>7. err' \in [Threads -> Errs]
    BY <1>e, <2>6
  <2>8. /\ fromSSL' \in Seq(OutItem)
        /\ appended' \in Seq(OutItem)
    BY <1>0, <1>b, <1>c, <1>12, <2>3
    DEF SslShutdown, TypeOK, ThenFlush, Goto, OutItem, writeVars
  <2>9. TypeOK'
    BY <1>0, <2>2, <2>4, <2>5, <2>7, <2>8, SMTT(60) DEF TypeOK
  <2>10. FlushInv'
    BY <1>0, <1>a, <1>12, <2>1, <2>4, <2>3, FlushFrame
    DEF SslShutdown, InLibrary, NeedsInput, OutItem, writeVars
  <2> QED BY <2>9, <2>10 DEF TypeInv
<1> QED
  BY <1>1, <1>2, <1>3, <1>4, <1>5, <1>6, <1>7, <1>8, <1>9, <1>10, <1>11, <1>12 DEF LibraryStep

(***************************************************************************)
(* Calls, the future, Close.                                               *)
(***************************************************************************)
LEMMA ThreadTypes ==
  ASSUME TypeInv, NEW t \in Threads,
         \/ \E a \in Calls : CallStart(t, a)
         \/ Lock(t) \/ FillData(t) \/ FillEof(t) \/ FillError(t) \/ MarkEOF(t)
         \/ ClearFuture(t) \/ SetFuture(t) \/ WaitDone(t)
         \/ CloseLock(t) \/ NetClose(t)
  PROVE  TypeInv'
<1> USE ConnAssumption
<1>0. TypeOK /\ t \in Actors /\ t # Flusher
  BY DEF TypeInv, Actors
<1>a. Pcs \ {"fwrite", "ftrim"} =
        {"idle", "lock", "ssl", "wait", "fill", "eof", "clear", "set", "flock",
         "close", "netclose"}
  BY DEF Pcs
<1>b. /\ {"nil", "again", "err", "ueof", "eof", "shut"} \subseteq Errs
      /\ {"none", "user", "eof"} \subseteq Conts
  BY DEF Errs, Conts
<1>c. ASSUME NEW p \in Pcs \ {"fwrite", "ftrim"}, pc' = [pc EXCEPT ![t] = p]
      PROVE  /\ pc' \in [Actors -> Pcs]
             /\ pc'[Flusher] \in {"idle", "flock", "fwrite", "ftrim"}
  BY <1>0, <1>c DEF TypeOK, Actors
<1>d. /\ api \in [Threads -> Api] /\ cont \in [Threads -> Conts]
      /\ err \in [Threads -> Errs] /\ got \in [Threads -> Errs \cup {"none"}]
      /\ waitOn \in [Threads -> Threads \cup {NoThread}]
      /\ ret \in [Threads -> Errs \cup {"none"}]
      /\ calls \in [Threads -> 0..MaxCalls] /\ mark \in [Threads -> Nat]
      /\ MaxCalls \in Nat /\ MaxFaults \in Nat /\ faults \in 0..MaxFaults
      /\ intoSSL \in Seq(Item) /\ net \in Seq(Item)
      /\ nflush \in 0..MaxFlush /\ userClosed \in BOOLEAN
  BY <1>0 DEF TypeOK
<1>1. ASSUME NEW a \in Calls, CallStart(t, a)
      PROVE  TypeInv'
  <2>1. \E p \in {"close", "lock"} : pc' = [pc EXCEPT ![t] = p]
    BY <1>1 DEF CallStart, Goto
  <2>2. /\ pc' \in [Actors -> Pcs]
        /\ pc'[Flusher] \in {"idle", "flock", "fwrite", "ftrim"}
    BY <1>a, <1>c, <2>1
  <2>3. UNCHANGED <<mtx, isShutdown, wantReadFuture, intoSSL, eof, fromSSL,
                     opMtx, flight, isClient, hs, broken, rcvdClose, err,
                     waitOn, got, nflush, script, net, fin, netClosed, faults,
                     appended, wire, sent, recvd>>
    BY <1>1
    DEF CallStart, connVars, readVars, writeVars, flushVars, sslVars, waitVars,
             callVars, doneVars, peerVars, netVars
  <2>4. /\ api' \in [Threads -> Api]
        /\ cont' \in [Threads -> Conts]
        /\ mark' \in [Threads -> Nat]
        /\ ret' \in [Threads -> Errs \cup {"none"}]
    BY <1>b, <1>d, <1>1 DEF CallStart
  <2>5. calls' \in [Threads -> 0..MaxCalls]
    BY <1>d, <1>1 DEF CallStart
  <2>6. userClosed' \in BOOLEAN
    BY <1>d, <1>1 DEF CallStart
  <2>7. TypeOK'
    BY <1>0, <2>2, <2>3, <2>4, <2>5, <2>6, SMTT(60) DEF TypeOK
  <2>8. FlushInv'
    BY <1>0, <1>a, <1>1, <2>1, <2>3, FlushFrame DEF CallStart
  <2> QED BY <2>7, <2>8 DEF TypeInv
<1>2. CASE Lock(t)
  <2>1. Refusal(api[t]) \in Errs
    BY <1>b DEF Refusal
  <2>2. \/ Return(t, Refusal(api[t])) /\ mtx' = mtx
        \/ Goto(t, "ssl") /\ mtx' = t /\ UNCHANGED doneVars
    BY <1>2 DEF Lock
  <2>3. \E p \in {"idle", "ssl"} : pc' = [pc EXCEPT ![t] = p]
    BY <1>0, <2>1, <2>2, ReturnFacts DEF Goto
  <2>4. /\ ret' \in [Threads -> Errs \cup {"none"}] /\ nflush' \in 0..MaxFlush
    BY <1>0, <1>d, <2>1, <2>2, ReturnFacts DEF doneVars
  <2>5. /\ pc' \in [Actors -> Pcs]
        /\ pc'[Flusher] \in {"idle", "flock", "fwrite", "ftrim"}
    BY <1>a, <1>c, <2>3
  <2>6. UNCHANGED <<isShutdown, wantReadFuture, intoSSL, eof, fromSSL, opMtx,
                     flight, isClient, hs, broken, rcvdClose, api, cont, err,
                     waitOn, got, calls, mark, script, net, fin, netClosed,
                     faults, appended, wire, sent, recvd, userClosed>>
    BY <1>2
    DEF Lock, connVars, readVars, writeVars, flushVars, sslVars, waitVars,
             callVars, doneVars, peerVars, netVars
  <2>7. mtx' \in Threads \cup {NoThread}
    BY <1>0, <2>2 DEF TypeOK
  <2>8. TypeOK'
    BY <1>0, <2>5, <2>6, <2>7, <2>4, SMTT(60) DEF TypeOK
  <2>9. FlushInv'
    BY <1>0, <1>a, <1>2, <2>3, <2>6, FlushFrame DEF Lock
  <2> QED BY <2>8, <2>9 DEF TypeInv
<1>3. CASE FillData(t)
  <2>1. \E p \in {"clear", "eof"} : pc' = [pc EXCEPT ![t] = p]
    BY <1>3 DEF FillData, Goto
  <2>2. /\ pc' \in [Actors -> Pcs]
        /\ pc'[Flusher] \in {"idle", "flock", "fwrite", "ftrim"}
    BY <1>a, <1>c, <2>1
  <2>3. UNCHANGED <<mtx, isShutdown, wantReadFuture, eof, fromSSL, opMtx,
                     flight, isClient, hs, broken, rcvdClose, api, cont,
                     waitOn, got, ret, calls, mark, nflush, script, fin,
                     netClosed, faults, appended, wire, sent, recvd, userClosed>>
    BY <1>3
    DEF FillData, FillFrame, connVars, readVars, writeVars, flushVars, sslVars, waitVars,
             callVars, doneVars, peerVars, netVars
  <2>4. /\ intoSSL' \in Seq(Item)
        /\ net' \in Seq(Item)
    <3>1. PICK k \in 1..Len(net) :
             /\ intoSSL' = intoSSL \o SubSeq(net, 1, k)
             /\ net' = SubSeq(net, k + 1, Len(net))
      BY <1>3 DEF FillData
    <3>2. intoSSL \in Seq(Item) /\ net \in Seq(Item)
      BY <1>d
    <3>3. SubSeq(net, 1, k) \in Seq(Item) /\ SubSeq(net, k + 1, Len(net)) \in Seq(Item)
      BY <3>2
    <3> QED BY <3>1, <3>2, <3>3
  <2>5. err' \in [Threads -> Errs]
    BY <1>b, <1>d, <1>3 DEF FillData, SetErr
  <2>6. TypeOK'
    BY <1>0, <2>2, <2>3, <2>4, <2>5, SMTT(60) DEF TypeOK
  <2>7. FlushInv'
    BY <1>0, <1>a, <1>3, <2>1, <2>3, FlushFrame DEF FillData
  <2> QED BY <2>6, <2>7 DEF TypeInv
<1>4. CASE FillEof(t)
  <2>1. \E p \in {"eof"} : pc' = [pc EXCEPT ![t] = p]
    BY <1>4 DEF FillEof, Goto
  <2>2. /\ pc' \in [Actors -> Pcs]
        /\ pc'[Flusher] \in {"idle", "flock", "fwrite", "ftrim"}
    BY <1>a, <1>c, <2>1
  <2>3. UNCHANGED <<mtx, isShutdown, wantReadFuture, intoSSL, eof, fromSSL,
                     opMtx, flight, isClient, hs, broken, rcvdClose, api, cont,
                     err, waitOn, got, ret, calls, mark, nflush, script, net,
                     fin, netClosed, faults, appended, wire, sent, recvd,
                     userClosed>>
    BY <1>4
    DEF FillEof, FillFrame, connVars, readVars, writeVars, flushVars, sslVars, waitVars,
             callVars, doneVars, peerVars, netVars
  <2>4. TypeOK'
    BY <1>0, <2>2, <2>3, SMTT(60) DEF TypeOK
  <2>5. FlushInv'
    BY <1>0, <1>a, <1>4, <2>1, <2>3, FlushFrame DEF FillEof
  <2> QED BY <2>4, <2>5 DEF TypeInv
<1>5. CASE FillError(t)
  <2>1. \E p \in {"clear"} : pc' = [pc EXCEPT ![t] = p]
    BY <1>5 DEF FillError, Goto
  <2>2. /\ pc' \in [Actors -> Pcs]
        /\ pc'[Flusher] \in {"idle", "flock", "fwrite", "ftrim"}
    BY <1>a, <1>c, <2>1
  <2>3. UNCHANGED <<mtx, isShutdown, wantReadFuture, intoSSL, eof, fromSSL,
                     opMtx, flight, isClient, hs, broken, rcvdClose, api, cont,
                     waitOn, got, ret, calls, mark, nflush, script, net, fin,
                     netClosed, appended, wire, sent, recvd, userClosed>>
    BY <1>5
    DEF FillError, FillFrame, SetErr, connVars, readVars, writeVars, flushVars, sslVars, waitVars,
             callVars, doneVars, peerVars, netVars
  <2>4. err' \in [Threads -> Errs]
    BY <1>b, <1>d, <1>5 DEF FillError, SetErr
  <2>5. faults' \in 0..MaxFaults
    BY <1>d, <1>5 DEF FillError
  <2>6. TypeOK'
    BY <1>0, <2>2, <2>3, <2>4, <2>5, SMTT(60) DEF TypeOK
  <2>7. FlushInv'
    BY <1>0, <1>a, <1>5, <2>1, <2>3, FlushFrame DEF FillError
  <2> QED BY <2>6, <2>7 DEF TypeInv
<1>6. CASE MarkEOF(t)
  <2>1. \E p \in {"close"} : pc' = [pc EXCEPT ![t] = p]
    BY <1>6 DEF MarkEOF, Goto
  <2>2. /\ pc' \in [Actors -> Pcs]
        /\ pc'[Flusher] \in {"idle", "flock", "fwrite", "ftrim"}
    BY <1>a, <1>c, <2>1
  <2>3. UNCHANGED <<mtx, isShutdown, wantReadFuture, intoSSL, fromSSL, opMtx,
                     flight, isClient, hs, broken, rcvdClose, api, err, waitOn,
                     got, ret, calls, mark, nflush, script, net, fin,
                     netClosed, faults, appended, wire, sent, recvd, userClosed>>
    BY <1>6
    DEF MarkEOF, connVars, readVars, writeVars, flushVars, sslVars, waitVars,
             callVars, doneVars, peerVars, netVars
  <2>4. eof' \in BOOLEAN
    BY <1>6 DEF MarkEOF
  <2>5. cont' \in [Threads -> Conts]
    BY <1>b, <1>d, <1>6 DEF MarkEOF
  <2>6. TypeOK'
    BY <1>0, <2>2, <2>3, <2>4, <2>5, SMTT(60) DEF TypeOK
  <2>7. FlushInv'
    BY <1>0, <1>a, <1>6, <2>1, <2>3, FlushFrame DEF MarkEOF
  <2> QED BY <2>6, <2>7 DEF TypeInv
<1>7. CASE ClearFuture(t)
  <2>1. \E p \in {"set"} : pc' = [pc EXCEPT ![t] = p]
    BY <1>7 DEF ClearFuture, Goto
  <2>2. /\ pc' \in [Actors -> Pcs]
        /\ pc'[Flusher] \in {"idle", "flock", "fwrite", "ftrim"}
    BY <1>a, <1>c, <2>1
  <2>3. UNCHANGED <<mtx, isShutdown, intoSSL, eof, fromSSL, opMtx, flight,
                     isClient, hs, broken, rcvdClose, api, cont, err, waitOn,
                     got, ret, calls, mark, nflush, script, net, fin,
                     netClosed, faults, appended, wire, sent, recvd, userClosed>>
    BY <1>7
    DEF ClearFuture, connVars, readVars, writeVars, flushVars, sslVars, waitVars,
             callVars, doneVars, peerVars, netVars
  <2>4. wantReadFuture' \in Threads \cup {NoThread}
    BY <1>7 DEF ClearFuture
  <2>5. TypeOK'
    BY <1>0, <2>2, <2>3, <2>4, SMTT(60) DEF TypeOK
  <2>6. FlushInv'
    BY <1>0, <1>a, <1>7, <2>1, <2>3, FlushFrame DEF ClearFuture
  <2> QED BY <2>5, <2>6 DEF TypeInv
<1>8. CASE SetFuture(t)
  <2>1. err[t] \in Errs /\ Retry(t, err[t])
    BY <1>d, <1>8 DEF SetFuture
  <2>2. \E p \in {"lock", "idle"} : pc' = [pc EXCEPT ![t] = p]
    BY <1>0, <2>1, RetryFacts
  <2>3. /\ ret' \in [Threads -> Errs \cup {"none"}] /\ nflush' \in 0..MaxFlush
    BY <1>0, <2>1, RetryFacts
  <2>4. /\ pc' \in [Actors -> Pcs]
        /\ pc'[Flusher] \in {"idle", "flock", "fwrite", "ftrim"}
    BY <1>a, <1>c, <2>2
  <2>5. UNCHANGED <<mtx, isShutdown, wantReadFuture, intoSSL, eof, fromSSL,
                     opMtx, flight, isClient, hs, broken, rcvdClose, api, cont,
                     waitOn, calls, mark, script, net, fin, netClosed, faults,
                     appended, wire, sent, recvd, userClosed>>
    BY <1>8
    DEF SetFuture, SetErr, connVars, readVars, writeVars, flushVars, sslVars, waitVars,
             callVars, doneVars, peerVars, netVars
  <2>6. err' \in [Threads -> Errs]
    BY <1>b, <1>d, <1>8 DEF SetFuture, SetErr
  <2>7. got' \in [Threads -> Errs \cup {"none"}]
    BY <1>d, <1>8 DEF SetFuture
  <2>8. TypeOK'
    BY <1>0, <2>4, <2>5, <2>6, <2>7, <2>3, SMTT(60) DEF TypeOK
  <2>9. FlushInv'
    BY <1>0, <1>a, <1>8, <2>2, <2>5, FlushFrame DEF SetFuture
  <2> QED BY <2>8, <2>9 DEF TypeInv
<1>9. CASE WaitDone(t)
  <2>1. got[t] \in Errs /\ Retry(t, got[t])
    BY <1>d, <1>9 DEF WaitDone
  <2>2. \E p \in {"lock", "idle"} : pc' = [pc EXCEPT ![t] = p]
    BY <1>0, <2>1, RetryFacts
  <2>3. /\ ret' \in [Threads -> Errs \cup {"none"}] /\ nflush' \in 0..MaxFlush
    BY <1>0, <2>1, RetryFacts
  <2>4. /\ pc' \in [Actors -> Pcs]
        /\ pc'[Flusher] \in {"idle", "flock", "fwrite", "ftrim"}
    BY <1>a, <1>c, <2>2
  <2>5. UNCHANGED <<mtx, isShutdown, wantReadFuture, intoSSL, eof, fromSSL,
                     opMtx, flight, isClient, hs, broken, rcvdClose, api, cont,
                     err, calls, mark, script, net, fin, netClosed, faults,
                     appended, wire, sent, recvd, userClosed>>
    BY <1>9
    DEF WaitDone, connVars, readVars, writeVars, flushVars, sslVars, waitVars,
             callVars, doneVars, peerVars, netVars
  <2>6. /\ got' \in [Threads -> Errs \cup {"none"}]
        /\ waitOn' \in [Threads -> Threads \cup {NoThread}]
    BY <1>d, <1>9 DEF WaitDone
  <2>7. TypeOK'
    BY <1>0, <2>4, <2>5, <2>6, <2>3, SMTT(60) DEF TypeOK
  <2>8. FlushInv'
    BY <1>0, <1>a, <1>9, <2>2, <2>5, FlushFrame DEF WaitDone
  <2> QED BY <2>7, <2>8 DEF TypeInv
<1>10. CASE CloseLock(t)
  <2>1. \/ CloseReturn(t, "nil") /\ UNCHANGED isShutdown
        \/ Goto(t, "lock") /\ UNCHANGED <<cont, err, doneVars>> /\ isShutdown' = TRUE
    BY <1>10 DEF CloseLock
  <2>2. \E p \in {"idle", "clear", "lock"} : pc' = [pc EXCEPT ![t] = p]
    BY <1>0, <1>b, <2>1, CloseReturnFacts DEF Goto
  <2>3. /\ ret' \in [Threads -> Errs \cup {"none"}] /\ nflush' \in 0..MaxFlush
        /\ cont' \in [Threads -> Conts] /\ err' \in [Threads -> Errs]
    <3>1. CASE CloseReturn(t, "nil")
      <4>1. /\ cont' = [cont EXCEPT ![t] = "none"] /\ "none" \in Conts
            /\ ret' \in [Threads -> Errs \cup {"none"}]
            /\ nflush' \in 0..MaxFlush /\ err' \in [Threads -> Errs]
        BY <1>0, <1>b, <3>1, CloseReturnFacts
      <4> QED BY <1>d, <4>1
    <3>2. CASE UNCHANGED <<cont, err, doneVars>>
      BY <1>d, <3>2 DEF doneVars
    <3> QED BY <2>1, <3>1, <3>2
  <2>4. /\ pc' \in [Actors -> Pcs]
        /\ pc'[Flusher] \in {"idle", "flock", "fwrite", "ftrim"}
    BY <1>a, <1>c, <2>2
  <2>5. UNCHANGED <<mtx, wantReadFuture, intoSSL, eof, fromSSL, opMtx, flight,
                     isClient, hs, broken, rcvdClose, api, waitOn, got, calls,
                     mark, script, net, fin, netClosed, faults, appended, wire,
                     sent, recvd, userClosed>>
    BY <1>10
    DEF CloseLock, connVars, readVars, writeVars, flushVars, sslVars, waitVars,
             callVars, doneVars, peerVars, netVars
  <2>6. isShutdown' \in BOOLEAN
    BY <1>0, <2>1 DEF TypeOK
  <2>7. TypeOK'
    BY <1>0, <2>4, <2>5, <2>6, <2>3, SMTT(60) DEF TypeOK
  <2>8. FlushInv'
    BY <1>0, <1>a, <1>10, <2>2, <2>5, FlushFrame DEF CloseLock
  <2> QED BY <2>7, <2>8 DEF TypeInv
<1>11. CASE NetClose(t)
  <2>1. err[t] \in Errs /\ CloseReturn(t, err[t])
    BY <1>d, <1>11 DEF NetClose
  <2>2. \E p \in {"idle", "clear"} : pc' = [pc EXCEPT ![t] = p]
    BY <1>0, <2>1, CloseReturnFacts
  <2>3. /\ ret' \in [Threads -> Errs \cup {"none"}] /\ nflush' \in 0..MaxFlush
        /\ cont' \in [Threads -> Conts] /\ err' \in [Threads -> Errs]
    <3>1. /\ cont' = [cont EXCEPT ![t] = "none"] /\ "none" \in Conts
          /\ ret' \in [Threads -> Errs \cup {"none"}]
          /\ nflush' \in 0..MaxFlush /\ err' \in [Threads -> Errs]
      BY <1>0, <1>b, <2>1, CloseReturnFacts
    <3> QED BY <1>d, <3>1
  <2>4. /\ pc' \in [Actors -> Pcs]
        /\ pc'[Flusher] \in {"idle", "flock", "fwrite", "ftrim"}
    BY <1>a, <1>c, <2>2
  <2>5. UNCHANGED <<mtx, isShutdown, wantReadFuture, intoSSL, eof, fromSSL,
                     opMtx, flight, isClient, hs, broken, rcvdClose, api,
                     waitOn, got, calls, mark, script, net, fin, faults,
                     appended, wire, sent, recvd, userClosed>>
    BY <1>11
    DEF NetClose, connVars, readVars, writeVars, flushVars, sslVars, waitVars,
             callVars, doneVars, peerVars, netVars
  <2>6. netClosed' \in BOOLEAN
    BY <1>11 DEF NetClose, ConnClose
  <2>7. TypeOK'
    BY <1>0, <2>4, <2>5, <2>6, <2>3, SMTT(60) DEF TypeOK
  <2>8. FlushInv'
    BY <1>0, <1>a, <1>11, <2>2, <2>5, FlushFrame DEF NetClose
  <2> QED BY <2>7, <2>8 DEF TypeInv
<1> QED
  BY <1>1, <1>2, <1>3, <1>4, <1>5, <1>6, <1>7, <1>8, <1>9, <1>10, <1>11

(***************************************************************************)
(* WriteTo and the peer.                                                   *)
(***************************************************************************)
LEMMA FlushTypes ==
  ASSUME TypeInv, NEW a \in Actors, FlushStep(a)
  PROVE  TypeInv'
<1> USE ConnAssumption
<1>0. TypeOK /\ FlushInv
  BY DEF TypeInv
<1>a. {"idle", "netclose", "fwrite", "ftrim"} \subseteq Pcs
  BY DEF Pcs
<1>b. ASSUME NEW e \in {"nil", "err"}, AfterFlush(a, e)
      PROVE  /\ \E p \in {"idle", "netclose"} : pc' = [pc EXCEPT ![a] = p]
             /\ pc' \in [Actors -> Pcs]
             /\ pc'[Flusher] \in {"idle", "flock", "fwrite", "ftrim"}
             /\ ret' \in [Threads -> Errs \cup {"none"}]
             /\ nflush' \in 0..MaxFlush
             /\ err' \in [Threads -> Errs]
  <2>1. /\ \/ a = Flusher /\ pc' = [pc EXCEPT ![a] = "idle"]
           \/ a \in Threads /\ pc' = [pc EXCEPT ![a] = "idle"]
           \/ a \in Threads /\ pc' = [pc EXCEPT ![a] = "netclose"]
        /\ ret' \in [Threads -> Errs \cup {"none"}]
        /\ nflush' \in 0..MaxFlush
        /\ err' \in [Threads -> Errs]
    BY <1>0, <1>b, AfterFlushFacts
  <2>2. pc \in [Actors -> Pcs] /\ Flusher \in Actors
        /\ pc[Flusher] \in {"idle", "flock", "fwrite", "ftrim"}
    BY <1>0 DEF TypeOK, Actors
  <2> QED BY <1>a, <2>1, <2>2
<1>c. /\ fromSSL \in Seq(OutItem) /\ wire \in Seq(OutItem)
      /\ Len(fromSSL) \in Nat /\ flight.len \in Nat /\ flight.n \in Nat
      /\ flight.err \in {"nil", "err"} /\ faults \in 0..MaxFaults
      /\ MaxFaults \in Nat
      /\ flight = [len |-> flight.len, n |-> flight.n, err |-> flight.err]
  BY <1>0 DEF TypeOK
<1>d. /\ pc \in [Actors -> Pcs] /\ Flusher \in Actors
      /\ pc[Flusher] \in {"idle", "flock", "fwrite", "ftrim"}
  BY <1>0 DEF TypeOK, Actors
<1>e. NoThread \notin Actors
  BY DEF Actors
<1>1. CASE FlushLock(a)
  <2>0. UNCHANGED <<mtx, isShutdown, wantReadFuture, intoSSL, eof, fromSSL,
                    isClient, hs, broken, rcvdClose, api, cont, waitOn, got,
                    calls, mark, script, net, fin, netClosed, faults, appended,
                    wire, sent, recvd, userClosed>>
    BY <1>1
    DEF FlushLock, connVars, readVars, writeVars, sslVars, waitVars, callVars,
      peerVars, netVars
  <2>1. CASE fromSSL = <<>>
    <3>1. AfterFlush(a, "nil") /\ UNCHANGED <<opMtx, flight>>
      BY <1>1, <2>1 DEF FlushLock
    <3>2. TypeOK'
      BY <1>0, <1>b, <2>0, <3>1, SMTT(60) DEF TypeOK
    <3>3. \E p \in {"idle", "netclose"} : pc' = [pc EXCEPT ![a] = p]
      BY <1>b, <3>1
    <3>4. {"idle", "netclose"} \subseteq Pcs \ {"fwrite", "ftrim"}
      BY <1>a
    <3>5. FlushInv'
      BY <1>1, <2>0, <3>1, <3>3, <3>4, FlushFrame DEF FlushLock
    <3> QED BY <3>2, <3>5 DEF TypeInv
  <2>2. CASE fromSSL # <<>>
    <3>1. /\ opMtx = NoThread /\ opMtx' = a
          /\ flight' = [len |-> Len(fromSSL), n |-> 0, err |-> "nil"]
          /\ pc' = [pc EXCEPT ![a] = "fwrite"]
          /\ UNCHANGED <<err, ret, nflush>>
      BY <1>1, <2>2 DEF FlushLock, Goto, doneVars
    <3>2. /\ pc' \in [Actors -> Pcs]
          /\ pc'[Flusher] \in {"idle", "flock", "fwrite", "ftrim"}
      BY <1>a, <1>d, <3>1
    <3>3. flight' \in [len : Nat, n : Nat, err : {"nil", "err"}]
      BY <1>c, <3>1
    <3>4. TypeOK'
      BY <1>0, <2>0, <3>1, <3>2, <3>3, SMTT(60) DEF TypeOK
    <3>5. \A b \in Actors : pc[b] \notin {"fwrite", "ftrim"}
      BY <1>0, <1>e, <3>1 DEF FlushInv
    <3>6. FlushInv'
      BY <1>c, <1>d, <1>e, <2>0, <3>1, <3>5 DEF FlushInv
    <3> QED BY <3>4, <3>6 DEF TypeInv
  <2> QED BY <2>1, <2>2
<1>2. CASE NetWrite(a)
  <2>0. UNCHANGED <<mtx, isShutdown, wantReadFuture, intoSSL, eof, fromSSL,
                    opMtx, isClient, hs, broken, rcvdClose, api, cont, err,
                    waitOn, got, ret, calls, mark, nflush, script, net, fin,
                    netClosed, appended, sent, recvd, userClosed>>
    BY <1>2
    DEF NetWrite, connVars, readVars, writeVars, sslVars, waitVars, callVars,
      doneVars, peerVars
  <2>1. PICK n \in 0..flight.len :
          /\ faults' = faults \/ (faults < MaxFaults /\ faults' = faults + 1)
          /\ flight' = [flight EXCEPT !.n = n, !.err = WriteErr(n)]
          /\ wire' = wire \o SubSeq(fromSSL, 1, n)
    BY <1>2 DEF NetWrite
  <2>2. pc[a] = "fwrite" /\ pc' = [pc EXCEPT ![a] = "ftrim"]
    BY <1>2 DEF NetWrite, Goto
  <2>3. /\ pc' \in [Actors -> Pcs]
        /\ pc'[Flusher] \in {"idle", "flock", "fwrite", "ftrim"}
    BY <1>a, <1>d, <2>2
  <2>4. WriteErr(n) \in {"nil", "err"}
    BY DEF WriteErr
  <2>5. /\ flight' \in [len : Nat, n : Nat, err : {"nil", "err"}]
        /\ flight'.len = flight.len /\ flight'.n = n
    <3>1. flight \in [len : Nat, n : Nat, err : {"nil", "err"}]
      BY <1>0 DEF TypeOK
    <3>2. n \in Nat
      BY <1>c, <2>1
    <3>3. flight' = [flight EXCEPT !.n = n, !.err = WriteErr(n)]
      BY <2>1
    <3> QED BY <2>4, <3>1, <3>2, <3>3
  <2>6. n \in 0..Len(fromSSL)
    BY <1>0, <1>c, <2>1 DEF FlushInv
  <2>7. wire' \in Seq(OutItem) /\ faults' \in 0..MaxFaults
    BY <1>c, <2>1, <2>6
  <2>8. TypeOK'
    BY <1>0, <2>0, <2>3, <2>5, <2>7, SMTT(60) DEF TypeOK
  <2>9. opMtx = a /\ a # NoThread
    BY <1>0, <1>e, <2>2 DEF FlushInv
  <2>10. \A b \in Actors : b # a => pc[b] \notin {"fwrite", "ftrim"}
    BY <1>0, <2>9 DEF FlushInv
  <2>11. FlushInv'
    BY <1>0, <1>c, <1>d, <2>0, <2>1, <2>2, <2>5, <2>9, <2>10 DEF FlushInv
  <2> QED BY <2>8, <2>11 DEF TypeInv
<1>3. CASE Trim(a)
  <2>0. UNCHANGED <<mtx, isShutdown, wantReadFuture, intoSSL, eof, isClient,
                    hs, broken, rcvdClose, api, cont, waitOn, got, calls, mark,
                    script, net, fin, netClosed, faults, appended, wire, sent,
                    recvd, userClosed>>
    BY <1>3
    DEF Trim, connVars, readVars, sslVars, waitVars, callVars, peerVars,
      netVars
  <2>1. /\ pc[a] = "ftrim" /\ AfterFlush(a, flight.err) /\ opMtx' = NoThread
        /\ flight' = [len |-> 0, n |-> 0, err |-> "nil"]
        /\ fromSSL' = SubSeq(fromSSL, flight.n + 1, Len(fromSSL))
    BY <1>3 DEF Trim, Remaining
  <2>2. fromSSL' \in Seq(OutItem) /\ Len(fromSSL') \in Nat
    BY <1>c, <2>1, SMTT(30)
  <2>3. /\ flight' \in [len : Nat, n : Nat, err : {"nil", "err"}]
        /\ flight'.len = 0 /\ flight'.n = 0
    BY <2>1
  <2>4. /\ pc' \in [Actors -> Pcs]
        /\ pc'[Flusher] \in {"idle", "flock", "fwrite", "ftrim"}
        /\ ret' \in [Threads -> Errs \cup {"none"}]
        /\ nflush' \in 0..MaxFlush /\ err' \in [Threads -> Errs]
        /\ \E p \in {"idle", "netclose"} : pc' = [pc EXCEPT ![a] = p]
    BY <1>b, <1>c, <2>1
  <2>5. TypeOK'
    BY <1>0, <2>0, <2>1, <2>2, <2>3, <2>4, SMTT(60) DEF TypeOK
  <2>6. opMtx = a
    BY <1>0, <2>1 DEF FlushInv
  <2>7. \A b \in Actors : pc'[b] \notin {"fwrite", "ftrim"}
    BY <1>0, <1>d, <2>4, <2>6 DEF FlushInv
  <2>8. FlushInv'
    BY <1>e, <2>1, <2>2, <2>3, <2>7 DEF FlushInv
  <2> QED BY <2>5, <2>8 DEF TypeInv
<1> QED BY <1>1, <1>2, <1>3 DEF FlushStep

LEMMA FlushStartTypes ==
  ASSUME TypeInv, FlushStart
  PROVE  TypeInv'
<1> USE ConnAssumption
<1>0. TypeOK /\ Flusher \in Actors
  BY DEF TypeInv, Actors
<1>1. /\ pc[Flusher] = "idle" /\ pc' = [pc EXCEPT ![Flusher] = "flock"]
      /\ nflush > 0 /\ nflush' = nflush - 1
  BY DEF FlushStart, Goto
<1>2. UNCHANGED <<mtx, isShutdown, wantReadFuture, intoSSL, eof, fromSSL,
                  opMtx, flight, isClient, hs, broken, rcvdClose, api, cont,
                  err, waitOn, got, ret, calls, mark, script, net, fin,
                  netClosed, faults, appended, wire, sent, recvd, userClosed>>
  BY DEF FlushStart, connVars, readVars, writeVars, flushVars, sslVars,
    waitVars, callVars, peerVars, netVars
<1>3. "flock" \in Pcs \ {"fwrite", "ftrim"}
  BY DEF Pcs
<1>4. /\ pc' \in [Actors -> Pcs]
      /\ pc'[Flusher] \in {"idle", "flock", "fwrite", "ftrim"}
      /\ nflush' \in 0..MaxFlush
  BY <1>0, <1>1, <1>3 DEF TypeOK
<1>5. TypeOK'
  BY <1>0, <1>2, <1>4, SMTT(60) DEF TypeOK
<1>6. FlushInv'
  BY <1>0, <1>1, <1>2, <1>3, FlushFrame
<1> QED BY <1>5, <1>6 DEF TypeInv

LEMMA PeerTypes ==
  ASSUME TypeInv, PeerSend \/ PeerFin
  PROVE  TypeInv'
<1> USE ConnAssumption
<1>0. TypeOK /\ FlushInv
  BY DEF TypeInv
<1>1. UNCHANGED <<mtx, isShutdown, wantReadFuture, intoSSL, eof, fromSSL,
                  opMtx, flight, isClient, hs, broken, rcvdClose, pc, api,
                  cont, err, waitOn, got, ret, calls, mark, nflush, netClosed,
                  faults, appended, wire, recvd, userClosed>>
  BY DEF PeerSend, PeerFin, connVars, readVars, writeVars, flushVars, sslVars,
    waitVars, callVars, doneVars, peerVars, netVars
<1>2. /\ script \in Seq(Item) /\ net \in Seq(Item) /\ sent \in Nat
      /\ fin \in BOOLEAN
  BY <1>0 DEF TypeOK
<1>3. /\ script' \in Seq(Item) /\ net' \in Seq(Item) /\ sent' \in Nat
      /\ fin' \in BOOLEAN
  <2>1. CASE PeerSend
    BY <1>2, <2>1 DEF PeerSend
  <2>2. CASE PeerFin
    BY <1>2, <2>2 DEF PeerFin, netVars
  <2> QED BY <2>1, <2>2
<1>4. TypeOK'
  BY <1>0, <1>1, <1>3, SMTT(60) DEF TypeOK
<1>5. FlushInv'
  BY <1>0, <1>1 DEF FlushInv
<1> QED BY <1>4, <1>5 DEF TypeInv

(***************************************************************************)
(* Every step.                                                             *)
(***************************************************************************)
LEMMA TypeStep ==
  ASSUME TypeInv, [Next]_vars
  PROVE  TypeInv'
<1>1. ASSUME NEW t \in Threads, ThreadStep(t)
      PROVE  TypeInv'
  <2>1. t \in Actors
    BY DEF Actors
  <2> QED
    BY <1>1, <2>1, ThreadTypes, LibraryTypes, FlushTypes DEF ThreadStep
<1>2. ASSUME NEW t \in Threads, NEW a \in Calls, CallStart(t, a)
      PROVE  TypeInv'
  BY <1>2, ThreadTypes
<1>3. CASE FlusherStep
  <2>1. Flusher \in Actors
    BY DEF Actors
  <2> QED BY <1>3, <2>1, FlushStartTypes, FlushTypes DEF FlusherStep
<1>4. CASE PeerSend \/ PeerFin
  BY <1>4, PeerTypes
<1>5. CASE UNCHANGED vars
  <2>1. UNCHANGED <<mtx, isShutdown, wantReadFuture, intoSSL, eof, fromSSL,
                    opMtx, flight, isClient, hs, broken, rcvdClose, pc, api,
                    cont, err, waitOn, got, ret, calls, mark, nflush, script,
                    net, fin, netClosed, faults, appended, wire, sent, recvd,
                    userClosed>>
    BY <1>5 DEF vars, connVars, readVars, writeVars, flushVars, sslVars,
      waitVars, callVars, doneVars, peerVars, netVars
  <2>2. TypeOK'
    BY <2>1, SMTT(60) DEF TypeInv, TypeOK
  <2>3. FlushInv'
    BY <2>1 DEF TypeInv, FlushInv
  <2> QED BY <2>2, <2>3 DEF TypeInv
<1> QED BY <1>1, <1>2, <1>3, <1>4, <1>5 DEF Next, Done

\* Every variable of the connection keeps its type, and opMtx is held exactly
\* in the part of WriteTo that it protects, for any number of goroutines.
THEOREM Types == Spec => []TypeInv
<1>1. Init => TypeInv
  BY TypeInit
<1>2. TypeInv /\ [Next]_vars => TypeInv'
  BY TypeStep
<1> QED BY <1>1, <1>2, PTL DEF Spec

\* The type invariant of the specification (the fields of Conn, its two BIOs,
\* and where each goroutine is in conn.go).
THEOREM TypeCorrect == Spec => []TypeOK
<1>1. TypeInv => TypeOK
  BY DEF TypeInv
<1> QED BY <1>1, Types, PTL

(***************************************************************************)
(* What c.mtx protects.  The proof first says what each step of a          *)
(* goroutine does to its own place, to the mutex, the future and the two   *)
(* buffers (the operators named On...), and then looks at these effects    *)
(* only.                                                                   *)
(***************************************************************************)
\* c.mtx is held in the section named "ssl"; who is in a Close is on the way
\* through it; a method that got past the test of isShutdown under c.mtx is
\* still under the same hold.
Places ==
  \A t \in Threads :
    /\ mtx = t <=> pc[t] = "ssl"
    /\ cont[t] # "none" =>
         pc[t] \in {"close", "lock", "ssl", "flock", "fwrite", "ftrim", "netclose"}
    /\ pc[t] \in {"close", "netclose"} => cont[t] # "none"
    /\ pc[t] = "ssl" /\ isShutdown => cont[t] # "none"

\* t is the goroutine whose Close will call SSL_shutdown.
Closing(t) == cont[t] # "none" /\ pc[t] \in {"lock", "ssl"}

NoNotify == \A i \in DOMAIN appended : appended[i] # "notify"

OneShutdown ==
  /\ \A t \in Threads : Closing(t) => isShutdown /\ NoNotify
  /\ \A t, u \in Threads : Closing(t) /\ Closing(u) => t = u
  /\ isShutdown \/ NoNotify
  /\ NothingAfterCloseNotify

Futures == FillDiscipline /\ NoOrphanWaiter

MutexInv == Places /\ OneShutdown /\ Futures

(***************************************************************************)
(* The effects of a step of t.                                             *)
(***************************************************************************)
\* t is now at p, in a Close of kind c; the other goroutines are where they
\* were.
Moved(t, p, c) ==
  /\ \A u \in Threads : pc'[u] = IF u = t THEN p ELSE pc[u]
  /\ \A u \in Threads : cont'[u] = IF u = t THEN c ELSE cont[u]

SameFuture == UNCHANGED <<wantReadFuture, waitOn, got>>
SameMutex  == UNCHANGED <<mtx, isShutdown>>
SameSsl    == UNCHANGED <<hs, recvd, intoSSL, appended>>

\* t takes no item out of an empty buffer, and writes one that is not
\* close_notify.
Worked ==
  /\ intoSSL = <<>> => intoSSL' = <<>>
  /\ \/ appended' = appended
     \/ \E item \in OutItem \ {"notify"} : appended' = Append(appended, item)

OnCall(t) ==
  /\ pc[t] = "idle"
  /\ Moved(t, "lock", "none") \/ Moved(t, "close", "user")
  /\ SameFuture /\ SameMutex /\ SameSsl

OnLock(t) ==
  /\ pc[t] = "lock" /\ mtx = NoThread /\ UNCHANGED isShutdown
  /\ \/ cont[t] = "none" /\ Moved(t, "idle", "none") /\ UNCHANGED mtx
     \/ (isShutdown => cont[t] # "none") /\ Moved(t, "ssl", cont[t]) /\ mtx' = t
  /\ SameFuture /\ SameSsl

OnLibrary(t) ==
  /\ pc[t] = "ssl" /\ cont[t] = "none" /\ UNCHANGED isShutdown
  /\ \/ Moved(t, "ssl", "none") /\ UNCHANGED mtx
     \/ /\ \/ Moved(t, "idle", "none") \/ Moved(t, "flock", "none")
           \/ Moved(t, "close", "zero")
        /\ mtx' = NoThread
  /\ SameFuture /\ Worked

OnWantRead(t) ==
  /\ pc[t] = "ssl" /\ cont[t] = "none" /\ intoSSL = <<>>
  /\ mtx' = NoThread /\ UNCHANGED <<isShutdown, got>>
  /\ \/ /\ wantReadFuture # NoThread /\ Moved(t, "wait", "none")
        /\ \A u \in Threads :
             waitOn'[u] = IF u = t THEN wantReadFuture ELSE waitOn[u]
        /\ UNCHANGED wantReadFuture
     \/ /\ wantReadFuture = NoThread /\ Moved(t, "fill", "none")
        /\ wantReadFuture' = t /\ UNCHANGED waitOn
  /\ SameSsl

OnShutdown(t) ==
  /\ pc[t] = "ssl" /\ cont[t] # "none"
  /\ mtx' = NoThread /\ UNCHANGED isShutdown
  /\ \/ Moved(t, "flock", cont[t]) /\ appended' = Append(appended, "notify")
     \/ Moved(t, "netclose", cont[t]) /\ UNCHANGED appended
  /\ SameFuture /\ UNCHANGED <<hs, recvd, intoSSL>>

OnFill(t) ==
  /\ \/ pc[t] = "fill" /\ \E p \in {"eof", "clear"} : Moved(t, p, cont[t])
     \/ pc[t] = "eof" /\ Moved(t, "close", "eof")
  /\ \/ UNCHANGED intoSSL
     \/ pc[t] = "fill" /\ \E s \in Seq(Item) : intoSSL' = intoSSL \o s
  /\ SameFuture /\ SameMutex /\ UNCHANGED <<hs, recvd, appended>>

OnClear(t) ==
  /\ pc[t] = "clear" /\ Moved(t, "set", cont[t])
  /\ wantReadFuture' = NoThread
  /\ UNCHANGED <<waitOn, got>> /\ SameMutex /\ SameSsl

OnSet(t) ==
  /\ pc[t] = "set" /\ \E p \in {"lock", "idle"} : Moved(t, p, cont[t])
  /\ \A u \in Threads :
       waitOn[u] = t /\ got[u] = "none" => got'[u] # "none"
  /\ \A u \in Threads : got'[u] = "none" => got[u] = "none"
  /\ UNCHANGED <<wantReadFuture, waitOn>> /\ SameMutex /\ SameSsl

OnWaitDone(t) ==
  /\ pc[t] = "wait" /\ \E p \in {"lock", "idle"} : Moved(t, p, cont[t])
  /\ \A u \in Threads \ {t} : waitOn'[u] = waitOn[u] /\ got'[u] = got[u]
  /\ UNCHANGED wantReadFuture /\ SameMutex /\ SameSsl

Closed(t) ==
  IF cont[t] = "eof" THEN Moved(t, "clear", "none") ELSE Moved(t, "idle", "none")

OnClose(t) ==
  /\ pc[t] = "close" /\ mtx = NoThread /\ UNCHANGED mtx
  /\ \/ isShutdown /\ Closed(t) /\ UNCHANGED isShutdown
     \/ ~isShutdown /\ Moved(t, "lock", cont[t]) /\ isShutdown' = TRUE
  /\ SameFuture /\ SameSsl

OnNetClose(t) ==
  pc[t] = "netclose" /\ Closed(t) /\ SameFuture /\ SameMutex /\ SameSsl

OnFlush(t) ==
  /\ pc[t] \in {"flock", "fwrite", "ftrim"}
  /\ \/ Moved(t, "fwrite", cont[t]) \/ Moved(t, "ftrim", cont[t])
     \/ Moved(t, IF cont[t] = "none" THEN "idle" ELSE "netclose", cont[t])
  /\ SameFuture /\ SameMutex /\ SameSsl

\* The steps of the flush goroutine and of the peer.
OnOthers ==
  /\ \A u \in Threads : pc'[u] = pc[u] /\ cont'[u] = cont[u]
  /\ SameFuture /\ SameMutex /\ SameSsl

Effect(t) ==
  \/ OnCall(t) \/ OnLock(t) \/ OnLibrary(t) \/ OnWantRead(t) \/ OnShutdown(t)
  \/ OnFill(t) \/ OnClear(t) \/ OnSet(t) \/ OnWaitDone(t) \/ OnClose(t)
  \/ OnNetClose(t) \/ OnFlush(t)

(***************************************************************************)
(* The effects keep the invariant.                                         *)
(***************************************************************************)
LEMMA PlacesKept ==
  ASSUME TypeOK, Places, NEW t \in Threads, Effect(t)
  PROVE  Places'
<1> USE ConnAssumption DEF Places, Moved, SameMutex
<1>0. /\ mtx \in Threads \cup {NoThread}
      /\ cont[t] \in {"none", "user", "eof", "zero"}
  BY DEF TypeOK, Conts
<1>1. CASE OnCall(t)
  BY <1>0, <1>1 DEF OnCall
<1>2. CASE OnLock(t)
  BY <1>0, <1>2 DEF OnLock
<1>3. CASE OnLibrary(t)
  BY <1>0, <1>3 DEF OnLibrary
<1>4. CASE OnWantRead(t)
  BY <1>0, <1>4 DEF OnWantRead
<1>5. CASE OnShutdown(t)
  BY <1>0, <1>5 DEF OnShutdown
<1>6. CASE OnFill(t)
  BY <1>0, <1>6 DEF OnFill
<1>7. CASE OnClear(t) \/ OnSet(t) \/ OnWaitDone(t)
  BY <1>0, <1>7 DEF OnClear, OnSet, OnWaitDone
<1>8. CASE OnClose(t)
  BY <1>0, <1>8 DEF OnClose, Closed
<1>9. CASE OnNetClose(t) \/ OnFlush(t)
  BY <1>0, <1>9 DEF OnNetClose, OnFlush, Closed
<1> QED
  BY <1>1, <1>2, <1>3, <1>4, <1>5, <1>6, <1>7, <1>8, <1>9 DEF Effect

(* One more item at the end of what the library produced.                  *)
LEMMA OneMore ==
  ASSUME appended \in Seq(OutItem), NoNotify,
         NEW item \in OutItem, appended' = Append(appended, item)
  PROVE  NothingAfterCloseNotify' /\ (item # "notify" => NoNotify')
<1>1. /\ Len(appended) \in Nat /\ Len(appended') = Len(appended) + 1
      /\ DOMAIN appended = 1 .. Len(appended)
      /\ DOMAIN appended' = 1 .. Len(appended')
      /\ \A i \in DOMAIN appended : appended'[i] = appended[i]
      /\ appended'[Len(appended')] = item
  OBVIOUS
<1>2. ASSUME NEW i \in DOMAIN appended', i # Len(appended')
      PROVE  appended'[i] # "notify"
  <2>1. i \in DOMAIN appended
    BY <1>1, <1>2
  <2> QED
    BY <1>1, <2>1 DEF NoNotify
<1> QED
  BY <1>1, <1>2 DEF NothingAfterCloseNotify, NoNotify

LEMMA OneShutdownKept ==
  ASSUME TypeOK, Places, OneShutdown, NEW t \in Threads, Effect(t)
  PROVE  OneShutdown'
<1>0. appended \in Seq(OutItem) /\ isShutdown \in BOOLEAN
  BY DEF TypeOK
<1>a. ASSUME UNCHANGED <<appended, isShutdown>>,
             \A u \in Threads : Closing(u)' => Closing(u)
      PROVE  OneShutdown'
  BY <1>a DEF OneShutdown, NoNotify, NothingAfterCloseNotify
<1>1. CASE OnLibrary(t)
  <2>1. ~isShutdown /\ NoNotify /\ isShutdown' = isShutdown
    BY <1>0, <1>1 DEF OnLibrary, Places, OneShutdown
  <2>2. \A u \in Threads : Closing(u)' => Closing(u)
    BY <1>1 DEF OnLibrary, Moved, Closing
  <2>3. \A u \in Threads : ~Closing(u)
    BY <2>1 DEF OneShutdown
  <2>4. NoNotify' /\ NothingAfterCloseNotify'
    <3>1. CASE appended' = appended
      BY <2>1, <3>1 DEF NoNotify, NothingAfterCloseNotify
    <3>2. ASSUME NEW item \in OutItem \ {"notify"},
                 appended' = Append(appended, item)
          PROVE  NoNotify' /\ NothingAfterCloseNotify'
      BY <1>0, <2>1, <3>2, OneMore
    <3> QED
      BY <1>1, <3>1, <3>2 DEF OnLibrary, Worked
  <2> QED
    BY <2>1, <2>2, <2>3, <2>4 DEF OneShutdown
<1>2. CASE OnShutdown(t)
  <2>1. Closing(t) /\ isShutdown /\ NoNotify /\ isShutdown'
    BY <1>2 DEF OnShutdown, Closing, OneShutdown
  <2>2. \A u \in Threads : ~Closing(u)'
    <3>1. ~Closing(t)'
      BY <1>2 DEF OnShutdown, Moved, Closing
    <3>2. ASSUME NEW u \in Threads, u # t PROVE ~Closing(u)'
      BY <1>2, <2>1, <3>2 DEF OnShutdown, Moved, Closing, OneShutdown
    <3> QED
      BY <3>1, <3>2
  <2>3. NothingAfterCloseNotify'
    <3>1. CASE appended' = appended
      BY <2>1, <3>1 DEF NoNotify, NothingAfterCloseNotify
    <3>2. CASE appended' = Append(appended, "notify")
      BY <1>0, <2>1, <3>2, OneMore DEF OutItem
    <3> QED
      BY <1>2, <3>1, <3>2 DEF OnShutdown
  <2> QED
    BY <2>1, <2>2, <2>3 DEF OneShutdown
<1>3. CASE OnClose(t)
  <2>0. appended' = appended
    BY <1>3 DEF OnClose, SameSsl
  <2>1. CASE isShutdown
    <3>1. \A u \in Threads : Closing(u)' => Closing(u)
      BY <1>3, <2>1 DEF OnClose, Closed, Moved, Closing
    <3> QED
      BY <1>3, <1>a, <2>0, <2>1, <3>1 DEF OnClose
  <2>2. CASE ~isShutdown
    <3>1. /\ isShutdown' /\ NoNotify /\ NothingAfterCloseNotify
          /\ \A u \in Threads : ~Closing(u)
      BY <1>3, <2>2 DEF OnClose, OneShutdown
    <3>2. \A u \in Threads : Closing(u)' => u = t
      BY <1>3, <2>2, <3>1 DEF OnClose, Moved, Closing
    <3> QED
      BY <2>0, <3>1, <3>2 DEF OneShutdown, NoNotify, NothingAfterCloseNotify
  <2> QED
    BY <2>1, <2>2
<1>4. CASE OnLock(t)
  <2>1. \A u \in Threads : Closing(u)' => Closing(u)
    BY <1>4 DEF OnLock, Moved, Closing
  <2> QED
    BY <1>4, <1>a, <2>1 DEF OnLock, SameSsl
<1>5. CASE OnCall(t) \/ OnWantRead(t) \/ OnFill(t) \/ OnClear(t) \/ OnSet(t)
           \/ OnWaitDone(t) \/ OnNetClose(t) \/ OnFlush(t)
  <2>1. \A u \in Threads : Closing(u)' => Closing(u)
    BY <1>5 DEF OnCall, OnWantRead, OnFill, OnClear, OnSet, OnWaitDone,
      OnNetClose, OnFlush, Closed, Moved, Closing, Places
  <2>2. UNCHANGED <<appended, isShutdown>>
    BY <1>5 DEF OnCall, OnWantRead, OnFill, OnClear, OnSet, OnWaitDone,
      OnNetClose, OnFlush, SameSsl, SameMutex
  <2> QED
    BY <1>a, <2>1, <2>2
<1> QED
  BY <1>1, <1>2, <1>3, <1>4, <1>5 DEF Effect

(* The future and the buffer: t keeps its role in them.                    *)
LEMMA FuturesFrame ==
  ASSUME TypeOK, Futures, NEW t \in Threads, SameFuture,
         \A u \in Threads : Filling(u)' <=> Filling(u),
         \A u \in Threads : pc[u] = "set" => pc'[u] = "set",
         \A u \in Threads : pc'[u] \in {"fill", "wait"} => pc'[u] = pc[u],
         \/ intoSSL = <<>> => intoSSL' = <<>>
         \/ pc[t] = "fill" /\ pc'[t] # "fill"
  PROVE  Futures'
<1>1. \A u \in Threads : Filling(u)' <=> wantReadFuture' = u
  BY DEF Futures, FillDiscipline, SameFuture
<1>2. ASSUME NEW u \in Threads, pc'[u] = "fill"
      PROVE  intoSSL' = <<>>
  <2>1. pc[u] = "fill" /\ intoSSL = <<>> /\ wantReadFuture = u
    BY <1>2 DEF Futures, FillDiscipline, Filling
  <2>2. pc[t] = "fill" => t = u
    BY <2>1 DEF Futures, FillDiscipline, Filling
  <2> QED
    BY <1>2, <2>1, <2>2
<1>3. ASSUME NEW u \in Threads, pc'[u] = "wait", got'[u] = "none"
      PROVE  /\ waitOn'[u] # NoThread
             /\ Filling(waitOn[u])' \/ pc'[waitOn[u]] = "set"
  <2>1. /\ waitOn[u] \in Threads
        /\ Filling(waitOn[u]) \/ pc[waitOn[u]] = "set"
    BY <1>3, ZenonT(60) DEF SameFuture, Futures, NoOrphanWaiter, TypeOK
  <2> QED
    BY <2>1, ConnAssumption DEF SameFuture
<1> QED
  BY <1>1, <1>2, <1>3 DEF Futures, FillDiscipline, NoOrphanWaiter, Filling, SameFuture

\* Whoever must Set the future that u waits for will.
Served(u) ==
  waitOn[u] # NoThread /\ (Filling(waitOn[u]) \/ pc[waitOn[u]] = "set")

LEMMA StillServed ==
  ASSUME NEW u \in Threads, NEW v \in Threads, NoThread \notin Threads,
         waitOn'[u] = v,
         pc'[v] \in {"fill", "eof", "clear", "set"} \/ cont'[v] = "eof"
  PROVE  Served(u)'
BY DEF Served, Filling

LEMMA FuturesKept ==
  ASSUME TypeOK, Places, Futures, NEW t \in Threads, Effect(t)
  PROVE  Futures'
<1> USE DEF Moved
<1>0. /\ wantReadFuture \in Threads \cup {NoThread} /\ NoThread \notin Threads
      /\ waitOn \in [Threads -> Threads \cup {NoThread}]
      /\ cont[t] \in {"none", "user", "eof", "zero"}
      /\ intoSSL \in Seq(Item)
  BY ConnAssumption DEF TypeOK, Conts
<1>1. CASE OnCall(t) \/ OnLock(t) \/ OnLibrary(t) \/ OnShutdown(t)
           \/ OnClose(t) \/ OnNetClose(t) \/ OnFlush(t)
  <2>1. SameFuture /\ (intoSSL = <<>> => intoSSL' = <<>>)
    BY <1>1 DEF OnCall, OnLock, OnLibrary, OnShutdown, OnClose, OnNetClose,
      OnFlush, SameSsl, Worked
  <2>2. /\ \A u \in Threads : pc[u] = "set" => pc'[u] = "set"
        /\ \A u \in Threads : pc'[u] \in {"fill", "wait"} => pc'[u] = pc[u]
    BY <1>1 DEF OnCall, OnLock, OnLibrary, OnShutdown, OnClose, OnNetClose,
      OnFlush, Closed
  <2>3. \A u \in Threads : Filling(u)' <=> Filling(u)
    BY <1>1, <1>0 DEF OnCall, OnLock, OnLibrary, OnShutdown, OnClose,
      OnNetClose, OnFlush, Closed, Filling, Places
  <2> QED
    BY <2>1, <2>2, <2>3, FuturesFrame
<1>2. CASE OnFill(t)
  <2>1. SameFuture /\ (pc[t] = "fill" \/ UNCHANGED intoSSL)
    BY <1>2 DEF OnFill
  <2>2. /\ \A u \in Threads : pc[u] = "set" => pc'[u] = "set"
        /\ \A u \in Threads : pc'[u] \in {"fill", "wait"} => pc'[u] = pc[u]
        /\ pc'[t] # "fill"
    BY <1>2 DEF OnFill
  <2>3. \A u \in Threads : Filling(u)' <=> Filling(u)
    BY <1>2 DEF OnFill, Filling
  <2> QED
    BY <2>1, <2>2, <2>3, FuturesFrame
<1>3. CASE OnWantRead(t)
  <2>1. ~Filling(t) /\ pc[t] # "set" /\ intoSSL = <<>> /\ intoSSL' = <<>>
    BY <1>3 DEF OnWantRead, Filling, SameSsl
  <2>2. CASE wantReadFuture # NoThread
    <3>1. wantReadFuture \in Threads /\ Filling(wantReadFuture)
      BY <1>0, <2>2 DEF Futures, FillDiscipline
    <3>2. /\ \A u \in Threads : Filling(u)' <=> Filling(u)
          /\ \A u \in Threads : pc[u] = "set" => pc'[u] = "set"
          /\ wantReadFuture' = wantReadFuture
      BY <1>3, <2>1, <2>2 DEF OnWantRead, Filling
    <3>3. FillDiscipline'
      BY <2>1, <3>2 DEF Futures, FillDiscipline
    <3>4. ASSUME NEW u \in Threads, pc'[u] = "wait", got'[u] = "none"
          PROVE  Served(u)'
      <4>1. CASE u = t
        <5>1. waitOn'[u] = wantReadFuture /\ wantReadFuture # t
          BY <1>3, <2>1, <2>2, <3>1, <4>1 DEF OnWantRead
        <5>2. /\ pc'[wantReadFuture] = pc[wantReadFuture]
              /\ cont'[wantReadFuture] = cont[wantReadFuture]
          BY <1>3, <2>2, <3>1, <5>1 DEF OnWantRead
        <5> QED
          BY <1>0, <3>1, <5>1, <5>2, StillServed DEF Filling
      <4>2. CASE u # t
        <5>1. waitOn'[u] = waitOn[u] /\ pc[u] = "wait" /\ got[u] = "none"
          BY <1>3, <2>2, <3>4, <4>2 DEF OnWantRead
        <5>2. /\ waitOn[u] \in Threads
              /\ Filling(waitOn[u]) \/ pc[waitOn[u]] = "set"
          BY <1>0, <5>1 DEF Futures, NoOrphanWaiter
        <5>3. /\ pc'[waitOn[u]] = pc[waitOn[u]]
              /\ cont'[waitOn[u]] = cont[waitOn[u]]
          BY <1>3, <2>1, <2>2, <5>2 DEF OnWantRead
        <5> QED
          BY <1>0, <5>1, <5>2, <5>3, StillServed DEF Filling
      <4> QED
        BY <4>1, <4>2
    <3> QED
      BY <3>3, <3>4 DEF Futures, NoOrphanWaiter, Served
  <2>3. CASE wantReadFuture = NoThread
    <3>1. /\ wantReadFuture' = t /\ UNCHANGED <<waitOn, got>>
          /\ \A u \in Threads : u # t => pc'[u] = pc[u] /\ cont'[u] = cont[u]
          /\ pc'[t] = "fill" /\ cont'[t] = "none"
      BY <1>3, <2>3 DEF OnWantRead
    <3>2. \A u \in Threads : ~Filling(u)
      BY <1>0, <2>3 DEF Futures, FillDiscipline
    <3>3. FillDiscipline'
      BY <2>1, <3>1, <3>2 DEF FillDiscipline, Filling
    <3>4. ASSUME NEW u \in Threads, pc'[u] = "wait", got'[u] = "none"
          PROVE  Served(u)'
      <4>1. u # t /\ waitOn[u] \in Threads /\ pc[waitOn[u]] = "set"
        BY <1>0, <3>1, <3>2, <3>4 DEF Futures, NoOrphanWaiter
      <4>2. pc'[waitOn[u]] = "set" /\ waitOn'[u] = waitOn[u]
        BY <2>1, <3>1, <4>1
      <4> QED
        BY <1>0, <4>1, <4>2, StillServed
    <3> QED
      BY <3>3, <3>4 DEF Futures, NoOrphanWaiter, Served
  <2> QED
    BY <2>2, <2>3
<1>4. CASE OnClear(t)
  <2>1. /\ cont[t] = "none" /\ wantReadFuture = t
        /\ \A u \in Threads : u # t => ~Filling(u)
    BY <1>4 DEF OnClear, Places, Filling, Futures, FillDiscipline
  <2>2. /\ \A u \in Threads : ~Filling(u)'
        /\ \A u \in Threads : pc'[u] # "fill"
        /\ wantReadFuture' = NoThread
    BY <1>4, <2>1 DEF OnClear, Filling
  <2>3. FillDiscipline'
    BY <1>0, <2>2 DEF FillDiscipline, Filling
  <2>4. ASSUME NEW u \in Threads, pc'[u] = "wait", got'[u] = "none"
        PROVE  Served(u)'
    <3>1. pc[u] = "wait" /\ got[u] = "none" /\ waitOn' = waitOn
      BY <1>4, <2>4 DEF OnClear
    <3>2. /\ waitOn[u] \in Threads
          /\ Filling(waitOn[u]) \/ pc[waitOn[u]] = "set"
      BY <1>0, <3>1 DEF Futures, NoOrphanWaiter
    <3>3. pc'[waitOn[u]] = "set"
      BY <1>4, <2>1, <3>2 DEF OnClear
    <3> QED
      BY <1>0, <3>1, <3>2, <3>3, StillServed
  <2> QED
    BY <2>3, <2>4 DEF Futures, NoOrphanWaiter, Served
<1>5. CASE OnSet(t) \/ OnWaitDone(t)
  <2>1. /\ \A u \in Threads : Filling(u)' <=> Filling(u)
        /\ \A u \in Threads : pc'[u] \in {"fill", "wait"} => pc'[u] = pc[u] /\ u # t
        /\ wantReadFuture' = wantReadFuture /\ intoSSL' = intoSSL
        /\ \A u \in Threads : u # t => pc'[u] = pc[u]
    BY <1>5 DEF OnSet, OnWaitDone, Filling, SameSsl
  <2>2. FillDiscipline'
    BY <2>1 DEF Futures, FillDiscipline
  <2>3. ASSUME NEW u \in Threads, pc'[u] = "wait", got'[u] = "none"
        PROVE  Served(u)'
    <3>1. /\ pc[u] = "wait" /\ got[u] = "none" /\ waitOn'[u] = waitOn[u]
          /\ pc[t] = "set" => waitOn[u] # t
      BY <1>5, <2>1, <2>3 DEF OnSet, OnWaitDone
    <3>2. /\ waitOn[u] \in Threads
          /\ Filling(waitOn[u]) \/ pc[waitOn[u]] = "set"
      BY <1>0, <3>1 DEF Futures, NoOrphanWaiter
    <3>3. waitOn[u] # t
      BY <1>5, <3>1, <3>2 DEF OnSet, OnWaitDone, Filling, Places
    <3>4. pc'[waitOn[u]] = pc[waitOn[u]] /\ cont'[waitOn[u]] = cont[waitOn[u]]
      BY <1>5, <3>2, <3>3 DEF OnSet, OnWaitDone
    <3> QED
      BY <1>0, <3>1, <3>2, <3>4, StillServed DEF Filling
  <2> QED
    BY <2>2, <2>3 DEF Futures, NoOrphanWaiter, Served
<1> QED
  BY <1>1, <1>2, <1>3, <1>4, <1>5 DEF Effect

(***************************************************************************)
(* Every step has one of the effects.                                      *)
(***************************************************************************)
LEMMA Moves ==
  ASSUME TypeOK, NEW t \in Threads, NEW p, pc' = [pc EXCEPT ![t] = p]
  PROVE  /\ cont' = cont => Moved(t, p, cont[t])
         /\ \A c : cont' = [cont EXCEPT ![t] = c] => Moved(t, p, c)
BY DEF TypeOK, Moved, Actors

LEMMA MethodEffect ==
  ASSUME TypeOK, Places, NEW t \in Threads,
         \/ \E a \in Calls : CallStart(t, a)
         \/ Lock(t)
  PROVE  Effect(t)
<1>1. ASSUME NEW a \in Calls, CallStart(t, a) PROVE OnCall(t)
  <2>1. Moved(t, "lock", "none") \/ Moved(t, "close", "user")
    BY <1>1, Moves DEF CallStart, Goto
  <2> QED
    BY <1>1, <2>1 DEF CallStart, OnCall, SameFuture, SameMutex, SameSsl,
      connVars, readVars, writeVars, sslVars, waitVars
<1>2. CASE Lock(t)
  <2>0. /\ pc[t] = "lock" /\ mtx = NoThread /\ UNCHANGED isShutdown
        /\ SameFuture /\ SameSsl
    BY <1>2 DEF Lock, SameFuture, SameSsl, readVars, writeVars, sslVars,
      waitVars
  <2>1. CASE Refused(t)
    <3>1. Refusal(api[t]) \in Errs
      BY DEF TypeOK, Refusal, Errs, Api
    <3>2. pc' = [pc EXCEPT ![t] = "idle"]
      BY <1>2, <2>1, <3>1, ReturnFacts DEF Lock
    <3>3. cont[t] = "none" /\ Moved(t, "idle", "none") /\ UNCHANGED mtx
      BY <1>2, <2>1, <3>2, Moves DEF Lock, Refused
    <3> QED
      BY <2>0, <3>3 DEF OnLock, Effect
  <2>2. CASE ~Refused(t)
    <3>1. (isShutdown => cont[t] # "none") /\ mtx' = t
      BY <1>2, <2>2 DEF Lock, Refused
    <3>2. Moved(t, "ssl", cont[t])
      BY <1>2, <2>2, Moves DEF Lock, Goto
    <3> QED
      BY <2>0, <3>1, <3>2 DEF OnLock, Effect
  <2> QED
    BY <2>1, <2>2
<1> QED
  BY <1>1, <1>2 DEF Effect

(* What the library does in the section of handshake, read and write.      *)
LEMMA LibraryEffect ==
  ASSUME TypeOK, NEW t \in Threads, LibraryStep(t)
  PROVE  Effect(t)
<1>0. /\ "nil" \in Errs /\ "err" \in Errs
      /\ {"hs", "rec", "fatal"} \subseteq OutItem \ {"notify"}
  BY DEF Errs, OutItem
<1>1. CASE SslWantRead(t)
  <2>1. Moved(t, IF SomeoneReads THEN "wait" ELSE "fill", "none")
    BY <1>1, Moves DEF SslWantRead, NeedsInput, InLibrary, Goto
  <2>2. SomeoneReads =>
          \A u \in Threads :
            waitOn'[u] = IF u = t THEN wantReadFuture ELSE waitOn[u]
    BY <1>1 DEF SslWantRead, TypeOK
  <2>3. OnWantRead(t)
    BY <1>1, <2>1, <2>2 DEF SslWantRead, NeedsInput, InLibrary, SomeoneReads,
      LibraryFrame, OnWantRead, SameSsl, writeVars, sslVars
  <2> QED
    BY <2>3 DEF Effect
<1>2. CASE SslShutdown(t)
  <2>1. \/ Moved(t, "flock", cont[t]) /\ appended' = Append(appended, "notify")
        \/ Moved(t, "netclose", cont[t]) /\ UNCHANGED appended
    BY <1>2, Moves DEF SslShutdown, ThenFlush, Goto, Emit, writeVars
  <2>2. OnShutdown(t)
    BY <1>2, <2>1 DEF SslShutdown, LibraryFrame, OnShutdown, SameFuture,
      sslVars, waitVars
  <2> QED
    BY <2>2 DEF Effect
<1>3. CASE SslHandshakeOut(t) \/ SslHandshakeIn(t) \/ SslFragment(t)
  <2>1. pc[t] = "ssl" /\ cont[t] = "none" /\ Moved(t, "ssl", "none") /\ UNCHANGED mtx
    BY <1>3 DEF SslHandshakeOut, SslHandshakeIn, SslFragment, NeedsInput,
      InLibrary, Moved
  <2>2. Worked
    BY <1>0, <1>3 DEF SslHandshakeOut, SslHandshakeIn, SslFragment, Has, Emit,
      Worked, writeVars
  <2>3. OnLibrary(t)
    BY <1>3, <2>1, <2>2 DEF SslHandshakeOut, SslHandshakeIn, SslFragment,
      LibraryFrame, OnLibrary, SameFuture, waitVars
  <2> QED
    BY <2>3 DEF Effect
<1>4. CASE SslEof(t) \/ SslReject(t) \/ SslBroken(t) \/ SslHandshakeDone(t)
           \/ SslRead(t)
  <2>1. pc[t] = "ssl" /\ cont[t] = "none" /\ mtx' = NoThread /\ cont' = cont
    BY <1>4 DEF SslEof, SslReject, SslBroken, SslHandshakeDone, SslRead,
      NeedsInput, InLibrary
  <2>2. Return(t, "nil") \/ Return(t, "err")
    BY <1>4 DEF SslEof, SslReject, SslBroken, SslHandshakeDone, SslRead
  <2>3. Moved(t, "idle", "none")
    BY <1>0, <2>1, <2>2, ReturnFacts, Moves
  <2>4. Worked
    BY <1>0, <1>4 DEF SslEof, SslReject, SslBroken, SslHandshakeDone, SslRead,
      Has, Emit, Worked, writeVars
  <2>5. OnLibrary(t)
    BY <1>4, <2>1, <2>3, <2>4 DEF SslEof, SslReject, SslBroken,
      SslHandshakeDone, SslRead, LibraryFrame, OnLibrary, SameFuture, waitVars
  <2> QED
    BY <2>5 DEF Effect
<1>5. CASE SslZeroReturn(t)
  <2>1. Moved(t, "close", "zero")
    BY <1>5, Moves DEF SslZeroReturn, Goto
  <2>2. Worked
    BY <1>5 DEF SslZeroReturn, Has, Worked, writeVars
  <2>3. OnLibrary(t)
    BY <1>5, <2>1, <2>2 DEF SslZeroReturn, InLibrary, LibraryFrame, OnLibrary,
      SameFuture, waitVars
  <2> QED
    BY <2>3 DEF Effect
<1>6. CASE SslWrite(t)
  <2>1. Moved(t, "flock", "none")
    BY <1>6, Moves DEF SslWrite, InLibrary, ThenFlush, Goto
  <2>2. Worked
    BY <1>0, <1>6 DEF SslWrite, Emit, Worked
  <2>3. OnLibrary(t)
    BY <1>6, <2>1, <2>2 DEF SslWrite, InLibrary, LibraryFrame, OnLibrary,
      SameFuture, waitVars
  <2> QED
    BY <2>3 DEF Effect
<1> QED
  BY <1>1, <1>2, <1>3, <1>4, <1>5, <1>6 DEF LibraryStep

(* The goroutine that reads, and those that wait for it.                   *)
LEMMA FillEffect ==
  ASSUME TypeOK, NEW t \in Threads,
         \/ FillData(t) \/ FillEof(t) \/ FillError(t) \/ MarkEOF(t)
         \/ ClearFuture(t) \/ SetFuture(t) \/ WaitDone(t)
  PROVE  Effect(t)
<1>1. CASE FillData(t) \/ FillEof(t) \/ FillError(t)
  <2>1. pc[t] = "fill" /\ \E p \in {"eof", "clear"} : Moved(t, p, cont[t])
    BY <1>1, Moves DEF FillData, FillEof, FillError, FillFrame, Goto
  <2>2. UNCHANGED intoSSL \/ \E s \in Seq(Item) : intoSSL' = intoSSL \o s
    <3>1. ASSUME NEW k \in 1..Len(net) PROVE SubSeq(net, 1, k) \in Seq(Item)
      BY <3>1, SMTT(30) DEF TypeOK
    <3> QED
      BY <1>1, <3>1 DEF FillData, FillEof, FillError
  <2>3. OnFill(t)
    BY <1>1, <2>1, <2>2 DEF FillData, FillEof, FillError, FillFrame, OnFill,
      SameFuture, SameMutex, writeVars, sslVars, waitVars
  <2> QED
    BY <2>3 DEF Effect
<1>2. CASE MarkEOF(t)
  <2>1. Moved(t, "close", "eof")
    BY <1>2, Moves DEF MarkEOF, Goto
  <2>2. OnFill(t)
    BY <1>2, <2>1 DEF MarkEOF, OnFill, SameFuture, SameMutex, writeVars,
      sslVars, waitVars
  <2> QED
    BY <2>2 DEF Effect
<1>3. CASE ClearFuture(t)
  <2>1. Moved(t, "set", cont[t])
    BY <1>3, Moves DEF ClearFuture, Goto
  <2>2. OnClear(t)
    BY <1>3, <2>1 DEF ClearFuture, OnClear, SameMutex, SameSsl, readVars,
      writeVars, sslVars, waitVars
  <2> QED
    BY <2>2 DEF Effect
<1>4. CASE SetFuture(t)
  <2>1. err[t] \in Errs /\ err[t] # "none"
    BY DEF TypeOK, Errs
  <2>2. \E p \in {"lock", "idle"} : Moved(t, p, cont[t])
    BY <1>4, <2>1, RetryFacts, Moves DEF SetFuture
  <2>3. /\ \A u \in Threads :
             waitOn[u] = t /\ got[u] = "none" => got'[u] # "none"
        /\ \A u \in Threads : got'[u] = "none" => got[u] = "none"
    BY <1>4, <2>1 DEF SetFuture, Reached, Holders
  <2>4. OnSet(t)
    BY <1>4, <2>2, <2>3 DEF SetFuture, OnSet, SameMutex, SameSsl, connVars,
      readVars, writeVars, sslVars
  <2> QED
    BY <2>4 DEF Effect
<1>5. CASE WaitDone(t)
  <2>1. got[t] \in Errs
    BY <1>5 DEF WaitDone, TypeOK
  <2>2. \E p \in {"lock", "idle"} : Moved(t, p, cont[t])
    BY <1>5, <2>1, RetryFacts, Moves DEF WaitDone
  <2>3. \A u \in Threads \ {t} : waitOn'[u] = waitOn[u] /\ got'[u] = got[u]
    BY <1>5 DEF WaitDone, TypeOK
  <2>4. OnWaitDone(t)
    BY <1>5, <2>2, <2>3 DEF WaitDone, OnWaitDone, SameMutex, SameSsl, connVars,
      readVars, writeVars, sslVars
  <2> QED
    BY <2>4 DEF Effect
<1> QED
  BY <1>1, <1>2, <1>3, <1>4, <1>5

LEMMA CloseEffect ==
  ASSUME TypeOK, Places, NEW t \in Threads, CloseLock(t) \/ NetClose(t)
  PROVE  Effect(t)
<1>1. ASSUME NEW e \in Errs, CloseReturn(t, e), cont[t] # "none"
      PROVE  Closed(t)
  BY <1>1, CloseReturnFacts, Moves DEF Closed
<1>2. cont[t] # "none"
  BY DEF CloseLock, NetClose, Places
<1>3. CASE CloseLock(t)
  <2>1. CASE isShutdown
    <3>1. Closed(t) /\ UNCHANGED isShutdown
      BY <1>1, <1>2, <1>3, <2>1 DEF CloseLock, ClosedBefore, Errs
    <3>2. OnClose(t)
      BY <1>3, <2>1, <3>1 DEF CloseLock, OnClose, SameFuture, SameSsl,
        readVars, writeVars, sslVars, waitVars
    <3> QED
      BY <3>2 DEF Effect
  <2>2. CASE ~isShutdown
    <3>1. isShutdown' = TRUE /\ Moved(t, "lock", cont[t])
      BY <1>3, <2>2, Moves DEF CloseLock, ClosedBefore, Goto
    <3>2. OnClose(t)
      BY <1>3, <2>2, <3>1 DEF CloseLock, OnClose, SameFuture, SameSsl,
        readVars, writeVars, sslVars, waitVars
    <3> QED
      BY <3>2 DEF Effect
  <2> QED
    BY <2>1, <2>2
<1>4. CASE NetClose(t)
  <2>1. err[t] \in Errs
    BY DEF TypeOK
  <2>2. Closed(t)
    BY <1>1, <1>2, <1>4, <2>1 DEF NetClose
  <2>3. OnNetClose(t)
    BY <1>4, <2>2 DEF NetClose, OnNetClose, SameFuture, SameMutex, SameSsl,
      connVars, readVars, writeVars, sslVars, waitVars
  <2> QED
    BY <2>3 DEF Effect
<1> QED
  BY <1>3, <1>4

LEMMA FlushEffect ==
  ASSUME TypeOK, NEW a \in Actors, FlushStep(a)
  PROVE  IF a = Flusher THEN OnOthers ELSE OnFlush(a)
<1> USE ConnAssumption
<1>1. /\ pc[a] \in {"flock", "fwrite", "ftrim"} /\ cont' = cont
      /\ SameFuture /\ SameMutex /\ SameSsl
  BY DEF FlushStep, FlushLock, NetWrite, Trim, SameFuture, SameMutex, SameSsl,
    connVars, readVars, writeVars, sslVars, waitVars
<1>2. \/ \E p \in {"fwrite", "ftrim"} : pc' = [pc EXCEPT ![a] = p]
      \/ \E e \in {"nil", "err"} : AfterFlush(a, e)
  <2>1. flight.err \in {"nil", "err"}
    BY DEF TypeOK
  <2> QED
    BY <2>1 DEF FlushStep, FlushLock, NetWrite, Trim, Goto
<1>3. CASE a = Flusher
  <2>1. \E p : pc' = [pc EXCEPT ![a] = p]
    BY <1>2, <1>3, AfterFlushFacts
  <2>2. \A u \in Threads : pc'[u] = pc[u]
    BY <1>3, <2>1 DEF TypeOK, Actors
  <2> QED
    BY <1>1, <1>3, <2>2 DEF OnOthers
<1>4. CASE a # Flusher
  <2>1. a \in Threads
    BY <1>4 DEF Actors
  <2>2. CASE \E p \in {"fwrite", "ftrim"} : pc' = [pc EXCEPT ![a] = p]
    BY <1>1, <1>4, <2>1, <2>2, Moves DEF OnFlush
  <2>3. CASE \E e \in {"nil", "err"} : AfterFlush(a, e)
    <3>1. pc' = [pc EXCEPT ![a] = IF cont[a] = "none" THEN "idle" ELSE "netclose"]
      BY <1>4, <2>1, <2>3, AfterFlushFacts
    <3> QED
      BY <1>1, <1>4, <2>1, <3>1, Moves DEF OnFlush
  <2> QED
    BY <1>2, <2>2, <2>3
<1> QED
  BY <1>3, <1>4

LEMMA StepEffect ==
  ASSUME TypeOK, Places, [Next]_vars
  PROVE  OnOthers \/ \E t \in Threads : Effect(t)
<1>1. ASSUME NEW t \in Threads, ThreadStep(t) \/ \E a \in Calls : CallStart(t, a)
      PROVE  Effect(t)
  <2>1. FlushStep(t) => OnFlush(t)
    BY FlushEffect, ConnAssumption DEF Actors
  <2> QED
    BY <1>1, <2>1, MethodEffect, LibraryEffect, FillEffect, CloseEffect
      DEF ThreadStep, Effect
<1>2. CASE FlusherStep
  <2>1. CASE FlushStart
    <3>1. \A u \in Threads : pc'[u] = pc[u] /\ cont'[u] = cont[u]
      BY <2>1, ConnAssumption DEF FlushStart, Goto, TypeOK, Actors
    <3> QED
      BY <2>1, <3>1 DEF FlushStart, OnOthers, SameFuture, SameMutex, SameSsl,
        connVars, readVars, writeVars, sslVars, waitVars
  <2>2. CASE FlushStep(Flusher)
    BY <2>2, FlushEffect DEF Actors
  <2> QED
    BY <1>2, <2>1, <2>2 DEF FlusherStep
<1>3. CASE PeerSend \/ PeerFin
  BY <1>3 DEF PeerSend, PeerFin, OnOthers, SameFuture, SameMutex, SameSsl,
    connVars, readVars, writeVars, sslVars, waitVars
<1>4. CASE Done \/ UNCHANGED vars
  BY <1>4 DEF Done, vars, OnOthers, SameFuture, SameMutex, SameSsl,
    connVars, readVars, writeVars, sslVars, waitVars
<1> QED
  BY <1>1, <1>2, <1>3, <1>4 DEF Next

(***************************************************************************)
(* The theorems.                                                           *)
(***************************************************************************)
LEMMA MutexInit == Init => MutexInv
<1> SUFFICES ASSUME Init PROVE MutexInv
  OBVIOUS
<1>1. \A t \in Threads : pc[t] = "idle" /\ cont[t] = "none" /\ mtx # t
  BY ConnAssumption DEF Init, Actors
<1>2. NoNotify /\ NothingAfterCloseNotify
  BY DEF Init, NoNotify, NothingAfterCloseNotify
<1>3. Places /\ OneShutdown
  BY <1>1, <1>2 DEF Places, OneShutdown, Closing
<1>4. FillDiscipline /\ NoOrphanWaiter
  BY <1>1, ConnAssumption DEF Init, FillDiscipline, NoOrphanWaiter, Filling
<1> QED
  BY <1>3, <1>4 DEF MutexInv, Futures

LEMMA OthersKeep ==
  ASSUME TypeOK, MutexInv, OnOthers
  PROVE  MutexInv'
<1> USE DEF OnOthers, MutexInv
<1>1. Places'
  BY DEF Places, SameMutex
<1>2. OneShutdown'
  BY DEF OneShutdown, Closing, NoNotify, NothingAfterCloseNotify, SameMutex,
    SameSsl
<1>3. FillDiscipline'
  BY DEF Futures, FillDiscipline, Filling, SameFuture, SameSsl
<1>4. ASSUME NEW u \in Threads, pc'[u] = "wait", got'[u] = "none"
      PROVE  Served(u)'
  <2>0. /\ waitOn \in [Threads -> Threads \cup {NoThread}]
        /\ pc[u] = "wait" /\ got[u] = "none" /\ waitOn' = waitOn
    BY <1>4 DEF TypeOK, SameFuture
  <2>1. /\ waitOn[u] \in Threads /\ waitOn'[u] = waitOn[u]
        /\ Filling(waitOn[u]) \/ pc[waitOn[u]] = "set"
    BY <2>0 DEF Futures, NoOrphanWaiter
  <2>2. pc'[waitOn[u]] = pc[waitOn[u]] /\ cont'[waitOn[u]] = cont[waitOn[u]]
    BY <2>1
  <2> QED
    BY <2>1, <2>2, StillServed, ConnAssumption DEF Filling
<1> QED
  BY <1>1, <1>2, <1>3, <1>4 DEF Futures, NoOrphanWaiter, Served

LEMMA MutexStep == TypeOK /\ MutexInv /\ [Next]_vars => MutexInv'
<1> SUFFICES ASSUME TypeOK, MutexInv, [Next]_vars PROVE MutexInv'
  OBVIOUS
<1>1. CASE OnOthers
  BY <1>1, OthersKeep
<1>2. ASSUME NEW t \in Threads, Effect(t) PROVE MutexInv'
  BY <1>2, PlacesKept, OneShutdownKept, FuturesKept DEF MutexInv
<1> QED
  BY <1>1, <1>2, StepEffect DEF MutexInv

THEOREM MutexCorrect == Spec => []MutexInv
<1>1. TypeInv => TypeOK
  BY DEF TypeInv
<1> QED
  BY <1>1, MutexInit, MutexStep, Types, PTL DEF Spec

(* One goroutine at a time reads the wrapped connection, and ReadFromOnce's*)
(* use of the buffer outside dataMtx is safe: the buffer is empty.         *)
THEOREM OneReader == Spec => []FillDiscipline
<1>1. MutexInv => FillDiscipline
  BY DEF MutexInv, Futures
<1> QED
  BY <1>1, MutexCorrect, PTL

(* No lost wakeup: the future a goroutine waits for is still to be Set.    *)
THEOREM NobodyForgotten == Spec => []NoOrphanWaiter
<1>1. MutexInv => NoOrphanWaiter
  BY DEF MutexInv, Futures
<1> QED
  BY <1>1, MutexCorrect, PTL

(* close_notify is the last thing the library produces.                    *)
THEOREM CloseNotifyIsLast == Spec => []NothingAfterCloseNotify
<1>1. MutexInv => NothingAfterCloseNotify
  BY DEF MutexInv, OneShutdown
<1> QED
  BY <1>1, MutexCorrect, PTL

(* Once isShutdown is set the library handshakes, reads and writes no more.*)
THEOREM OnlyShutdownAfterClose == Spec => QuietAfterShutdown
<1> DEFINE Quiet ==
      isShutdown =>
        /\ hs' = hs /\ recvd' = recvd /\ Len(intoSSL') >= Len(intoSSL)
        /\ appended' \in {appended, Append(appended, "notify")}
<1>1. ASSUME TypeOK, MutexInv, [Next]_vars PROVE Quiet
  <2> SUFFICES ASSUME isShutdown PROVE Quiet!2
    OBVIOUS
  <2>0. intoSSL \in Seq(Item) /\ Len(intoSSL) \in Nat
    BY <1>1 DEF TypeOK
  <2>1. CASE OnOthers
    BY <2>0, <2>1 DEF OnOthers, SameSsl
  <2>2. ASSUME NEW t \in Threads, Effect(t) PROVE Quiet!2
    <3>1. ~OnLibrary(t)
      BY <1>1 DEF OnLibrary, MutexInv, Places
    <3>2. CASE OnFill(t)
      <4>1. /\ hs' = hs /\ recvd' = recvd /\ appended' = appended
            /\ intoSSL' = intoSSL \/ \E s \in Seq(Item) : intoSSL' = intoSSL \o s
        BY <3>2 DEF OnFill
      <4>2. ASSUME NEW s \in Seq(Item)
            PROVE  Len(intoSSL \o s) = Len(intoSSL) + Len(s) /\ Len(s) \in Nat
        BY <2>0
      <4> QED
        BY <2>0, <4>1, <4>2
    <3>3. CASE OnShutdown(t)
      BY <2>0, <3>3 DEF OnShutdown
    <3>4. CASE ~OnFill(t) /\ ~OnShutdown(t)
      <4>1. SameSsl
        BY <2>2, <3>1, <3>4 DEF Effect, OnCall, OnLock, OnWantRead, OnClear,
          OnSet, OnWaitDone, OnClose, OnNetClose, OnFlush
      <4> QED
        BY <2>0, <4>1 DEF SameSsl
    <3> QED
      BY <3>2, <3>3, <3>4
  <2> QED
    BY <1>1, <2>1, <2>2, StepEffect DEF MutexInv
<1>2. TypeInv => TypeOK
  BY DEF TypeInv
<1>3. UNCHANGED vars => Quiet
  BY DEF vars, readVars, writeVars, sslVars
<1> QED
  BY <1>1, <1>2, MutexCorrect, Types, PTL DEF Spec, QuietAfterShutdown
=============================================================================
