-------------------------------- MODULE Conn --------------------------------
(***************************************************************************)
(* conn.go: one TLS connection (type Conn) used by several goroutines at   *)
(* once.  Handshake, Read, Write and Close loop around one call of the C   *)
(* library made under c.mtx; the library talks to two memory BIOs, intoSSL *)
(* and fromSSL, which other steps fill from and flush to the wrapped       *)
(* net.Conn without holding c.mtx.                                         *)
(*                                                                         *)
(* What travels is abstracted to items:                                    *)
(*   towards the program  "hs"    a handshake flight of the peer           *)
(*                        "frag"  a first piece of a record                *)
(*                        "data"  a record of application data             *)
(*                        "alert" the peer's close_notify                  *)
(*                        "bad"   a record the library rejects             *)
(*   towards the peer     "hs", "rec" (data), "notify" (close_notify) and  *)
(*                        "fatal" (the alert sent on a rejected record).   *)
(***************************************************************************)
EXTENDS Naturals, Sequences, FiniteSets

CONSTANTS
  Threads,     (* goroutines that call the methods of the connection        *)
  Flusher,     (* the background flush goroutine that holds opMtx           *)
  NoThread,    (* "no goroutine": a free mutex, a nil future                *)
  Roles,       (* made by Client (TRUE), by Server (FALSE), or by either    *)
  Scripts,     (* what the peer may intend to send                          *)
  Calls,       (* the methods the goroutines call                           *)
  DataWithEof, (* net.Conn.Read may return n > 0 together with io.EOF       *)
  MaxCalls,    (* bound: calls each goroutine makes                         *)
  MaxFlush,    (* bound: flush goroutines spawned and not yet started       *)
  MaxFaults    (* bound: failed reads and writes of the wrapped net.Conn    *)

Item == {"hs", "frag", "data", "alert", "bad"}
OutItem == {"hs", "rec", "notify", "fatal"}
Api == {"Handshake", "Read", "Write", "Close"}

\* A peer handshakes first (two flights), and is silent after its alert.
PeerScript(s) ==
  /\ s \in Seq(Item)
  /\ \A i \in DOMAIN s :
       /\ s[i] \in {"data", "alert"} =>
            Cardinality({j \in 1..(i - 1) : s[j] = "hs"}) = 2
       /\ s[i] = "hs" => Cardinality({j \in 1..(i - 1) : s[j] = "hs"}) < 2
       /\ s[i] = "alert" => i = Len(s)

ASSUME ConnAssumption ==
  /\ Flusher \notin Threads /\ NoThread \notin Threads /\ Flusher # NoThread
  /\ Roles \subseteq BOOLEAN /\ DataWithEof \in BOOLEAN
  /\ \A s \in Scripts : PeerScript(s)
  /\ Calls \subseteq Api
  /\ MaxCalls \in Nat /\ MaxFlush \in Nat \ {0} /\ MaxFaults \in Nat

VARIABLES
  \* the fields of Conn and of its two BIOs
  mtx,            \* holder of c.mtx
  isShutdown,
  wantReadFuture, \* the goroutine that will Set the current future
  intoSSL, eof,   \* ReadBio.buf and ReadBio.eof
  fromSSL, opMtx, \* WriteBio.buf and the holder of WriteBio.opMtx
  flight,         \* WriteTo: length of the snapshot, items written, error
  \* the state the C library keeps in the SSL object
  isClient,       \* SSL_set_connect_state, not SSL_set_accept_state
  hs,             \* handshake flights done, of 4
  broken,         \* a fatal error happened
  rcvdClose,      \* the peer's close_notify was read
  \* goroutines
  pc, api, cont, err, waitOn, got, ret, calls, mark,
  nflush,         \* flush goroutines spawned and not yet started
  \* the wrapped net.Conn and the peer
  script, net, fin, netClosed, faults,
  \* history
  appended,       \* every item the library wrote to fromSSL
  wire,           \* every item net.Conn.Write accepted
  sent,           \* number of data records the peer sent
  recvd,          \* number of data records returned by SSL_read
  userClosed      \* some goroutine called Close itself

connVars  == <<mtx, isShutdown, wantReadFuture>>
readVars  == <<intoSSL, eof>>
writeVars == <<fromSSL, appended>>
flushVars == <<opMtx, flight, wire>>
sslVars   == <<hs, broken, rcvdClose, recvd>>
waitVars  == <<waitOn, got>>
callVars  == <<api, calls, mark, userClosed>>
doneVars  == <<ret, nflush>>
peerVars  == <<script, fin, sent, isClient>>
netVars   == <<net, netClosed, faults>>
vars == <<connVars, readVars, writeVars, flushVars, sslVars, pc, cont, err,
          waitVars, callVars, doneVars, peerVars, netVars>>

Actors == Threads \cup {Flusher}

(***************************************************************************)
(* A name that begins with Bad is a slip somebody could make in the helper *)
(* that follows it; no action of the specification uses one.               *)
(***************************************************************************)
BadEstablished == hs = 5
Established == hs = 4

Flight(i) == IF (i % 2 = 0) = isClient THEN "out" ELSE "in"

(***************************************************************************)
(* Control: the values of pc.                                              *)
(*   idle                        outside the connection's methods          *)
(*   lock, ssl                   before and inside the section of          *)
(*                               handshake, read, write, shutdown that     *)
(*                               holds c.mtx                               *)
(*   wait                        in wantReadFuture.Get                     *)
(*   fill, eof, clear, set       the goroutine that owns wantReadFuture:   *)
(*                               ReadFromOnce, MarkEOF, the deferred reset *)
(*                               of c.wantReadFuture, the deferred Set     *)
(*   flock, fwrite, ftrim        WriteBio.WriteTo                          *)
(*   close, netclose             Close: test of isShutdown, conn.Close     *)
(***************************************************************************)
Pcs == {"idle", "lock", "ssl", "wait", "fill", "eof", "clear", "set",
        "flock", "fwrite", "ftrim", "close", "netclose"}

\* cont[t] names who called Close: nobody, the user, fillInputBuffer on
\* io.EOF, or the SSL_ERROR_ZERO_RETURN handler.
Conts == {"none", "user", "eof", "zero"}

\* nil, errTryAgain, io.ErrUnexpectedEOF, io.EOF, crypto.ErrShutdown, other.
Errs == {"nil", "again", "ueof", "eof", "shut", "err"}

Init ==
  /\ mtx = NoThread /\ isShutdown = FALSE /\ wantReadFuture = NoThread
  /\ intoSSL = <<>> /\ eof = FALSE
  /\ fromSSL = <<>> /\ opMtx = NoThread
  /\ flight = [len |-> 0, n |-> 0, err |-> "nil"]
  /\ isClient \in Roles
  /\ hs = 0 /\ broken = FALSE /\ rcvdClose = FALSE
  /\ pc = [a \in Actors |-> "idle"]
  /\ api = [t \in Threads |-> "Read"]
  /\ cont = [t \in Threads |-> "none"]
  /\ err = [t \in Threads |-> "nil"]
  /\ waitOn = [t \in Threads |-> NoThread]
  /\ got = [t \in Threads |-> "none"]
  /\ ret = [t \in Threads |-> "none"]
  /\ calls = [t \in Threads |-> 0]
  /\ mark = [t \in Threads |-> 0]
  /\ nflush = 0
  /\ script \in Scripts /\ net = <<>> /\ fin = FALSE
  /\ netClosed = FALSE /\ faults = 0 /\ userClosed = FALSE
  /\ appended = <<>> /\ wire = <<>> /\ sent = 0 /\ recvd = 0

Goto(t, p) == pc' = [pc EXCEPT ![t] = p]

\* go c.flushOutputBuffer().  A goroutine that has not started yet will flush
\* all that is there when it starts, so at the bound one more adds nothing.
BadSpawn == UNCHANGED nflush
Spawn == nflush' = IF nflush < MaxFlush THEN nflush + 1 ELSE nflush

\* Read turns io.ErrUnexpectedEOF into io.EOF.
BadReadResult(r) == IF r = "nil" THEN "nil" ELSE "eof"
ReadResult(r) == IF r = "ueof" THEN "eof" ELSE r

\* The call of t ends with r: Handshake always spawns a flush, Read does when
\* it succeeds.
Return(t, r) ==
  /\ Goto(t, "idle")
  /\ ret' = [ret EXCEPT ![t] = IF api[t] = "Read" THEN ReadResult(r) ELSE r]
  /\ IF api[t] = "Handshake" \/ (api[t] = "Read" /\ r = "nil")
     THEN Spawn ELSE UNCHANGED nflush

\* The loops of Handshake, Read and Write: again on errTryAgain.
Retry(t, r) ==
  IF r = "again" THEN Goto(t, "lock") /\ UNCHANGED doneVars ELSE Return(t, r)

(***************************************************************************)
(* Calls, and the sections under c.mtx.                                    *)
(***************************************************************************)
CallStart(t, a) ==
  /\ pc[t] = "idle" /\ calls[t] < MaxCalls
  /\ api' = [api EXCEPT ![t] = a]
  /\ calls' = [calls EXCEPT ![t] = @ + 1]
  /\ mark' = [mark EXCEPT ![t] = 0]
  /\ ret' = [ret EXCEPT ![t] = "none"]
  /\ cont' = [cont EXCEPT ![t] = IF a = "Close" THEN "user" ELSE "none"]
  /\ userClosed' = (userClosed \/ a = "Close")
  /\ Goto(t, IF a = "Close" THEN "close" ELSE "lock")
  /\ UNCHANGED <<connVars, readVars, writeVars, flushVars, sslVars, err,
                 waitVars, nflush, peerVars, netVars>>

\* What a method answers once isShutdown is set.
Refusal(a) ==
  CASE a = "Handshake" -> "ueof" [] a = "Read" -> "eof" [] OTHER -> "shut"

\* The test of isShutdown, which shutdown does not make.
BadRefused(t) == isShutdown /\ cont[t] = "none" /\ api[t] # "Handshake"
Refused(t) == isShutdown /\ cont[t] = "none"

\* c.mtx.Lock, and that test.
Lock(t) ==
  /\ pc[t] = "lock" /\ mtx = NoThread
  /\ IF Refused(t)
     THEN Return(t, Refusal(api[t])) /\ UNCHANGED mtx
     ELSE mtx' = t /\ Goto(t, "ssl") /\ UNCHANGED doneVars
  /\ UNCHANGED <<isShutdown, wantReadFuture, readVars, writeVars, flushVars,
                 sslVars, cont, err, waitVars, callVars, peerVars, netVars>>

\* t is inside SSL_do_handshake, SSL_read or SSL_write.
InLibrary(t) == pc[t] = "ssl" /\ cont[t] = "none"

\* ... and can go no further without an item of intoSSL.
NeedsInput(t) ==
  /\ InLibrary(t) /\ ~broken
  /\ IF Established THEN api[t] = "Read" /\ ~rcvdClose ELSE Flight(hs) = "in"

Has(item) == intoSSL # <<>> /\ Head(intoSSL) = item

Emit(item) ==
  fromSSL' = Append(fromSSL, item) /\ appended' = Append(appended, item)

\* What no step of the library touches.
LibraryFrame ==
  UNCHANGED <<isShutdown, eof, flushVars, peerVars, netVars>>

\* The library writes, or consumes, one flight of the handshake.
SslHandshakeOut(t) ==
  /\ InLibrary(t) /\ ~broken /\ ~Established /\ Flight(hs) = "out"
  /\ Emit("hs") /\ hs' = hs + 1
  /\ LibraryFrame
  /\ UNCHANGED <<mtx, wantReadFuture, intoSSL, broken, rcvdClose, recvd, pc,
                 cont, err, waitVars, callVars, doneVars>>

SslHandshakeIn(t) ==
  /\ NeedsInput(t) /\ Has("hs") /\ ~Established
  /\ intoSSL' = Tail(intoSSL) /\ hs' = hs + 1
  /\ LibraryFrame
  /\ UNCHANGED <<mtx, wantReadFuture, writeVars, broken, rcvdClose, recvd, pc,
                 cont, err, waitVars, callVars, doneVars>>

\* A record that is not complete: the library keeps the piece.
SslFragment(t) ==
  /\ NeedsInput(t) /\ Has("frag")
  /\ intoSSL' = Tail(intoSSL)
  /\ LibraryFrame
  /\ UNCHANGED <<mtx, wantReadFuture, writeVars, sslVars, pc, cont, err,
                 waitVars, callVars, doneVars>>

\* Whether a goroutine already reads for this connection.
BadSomeoneReads == FALSE
SomeoneReads == wantReadFuture # NoThread

\* SSL_ERROR_WANT_READ: a flush is spawned, and t either waits for the
\* future of the goroutine that is reading, or becomes that goroutine.
SslWantRead(t) ==
  /\ NeedsInput(t) /\ intoSSL = <<>> /\ ~eof
  /\ mtx' = NoThread
  /\ Spawn
  /\ IF SomeoneReads
     THEN /\ waitOn' = [waitOn EXCEPT ![t] = wantReadFuture]
          /\ Goto(t, "wait")
          /\ UNCHANGED wantReadFuture
     ELSE /\ wantReadFuture' = t
          /\ Goto(t, "fill")
          /\ UNCHANGED waitOn
  /\ LibraryFrame
  /\ UNCHANGED <<intoSSL, writeVars, sslVars, cont, err, got, callVars, ret>>

\* The BIO answers 0 at its end of file: SSL_ERROR_SYSCALL.
SslEof(t) ==
  /\ NeedsInput(t) /\ intoSSL = <<>> /\ eof
  /\ mtx' = NoThread
  /\ Return(t, "err")
  /\ LibraryFrame
  /\ UNCHANGED <<wantReadFuture, intoSSL, writeVars, sslVars, cont, err,
                 waitVars, callVars>>

\* A record the library rejects: it leaves a fatal alert in fromSSL.
SslReject(t) ==
  /\ NeedsInput(t) /\ Has("bad")
  /\ intoSSL' = Tail(intoSSL) /\ broken' = TRUE
  /\ Emit("fatal")
  /\ mtx' = NoThread
  /\ Return(t, "err")
  /\ LibraryFrame
  /\ UNCHANGED <<wantReadFuture, hs, rcvdClose, recvd, cont, err, waitVars,
                 callVars>>

SslBroken(t) ==
  /\ InLibrary(t) /\ broken
  /\ mtx' = NoThread
  /\ Return(t, "err")
  /\ LibraryFrame
  /\ UNCHANGED <<wantReadFuture, intoSSL, writeVars, sslVars, cont, err,
                 waitVars, callVars>>

SslHandshakeDone(t) ==
  /\ InLibrary(t) /\ ~broken /\ Established /\ api[t] = "Handshake"
  /\ mtx' = NoThread
  /\ Return(t, "nil")
  /\ LibraryFrame
  /\ UNCHANGED <<wantReadFuture, intoSSL, writeVars, sslVars, cont, err,
                 waitVars, callVars>>

SslRead(t) ==
  /\ NeedsInput(t) /\ Established /\ Has("data")
  /\ intoSSL' = Tail(intoSSL) /\ recvd' = recvd + 1
  /\ mtx' = NoThread
  /\ Return(t, "nil")
  /\ LibraryFrame
  /\ UNCHANGED <<wantReadFuture, writeVars, hs, broken, rcvdClose, cont, err,
                 waitVars, callVars>>

\* The peer's close_notify, now or earlier: SSL_ERROR_ZERO_RETURN, whose
\* handler closes the connection.
SslZeroReturn(t) ==
  /\ InLibrary(t) /\ ~broken /\ Established /\ api[t] = "Read"
  /\ \/ rcvdClose /\ UNCHANGED intoSSL
     \/ ~rcvdClose /\ Has("alert") /\ intoSSL' = Tail(intoSSL)
  /\ rcvdClose' = TRUE
  /\ mtx' = NoThread
  /\ cont' = [cont EXCEPT ![t] = "zero"]
  /\ Goto(t, "close")
  /\ LibraryFrame
  /\ UNCHANGED <<wantReadFuture, writeVars, hs, broken, recvd, err, waitVars,
                 callVars, doneVars>>

\* What the library produced is flushed at once, by the same goroutine.
BadThenFlush(t) == Goto(t, IF cont[t] = "none" THEN "flock" ELSE "netclose")
ThenFlush(t) == Goto(t, "flock")

\* SSL_write succeeds: the write BIO takes everything, so it never blocks.
SslWrite(t) ==
  /\ InLibrary(t) /\ ~broken /\ Established /\ api[t] = "Write"
  /\ Emit("rec")
  /\ mark' = [mark EXCEPT ![t] = Len(appended')]
  /\ mtx' = NoThread
  /\ ThenFlush(t)
  /\ LibraryFrame
  /\ UNCHANGED <<wantReadFuture, intoSSL, sslVars, cont, err, waitVars, api,
                 calls, userClosed, doneVars>>

\* SSL_shutdown: close_notify once the handshake is done, otherwise an error
\* and nothing to flush; after a fatal error, either.
SslShutdown(t) ==
  /\ pc[t] = "ssl" /\ cont[t] # "none"
  /\ \/ Established /\ Emit("notify") /\ ThenFlush(t) /\ UNCHANGED err
     \/ /\ Established => broken
        /\ err' = [err EXCEPT ![t] = "err"]
        /\ Goto(t, "netclose")
        /\ UNCHANGED writeVars
  /\ mtx' = NoThread
  /\ LibraryFrame
  /\ UNCHANGED <<wantReadFuture, intoSSL, sslVars, cont, waitVars, callVars,
                 doneVars>>

LibraryStep(t) ==
  \/ SslHandshakeOut(t) \/ SslHandshakeIn(t) \/ SslFragment(t)
  \/ SslWantRead(t) \/ SslEof(t) \/ SslReject(t) \/ SslBroken(t)
  \/ SslHandshakeDone(t) \/ SslRead(t) \/ SslZeroReturn(t) \/ SslWrite(t)
  \/ SslShutdown(t)

(***************************************************************************)
(* fillInputBuffer and the future of the goroutine that runs it.           *)
(***************************************************************************)
\* What no step of the goroutine that fills touches.
FillFrame ==
  UNCHANGED <<mtx, isShutdown, wantReadFuture, writeVars, flushVars, sslVars,
              cont, waitVars, callVars, doneVars, peerVars>>

SetErr(t, e) == err' = [err EXCEPT ![t] = e]

\* ReadFromOnce gets some of what is on the network (and io.EOF with the rest
\* of it, from a net.Conn that reports both at once).
FillData(t) ==
  /\ pc[t] = "fill" /\ ~netClosed
  /\ \E k \in 1..Len(net) :
       /\ intoSSL' = intoSSL \o SubSeq(net, 1, k)
       /\ net' = SubSeq(net, k + 1, Len(net))
  /\ \/ Goto(t, "clear") /\ SetErr(t, "again")
     \/ DataWithEof /\ fin /\ net' = <<>> /\ Goto(t, "eof") /\ UNCHANGED err
  /\ UNCHANGED <<eof, netClosed, faults>>
  /\ FillFrame

FillEof(t) ==
  /\ pc[t] = "fill" /\ ~netClosed /\ fin /\ net = <<>>
  /\ Goto(t, "eof")
  /\ UNCHANGED <<intoSSL, eof, err, netVars>>
  /\ FillFrame

\* The wrapped connection was closed under the read, or the read fails (a
\* deadline, say).
FillError(t) ==
  /\ pc[t] = "fill"
  /\ \/ netClosed /\ UNCHANGED faults
     \/ ~netClosed /\ faults < MaxFaults /\ faults' = faults + 1
  /\ Goto(t, "clear") /\ SetErr(t, "err")
  /\ UNCHANGED <<intoSSL, eof, net, netClosed>>
  /\ FillFrame

\* MarkEOF; then fillInputBuffer calls Close.
MarkEOF(t) ==
  /\ pc[t] = "eof"
  /\ eof' = TRUE
  /\ cont' = [cont EXCEPT ![t] = "eof"]
  /\ Goto(t, "close")
  /\ UNCHANGED <<mtx, isShutdown, wantReadFuture, intoSSL, writeVars,
                 flushVars, sslVars, err, waitVars, callVars, doneVars,
                 peerVars, netVars>>

\* The deferred function: c.wantReadFuture = nil under c.mtx ...
ClearFuture(t) ==
  /\ pc[t] = "clear" /\ mtx = NoThread
  /\ wantReadFuture' = NoThread
  /\ Goto(t, "set")
  /\ UNCHANGED <<mtx, isShutdown, readVars, writeVars, flushVars, sslVars,
                 cont, err, waitVars, callVars, doneVars, peerVars, netVars>>

\* Whom the future of t reaches: everyone who holds it (Broadcast).  (The
\* slip: Set is called after a successful read only.)
Holders(t) == {u \in Threads : waitOn[u] = t /\ got[u] = "none"}
BadSetOnSuccess(t) == IF err[t] = "again" THEN Holders(t) ELSE {}
Reached(t) == Holders(t)

\* ... and then Set.
SetFuture(t) ==
  /\ pc[t] = "set"
  /\ got' = [u \in Threads |-> IF u \in Reached(t) THEN err[t] ELSE got[u]]
  /\ Retry(t, err[t])
  /\ SetErr(t, "nil")
  /\ UNCHANGED <<connVars, readVars, writeVars, flushVars, sslVars, cont,
                 waitOn, callVars, peerVars, netVars>>

WaitDone(t) ==
  /\ pc[t] = "wait" /\ got[t] # "none"
  /\ Retry(t, got[t])
  /\ waitOn' = [waitOn EXCEPT ![t] = NoThread]
  /\ got' = [got EXCEPT ![t] = "none"]
  /\ UNCHANGED <<connVars, readVars, writeVars, flushVars, sslVars, cont, err,
                 callVars, peerVars, netVars>>

(***************************************************************************)
(* Close.                                                                  *)
(***************************************************************************)
\* Close ends with e, and its caller goes on.
CloseReturn(t, e) ==
  /\ cont' = [cont EXCEPT ![t] = "none"]
  /\ CASE cont[t] = "user" -> Return(t, e) /\ SetErr(t, "nil")
       [] cont[t] = "zero" -> Return(t, "ueof") /\ SetErr(t, "nil")
       [] OTHER -> /\ Goto(t, "clear")
                   /\ SetErr(t, IF e = "nil" THEN "again" ELSE "err")
                   /\ UNCHANGED doneVars

\* Close was called before.
BadClosedBefore == FALSE
ClosedBefore == isShutdown

CloseLock(t) ==
  /\ pc[t] = "close" /\ mtx = NoThread
  /\ IF ClosedBefore
     THEN CloseReturn(t, "nil") /\ UNCHANGED isShutdown
     ELSE /\ isShutdown' = TRUE
          /\ Goto(t, "lock")
          /\ UNCHANGED <<cont, err, doneVars>>
  /\ UNCHANGED <<mtx, wantReadFuture, readVars, writeVars, flushVars, sslVars,
                 waitVars, callVars, peerVars, netVars>>

\* c.conn.Close, whatever shutdownLoop answered.
BadConnClose(t) == netClosed' = (netClosed \/ err[t] = "nil")
ConnClose(t) == netClosed' = TRUE

NetClose(t) ==
  /\ pc[t] = "netclose"
  /\ ConnClose(t)
  /\ CloseReturn(t, err[t])
  /\ UNCHANGED <<connVars, readVars, writeVars, flushVars, sslVars, waitVars,
                 callVars, peerVars, net, faults>>

(***************************************************************************)
(* WriteBio.WriteTo, run by Write, by Close and by the flush goroutines.   *)
(***************************************************************************)
\* WriteTo of a ends with e.
AfterFlush(a, e) ==
  IF a = Flusher
  THEN Goto(a, "idle") /\ UNCHANGED <<err, doneVars>>
  ELSE IF cont[a] = "none"
       THEN Return(a, e) /\ UNCHANGED err
       ELSE Goto(a, "netclose") /\ SetErr(a, e) /\ UNCHANGED doneVars

\* The flush goroutine starts.
FlushStart ==
  /\ nflush > 0 /\ pc[Flusher] = "idle"
  /\ nflush' = nflush - 1
  /\ Goto(Flusher, "flock")
  /\ UNCHANGED <<connVars, readVars, writeVars, flushVars, sslVars, cont, err,
                 waitVars, callVars, ret, peerVars, netVars>>

\* opMtx.Lock, and the snapshot of the buffer.
FlushLock(a) ==
  /\ pc[a] = "flock" /\ opMtx = NoThread
  /\ IF fromSSL = <<>>
     THEN AfterFlush(a, "nil") /\ UNCHANGED <<opMtx, flight>>
     ELSE /\ opMtx' = a
          /\ flight' = [len |-> Len(fromSSL), n |-> 0, err |-> "nil"]
          /\ Goto(a, "fwrite")
          /\ UNCHANGED <<err, doneVars>>
  /\ UNCHANGED <<connVars, readVars, writeVars, wire, sslVars, cont, waitVars,
                 callVars, peerVars, netVars>>

\* The error of net.Conn.Write when it took n items of the snapshot.
BadWriteErr(n) == "nil"
WriteErr(n) == IF n = flight.len THEN "nil" ELSE "err"

\* net.Conn.Write takes n items of the snapshot; fewer means an error.
NetWrite(a) ==
  /\ pc[a] = "fwrite"
  /\ \E n \in 0..flight.len :
       /\ \/ ~netClosed /\ n = flight.len /\ UNCHANGED faults
          \/ ~netClosed /\ n < flight.len /\ faults < MaxFaults
             /\ faults' = faults + 1
          \/ netClosed /\ n = 0 /\ UNCHANGED faults
       /\ flight' = [flight EXCEPT !.n = n, !.err = WriteErr(n)]
       /\ wire' = wire \o SubSeq(fromSSL, 1, n)
  /\ Goto(a, "ftrim")
  /\ UNCHANGED <<connVars, readVars, writeVars, opMtx, sslVars, cont, err,
                 waitVars, callVars, doneVars, peerVars, net, netClosed>>

\* What stays in the buffer after n items of it were written.
BadRemaining(n) == SubSeq(fromSSL, flight.len + 1, Len(fromSSL))
Remaining(n) == SubSeq(fromSSL, n + 1, Len(fromSSL))

\* The written items leave the buffer; opMtx is released.
Trim(a) ==
  /\ pc[a] = "ftrim"
  /\ fromSSL' = Remaining(flight.n)
  /\ opMtx' = NoThread
  /\ flight' = [len |-> 0, n |-> 0, err |-> "nil"]
  /\ AfterFlush(a, flight.err)
  /\ UNCHANGED <<connVars, readVars, appended, wire, sslVars, cont, waitVars,
                 callVars, peerVars, netVars>>

FlushStep(a) == FlushLock(a) \/ NetWrite(a) \/ Trim(a)

(***************************************************************************)
(* The peer: it sends its script in order, a handshake flight only once it *)
(* has the flights before it, and may stop at any time.                    *)
(***************************************************************************)
FlightsSeen == Len(SelectSeq(wire, LAMBDA item : item = "hs"))

PeerSend ==
  /\ ~fin /\ script # <<>>
  /\ LET item == Head(script)
         left == Len(SelectSeq(script, LAMBDA i : i = "hs"))
     IN /\ item = "hs" => FlightsSeen + (IF isClient THEN 0 ELSE 1) > 2 - left
        /\ item \in {"data", "alert"} => FlightsSeen = 2
        /\ net' = Append(net, item)
        /\ sent' = IF item = "data" THEN sent + 1 ELSE sent
  /\ script' = Tail(script)
  /\ UNCHANGED <<connVars, readVars, writeVars, flushVars, sslVars, pc, cont,
                 err, waitVars, callVars, doneVars, fin, isClient, netClosed, faults>>

PeerFin ==
  /\ ~fin
  /\ fin' = TRUE
  /\ UNCHANGED <<connVars, readVars, writeVars, flushVars, sslVars, pc, cont,
                 err, waitVars, callVars, doneVars, script, sent, isClient,
                 netVars>>

(***************************************************************************)
(* The specification.                                                      *)
(***************************************************************************)
\* The steps of a goroutine inside one of the methods.
ThreadStep(t) ==
  \/ Lock(t) \/ LibraryStep(t)
  \/ FillData(t) \/ FillEof(t) \/ FillError(t) \/ MarkEOF(t)
  \/ ClearFuture(t) \/ SetFuture(t) \/ WaitDone(t)
  \/ CloseLock(t) \/ NetClose(t) \/ FlushStep(t)

FlusherStep == FlushStart \/ FlushStep(Flusher)

\* Every goroutine has made its calls (the run ends, it does not deadlock).
Done ==
  /\ \A t \in Threads : pc[t] = "idle" /\ calls[t] = MaxCalls
  /\ UNCHANGED vars

Next ==
  \/ \E t \in Threads : ThreadStep(t) \/ \E a \in Calls : CallStart(t, a)
  \/ FlusherStep \/ PeerSend \/ PeerFin \/ Done

Spec == Init /\ [][Next]_vars

\* The Go scheduler runs every goroutine that can run, sync.Mutex does not
\* starve a waiter (hence SF), and a write to the wrapped connection returns.
\* Nothing is assumed of the peer or of the callers.
FairSpec ==
  Spec /\ (\A t \in Threads : SF_vars(ThreadStep(t))) /\ SF_vars(FlusherStep)

(***************************************************************************)
(* Properties.                                                             *)
(***************************************************************************)
TypeOK ==
  /\ mtx \in Threads \cup {NoThread} /\ isShutdown \in BOOLEAN
  /\ wantReadFuture \in Threads \cup {NoThread}
  /\ intoSSL \in Seq(Item) /\ eof \in BOOLEAN
  /\ fromSSL \in Seq(OutItem) /\ appended \in Seq(OutItem)
  /\ opMtx \in Actors \cup {NoThread} /\ wire \in Seq(OutItem)
  /\ flight \in [len : Nat, n : Nat, err : {"nil", "err"}]
  /\ isClient \in BOOLEAN /\ hs \in 0..4 /\ broken \in BOOLEAN /\ rcvdClose \in BOOLEAN
  /\ recvd \in Nat /\ sent \in Nat
  /\ pc \in [Actors -> Pcs]
  /\ pc[Flusher] \in {"idle", "flock", "fwrite", "ftrim"}
  /\ api \in [Threads -> Api] /\ cont \in [Threads -> Conts]
  /\ err \in [Threads -> Errs] /\ got \in [Threads -> Errs \cup {"none"}]
  /\ waitOn \in [Threads -> Threads \cup {NoThread}]
  /\ ret \in [Threads -> Errs \cup {"none"}]
  /\ calls \in [Threads -> 0..MaxCalls] /\ mark \in [Threads -> Nat]
  /\ nflush \in 0..MaxFlush
  /\ script \in Seq(Item) /\ net \in Seq(Item) /\ fin \in BOOLEAN
  /\ netClosed \in BOOLEAN /\ faults \in 0..MaxFaults
  /\ userClosed \in BOOLEAN

\* The goroutines that own a future which waiters may hold and which has not
\* been Set: from SSL_ERROR_WANT_READ to the deferred function's last line,
\* the Close that fillInputBuffer makes included.
Filling(t) == pc[t] \in {"fill", "eof", "clear"} \/ cont[t] = "eof"

\* One goroutine at a time reads the wrapped connection, it is the one whose
\* future c.wantReadFuture is, and while it reads the BIO's buffer is empty:
\* ReadFromOnce reads into the buffer outside dataMtx, and is safe for this
\* reason only (getErrorHandler's SSL_ERROR_WANT_READ case).
FillDiscipline ==
  /\ \A t \in Threads : Filling(t) <=> wantReadFuture = t
  /\ \A t \in Threads : pc[t] = "fill" => intoSSL = <<>>

\* No lost wakeup: a goroutine that waits for a future waits for one that a
\* goroutine still has to Set (getErrorHandler's deferred function clears
\* c.wantReadFuture before it calls Set, so nobody joins too late).
NoOrphanWaiter ==
  \A t \in Threads :
    pc[t] = "wait" /\ got[t] = "none" =>
      waitOn[t] # NoThread /\ (Filling(waitOn[t]) \/ pc[waitOn[t]] = "set")

\* What went to the wrapped connection, followed by what WriteTo has still to
\* write, is what the library produced: nothing is lost, repeated or reordered
\* by the goroutines that flush at the same time, or by a partial write.
WireIsFaithful ==
  appended = wire \o SubSeq(fromSSL, flight.n + 1, Len(fromSSL))

\* A Write that reports success has its own record on the wire, whichever
\* goroutine's WriteTo carried it (Write returns flushOutputBuffer's result).
WriteOkOnWire ==
  \A t \in Threads :
    api[t] = "Write" /\ ret[t] = "nil" => mark[t] \in 1..Len(wire)

\* close_notify is the last thing the library ever produces, and it is
\* produced once: isShutdown is set, under c.mtx, before SSL_shutdown.
NothingAfterCloseNotify ==
  \A i \in DOMAIN appended : appended[i] = "notify" => i = Len(appended)

\* When Close gets to conn.Close without an error, all the library produced,
\* close_notify included, is on the wire: the flush of shutdownLoop waits for
\* the flush goroutines by opMtx.
CleanClose ==
  \A t \in Threads :
    pc[t] = "netclose" /\ err[t] = "nil" =>
      /\ wire = appended
      /\ wire # <<>> /\ wire[Len(wire)] = "notify"

\* Unless the program closed the connection, Read says io.EOF only when all
\* the application data the peer sent has been read (Read's comment: "io.EOF
\* is returned when the caller can expect to see no more data").
EofIsComplete ==
  \A t \in Threads :
    api[t] = "Read" /\ ret[t] = "eof" /\ ~userClosed /\ ~broken =>
      recvd = sent

\* The other direction of that comment: at the end of an established
\* connection that nobody disturbed, Read says io.EOF and no other error.
EndIsEof ==
  \A t \in Threads :
    api[t] = "Read" /\ ret[t] = "err" =>
      userClosed \/ broken \/ faults > 0 \/ ~Established

\* "io.EOF is returned when the caller can expect to see no more data" (Read's
\* comment): then, and only then.
EofAtEnd == EofIsComplete /\ EndIsEof

\* Once isShutdown is set the library handshakes, reads and writes no more:
\* only SSL_shutdown runs (every other method tests isShutdown under the same
\* hold of c.mtx as its call of the library).
QuietAfterShutdown ==
  [][isShutdown =>
       /\ hs' = hs /\ recvd' = recvd /\ Len(intoSSL') >= Len(intoSSL)
       /\ appended' \in {appended, Append(appended, "notify")}]_vars

\* Close releases every goroutine: once isShutdown is set, a goroutine that is
\* in a method, even one that waits for input of a silent peer, leaves it.
CloseUnblocks ==
  \A t \in Threads : (isShutdown /\ pc[t] # "idle") ~> (pc[t] = "idle")

\* Every call returns if the peer ever closes its side: nobody waits for a
\* future that is never Set, or for a mutex that is never released.
CallsReturn ==
  <>fin => \A t \in Threads : (pc[t] # "idle") ~> (pc[t] = "idle")

\* What the library produced gets to the wire without the help of another
\* call: each method that can produce something flushes or spawns a flush.
\* (The fatal alert of a rejected record is the exception.)
OutputIsFlushed ==
  (wire # appended) ~>
    (wire = appended \/ netClosed \/ faults > 0 \/ broken)
=============================================================================
