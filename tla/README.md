# A verification project for tongsuo-go-sdk

TLA+ models of the Go bindings for Tongsuo (an OpenSSL fork): the connection and its
BIOs, contexts and their callbacks, the error paths of every function that calls C,
the ownership of C objects, digests and ciphers. TLC runs check them on small
instances, and proofs, checked by TLAPS, show for every instance each safety
property that a run finds to hold. Paths are those of the repository; `PROJECT.json`
ties every definition to the lines it models.

## The system

The library wraps a `net.Conn` in TLS. The C library does the cryptography and
the protocol, on two memory BIOs written in Go; everything that goroutines share
is Go code around calls of the C library.

| part | source | state it keeps | operations |
| --- | --- | --- | --- |
| connection | `conn.go` | `mtx`, `isShutdown`, `wantReadFuture`, the SSL object, two BIOs, the wrapped `net.Conn` | `Handshake`, `Read`, `Write`, `Close`, accessors |
| write BIO | `crypto/bio.go` | `buf`, `dataMtx`, `opMtx`, `releaseBuffers` | `go_write_bio_write` (C side), `WriteTo` (Go side) |
| read BIO | `crypto/bio.go` | the same and `eof` | `go_read_bio_read`, `ReadFromOnce`, `MarkEOF` |
| future | `utils/future.go` | `received`, `val`, `err`, a mutex and a condition variable | `Get`, `Set`, `Fired` |
| error group | `utils/errors.go` | a list of errors | `Add`, `Finalize` |
| BIO mapping | `crypto/mapping.go` | token -> Go BIO | `Add`, `Get`, `Del` |
| context | `ctx.go`, `pem.go` | the SSL_CTX, callbacks, chain, key, store | configuration |
| callbacks | `ssl.go`, `sni.c`, `shim.c` | ex_data of SSL and SSL_CTX | verify, SNI, ALPN thunks |
| session tickets | `tickets.go` | the ticket store and its key manager | the ticket callback, `SetTicketStore` |
| dialing, listening | `net.go`, `http.go` | none | `Dial`, `DialSession`, `Accept` |
| error queue | `crypto/init.go` | one queue per OS thread, in the C library | `PopError` |
| certificates, keys | `crypto/cert.go`, `key.go`, `dh*.go`, `sm2/` | owned C objects with finalizers | build, sign, load, encrypt |
| digests, HMAC | `crypto/hmac.go`, `digest.go`, `md5/` ... `sm3/` | an EVP or HMAC context | new, write, sum, reset, close |
| ciphers | `crypto/ciphers*.go`, `sm4/` | an EVP context, key, IV, tag | init, update, final |

How they interact. `Handshake`, `Read` and `Write` loop: call the C library under
`c.mtx`; when it needs input, either become the goroutine that fills the read BIO
from the wrapped connection (without `c.mtx`), or wait for the future of the
goroutine that does; try again. The C library calls back into the two BIOs
under `c.mtx` (`go_read_bio_read`, `go_write_bio_write`, found through the
mapping), and into the verify, SNI, ALPN and ticket callbacks, also under
`c.mtx`. What it wrote is flushed by `WriteTo`, without `c.mtx`, by `Write` and
`Close` themselves and by goroutines that the other methods spawn. `Close` is
called by the program, by `fillInputBuffer` at the end of the stream, and by
`Read` on the peer's close_notify.

What is hard: several goroutines in one connection; three locks and a future
whose holds do not nest; the buffer of a BIO used outside its lock; flushes that
overlap, fail part way, or run on the side; the close of a connection from
inside a read; the end of the stream arriving in the middle of anything. The
list, each at its line, is under "hazards" in `PROJECT.json`.

What makes the parts correct:

- connection: no goroutine is left waiting; what the library produced goes to
  the wire once and in order; a Write that succeeded is on the wire; nothing
  follows close_notify; `Close` sends it before it closes the wrapped connection
  and releases everybody; `Read` says `io.EOF` at the end of the data, and
  then only;
- BIOs: a byte stream; no byte is seen by two owners at once;
- future: one value, kept, and no lost wakeup;
- mapping: a callback finds the BIO it belongs to, or nothing;
- callbacks: they run with the context in force, and find Go's object;
- tickets: no key is used that had expired when the ticket came, and the handshakes
  of one context call the key manager one at a time;
- C objects: freed once, and not while something refers to them;
- error queue: an error is reported by the call that caused it, where the function
  locks its thread, and tears down no connection that only waits.

## Modules

| module | models | composed of |
| --- | --- | --- |
| `Conn` | a connection: its goroutines, locks, future, BIOs, wrapped connection | relies on `ByteStream`, `AtomicFuture` |
| `WriteBio` | the write BIO, at the level of Go's slices | implements `ByteStream` |
| `Future` | the future, at the level of its mutex and condition variable | implements `AtomicFuture` |
| `Context` | settings of contexts, server handshakes and their callbacks, session tickets | |
| `CCalls` | the C calls of every function that can fail, error queues, OS threads | |
| `Objects` | wrappers, C objects, reference counts, finalizers | |
| `Digest`, `Cipher` | hash objects; cipher contexts | `Crypto` runs either |

`Conn` treats the buffer of the write BIO as a sequence and the future as atomic.
The two modules below it each implement the abstract specification that `Conn`
relies on: `ByteStream` (bytes accepted are delivered, once and in order) and
`AtomicFuture` (a value that is set once, and that every Get answers). The other
modules look at the same code from other sides, each with the state that its
properties need: `Conn` leaves out what a callback does, `Context` everything of a
connection but its handshake, `CCalls` the results of the calls, `Objects` all but
who refers to what. `MCx` gives `x` its instance for TLC, `xProofs` holds the proofs
about `x`: those about `Conn` are in `ConnProofs` (control) and `ConnOutputProofs`
(data), those about `Digest` and `Cipher` in `CryptoProofs`.

### Conn (conn.go, with the BIOs at its two ends)

State. The fields of `Conn` have their names; `intoSSL` and `eof` are the read
BIO, `fromSSL`, `opMtx` and `flight` the write BIO and the `WriteTo` under way.
`dataMtx` protects single steps and has no variable. `wantReadFuture` is the
goroutine that will Set the current future. Of the SSL object the model keeps
how many of four handshake flights are done (`hs`; `isClient` says which are
outgoing), whether a fatal error happened (`broken`) and whether the peer's
close_notify was read. For each goroutine, `pc` says where it is; `cont` says who
called the `Close` it is in, if it is in one; `err` is the error it carries;
`waitOn` and `got` are the future it waits for and what that brought. Goroutines
spawned to flush are counted (`nflush`) and run one at a time as `Flusher`: each
holds `opMtx` throughout, so two of them differ from one only by waiting.
`script`, `net`, `fin`, `netClosed` are the peer and the wrapped connection.

What travels is abstracted to items: a handshake flight, a record of data, a
first piece of a record, a close_notify, a record that the library rejects;
outwards also the fatal alert. The split of bytes into records is the library's,
and a piece (`frag`) stands for every read that ends inside a record.

Actions. One call of the C library is cut where it consumes or produces an item:
other goroutines may append to the buffers between these steps, as they can in
the code, where only `c.mtx` is held. `Lock` is `c.mtx.Lock` and the test of
`isShutdown`; `SslWantRead`, `SslEof`, `SslReject`, `SslBroken`, `SslZeroReturn`
are the cases of `getErrorHandler`; `FillData`, `FillEof`, `FillError`, `MarkEOF`
are `fillInputBuffer`; `ClearFuture` and `SetFuture` its deferred function;
`CloseLock`, `SslShutdown`, `FlushLock`..`Trim`, `NetClose` are `Close`. The
program may call any method at any time (`CallStart`), two at once and after
`Close`. The peer sends its script in order, each handshake flight when it has
received the ones before it, and may close its side at any point.

Faults: a read or a write of the wrapped connection fails (`MaxFaults` times),
a write having taken any number of items; after `conn.Close` all of them fail.
`DataWithEof` says whether the wrapped connection may return its last bytes
together with `io.EOF`: a `*net.TCPConn` does not, `io.Reader` allows it.

### WriteBio and ByteStream (crypto/bio.go)

Go's slices as they are: an array of a heap, a length, a capacity. An append
writes in place when the capacity allows and moves to another array otherwise;
`WriteTo` takes a slice of the buffer as its snapshot, the wrapped connection
reads it a byte at a time while appends go on, and the trim slides the rest down
within the array. Byte i of the stream is the number i, so that "lost, repeated
or reordered" is plain to state. An array may be reused when no slice refers to
it, as the garbage collector does.

### Future and AtomicFuture (utils/future.go)

`Get`, `Set` and `Fired` cut at the mutex; `cond.Wait` joins the notify list
before it unlocks, sleeps, and locks again.

### Context (ctx.go, ssl.go, tickets.go, sni.c, shim.c)

State. `go` are the fields of the Go `Ctx` (`verifyCb`, `sniCb`, `alpnCb`,
`ticketStore`), `hooks` the C functions registered with its SSL_CTX, `storeMu` its
`ticketStoreMu`, `keys` the state of each key of a program's `TicketKeyManager`. A
connection has the context it was made from (`own`), the one in force (`ctx`), and
the verify function that SSL_new copied (`hook`). A ticket is the key it was made
under; one sealed twice with the same key is the same ticket.

Actions. A setter is two steps, the field (`SetVerify`,
`SetTLSExtServernameCallback`, `SetServerALPNProtos`, `SetTicketStore`) and the
registration (`SetterReturns`): it holds no lock, and handshakes run between them.
A handshake is one step per callback, and the ticket callback one per read of
the store, lock and call of the key manager (`ReadStore`, `LockStore`, `Lookup`,
`Expired`, `ShouldRenew`, `Current`, `New`): at each of these calls the manager may
have rotated its keys, expired or forgotten some. The callback runs twice in one
handshake, for the ticket that a ClientHello brings and for the one that is
given out, and the SNI callback may change the context in between.

A panic in a callback is answered with `os.Exit`: `exited` is the connection in
whose handshake that happened, and nothing runs after it. A callback panics when it
calls a nil field or a nil store, and there are three ways to get there. The SNI
setter takes nil and registers its C function all the same ("nil"). The list of
protocols may be empty, and its callback takes the address of the first byte
("empty"). And for `SSL.SetVerify` the thunk interprets a C object as a Go struct:
it may answer anything, or panic. `PanicHasCause` says that there is no fourth.

`must` is history: the program settled on a callback that rejects for the context
that the connection was made from, or that the SNI callback switched it to, before
the connection took it. `VerifyHonoured` promises that such a connection is not
completed if it took a verify function from its first context; without one the
switch brings none, which is finding 7.

From the library comes that the ticket function is taken from the context that a
connection was made from, while SNI, ALPN and verify follow the context in
force; `SSL_set_SSL_CTX` leaves the verify function of the connection alone.

### CCalls (every function that returns an error of C)

Each function of `ctx.go`, `conn.go`, `crypto/key.go`, `cert.go`, `ciphers*.go`,
`dh*.go`, `engine.go`, `hmac.go`, `hostname.go`, `sm2.go`, `sm4.go` that calls C and
can fail is a set of scripts, one per path through its body: its C calls in order,
with what the code does when each of them fails (returns `PopError()`, returns an
error of its own and leaves the queue, goes on, or dereferences the NULL it was
given), what the call acquires, how that is given back (defer, finalizer, by hand)
and what the error path frees. A function that calls others is composed of their
scripts (`Then`). `Locked` marks those between `LockOSThread` and `UnlockOSThread`.
`Fills` is a call that is handed an object or, where its constructor had failed,
NULL: then it makes the object itself, and a defer statement that was evaluated
earlier does not know of it (`SetSerial`).

One machine runs the scripts of any goroutines: a step runs on the thread the
goroutine is locked to, or on any that nobody is locked to; a failure adds the
call to the queue of that thread; `PopError` empties the queue of the thread on
which it runs, which may be another. `HealthyWait` is an SSL operation that only waits
for its peer: `SSL_get_error` answers WANT_READ if the queue of the thread is
empty, and an error otherwise. The library clears the queue when
`SSL_do_handshake` starts. `Crash` is the use of a NULL that the code does not look
at: it ends the process, and the behaviour with it. So it is in `newConn`, whose test
of a BIO that could not be made (`conn.go:130-136`) is never reached, because
`MakeCBIO` stores its token in the NULL first (`bio.go:158-164`, `289-294`).

`Pinned` are the functions that call `PopError` on a locked thread only, `Tidy` those of
them that also read every error they raise. The two sets are the claims of
`OwnError` and `HealthyConnection`; what the other functions do is finding 8.

### Objects (wrappers and finalizers)

Wrappers (`Ctx`, `Conn`, `Certificate`, `CertificateStore`, `Name`) with their
references in Go (`refs`), the C object each has the address of (`handle`), and
whether a finalizer will free a reference (`final`). A C object has a `count` and,
as history, who will free each of its references (`owners`). One action per
operation that moves a reference, including the failure of its C call; `Forget`
is the program dropping a wrapper (also the error paths of `DialSession`);
`Collect` is the garbage collector, which takes an unreachable wrapper
at any time, those with finalizers in the order of their references and never
on a cycle, as `runtime.SetFinalizer` says. Freeing an object frees what it
holds.

The rules that the program follows are listed in the head of the module; the
library cannot check them. One is broken by the sample server (see "hazards").

### Digest, Cipher, Crypto

`Digest` is one hash object of any of five kinds. Chunks that were written stand for
content; `ctx` is what the C context took in, `written` what the program wrote
since the last reset. MD5 and SM3 finalise a copy, the others the context itself,
which they then reset. Any C call may fail. The program stops using an object
after a failed `Reset`, until one succeeds, and after `Close`.

`Cipher` is an encrypter and a decrypter with one key: through the sm4 package in
the plain modes, CCM and GCM, or a GCM stream of `crypto.NewGCM...CipherCtx`. The
state is what the C context has taken in (IV, AAD, input, tag, tag length, declared
length) against what the program has set. A function is a run of C calls of which
any may fail, and a context keeps what the calls before the failure left. What the
C library does with a call in each mode is external, from Tongsuo 8.3: CCM takes
the length of its tag when the key is set and wants the message length before AAD;
a declared length persists until input comes; an authenticated mode takes nothing
more after its final call until a new IV. A tag is the tuple of what it depends
on. Messages are not empty, AAD and tags are used in authenticated modes only,
`ExtraData` once per message.

### Naming

An operator `BadX` or `CachingX` or the like next to `X`, commented as a slip, is a
mistake one could make in the code that `X` models. No action uses it; each
property was run once with one of them in place of `X`, and fails
(`PROJECT.json`, "mutants").

## Runs

| run | instance | shows |
| --- | --- | --- |
| conn_safe | 2 goroutines, 2 calls each of any method, client and server, orderly peer or bad record, 1 fault | the safety of a connection; nobody waits for a future that nobody will set |
| conn_live | 2 goroutines, 1 call each, client, fair | Close releases everyone, calls return, output is flushed |
| conn_eof | 2 readers, 2 calls each, peer that ends without close_notify, `DataWithEof` | findings 1 and 2 |
| write_bio | 2 flushers, 2 flushes each, 4 bytes in writes of 1 or 2, 3 arrays, 1 fault, `releaseBuffers` | the write BIO is a byte stream |
| future | 3 goroutines, 2 calls each | the future is an atomic write-once value |
| context | 2 contexts, 2 connections, a manager with 2 keys, 5 configurations, 1 setter call | a callback panics for one of three reasons only; one handshake per context is in the key manager; tickets are refused and renewed for a reason; the verify callbacks of contexts are honoured where the connection has a verify function |
| settings | the same with 1 connection, 1 key | findings 3, 4, 5 and 7 |
| shared_manager | the same with 2 connections, 1 key | finding 6 |
| ccalls | 2 goroutines, 2 threads, 2 calls of any function | the functions of `Pinned` report their own errors, those of `Tidy` tear down no connection, nothing is lost but what `NoLeak` names |
| pop_error | the same with 1 call | finding 8 |
| objects | 2 contexts, 1 connection, 2 certificates, 1 store, 1 further wrapper, 5 wrappers made | reference counts have owners, nothing dangles, nothing is stuck |
| crypto | 2 chunks and 3 writes; 2 IVs, 2 AADs, 2 plaintexts (1 of partial length), 2 pieces | digests are of what was written; what was encrypted comes back or an error does |

Why these bounds are enough to be interesting. Two goroutines are a filler and a
waiter, a writer and a closer, two closers; that more of them are not forgotten
either is the theorem `NobodyForgotten`, and that one Set wakes all who wait is
`future`, which has three. In `conn_live`, with one call each, a filler, a waiter
and a closer do not meet: `Close` finds one blocked goroutine at a time there. Two
calls make a goroutine come back after a failure, a close or an end of file. One
fault is a partial write with a rest for somebody else, or a failed fill with
waiters. One pending flush goroutine is as good as many: it flushes all that is
there when it starts. The scripts have every item, data before the close_notify and
a bad record after an established handshake has or has not been reached by both
sides. In `write_bio` two bytes of slack and four bytes make appends in place,
moving appends and appends during a flush; three arrays are the buffer, one snapshot
and a free one. The symmetry of goroutines (and of arrays) is used in safety runs
only. The liveness run has no fault of its own: reads and writes of a connection
that was closed still fail in it, and the safety runs have the rest.

In `context` one context has an SNI callback that switches to the other. What
setters did before the first handshake is the configuration: one store for both or
for either alone, verify callbacks that accept or reject, a switch in one direction
or in both; one more setter runs while handshakes do, and is half done in any of
their states (more than one is left to the theorems). Two keys are a ticket under an
older key, two connections a ticket that one handshake gave and the next brings, or
two callers of one manager. In `ccalls` the first call leaves an error on a thread
and the second meets it, or both are under way at once; a third adds only another
error to a queue that is not empty. Five wrappers are the longest path (a further
wrapper, a connection, a context, a certificate and its issuer). In `crypto` the
state that an earlier message left is met by the next, and by the one after a
failure; two values of each kind tell right from wrong. Contexts, certificates,
chunks and the like are symmetric where the module treats them alike.

Fairness. `FairSpec` has strong fairness for each goroutine inside a method and
for the flush goroutine, because the Go scheduler runs what can run and
`sync.Mutex` hands itself to a waiter that has starved for a millisecond. It
contains that a write to the wrapped connection returns; against a peer that
accepts nothing and without a deadline, `Close` waits behind the stuck flush (see
"hazards"). Nothing is assumed of the program, which may stop calling, or of the
peer, which may be silent: that is why `CallsReturn` asks for the peer's end.
`Future` is fair to goroutines inside a method in the same way.

The other modules state safety only and assume no fairness.

`Done` lets a run end when all calls were made, so that TLC's check for deadlocks
means that a goroutine inside a method is stuck. In `Conn` a goroutine whose
future is never Set would be found by it too. `objects` and the two runs on
`CCalls` do not check for deadlocks: the program may stop making calls, or wrappers,
at any time, and a crash stops it.

### Findings

Two of the runs check a conjunction of things that the code promises: `EofAtEnd` is
`EndIsEof` and `EofIsComplete`, `SettingsHonoured` is `NilMeansNoCallback`,
`NegotiationEndsOneHandshake`, `SwitchHonoured` and `SslVerifyHonoured`. TLC stops at
the shortest behaviour, that of finding 1 and of finding 4; each of the conjuncts,
put in the cfg in the place of the whole, gives the behaviour of its own.

1. `conn_eof`, `EndIsEof`: at the end of the stream `fillInputBuffer` marks the read BIO
   (`conn.go:221`) before `Close` sets `isShutdown` (`conn.go:474`). A `Read` of
   another goroutine that gets `c.mtx` in between fails with "syscall error:
   protocol-violating" instead of `io.EOF`, against the comment on `Read`.
2. `conn_eof`, `EofIsComplete`: when `net.Conn.Read` returns its last bytes with
   `io.EOF`, `fillInputBuffer` looks at the error only and closes the connection;
   the data in those bytes is never returned, though `Read` says `io.EOF`, "when the
   caller can expect to see no more data".
3. `settings`, `SslVerifyHonoured`: the callbacks are handed the C object where the
   Go `SSL` is meant (`ssl.go:171` and `192`, and `conn.go:142` for a connection),
   and `go_ssl_verify_cb_thunk` reads `verifyCb` from it (`ssl.go:59`): a callback
   set with `SSL.SetVerify` is not the one that runs. The comments at `ssl.go:96`
   and `170` say that SetVerify controls verification and that "our SSL struct" is
   attached.
4. `settings`, `NilMeansNoCallback`: `SetTLSExtServernameCallback(nil)` stores nil
   and registers the SNI function (`ctx.go:571-574`); the next handshake calls nil
   (`ssl.go:174`) and the process ends. The setters of verify callbacks take nil for
   "no callback".
5. `settings`, `NegotiationEndsOneHandshake`: the callback of an empty list of
   protocols indexes it (`ctx.go:597`) and the process ends, where the comment
   (`ctx.go:579`) promises that the handshake fails.
6. `shared_manager`: "Calls to the manager are serialized" (`tickets.go:58-59`), but
   the mutex belongs to the `Ctx` (`tickets.go:140`). Two contexts with one
   manager, which is what lets a client resume across a switch, call it at once.
   What the mutex does give is `OneCallerPerContext`.
7. `settings`, `SwitchHonoured`: a connection made from a context without a verify
   callback and switched to one whose callback rejects is completed:
   `SSL_set_SSL_CTX` copies no verify function, and after the words "adjust other
   things we care about" (`ssl.go:150-151`) no code follows.
8. `pop_error`: "PopError needs to run in the same OS thread as the operation that
   caused the possible error" (`crypto/init.go:60-61`), which most functions of
   `crypto`, and `SetClientALPNProtos`, do not see to (`key.go:169` is one). They may
   report nothing or another call's error, and theirs stays on a thread
   where it can tear down a connection.

## Proofs

For any sets of goroutines, contexts, keys, objects and messages, any bounds and
any peer. The assumptions are the `ASSUME`s of the modules, which TLC evaluates
in the runs: names that differ, peers of different connections that differ, no
tag or IV that is called `None`, scripts of a peer that are in the order of TLS,
finitely many wrappers, and enough OS threads for the goroutines, as the Go
runtime makes them. Every invariant and refinement that a passing run checks is
also a theorem here; "theorems" in `PROJECT.json` lists them.

### Conn

- `ConnProofs`, types. `TypeInv` is the type invariant and `FlushInv`: a goroutine
  is in the writing or trimming part of `WriteTo` exactly when it holds `opMtx`,
  the snapshot is no longer than the buffer, and no item of it counts as written
  before `net.Conn.Write`. The second half is there because trimming is a
  subsequence of the buffer only then. `TypeCorrect` is `Spec => []TypeOK`.
- `ConnProofs`, what `c.mtx` protects. A first part (`StepEffect`) says what each
  step does to the place of its goroutine, the mutex, the future and the two
  buffers; the rest looks at these effects only. `MutexInv` has three parts.
  `Places`: `c.mtx` is held in the section around a call of the library, and a
  method that passed the test of `isShutdown` is still under the same hold.
  `OneShutdown`: one goroutine at most is on its way to `SSL_shutdown`, and there is
  no close_notify before it gets there. `Futures`: the two properties of the
  future, which hold each other up (who waits, waits for the owner of the future
  or for one who is about to Set). From it: `OneReader`, `NobodyForgotten`,
  `CloseNotifyIsLast` and `OnlyShutdownAfterClose` (`FillDiscipline`,
  `NoOrphanWaiter`, `NothingAfterCloseNotify`, `QuietAfterShutdown`).
- `ConnOutputProofs`, outwards. `NothingLostOrRepeated` (`WireIsFaithful`): every step
  either appends the same item to the buffer and to the history, or is one of
  the three steps of `WriteTo`. On it stands `OutputInv`, per goroutine: the
  record of a `Write` is in the snapshot of its flush or on the wire already;
  nothing follows close_notify, so that the snapshot of `Close` is all there is; a
  `WriteTo` that reports no error wrote all of its snapshot. From it: `WriteReachesWire`
  (`WriteOkOnWire`) and `CloseLeavesNothing` (`CleanClose`).
- `ConnOutputProofs`, the end of the stream. `EndOfData` (`EofIsComplete`): the
  records read, those under way and those sent add up (`Leads`), the peer's
  close_notify is the last item, and who found the end of the input found
  nothing left, or the program closed the connection. The hypothesis is
  `~DataWithEof`: with data that comes together with `io.EOF` the property is
  false, as finding 2 shows.

### WriteBio and Future

- `WriteBioProofs`. The inductive invariant says that a flusher past its
  snapshot holds `opMtx`, that its snapshot is a prefix of the buffer or lies in
  an array that the buffer has left, with the same bytes, and that the buffer
  is the tail of the stream after what was delivered. From it: `TypeCorrect`,
  `SnapshotsAreStable`, `BufferIsAlwaysTail`, `FlushesCover`, and
  `ImplementsByteStream` (`Spec => Stream!Spec`: an append of the library is an
  Accept, a byte taken by the wrapped connection a Deliver, the rest stutters).
- `FutureProofs`. The mutex is held by the goroutine in the body of a method;
  whoever is on the notify list saw `received` false and nobody set it since.
  From it: `NoLostWakeup`, `FiredIsRight`, `ImplementsAtomicFuture`.

### Context

- `MutexIsHeld`, `OneCallerHolds` (`OneCallerPerContext`). A handshake in a call of
  the key manager holds the mutex of the context in force (`Inv`). It is inductive
  together with the types of the fields that an SNI callback finds, because no
  callback changes the context of a connection during such a call.
- `SafetyHolds`. `SafeInv` adds what the setters leave behind (`SettersInv`: a C
  function is registered only while its field is set, but for the setter under way),
  that tickets are of keys that exist, and for each connection what its place in the
  handshake tells (`Good`): the store was found before the mutex was locked, a
  ticket that was stale at the ClientHello is refused, a verify callback that
  rejects is still the one in force. A key that expires between the answer of
  `Expired` and its use is not stale in this sense: it still resumes the session.
  From it: `ContextTypes`, `PanicsHaveACause` (`PanicHasCause`),
  `StaleTicketsAreRefused`, `RejectionIsHonoured` (`VerifyHonoured`).
- `TicketsCorrect`. While all contexts keep one store, the tickets and the store
  that the callback found are of that store (`TicketsOfStore`, `Same`), so what the
  manager does not know has expired and a key that was behind had a newer one.
  From it: `GoodTicketsResume` (`TicketsResume`) and `OldKeysAreRenewed`
  (`RenewalIsGiven`).

### CCalls

- The machine, whatever the scripts. No two goroutines are locked to one thread; a
  goroutine in no call is locked to none and has no failed call; one whose locked
  call failed still has its error (for an SSL operation, one) in the queue of its
  thread. The last part is inductive because only the goroutine that is locked to
  a thread runs there. From it: `LocksHold`.
- The scripts. `TablesAreFine` says of each script of each function what is held
  by hand before each of its steps (`Balanced`), of each function of `Tidy`
  that it reads every error that it raises, on a locked thread (`TidySteps`), and
  of each function of `Pinned` that a failure it answers with `PopError` is one of a
  locked thread (`PopsLocked`).
  Lemmas about `Then` carry both from the parts of a script to the whole. `CallInv`
  then follows a goroutine: the rest of its script gives back what it holds, an
  error of a tidy function is in a queue only between the failed call and its
  `PopError`, a function of `Pinned` whose call failed is locked to a thread
  (`PinnedFailed`) and so finds its error there, what leaked is in `Excepted`. From
  it: `CallsTypes`, `OwnErrorHolds` (`OwnError`), `HealthyConnectionHolds` and
  `NothingLeaks`. A function that forgets a Free, or LockOSThread, has a script for
  which `TablesAreFine` fails. `Excepted` holds what the code does lose: the RSA key
  (`key.go:549-556`), the two numbers of an SM2 signature (`sm2.go:59-65`), and the two
  objects that `SetSerial` makes late (`cert.go:243-254`), also in `NewCertificate`.

### Objects

Reachability is the least closed set; that it can be reasoned about without
induction over paths is due to `Closed`: an object is out of reach exactly when some
closed set with the roots leaves it out. `GoInv` is about the Go side (handles,
finalizers and fields are of wrappers that were made, and the fields make no cycle);
`TableInv` says who the owners of each C object are, that a count is the number of
them, that a live wrapper with a finalizer is one of them, and that an SSL object
owns its context and the peer's certificate. `Release` frees in two rounds, which is
enough because objects are layered: a connection refers to a context, a context to
certificates. For `NoStuckGarbage`, a garbage wrapper to which no garbage points
exists by well-foundedness. `ObjectsCorrect` is the invariant; from it
`ObjectTypes`, `ReferencesBalance`, `NothingDangles`, `CallbacksFindTheirContext`
and `GarbageIsCollectable`.

### Digest and Cipher

- `DigestInv`: the content of the C context is what the program wrote, unless the
  object is broken and the program was told, or is of a kind that swallows a
  failure and one occurred. From it `DigestsAreOfWrites`.
- `CipherInv`: the tag of the last message is that of what was sent, and only what
  was sent is accepted as genuine; a stream's context has the IV, AAD and pieces
  that the program passed for as long as it has an IV; a decrypter that was given no
  tag has none. One lemma says what each C call does to a context, one each run of
  calls, one each operation. From it `CiphersRoundTrip` (`RoundTrip`) and
  `CryptoTypes`.

### What the proofs changed in the models

`RenewalIsGiven` once excused a missing renewal only when the newest key had
expired; with three keys it is one in the middle that may expire while the
callback decides, and the property now says so. `Reach` was an iteration up to a
bound and is now the least closed set. The assumptions about the names in
`Objects` and `Cipher` are stated in full. The tables of `CCalls` are a set of tables,
not merged into one, so that each can be looked at by itself.

### Only model-checked

The liveness properties `CloseUnblocks`, `OutputIsFlushed` and the two
`CallsReturn`: the prover has no rules for fairness and no ENABLED. The four
violation runs are counterexamples, which need no proof. No module uses a
RECURSIVE operator, which the prover cannot take, and no proof needs induction
over data, which it cannot do.

## Not modelled

- Of a connection: `SSL_ERROR_WANT_WRITE` (the write BIO always takes everything),
  renegotiation and other handshake messages after the handshake, empty reads
  and writes (they return at once), deadlines (a failed read or write stands for
  one), the accessors, which read the SSL object without `c.mtx`.
- The slices of the read BIO. Its bytes are the variable `intoSSL` of `Conn`;
  `ReadFromOnce` runs only on an empty buffer (`FillDiscipline`), and then its slide
  backwards moves nothing.
- The BIO mapping, the C one-liners of `shim.c`, start-up, options, modes, cache
  sizes and depths of a context: single calls that nothing in Go looks at again.
- The content of certificates, keys, PEM files and host names, and what the C library
  computes. The models take from it only what the Go code uses.
- Sockets (also the raw connection that `DialSession` closes on its error paths),
  `ListenAndServeTLS`, the sample programs, the text of errors.

What each component leaves out is in its note in `PROJECT.json`.

## Plan

What is left, in this order.

1. `ReadBio`: `ReadFromOnce` and `go_read_bio_read` with slices and arrays,
   as an implementation of `ByteStream` under `FillDiscipline`, with its proof.
2. The accessors of a connection (`ConnectionState`, `PeerCertificate`,
   `VerifyResult`), some of which lock `c.mtx` and some not, as calls of `Conn`.
3. A composition of `Conn` with `Context`: a handshake whose ticket callback waits
   for `ticketStoreMu` while it holds `c.mtx`.
