------------------------------- MODULE CCalls -------------------------------
(***************************************************************************)
(* What a Go function of the library leaves behind when one of its C calls *)
(* fails.  A failing C call adds an error to the error queue of the OS     *)
(* thread it ran on; the Go function then either reads the queue with      *)
(* PopError (crypto/init.go) or returns an error of its own and leaves the *)
(* queue alone; and it must give back every C object it had acquired.      *)
(*                                                                         *)
(* A goroutine stays on one thread only between runtime.LockOSThread and   *)
(* runtime.UnlockOSThread; everywhere else each C call, and PopError, may  *)
(* run on a different thread.  A thread serves the calls of many           *)
(* goroutines, and SSL_get_error reads the queue of the thread it runs on. *)
(*                                                                         *)
(* Each function is a set of scripts, one per path through its body: the   *)
(* sequence of the C calls it makes, with what happens when each fails.    *)
(* Go checks made before the first C call touch nothing and are left out.  *)
(***************************************************************************)
EXTENDS Naturals, Sequences, FiniteSets

CONSTANTS
    Threads,    \* the OS threads of the process
    Goroutines, \* the goroutines that call the library
    MaxCalls,   \* bound on the calls made in a behaviour
    None        \* no thread

ASSUME CallsAssumption ==
    /\ MaxCalls \in Nat \ {0}
    /\ None \notin Threads
    /\ Cardinality(Threads) >= Cardinality(Goroutines)

-----------------------------------------------------------------------------
(* One C call of a script.  `onError` says what the code does when the     *)
(* call fails:                                                             *)
(*   "pop"    returns PopError(),                                          *)
(*   "keep"   returns a Go error of its own, the queue is not read,        *)
(*   "ignore" goes on as if nothing had happened,                          *)
(*   "crash"  does not look at the NULL and calls a function that          *)
(*            dereferences it,                                             *)
(*   "check"  it is a check of the Go code: it returns a Go error and no C *)
(*            error was raised,                                            *)
(*   "ssl"    asks SSL_get_error, see HealthyWait and PopError.            *)
(* `gets` is what the call acquires when it succeeds, with the way it will *)
(* be given back: "defer", "finalizer", or by "hand"; `lacks` is what it   *)
(* makes itself when an earlier step did not, and nobody gives back.       *)
(* `gives` is what it hands over to another owner, `frees` what the error  *)
(* path frees.                                                             *)
Step(onError) == [onError |-> onError, pinned |-> FALSE, unlocks |-> FALSE,
                  gets |-> {}, lacks |-> {}, gives |-> {}, frees |-> {}]

Pops    == Step("pop")
Keeps   == Step("keep")
Ignored == Step("ignore")
Crashes == Step("crash")
Checks  == Step("check")
\* step acquires an object that a defer statement frees
Deferred(step, object) == [step EXCEPT !.gets = {<<object, "defer">>}]
New(step) == Deferred(step, "tmp")

\* step is handed object to fill, or NULL to make one
Fills(step, object) == [step EXCEPT !.lacks = {object}]

\* step acquires the object the function returns: a finalizer frees it
Own(step) == [step EXCEPT !.gets = {<<"obj", "finalizer">>}]

\* step acquires object and no defer or finalizer knows of it
Bare(step, object) == [step EXCEPT !.gets = {<<object, "hand">>}]

\* step makes objects the property of another object when it succeeds; its
\* error path frees those in freed
Gives(step, objects, freed) == [step EXCEPT !.gives = objects, !.frees = freed]

\* runtime.LockOSThread; defer runtime.UnlockOSThread
Locked(steps) == [i \in DOMAIN steps |->
    [steps[i] EXCEPT !.pinned = TRUE, !.unlocks = (i = Len(steps))]]

\* the scripts of a function that calls one of f and then one of g
Then(f, g) == {p \o q : p \in f, q \in g}

-----------------------------------------------------------------------------
(* crypto/key.go *)

\* an Ed25519 key with arguments it cannot take, or in one shot; other keys
SignVerify ==
    LET wrong   == <<New(Ignored), Checks>>
        oneShot == <<New(Crashes), Pops, Pops>>
        digest  == <<New(Crashes), Pops, Pops, Pops>>
    IN  [SignPKCS1v15   |-> {wrong, oneShot, digest},
         VerifyPKCS1v15 |-> {wrong, oneShot, digest}]

MarshalPKCS8 == [MarshalPKCS8PrivateKeyPEM |-> {<<New(Keeps), Pops, Checks>>}]

EncryptDecrypt ==
    [Encrypt |-> {<<New(Ignored), Pops, Pops, Pops>>},
     Decrypt |-> {<<New(Keeps), Pops, Pops, Pops>>}]

\* (The slip: MarshalPKIXPublicKeyDER without its defer.)
BadMarshal ==
    [n \in {"MarshalPKCS1PrivateKeyPEM", "MarshalPKCS1PrivateKeyDER",
            "MarshalPKIXPublicKeyPEM", "MarshalPKIXPublicKeyDER"} |->
        IF n = "MarshalPKIXPublicKeyDER" THEN {<<Bare(Keeps, "bio"), Pops>>}
                                         ELSE {<<New(Keeps), Pops>>}]

Marshal ==
    [MarshalPKCS1PrivateKeyPEM |-> {<<New(Keeps), Pops>>},
     MarshalPKCS1PrivateKeyDER |-> {<<New(Keeps), Pops>>},
     MarshalPKIXPublicKeyPEM   |-> {<<New(Keeps), Pops>>},
     MarshalPKIXPublicKeyDER   |-> {<<New(Keeps), Pops>>}]

LoadKey ==
    [LoadPrivateKeyFromPEM |-> {<<New(Keeps), Own(Pops)>>,
                                <<New(Keeps), Own(Pops), Pops>>}, \* SM2
     LoadPrivateKeyFromPEMWithPassword |-> {<<New(Keeps), Own(Pops)>>},
     LoadPrivateKeyFromDER |-> {<<New(Keeps), Own(Pops)>>},
     LoadPublicKeyFromPEM  |-> {<<New(Keeps), Own(Pops)>>},
     LoadPublicKeyFromDER  |-> {<<New(Keeps), Own(Pops)>>}]

Public ==
    [Public |-> Then(Marshal.MarshalPKIXPublicKeyDER,
                     LoadKey.LoadPublicKeyFromDER)]

GenerateKey ==
    [GenerateRSAKeyWithExponent |->
        {<<Bare(Keeps, "rsa"), Bare(Keeps, "key"),
           Gives(Pops, {"rsa", "key"}, {"key"})>>},
     GenerateECKey |->
        {<<New(Pops), Pops, Pops, Own(Pops), Pops>>, \* SM2
         <<New(Pops), Pops, Pops, New(Pops), New(Pops), Pops, Own(Pops)>>},
     GenerateED25519Key |-> {<<New(Pops), Pops, Own(Pops)>>}]

(* crypto/cert.go *)

Names ==
    [NewName        |-> {<<Own(Keeps)>>},
     AddTextEntry   |-> {<<New(New(Pops))>>},
     AddTextEntries |-> {<<New(Pops), New(Pops), New(Pops)>>}]

\* SetSerial: each defer statement has the pointer that its constructor gave;
\* BN_bin2bn and BN_to_ASN1_INTEGER make an object where they are handed NULL
CertSetters ==
    [SetSubjectName |-> {<<Pops>>},
     SetIssuerName  |-> {<<Pops>>},
     SetSerial      |-> {<<Deferred(Ignored, "sno"), Deferred(Ignored, "bn"),
                           Fills(Pops, "bn"), Fills(Pops, "sno"), Pops>>},
     SetIssueDate   |-> {<<Pops>>},
     SetExpireDate  |-> {<<Pops>>},
     SetPubKey      |-> {<<Pops>>},
     Sign           |-> {<<Checks, Pops>>}]

\* X509_new, version; the entries of the name; issuer; serial; dates and key
NewCertificate ==
    [NewCertificate |->
        Then(Then({<<Own(Ignored), Pops>>}, Names.AddTextEntries),
             Then(Then({<<Pops>>}, CertSetters.SetSerial),
                  {<<Pops, Pops, Pops>>}))]

Extensions ==
    [AddExtension  |-> {<<Checks, New(Pops), Pops>>},
     AddExtensions |-> {<<Checks, New(Pops), Pops, Checks, New(Pops), Pops>>}]

\* without its BIO, PEM_read_bio_X509 fails too and PopError reads both errors
LoadMarshalCert ==
    [LoadCertificateFromPEM |->
        {Locked(<<Bare(Pops, "bio"),
                  Gives(Own(Pops), {"bio"}, {"bio"})>>)},
     MarshalPEM         |-> {<<New(Keeps), Pops>>},
     PublicKey          |-> {<<Own(Keeps)>>},
     GetSerialNumberHex |-> {<<New(Crashes), New(Ignored)>>},
     SetVersion         |-> {<<Pops>>}]

(* crypto/hostname.go: the error a check raises is never read *)
CheckName ==
    [CheckHost  |-> {<<New(Keeps), Checks>>},
     CheckEmail |-> {<<New(Keeps), Checks>>},
     CheckIP    |-> {<<Keeps, Checks>>}]

(* crypto/dh.go, dhparam.go, engine.go, hmac.go *)
DeriveSharedSecret ==
    [DeriveSharedSecret |-> {<<New(Pops), Pops, Pops, Pops, New(Keeps), Pops>>}]

LoadDHParameters == [LoadDHParametersFromPEM |-> {<<New(Keeps), Own(Pops)>>}]

EngineByID ==
    [EngineByID |-> {<<Bare(Keeps, "engine"),
                       Gives(Own(Pops), {"engine"}, {"engine"})>>}]

Hmac ==
    [NewHMAC |-> {<<Bare(Keeps, "hmac"), Gives(Own(Pops), {"hmac"}, {"hmac"})>>},
     Write   |-> {<<Pops>>},
     Reset   |-> {<<Pops>>},
     Final   |-> {<<Pops, Pops>>}]

(* crypto/sm2/sm2.go: Verify makes two numbers that only ECDSA_SIG_set0 gives
   an owner; the wrappers make the calls of what they wrap and no other *)
Sm2 ==
    [sm2Verify |-> Then({<<New(Crashes), Bare(Ignored, "r"), Bare(Ignored, "s"),
                           Gives(Checks, {"r", "s"}, {}), New(Ignored)>>},
                        SignVerify.VerifyPKCS1v15),
     sm2Sign   |-> Then(SignVerify.SignPKCS1v15, {<<New(Keeps)>>})]

(* crypto/ciphers.go, ciphers_gcm.go, sm4/sm4.go *)

GetCipher ==
    [Nid2ShortName   |-> {<<Pops>>},
     GetCipherByName |-> {<<New(Keeps)>>},
     GetCipherByNid  |-> {<<Pops, New(Keeps)>>}]

SetKeyAndIV == [SetKeyAndIV |-> {<<Checks, Pops>>}]

SetCtrl ==
    [SetCtrl |-> {<<Pops>>}, SetCtrlBytes |-> {<<Pops>>},
     GetCtrlInt |-> {<<Pops>>}, GetCtrlBytes |-> {<<Pops>>}]

NewCipherCtx ==
    [NewCipherCtx |-> Then({<<Own(Keeps), Pops>>}, SetKeyAndIV.SetKeyAndIV)]

UpdateFinal ==
    [EncryptUpdate |-> {<<Pops>>}, DecryptUpdate |-> {<<Pops>>},
     EncryptFinal  |-> {<<Pops>>}, DecryptFinal  |-> {<<Pops>>}]

NewGCMCipherCtx ==
    [NewGCMCipherCtx |->
        NewCipherCtx.NewCipherCtx
            \cup Then(NewCipherCtx.NewCipherCtx, {<<Pops, Pops>>})]

ExtraData == [ExtraData |-> {<<Pops>>}]

Sm4New ==
    [NewSM4Crypter |->
        LET new == Then(GetCipher.GetCipherByName, NewCipherCtx.NewCipherCtx)
        IN  new \cup Then(new, SetCtrl.SetCtrl)]

\* DecryptAll and EncryptAll: tag, key and IV, CCM length, AAD, data, final
Sm4All ==
    [DecryptAll |-> {<<Pops, Checks, Pops, Pops, Pops, Pops, Pops>>},
     EncryptAll |-> {<<Pops, Checks, Pops, Pops, Pops, Pops, Pops>>}]

-----------------------------------------------------------------------------
(* ctx.go: every function that reports an error of the C library and      *)
(* works on a context locks its thread, but for SetClientALPNProtos        *)

\* (The slip: without LockOSThread.)
BadNewCtx == [NewCtx |-> {<<Own(Pops)>>}]
NewCtx == [NewCtx |-> {Locked(<<Own(Pops)>>)}]

\* (The slip: SetEllipticCurve without LockOSThread.)
BadCtxKeys ==
    [n \in {"SetEllipticCurve", "UseCertificate", "AddChainCertificate",
            "UsePrivateKey"} |->
        IF n = "SetEllipticCurve" THEN {<<New(Pops), Pops>>}
                                  ELSE {Locked(<<Pops>>)}]

\* UseSign..., UseEncrypt... and the plain form make one call of each kind
CtxKeys ==
    [SetEllipticCurve    |-> {Locked(<<New(Pops), Pops>>)},
     UseCertificate      |-> {Locked(<<Pops>>)},
     AddChainCertificate |-> {Locked(<<Pops>>)},
     UsePrivateKey       |-> {Locked(<<Pops>>)}]

NewCtxFromFiles ==
    [NewCtxFromFiles |->
        Then(Then(NewCtx.NewCtx,
                  Then(LoadMarshalCert.LoadCertificateFromPEM,
                       CtxKeys.UseCertificate)),
             Then(LoadKey.LoadPrivateKeyFromPEM, CtxKeys.UsePrivateKey))]

AddCertificate ==
    [SetDHParameters |-> {Locked(<<Pops>>)},
     AddCertificate  |-> {Locked(<<Pops>>)}]

Stores ==
    [NewCertificateStore     |-> {<<Own(Pops)>>},
     LoadCertificatesFromPEM |-> Then(LoadMarshalCert.LoadCertificateFromPEM,
                                      AddCertificate.AddCertificate)]

LoadVerifyLocations ==
    [LoadVerifyLocations |-> {Locked(<<Pops, Pops>>), Locked(<<New(Pops)>>)}]

Protocols ==
    [SetClientALPNProtos |-> {<<New(Pops)>>},
     SetSessionID        |-> {Locked(<<Pops>>)},
     SetCipherList       |-> {Locked(<<New(Pops)>>)},
     SetCipherSuites     |-> {Locked(<<New(Pops)>>)}]

(* conn.go *)

\* newConn: SSL_new under the lock, then the two BIOs, which SSL_set_bio takes
\* over. MakeCBIO enters its token in the mapping and stores it in the BIO
\* without a look at what BIO_new gave, so that the test for nil in newConn,
\* with all it frees, is never reached with one
NewConn ==
    [NewConn |->
        {Locked(<<Bare(Pops, "ssl")>>)
           \o <<Bare(Crashes, "into"), Bare(Crashes, "from"),
                Gives(Own(Ignored), {"ssl", "into", "from"}, {})>>}]

Sessions ==
    [SetTLSExtHostName |-> {Locked(<<New(Pops)>>)},
     GetSession        |-> {Locked(<<New(Keeps), Checks>>)},
     setSession        |-> {Locked(<<New(Pops), New(Pops)>>)}]

\* handshake, read, write and shutdown: one SSL operation each
SslOps ==
    [n \in {"handshake", "read", "write", "shutdown"} |-> {Locked(<<Step("ssl")>>)}]

\* the tables above: function -> scripts
Tables ==
    {SignVerify, MarshalPKCS8, EncryptDecrypt, Marshal, LoadKey, Public,
     GenerateKey, Names, CertSetters, NewCertificate, Extensions,
     LoadMarshalCert, CheckName, DeriveSharedSecret, LoadDHParameters,
     EngineByID, Hmac, Sm2, GetCipher, SetKeyAndIV, SetCtrl, NewCipherCtx,
     UpdateFinal, NewGCMCipherCtx, ExtraData, Sm4New, Sm4All, NewCtx, CtxKeys,
     NewCtxFromFiles, AddCertificate, Stores, LoadVerifyLocations, Protocols,
     NewConn, Sessions, SslOps}

Functions == UNION {DOMAIN table : table \in Tables}

-----------------------------------------------------------------------------
VARIABLES
    queue,   \* thread -> the calls whose errors are in its error queue
    made,    \* the function of each call made so far: call i is made[i]
    call,    \* goroutine -> the call it is in, 0 when it is in none
    script,  \* goroutine -> what is left of the script, the next step first
    failed,  \* goroutine -> its last step failed and PopError comes next
    thread,  \* goroutine -> the thread it is locked to, or None
    held,    \* goroutine -> what the call has acquired, and how it is freed
    reports, \* what PopError gave: [call, kind of step, popped]
    leaked,  \* the objects calls left without an owner: <<function, object>>
    crashed  \* the call that dereferenced NULL, which ends the process, or 0

callVars == <<queue, made, call, script, failed, thread, held, reports, leaked>>
vars == <<callVars, crashed>>

Calls == 1 .. MaxCalls

Init ==
    /\ queue = [t \in Threads |-> {}]
    /\ made = <<>>
    /\ call = [g \in Goroutines |-> 0]
    /\ script = [g \in Goroutines |-> <<>>]
    /\ failed = [g \in Goroutines |-> FALSE]
    /\ thread = [g \in Goroutines |-> None]
    /\ held = [g \in Goroutines |-> {}]
    /\ reports = {}
    /\ leaked = {}
    /\ crashed = 0

\* The threads g may run on now: its own when it is locked to one, otherwise
\* any thread no goroutine is locked to.
MayRunOn(g) ==
    IF thread[g] # None THEN {thread[g]}
    ELSE Threads \ {thread[h] : h \in Goroutines}

Call(g) ==
    /\ call[g] = 0
    /\ Len(made) < MaxCalls
    /\ \E table \in Tables : \E f \in DOMAIN table : \E s \in table[f] :
          /\ made' = Append(made, f)
          /\ script' = [script EXCEPT ![g] = s]
    /\ call' = [call EXCEPT ![g] = Len(made) + 1]
    /\ UNCHANGED <<queue, failed, thread, held, reports, leaked>>

\* (The slip: UnlockOSThread is not deferred, the error path misses it.)
BadReturn(g, objects) ==
    /\ leaked' = leaked \cup {<<made[call[g]], o[1]>> :
                                o \in {x \in objects : x[2] = "hand"}}
    /\ call' = [call EXCEPT ![g] = 0]
    /\ script' = [script EXCEPT ![g] = <<>>]
    /\ failed' = [failed EXCEPT ![g] = FALSE]
    /\ held' = [held EXCEPT ![g] = {}]
    /\ UNCHANGED <<made, thread>>

\* g leaves its function holding objects: the defer statements run, the
\* finalizer of what it returned or dropped runs in its time, and what nothing
\* knows of is leaked; UnlockOSThread lets the goroutine move again
Return(g, objects) ==
    /\ leaked' = leaked \cup {<<made[call[g]], o[1]>> :
                                o \in {x \in objects : x[2] = "hand"}}
    /\ call' = [call EXCEPT ![g] = 0]
    /\ script' = [script EXCEPT ![g] = <<>>]
    /\ failed' = [failed EXCEPT ![g] = FALSE]
    /\ thread' = [thread EXCEPT ![g] = None]
    /\ held' = [held EXCEPT ![g] = {}]
    /\ UNCHANGED made

\* g goes on with the rest of its script on thread t
GoOn(g, t, objects) ==
    LET rest == Tail(script[g]) IN
    IF rest = <<>> THEN Return(g, objects)
    ELSE /\ script' = [script EXCEPT ![g] = rest]
         /\ held' = [held EXCEPT ![g] = objects]
         /\ thread' = [thread EXCEPT ![g] =
                          IF Head(script[g]).pinned /\ ~Head(script[g]).unlocks
                          THEN t ELSE None]
         /\ UNCHANGED <<made, call, failed, leaked>>

Without(objects, names) == {o \in objects : o[1] \notin names}

\* What g has when step s succeeds.
Acquired(g, s) ==
    held[g] \cup s.gets
        \cup {<<o, "hand">> : o \in {x \in s.lacks : \A h \in held[g] : h[1] # x}}

\* What SSL_do_handshake finds in the queue: the state machine of the library
\* clears it before it starts; SSL_read, SSL_write and SSL_shutdown do not.
Found(f, t) == IF f = "handshake" THEN {} ELSE queue[t]

\* The C call succeeds.
Succeed(g) ==
    /\ script[g] # <<>> /\ ~failed[g]
    /\ \E t \in MayRunOn(g) :
          LET s == Head(script[g]) IN
          /\ GoOn(g, t, Without(Acquired(g, s), s.gives))
          /\ queue' = IF s.onError = "ssl"
                      THEN [queue EXCEPT ![t] = Found(made[call[g]], t)]
                      ELSE queue
    /\ UNCHANGED reports

\* The C call fails and the code takes its error path.
Fail(g) ==
    /\ script[g] # <<>> /\ ~failed[g]
    /\ \E t \in MayRunOn(g) :
          LET s      == Head(script[g])
              error  == IF s.onError = "check" THEN {} ELSE {call[g]}
              before == IF s.onError = "ssl" THEN Found(made[call[g]], t)
                                             ELSE queue[t]
              rest   == Without(held[g], s.frees)
          IN  /\ queue' = [queue EXCEPT ![t] = before \cup error]
              /\ \/ s.onError \in {"keep", "check"} /\ Return(g, rest)
                 \/ s.onError = "ignore" /\ GoOn(g, t, Without(rest, s.gives))
                 \/ /\ s.onError \in {"pop", "ssl"}
                    /\ failed' = [failed EXCEPT ![g] = TRUE]
                    /\ thread' = [thread EXCEPT ![g] =
                                     IF s.pinned THEN t ELSE None]
                    /\ held' = [held EXCEPT ![g] = rest]
                    /\ UNCHANGED <<made, call, script, leaked>>
    /\ UNCHANGED reports

\* The C call fails and the next one dereferences what it should have given.
Crash(g) ==
    /\ script[g] # <<>> /\ ~failed[g] /\ Head(script[g]).onError = "crash"
    /\ crashed' = call[g]
    /\ UNCHANGED callVars

\* A healthy SSL operation cannot finish (no data yet, no room): it returns
\* a value <= 0 and raises no error.  SSL_get_error says WANT_READ or
\* WANT_WRITE when the queue of the thread is empty; when it is not, it says
\* SSL_ERROR_SSL or SSL_ERROR_SYSCALL and getErrorHandler calls PopError.
HealthyWait(g) ==
    /\ script[g] # <<>> /\ ~failed[g] /\ Head(script[g]).onError = "ssl"
    /\ \E t \in MayRunOn(g) :
          LET found == Found(made[call[g]], t) IN
          /\ queue' = [queue EXCEPT ![t] = found]
          /\ IF found = {} THEN Return(g, held[g])
             ELSE /\ failed' = [failed EXCEPT ![g] = TRUE]
                  /\ thread' = [thread EXCEPT ![g] = t]
                  /\ UNCHANGED <<made, call, script, held, leaked>>
    /\ UNCHANGED reports

\* PopError empties the queue of the thread it runs on.
PopError(g) ==
    /\ failed[g]
    /\ \E t \in MayRunOn(g) :
          /\ reports' = reports \cup
                {[call |-> call[g], kind |-> Head(script[g]).onError,
                  popped |-> queue[t]]}
          /\ queue' = [queue EXCEPT ![t] = {}]
    /\ Return(g, held[g])

Run(g) ==
    /\ Call(g) \/ Succeed(g) \/ Fail(g) \/ HealthyWait(g) \/ PopError(g)
    /\ UNCHANGED crashed

Next == crashed = 0 /\ \E g \in Goroutines : Run(g) \/ Crash(g)

Spec == Init /\ [][Next]_vars

-----------------------------------------------------------------------------
(* Properties *)

Objects == {"tmp", "obj", "bio", "rsa", "key", "engine", "hmac", "r", "s",
            "ssl", "into", "from", "sno", "bn"}

(* The type of the variables; a goroutine that is in no call holds nothing *)
(* and is locked to no thread, whatever path its last call returned by     *)
(* (defer runtime.UnlockOSThread, conn.go:105 and the like).               *)
TypeOK ==
    /\ queue \in [Threads -> SUBSET (1 .. Len(made))]
    /\ Len(made) <= MaxCalls
    /\ \A i \in DOMAIN made : made[i] \in Functions
    /\ call \in [Goroutines -> 0 .. Len(made)]
    /\ failed \in [Goroutines -> BOOLEAN]
    /\ thread \in [Goroutines -> Threads \cup {None}]
    /\ held \in [Goroutines ->
                    SUBSET (Objects \X {"defer", "finalizer", "hand"})]
    /\ \A r \in reports : r.call \in 1 .. Len(made)
    /\ crashed \in 0 .. Len(made)
    /\ \A g \in Goroutines : call[g] = 0 =>
          /\ script[g] = <<>> /\ ~failed[g] /\ held[g] = {}
          /\ thread[g] = None
    /\ \A g, h \in Goroutines :
          g # h /\ thread[g] # None => thread[g] # thread[h]

(* The functions that never leave an error behind, on any path.            *)
Tidy == {"NewCtx", "SetEllipticCurve", "UseCertificate",
         "AddChainCertificate", "UsePrivateKey", "SetDHParameters",
         "AddCertificate", "LoadCertificateFromPEM",
         "LoadCertificatesFromPEM", "LoadVerifyLocations", "SetSessionID",
         "SetCipherList", "SetCipherSuites", "SetTLSExtHostName",
         "setSession", "handshake", "read", "write", "shutdown"}

(* The functions all of whose C calls that are followed by PopError lock   *)
(* their thread.                                                           *)
Pinned == Tidy \cup {"NewConn"}

(* "PopError needs to run in the same OS thread as the operation that      *)
(* caused the possible error" (crypto/init.go:60): of all the functions    *)
(* that call it, those of ctx.go and conn.go (but SetClientALPNProtos) and *)
(* LoadCertificateFromPEM report the error of their own C call, however    *)
(* calls interleave and wherever they run.  An SSL operation that was only *)
(* waiting has no error of its own, but it reports one of somebody.        *)
OwnError ==
    \A r \in reports : made[r.call] \in Pinned =>
        \/ r.call \in r.popped
        \/ r.kind = "ssl" /\ r.popped # {}

(* The same for every function that calls PopError after a C call failed:  *)
(* the rule of crypto/init.go:60 in full.                                  *)
PopsOwnError == \A r \in reports : r.kind = "pop" => r.call \in r.popped

(* A connection that is only waiting for its peer is torn down with        *)
(* somebody else's error (getErrorHandler, conn.go:244-308) by no function *)
(* of Tidy, however the calls interleave and wherever they run, and a      *)
(* handshake is torn down by nobody's.  The other functions can do it:     *)
(* they may leave an error on a thread a connection runs on later.         *)
HealthyConnection ==
    \A r \in reports :
        r.kind = "ssl" /\ r.call \notin r.popped =>
            /\ made[r.call] # "handshake"
            /\ \A i \in r.popped : made[i] \notin Tidy

(* Whichever C call of a function fails, every object it had acquired is   *)
(* freed, returned with a finalizer, or owned by another object; but for   *)
(* the RSA key whose EVP_PKEY cannot be made or assigned (key.go:549-556), *)
(* the numbers of an SM2 signature that ECDSA_SIG_set0 refuses             *)
(* (sm2.go:59-65), and what SetSerial makes late, also in NewCertificate,  *)
(* when ASN1_INTEGER_new or BN_new had failed (cert.go:243-254).           *)
NoLeak ==
    leaked \subseteq {<<"GenerateRSAKeyWithExponent", "rsa">>,
                      <<"sm2Verify", "r">>, <<"sm2Verify", "s">>,
                      <<"SetSerial", "sno">>, <<"SetSerial", "bn">>,
                      <<"NewCertificate", "sno">>, <<"NewCertificate", "bn">>}
=============================================================================
