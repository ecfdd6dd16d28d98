------------------------------- MODULE Context -------------------------------
(***************************************************************************)
(* ctx.go, ssl.go, tickets.go, sni.c, shim.c: what a context configures,   *)
(* and the callbacks of a server handshake, which find the Go object they  *)
(* need through the C object the library hands them.                       *)
(*                                                                         *)
(* A setter writes a field of the Go Ctx and then registers a C function   *)
(* with the SSL_CTX; it takes no lock, so handshakes run in between.       *)
(***************************************************************************)
EXTENDS Naturals, Sequences, FiniteSets

CONSTANTS
  Ctxs, Conns,
  Managers,  \* ticket key managers (a TicketStore is named by its manager)
  None,
  Configs,   \* what the program configured before the first handshake
  MaxKeys,   \* bound: keys a manager makes
  MaxSets    \* bound: setters called while handshakes run

Callbacks == {"accept", "reject"}  \* what a VerifyCallback answers
Hooks == {"verify", "sni", "alpn", "ticket"}
Key == [mgr : Managers, nr : 1..MaxKeys]  \* and the tickets it encrypts
Setting == [ctx : Ctxs, hook : Hooks, on : BOOLEAN]

\* What the fields of a Go Ctx hold. sni: the context that the callback
\* switches to; "nil": the setter was given nil, which is what a field holds
\* that was never set (None). alpn: the callback of a list of protocols, or of
\* the empty list.
Fields == [verify : Callbacks \cup {None}, sni : Ctxs \cup {"nil", None},
           alpn : {"none", "list", "empty"}, store : Managers \cup {None}]

ASSUME ContextAssumption ==
  /\ None \notin Ctxs \cup Managers \cup Conns \cup Callbacks
  /\ None \notin Key /\ None \notin Setting
  /\ None # "nil" /\ "nil" \notin Ctxs
  /\ MaxKeys \in Nat /\ MaxSets \in Nat
  /\ Configs \subseteq [Ctxs -> Fields]

VARIABLES
  go,       \* ctx -> fields of the Go Ctx: verifyCb, sniCb, alpnCb, ticketStore
  hooks,    \* ctx -> the C functions registered with its SSL_CTX
  app,      \* the setter under way: <<ctx, hook, register it or remove it>>
  sets,     \* setters called
  moved,    \* SetTicketStore was called while handshakes ran
  storeMu,  \* ctx -> holder of ticketStoreMu
  keys,     \* manager -> the state of the keys it made, in order
  conn,     \* connection -> where its handshake is, see Fresh
  tickets,  \* the keys of the tickets that clients hold
  exited    \* the connection whose callback panicked: os.Exit(1)

setterVars == <<go, hooks, app, sets, moved>>
vars == <<setterVars, storeMu, keys, conn, tickets, exited>>

Pcs == {"free", "hello", "store", "mutex", "lookup", "expired", "renew",
        "current", "new", "sni", "alpn", "verify", "issue", "done", "failed"}
InManager == {"lookup", "expired", "renew", "current", "new"}

\* An SSL object that newConn has not made yet. own: the context it is made
\* from (session_ctx in the library); ctx: the one in force; hook: its verify
\* function, and sslCb: the field verifyCb of the Go SSL; seen: the store the
\* ticket callback found; must, stale, behind: history, for the properties.
Fresh(c) ==
  [pc |-> "free", own |-> c, ctx |-> c, hook |-> "none", sslCb |-> None,
   enc |-> FALSE, ticket |-> None, seen |-> None, resumed |-> FALSE,
   renew |-> FALSE, issued |-> None, refused |-> FALSE,
   must |-> FALSE, stale |-> FALSE, behind |-> FALSE]

HooksOf(f) ==
  (IF f.verify # None THEN {"verify"} ELSE {})
    \cup (IF f.sni # None THEN {"sni"} ELSE {})
    \cup (IF f.alpn # "none" THEN {"alpn"} ELSE {})
    \cup (IF f.store # None THEN {"ticket"} ELSE {})

Init ==
  /\ go \in Configs
  /\ hooks = [c \in Ctxs |-> HooksOf(go[c])]
  /\ app = None /\ sets = 0 /\ moved = FALSE
  /\ storeMu = [c \in Ctxs |-> None]
  /\ keys = [m \in Managers |-> <<>>]
  /\ conn \in [Conns -> {Fresh(c) : c \in Ctxs}]
  /\ tickets = {} /\ exited = None

(***************************************************************************)
(* The setters: first the field, then the registration.                    *)
(***************************************************************************)
SetField(c, f) == go' = [go EXCEPT ![c] = f]
Register(c, h, on) ==
  hooks' = [hooks EXCEPT ![c] = IF on THEN @ \cup {h} ELSE @ \ {h}]

\* SSL_get_SSL_CTX in the C functions: the context whose Go object they hand
\* to the thunks. (The slip: the one the connection was made from.)
BadInForce(i) == conn[i].own
InForce(i) == conn[i].ctx

Setter(c, h, on, f) ==
  /\ app = None /\ sets < MaxSets /\ exited = None
  /\ app' = [ctx |-> c, hook |-> h, on |-> on]
  /\ sets' = sets + 1
  /\ SetField(c, f)
  /\ UNCHANGED <<hooks, storeMu, keys, tickets, exited>>

\* A connection whose context is being changed promises nothing any more.
SetVerify(c, cb) ==
  /\ Setter(c, "verify", cb # None, [go[c] EXCEPT !.verify = cb])
  /\ conn' = [i \in Conns |->
       [conn[i] EXCEPT !.must = @ /\ c # conn[i].ctx]]
  /\ UNCHANGED moved

\* The callback switches to target; nil is registered like any other.
SetTLSExtServernameCallback(c, target) ==
  /\ Setter(c, "sni", TRUE, [go[c] EXCEPT !.sni = target])
  /\ UNCHANGED <<conn, moved>>

SetServerALPNProtos(c, protos) ==
  /\ Setter(c, "alpn", TRUE, [go[c] EXCEPT !.alpn = protos])
  /\ UNCHANGED <<conn, moved>>

SetTicketStore(c, m) ==
  /\ Setter(c, "ticket", m # None, [go[c] EXCEPT !.store = m])
  /\ moved' = TRUE
  /\ UNCHANGED conn

SetterReturns ==
  /\ app # None /\ exited = None
  /\ Register(app.ctx, app.hook, app.on)
  /\ app' = None
  /\ UNCHANGED <<go, sets, moved, storeMu, keys, conn, tickets, exited>>

(***************************************************************************)
(* The key manager, which belongs to the program: time makes it rotate its *)
(* keys, expire them and forget them.                                      *)
(***************************************************************************)
Newest(m) == Len(keys[m])
Knows(m, k) == k.mgr = m /\ k.nr <= Newest(m) /\ keys[m][k.nr] # "gone"
IsExpired(k) == keys[k.mgr][k.nr] # "live"

Rotate(m) ==
  /\ Newest(m) < MaxKeys /\ exited = None
  /\ keys' = [keys EXCEPT ![m] = Append(@, "live")]
  /\ UNCHANGED <<setterVars, storeMu, conn, tickets, exited>>

Expire(m, n) ==
  /\ keys[m][n] # "gone" /\ exited = None
  /\ keys' = [keys EXCEPT
       ![m][n] = IF @ = "live" THEN "expired" ELSE "gone"]
  /\ UNCHANGED <<setterVars, storeMu, conn, tickets, exited>>

(***************************************************************************)
(* The handshake of connection i.                                          *)
(***************************************************************************)
At(i, p) == conn[i].pc = p /\ exited = None
Goto(i, p) == conn' = [conn EXCEPT ![i].pc = p]
Frame == UNCHANGED <<setterVars, storeMu, keys, tickets>>
Exit(i) == exited' = i /\ UNCHANGED conn
Settled(c) == app = None \/ app.ctx # c

\* newConn: SSL_new copies the verify function of the SSL_CTX. In a program
\* that settled on a callback that rejects, the connection must be rejected.
NewConn(i) ==
  LET c == conn[i].own IN
  /\ At(i, "free")
  /\ conn' = [conn EXCEPT
       ![i].pc = "hello",
       ![i].hook = IF "verify" \in hooks[c] THEN "ctx" ELSE "none",
       ![i].must = go[c].verify = "reject" /\ Settled(c)]
  /\ Frame /\ UNCHANGED exited

\* SSL.SetVerify on the connection, before its handshake.
SslSetVerify(i, cb) ==
  /\ At(i, "hello") /\ sets < MaxSets
  /\ sets' = sets + 1
  /\ conn' = [conn EXCEPT ![i].sslCb = cb, ![i].hook = "ssl",
                          ![i].must = FALSE]
  /\ UNCHANGED <<go, hooks, app, moved, storeMu, keys, tickets, exited>>

\* The ClientHello, with a ticket or without. The library takes the ticket
\* function from the context the connection was made from.
Hello(i, t) ==
  /\ At(i, "hello")
  /\ conn' = [conn EXCEPT
       ![i].ticket = t, ![i].enc = FALSE,
       ![i].stale = t # None /\ IsExpired(t),
       ![i].behind = t # None /\ t.nr < Newest(t.mgr),
       ![i].pc = IF t # None /\ "ticket" \in hooks[conn[i].own]
                 THEN "store" ELSE "sni"]
  /\ Frame /\ UNCHANGED exited

\* go_ticket_key_cb_thunk: its context is the one in force, and it reads the
\* store once, before it locks.
After(i) == IF conn[i].enc THEN "done" ELSE "sni"

ReadStore(i) ==
  LET m == go[InForce(i)].store IN
  /\ At(i, "store")
  /\ conn' = [conn EXCEPT
       ![i].seen = m, ![i].refused = @ \/ ~conn[i].enc,
       ![i].pc = IF m = None THEN After(i) ELSE "mutex"]
  /\ Frame /\ UNCHANGED exited

\* The store it uses from there on. (The slip: it reads the field again.)
BadStore(i) == go[InForce(i)].store
Store(i) == conn[i].seen

\* (The slip: no Lock.)
BadMuFree(c) == TRUE
MuFree(c) == storeMu[c] = None

LockStore(i) ==
  /\ At(i, "mutex") /\ MuFree(conn[i].ctx)
  /\ storeMu' = [storeMu EXCEPT ![conn[i].ctx] = i]
  /\ IF Store(i) = None THEN Exit(i)
     ELSE /\ Goto(i, IF conn[i].enc THEN "current" ELSE "lookup")
          /\ UNCHANGED exited
  /\ UNCHANGED <<setterVars, keys, tickets>>

\* The callback returns to the library, and the deferred Unlock runs.
Unlock(i) == storeMu' = [storeMu EXCEPT ![conn[i].ctx] = None]

Lookup(i) ==
  /\ At(i, "lookup")
  /\ IF Knows(Store(i), conn[i].ticket)
     THEN Goto(i, "expired") /\ UNCHANGED storeMu
     ELSE Goto(i, "sni") /\ Unlock(i)
  /\ UNCHANGED <<setterVars, keys, tickets, exited>>

\* The answer of Expired as the code uses it. (The slip: nobody asks.)
BadRefuse(i) == FALSE
Refuse(i) == IsExpired(conn[i].ticket)

Expired(i) ==
  /\ At(i, "expired")
  /\ IF Refuse(i) THEN Goto(i, "sni") /\ Unlock(i)
     ELSE Goto(i, "renew") /\ UNCHANGED storeMu
  /\ UNCHANGED <<setterVars, keys, tickets, exited>>

\* The answers for a key that is still good: the session is resumed, and
\* when the manager wants another key, with a new ticket. (The slips: a key
\* to be renewed is refused; nobody asks whether to renew.)
BadAnswer(i) ==
  LET old == conn[i].ticket.nr < Newest(Store(i)) IN
  [resumed |-> ~old, renew |-> FALSE]
BadNoRenew(i) == [resumed |-> TRUE, renew |-> FALSE]
Answer(i) ==
  [resumed |-> TRUE, renew |-> conn[i].ticket.nr < Newest(Store(i))]

ShouldRenew(i) ==
  /\ At(i, "renew")
  /\ conn' = [conn EXCEPT
       ![i].pc = "sni", ![i].resumed = Answer(i).resumed,
       ![i].renew = Answer(i).renew, ![i].refused = ~Answer(i).resumed]
  /\ Unlock(i)
  /\ UNCHANGED <<setterVars, keys, tickets, exited>>

\* The SNI callback; the program's switches to the context it stands for.
\* SSL_set_SSL_CTX leaves the verify function of the connection as it is; the
\* program expects the settings of the new context, unless it called
\* SSL.SetVerify. sniCbThunk calls a nil callback, which panics.
SniThunk(i) ==
  LET c == conn[i].ctx IN
  /\ At(i, "sni")
  /\ IF "sni" \in hooks[c] /\ go[c].sni \in {None, "nil"} THEN Exit(i)
     ELSE /\ LET d == IF "sni" \in hooks[c] THEN go[c].sni ELSE c IN
             conn' = [conn EXCEPT
               ![i].pc = "alpn", ![i].ctx = d,
               ![i].must = IF d = c THEN @
                         ELSE conn[i].hook # "ssl" /\ go[d].verify = "reject"
                                /\ Settled(d)]
          /\ UNCHANGED exited
  /\ Frame

\* The ALPN callback of the context in force, when the client sent protocols:
\* it ends the handshake when none is in common. That of the empty list takes
\* the address of its first byte, which panics.
AlpnThunk(i) ==
  LET c == conn[i].ctx IN
  /\ At(i, "alpn")
  /\ \/ /\ Goto(i, IF conn[i].resumed THEN "issue" ELSE "verify")
        /\ UNCHANGED exited
     \/ /\ "alpn" \in hooks[c]
        /\ IF go[c].alpn = "list" THEN Goto(i, "failed") /\ UNCHANGED exited
           ELSE Exit(i)
  /\ Frame

\* go_ssl_ctx_verify_cb_thunk asks the callback of the context in force, and
\* without one keeps the library's verdict.
Verdict(c, ok) ==
  IF go[c].verify = None THEN ok ELSE go[c].verify = "accept"

\* The client sends a certificate: without one nothing is verified.
\* go_ssl_verify_cb_thunk takes the C object that newConn stored for a Go SSL
\* and calls what it finds in the place of verifyCb: anything may happen.
VerifyThunk(i) ==
  /\ At(i, "verify")
  /\ \/ \E ok \in BOOLEAN, any \in BOOLEAN :
          /\ Goto(i, IF CASE conn[i].hook = "none" -> ok
                          [] conn[i].hook = "ctx" -> Verdict(InForce(i), ok)
                          [] conn[i].hook = "ssl" -> any
                     THEN "issue" ELSE "failed")
          /\ UNCHANGED exited
     \/ conn[i].hook = "ssl" /\ Exit(i)
  /\ Frame

\* A new session, or one to renew, gets a ticket.
Issue(i) ==
  LET wanted == "ticket" \in hooks[conn[i].own]
                  /\ (conn[i].resumed => conn[i].renew) IN
  /\ At(i, "issue")
  /\ conn' = [conn EXCEPT ![i].enc = TRUE,
                          ![i].pc = IF wanted THEN "store" ELSE "done"]
  /\ Frame /\ UNCHANGED exited

\* The key name that goes into the ticket. (The slip: it is not copied.)
BadKeyName(i, n) == [mgr |-> Store(i), nr |-> 0]
KeyName(i, n) == [mgr |-> Store(i), nr |-> n]

Give(i, n) ==
  LET k == KeyName(i, n) IN
  /\ conn' = [conn EXCEPT ![i].pc = "done", ![i].issued = k]
  /\ tickets' = tickets \cup {k}
  /\ Unlock(i)

Current(i) ==
  LET m == Store(i) IN
  /\ At(i, "current")
  /\ IF Newest(m) > 0 /\ keys[m][Newest(m)] = "live"
     THEN Give(i, Newest(m))
     ELSE Goto(i, "new") /\ UNCHANGED <<storeMu, tickets>>
  /\ UNCHANGED <<setterVars, keys, exited>>

\* New, which may fail: then there is no ticket.
New(i) ==
  LET m == Store(i) IN
  /\ At(i, "new")
  /\ IF Newest(m) < MaxKeys
     THEN keys' = [keys EXCEPT ![m] = Append(@, "live")] /\ Give(i, Newest(m) + 1)
     ELSE Goto(i, "done") /\ Unlock(i) /\ UNCHANGED <<keys, tickets>>
  /\ UNCHANGED <<setterVars, exited>>

Handshake(i) ==
  \/ NewConn(i) \/ \E t \in tickets \cup {None} : Hello(i, t)
  \/ ReadStore(i) \/ LockStore(i) \/ Lookup(i) \/ Expired(i) \/ ShouldRenew(i)
  \/ SniThunk(i) \/ AlpnThunk(i) \/ VerifyThunk(i)
  \/ Issue(i) \/ Current(i) \/ New(i)

\* Nothing is left to do: all handshakes ended, or the process did.
Done ==
  /\ exited # None \/ \A i \in Conns : conn[i].pc \in {"done", "failed"}
  /\ UNCHANGED vars

Next ==
  \/ \E c \in Ctxs, cb \in Callbacks \cup {None} : SetVerify(c, cb)
  \/ \E c \in Ctxs, d \in Ctxs \cup {"nil"} : SetTLSExtServernameCallback(c, d)
  \/ \E c \in Ctxs, l \in {"list", "empty"} : SetServerALPNProtos(c, l)
  \/ \E c \in Ctxs, m \in Managers \cup {None} : SetTicketStore(c, m)
  \/ SetterReturns
  \/ \E m \in Managers : Rotate(m) \/ \E n \in DOMAIN keys[m] : Expire(m, n)
  \/ \E i \in Conns : Handshake(i) \/ \E cb \in Callbacks : SslSetVerify(i, cb)
  \/ Done

Spec == Init /\ [][Next]_vars

(***************************************************************************)
(* Properties.                                                             *)
(***************************************************************************)
TypeOK ==
  /\ go \in [Ctxs -> Fields]
  /\ hooks \in [Ctxs -> SUBSET Hooks] /\ app \in Setting \cup {None}
  /\ sets \in 0..MaxSets /\ moved \in BOOLEAN /\ exited \in Conns \cup {None}
  /\ storeMu \in [Ctxs -> Conns \cup {None}]
  /\ \A m \in Managers : /\ Len(keys[m]) <= MaxKeys
                         /\ \A n \in DOMAIN keys[m] :
                              keys[m][n] \in {"live", "expired", "gone"}
  /\ tickets \subseteq Key
  /\ \A i \in Conns :
       /\ conn[i].pc \in Pcs /\ {conn[i].own, conn[i].ctx} \subseteq Ctxs
       /\ conn[i].hook \in {"none", "ctx", "ssl"}
       /\ conn[i].ticket \in tickets \cup {None}
       /\ conn[i].seen \in Managers \cup {None}

\* A callback panics, which ends the process, for three reasons only: the
\* connection uses SSL.SetVerify (see SslVerifyHonoured), the SNI callback is
\* nil, or the list of protocols is empty. So the ticket callback never meets
\* a nil store, and no callback a field that is not set yet, though setters run
\* at any moment between two steps of a handshake, and the ticket callback is
\* registered with one context and runs with another.
AskedForNil(i) == conn[i].pc = "sni" /\ go[conn[i].ctx].sni = "nil"
HasNoProtocol(i) == conn[i].pc = "alpn" /\ go[conn[i].ctx].alpn = "empty"

PanicHasCause ==
  exited # None =>
    \/ conn[exited].pc = "verify" /\ conn[exited].hook = "ssl"
    \/ AskedForNil(exited)
    \/ HasNoProtocol(exited)

\* "set up defaults just in case verify_cb is nil" (ssl.go): the thunks of the
\* verify callbacks take nil for "no callback"; that of the SNI callback does
\* not end the process either.
NilMeansNoCallback == exited # None => conn[exited].pc # "sni"

\* "if failed the negotiation will lead to server handshake failure" (the
\* comment on SetServerALPNProtos): of that handshake, not of the process.
NegotiationEndsOneHandshake == exited # None => conn[exited].pc # "alpn"

\* "Calls to the manager are serialized" (the comment on TicketKeyManager): two
\* handshakes are never in calls of one manager at once.
SerializedCalls ==
  \A i, j \in Conns :
    i # j /\ {conn[i].pc, conn[j].pc} \subseteq InManager
      => conn[i].seen # conn[j].seen

\* What ticketStoreMu does give: two handshakes that one context is in force
\* for are not in calls of one manager at once, whatever SetTicketStore and the
\* SNI callback change between the read of the store and the lock.
OneCallerPerContext ==
  \A i, j \in Conns :
    i # j /\ {conn[i].pc, conn[j].pc} \subseteq InManager
      /\ conn[i].ctx = conn[j].ctx => conn[i].seen # conn[j].seen

\* A ticket whose key had expired when the ClientHello brought it does not
\* resume a session, whatever the manager does in the meantime.
NoStaleResumption ==
  \A i \in Conns : conn[i].resumed => ~conn[i].stale

\* The context that accepts switches only to contexts that have its store.
OneStore == \A c, d \in Ctxs : go[c].store = go[d].store

\* With one store for all contexts that is never replaced, a ticket is refused
\* only when its key has expired: one under an older key is still good.
TicketsResume ==
  \A i \in Conns :
    conn[i].refused /\ conn[i].pc \notin InManager \cup {"store", "mutex"}
      /\ OneStore /\ ~moved => IsExpired(conn[i].ticket)

\* Then also a client that resumes under a key that was not the newest leaves
\* with a ticket under a newer one, unless that one expired as well and the
\* manager had no other to give.
RenewalIsGiven ==
  \A i \in Conns :
    LET k == conn[i].ticket IN
    conn[i].pc = "done" /\ conn[i].resumed /\ conn[i].behind
      /\ OneStore /\ ~moved
      => \/ conn[i].issued # None /\ conn[i].issued.nr > k.nr
         \/ /\ Newest(k.mgr) = MaxKeys
            /\ \E n \in (k.nr + 1)..MaxKeys : IsExpired([k EXCEPT !.nr = n])

\* A connection whose verify function comes from its SSL_CTX is not completed
\* as a new session against a callback that rejects: neither that of the
\* context it was made from nor that of the context the SNI callback switched
\* to, each as it was set when the connection was made or switched, for as long
\* as SetVerify is not called again for it.
VerifyHonoured ==
  \A i \in Conns :
    conn[i].pc = "done" /\ ~conn[i].resumed /\ conn[i].hook = "ctx"
      => ~conn[i].must

\* "adjust other things we care about" (the comment in SSL.SetSSLCtx, where no
\* code follows it): a switch to a context whose callback rejects is honoured
\* as well when the connection has no verify function yet.
SwitchHonoured ==
  \A i \in Conns :
    conn[i].pc = "done" /\ ~conn[i].resumed => ~conn[i].must

\* "SetVerify controls peer verification settings" (the comment on
\* SSL.SetVerify): a connection whose own callback rejects is not completed.
SslVerifyHonoured ==
  \A i \in Conns :
    conn[i].pc = "done" /\ ~conn[i].resumed => conn[i].sslCb # "reject"

\* What the comments promise of the settings of a context and of a connection:
\* a callback that is set, to nil as well, is the one that handshakes meet.
SettingsHonoured ==
  /\ NilMeansNoCallback /\ NegotiationEndsOneHandshake
  /\ SwitchHonoured /\ SslVerifyHonoured
=============================================================================
