------------------------------- MODULE Objects -------------------------------
(***************************************************************************)
(* Who owns which C object.  A Go wrapper (Ctx, Conn, Certificate,         *)
(* CertificateStore, Name) holds the address of a C object; the C objects  *)
(* count their references and hold references to each other (an SSL to its *)
(* SSL_CTX, an SSL_CTX to its certificates).  Go frees its references in   *)
(* finalizers, which the garbage collector runs at any time once a wrapper *)
(* is unreachable; Go references that the wrappers keep "for gc" are what  *)
(* keeps a C object alive that is used without a reference of its own.     *)
(*                                                                         *)
(* Rules the program follows, because the library cannot check them:       *)
(*   - it keeps a wrapper while a method of it runs;                       *)
(*   - a certificate is added to one chain only, and only one that owns    *)
(*     its C object (AddChainCertificate gives the object away);           *)
(*   - it keeps the Ctx that it passed to SetSSLCtx (KeepsSwitched);       *)
(*   - the issuers of certificates form no cycle (SetIssuer).              *)
(* Keys are handled as certificates are (UsePrivateKey, SetPubKey).        *)
(***************************************************************************)
EXTENDS Naturals, FiniteSets

CONSTANTS
    Ctxs, Conns, Certs, Stores, \* wrappers with a C object of their own,
                                \* which has the name of the wrapper
    Wraps,                      \* further wrappers of an object
    Peer,                       \* Peer[k]: the certificate the peer of k sends
    MaxMade,                    \* bound: wrappers made in a behaviour
    None

Wrappers == Ctxs \cup Conns \cup Certs \cup Stores \cup Wraps
Peers    == {Peer[k] : k \in Conns}
CObjects == Ctxs \cup Conns \cup Certs \cup Stores \cup Peers

\* names and addresses are those of one object each
ASSUME ObjectsAssumption ==
    /\ MaxMade \in Nat /\ IsFiniteSet(Wrappers)
    /\ None \notin Wrappers \cup Peers
    /\ Ctxs \cap (Conns \cup Certs \cup Stores \cup Wraps \cup Peers) = {}
    /\ Conns \cap (Certs \cup Stores \cup Wraps \cup Peers) = {}
    /\ Certs \cap (Stores \cup Wraps \cup Peers) = {}
    /\ Stores \cap (Wraps \cup Peers) = {} /\ Wraps \cap Peers = {}
    /\ \A k, l \in Conns : Peer[k] = Peer[l] => k = l

VARIABLES
    made,   \* wrappers made so far: a name is used once
    go,     \* the wrappers the collector has not taken
    root,   \* the wrappers the program holds
    refs,   \* wrapper -> the wrappers its fields point to
    final,  \* the wrappers with a finalizer that frees a reference
    handle, \* wrapper -> the C object it has the address of
    kind,   \* further wrapper -> what it is
    count,  \* C object -> its reference count
    owners, \* C object -> who will free a reference: <<who, as what>>
    inner   \* connection -> the SSL_CTX its SSL uses

vars == <<made, go, root, refs, final, handle, kind, count, owners, inner>>
cVars == <<count, owners>>

Init ==
    /\ made = {} /\ go = {} /\ root = {} /\ final = {}
    /\ refs = [o \in Wrappers |-> {}]
    /\ handle = [o \in Wrappers |-> None]
    /\ kind = [w \in Wraps |-> None]
    /\ count = [c \in CObjects |-> 0]
    /\ owners = [c \in CObjects |-> {}]
    /\ inner = [k \in Conns |-> None]

\* the wrappers that can be reached from those in set: nothing that contains
\* these and what its members point to leaves them out
Closed(S)  == \A o \in S : refs[o] \subseteq S
Reach(set) ==
    set \cup {o \in go \ set : \A S \in SUBSET (go \ (set \cup {o})) : ~Closed(set \cup S)}

Usable == Reach(root)

Alive(c) == count[c] > 0

-----------------------------------------------------------------------------
(* The reference counts of the C library.  table is a pair                 *)
(* [count, owners]; an owner of an object is <<wrapper or C object, role>>.*)

Table == [count |-> count, owners |-> owners]

SetTable(t) == count' = t.count /\ owners' = t.owners

\* one more reference to c, of which owner is in charge
UpRef(t, c, owner) ==
    IF owner \in t.owners[c] THEN t
    ELSE [count  |-> [t.count EXCEPT ![c] = @ + 1],
          owners |-> [t.owners EXCEPT ![c] = @ \cup {owner}]]

\* the references in pairs, <<C object, owner>>, are freed
Free(t, pairs) ==
    LET objects  == {pair[1] : pair \in pairs}
        freed(c) == {o \in t.owners[c] : <<c, o>> \in pairs}
        less(n, m) == IF m > n THEN 0 ELSE n - m
    IN  [count  |-> [c \in CObjects |->
                        IF c \notin objects THEN t.count[c]
                        ELSE less(t.count[c], Cardinality(freed(c)))],
         owners |-> [c \in CObjects |->
                        IF c \notin objects THEN t.owners[c]
                        ELSE t.owners[c] \ freed(c)]]

\* the references held by C objects that are gone
OfTheDead(t) ==
    LET dead == {d \in CObjects : t.count[d] = 0}
        held(c) == {o \in t.owners[c] : o[2] # "go" /\ o[1] \in dead}
    IN  UNION {{c} \X held(c) : c \in CObjects}

\* an SSL frees its SSL_CTX and that its certificates
Release(t, pairs) ==
    LET first  == Free(t, pairs)
        second == Free(first, OfTheDead(first))
    IN  IF OfTheDead(first) = {} THEN first
        ELSE Free(second, OfTheDead(second))

\* the certificate or context that c holds in role is replaced by new
Replace(t, c, role, new) ==
    Release(UpRef(t, new, <<c, role>>),
            {<<old, <<c, role>>>> : old \in CObjects \ {new}})

-----------------------------------------------------------------------------
(* Go wrappers *)

\* (The slip: the wrapper is made around a nil pointer.)
BadWrap(o, c, to) ==
    /\ o \notin made /\ Cardinality(made) < MaxMade
    /\ made' = made \cup {o}
    /\ go' = go \cup {o}
    /\ handle' = [handle EXCEPT ![o] = None]
    /\ refs' = [refs EXCEPT ![o] = to]

\* a wrapper of C object c with a finalizer that frees one reference
Wrap(o, c, to) ==
    /\ o \notin made /\ Cardinality(made) < MaxMade
    /\ made' = made \cup {o}
    /\ go' = go \cup {o}
    /\ handle' = [handle EXCEPT ![o] = c]
    /\ refs' = [refs EXCEPT ![o] = to]

\* C.XXX_new, the wrapper and runtime.SetFinalizer
Create(o) ==
    /\ Wrap(o, o, {})
    /\ root' = root \cup {o}
    /\ final' = final \cup {o}
    /\ SetTable(UpRef(Table, o, <<o, "go">>))
    /\ UNCHANGED <<kind, inner>>

\* newCtx, LoadCertificateFromPEM, NewCertificateStore
NewCtx(x) == x \in Ctxs /\ Create(x)
LoadCertificateFromPEM(c) == c \in Certs /\ Create(c)
NewCertificateStore(s) == s \in Stores /\ Create(s)

\* UseCertificate, UseSignCertificate, UseEncryptCertificate: the Go field is
\* written first; the library takes a reference, unless the call fails
UseCertificate(x, c) ==
    /\ {x, c} \subseteq Usable
    /\ refs' = [refs EXCEPT ![x] = @ \cup {c}]
    /\ \/ SetTable(Replace(Table, x, "leaf", handle[c]))
       \/ UNCHANGED cVars
    /\ UNCHANGED <<made, go, root, final, handle, kind, inner>>

\* (The slip: AddChainCertificate keeps the finalizer of the certificate.)
BadAddChainCertificate(x, c) ==
    /\ {x, c} \subseteq Usable /\ c \in final
    /\ refs' = [refs EXCEPT ![x] = @ \cup {c}]
    /\ owners' = [owners EXCEPT ![handle[c]] = @ \cup {<<x, "chain">>}]
    /\ UNCHANGED <<made, go, root, final, handle, kind, count, inner>>

\* AddChainCertificate: the library takes over the reference of the wrapper,
\* which loses its finalizer
AddChainCertificate(x, c) ==
    /\ {x, c} \subseteq Usable /\ c \in final
    /\ refs' = [refs EXCEPT ![x] = @ \cup {c}]
    /\ \/ /\ owners' = [owners EXCEPT ![handle[c]] =
                           (@ \ {<<c, "go">>}) \cup {<<x, "chain">>}]
          /\ final' = final \ {c}
       \/ UNCHANGED <<owners, final>>
    /\ UNCHANGED <<made, go, root, handle, kind, count, inner>>

\* CertificateStore.AddCertificate, for a store of its own or one of a context
AddCertificate(s, c) ==
    /\ {s, c} \subseteq Usable
    /\ refs' = [refs EXCEPT ![s] = @ \cup {c}]
    /\ \/ SetTable(UpRef(Table, handle[c], <<handle[s], "store">>))
       \/ UNCHANGED cVars
    /\ UNCHANGED <<made, go, root, final, handle, kind, inner>>

\* GetCertificateStore: the store inside the SSL_CTX, without a reference
GetCertificateStore(x, w) ==
    /\ x \in Usable
    /\ Wrap(w, x, {x})
    /\ root' = root \cup {w}
    /\ kind' = [kind EXCEPT ![w] = "store"]
    /\ UNCHANGED <<final, cVars, inner>>

\* SetIssuer: the issuer is kept for the extensions that need it
SetIssuer(c, d) ==
    /\ {c, d} \subseteq Usable
    /\ c \notin Reach({d})
    /\ refs' = [refs EXCEPT ![c] = @ \cup {d}]
    /\ UNCHANGED <<made, go, root, final, handle, kind, cVars, inner>>

\* GetSubjectName, GetIssuerName: a part of the certificate, and nothing says
\* that it needs the certificate
GetName(c, w) ==
    /\ c \in Usable
    /\ Wrap(w, handle[c], {})
    /\ root' = root \cup {w}
    /\ kind' = [kind EXCEPT ![w] = "name"]
    /\ UNCHANGED <<final, cVars, inner>>

-----------------------------------------------------------------------------
(* Connections *)

\* (The slip: the Conn does not keep its context.)
BadNewConn(k, x) ==
    /\ Wrap(k, k, {})
    /\ final' = final \cup {k}
    /\ SetTable(UpRef(UpRef(Table, k, <<k, "go">>), x, <<k, "ctx">>))
    /\ inner' = [inner EXCEPT ![k] = x]
    /\ UNCHANGED kind

\* newConn: SSL_new takes a reference to the SSL_CTX, the Conn keeps the Ctx
NewConn(k, x) ==
    /\ Wrap(k, k, {x})
    /\ final' = final \cup {k}
    /\ SetTable(UpRef(UpRef(Table, k, <<k, "go">>), x, <<k, "ctx">>))
    /\ inner' = [inner EXCEPT ![k] = x]
    /\ UNCHANGED kind

\* Client, Server, Accept and Dial with a context; the context may be one that
\* the program holds only through a Conn (GetCtx)
Connect(k, x) ==
    /\ x \in Usable
    /\ NewConn(k, x)
    /\ root' = root \cup {k}

\* DialSession without a context makes one that only the Conn keeps
DialNoCtx(k, x) ==
    /\ {k, x} \cap made = {} /\ Cardinality(made) + 2 <= MaxMade
    /\ made' = made \cup {k, x}
    /\ go' = go \cup {k, x}
    /\ root' = root \cup {k}
    /\ final' = final \cup {k, x}
    /\ handle' = [handle EXCEPT ![k] = k, ![x] = x]
    /\ refs' = [refs EXCEPT ![k] = {x}]
    /\ SetTable(UpRef(UpRef(UpRef(Table, x, <<x, "go">>), k, <<k, "go">>),
                      x, <<k, "ctx">>))
    /\ inner' = [inner EXCEPT ![k] = x]
    /\ UNCHANGED kind

\* the rule about SetSSLCtx: o is not a context that only an SSL knows of
KeepsSwitched(o) ==
    o \in Ctxs => \A k \in Conns \cap Usable : inner[k] = o => o \in refs[k]

\* The program drops a wrapper; DialSession, which gives up when setSession,
\* SetTLSExtHostName, Handshake or VerifyHostname fails, drops its Conn.
Forget(o) ==
    /\ o \in root
    /\ KeepsSwitched(o)
    /\ root' = root \ {o}
    /\ UNCHANGED <<made, go, refs, final, handle, kind, cVars, inner>>

\* SetSSLCtx, in a callback of the connection's handshake: only the C objects
\* know of it
SetSSLCtx(k, y) ==
    /\ k \in Usable /\ y \in root
    /\ inner' = [inner EXCEPT ![k] = y]
    /\ SetTable(Replace(Table, k, "ctx", y))
    /\ UNCHANGED <<made, go, root, refs, final, handle, kind>>

\* The handshake stores the certificate of the peer in the session.
PeerSendsCertificate(k) ==
    /\ k \in Usable /\ ~Alive(Peer[k])
    /\ SetTable(UpRef(Table, Peer[k], <<k, "peer">>))
    /\ UNCHANGED <<made, go, root, refs, final, handle, kind, inner>>

\* PeerCertificate (SSL_get_peer_certificate takes a reference), and
\* GetCurrentCert in the verify callback (X_X509_add_ref)
PeerCertificate(k, w) ==
    /\ k \in Usable /\ Alive(Peer[k])
    /\ Wrap(w, Peer[k], {})
    /\ root' = root \cup {w}
    /\ final' = final \cup {w}
    /\ kind' = [kind EXCEPT ![w] = "cert"]
    /\ SetTable(UpRef(Table, Peer[k], <<w, "go">>))
    /\ UNCHANGED inner

\* (The slip: the wrappers of the chain do not keep the connection.)
BadPeerCertificateChain(k, w) ==
    /\ k \in Usable /\ Alive(Peer[k])
    /\ Wrap(w, Peer[k], {})
    /\ root' = root \cup {w}
    /\ kind' = [kind EXCEPT ![w] = "chain"]
    /\ UNCHANGED <<final, cVars, inner>>

\* (The slip: and the connection keeps the wrappers of its chain.)
CachingPeerCertificateChain(k, w) ==
    /\ k \in Usable /\ Alive(Peer[k])
    /\ w \notin made /\ Cardinality(made) < MaxMade
    /\ made' = made \cup {w}
    /\ go' = go \cup {w}
    /\ handle' = [handle EXCEPT ![w] = Peer[k]]
    /\ refs' = [refs EXCEPT ![w] = {k}, ![k] = @ \cup {w}]
    /\ root' = root \cup {w}
    /\ kind' = [kind EXCEPT ![w] = "chain"]
    /\ UNCHANGED <<final, cVars, inner>>

\* PeerCertificateChain: no reference, the wrapper keeps the connection
PeerCertificateChain(k, w) ==
    /\ k \in Usable /\ Alive(Peer[k])
    /\ Wrap(w, Peer[k], {k})
    /\ root' = root \cup {w}
    /\ kind' = [kind EXCEPT ![w] = "chain"]
    /\ UNCHANGED <<final, cVars, inner>>

-----------------------------------------------------------------------------
(* The collector takes a wrapper that the program cannot reach.  Go runs   *)
(* the finalizers of such wrappers in the order of their references: one   *)
(* that another with a finalizer points to waits, and one that is on a     *)
(* cycle waits for ever.  The finalizer of a Conn disconnects its BIOs and *)
(* frees its SSL; those of the others free one reference.                  *)
Collectable(o) ==
    /\ o \in go \ root /\ o \notin Usable
    /\ o \notin Reach(final \ {o})
    /\ o \in final => o \notin Reach(refs[o])

Collect(o) ==
    /\ Collectable(o)
    /\ go' = go \ {o}
    /\ final' = final \ {o}
    /\ refs' = [q \in Wrappers |-> IF q = o THEN {} ELSE refs[q] \ {o}]
    /\ SetTable(Release(Table,
                        IF o \in final THEN {<<handle[o], <<o, "go">>>>} ELSE {}))
    /\ UNCHANGED <<made, root, handle, kind, inner>>

Next ==
    \/ \E x \in Ctxs :
         \/ NewCtx(x)
         \/ \E c \in Certs : UseCertificate(x, c) \/ AddChainCertificate(x, c)
         \/ \E w \in Wraps : GetCertificateStore(x, w)
    \/ \E c \in Certs :
         \/ LoadCertificateFromPEM(c)
         \/ \E d \in Certs : SetIssuer(c, d)
         \/ \E w \in Wraps : GetName(c, w)
    \/ \E s \in Stores : NewCertificateStore(s)
    \/ \E s \in Stores \cup {w \in Wraps : kind[w] = "store"}, c \in Certs :
         AddCertificate(s, c)
    \/ \E k \in Conns :
         \/ \E x \in Ctxs : Connect(k, x) \/ DialNoCtx(k, x) \/ SetSSLCtx(k, x)
         \/ PeerSendsCertificate(k)
         \/ \E w \in Wraps : PeerCertificate(k, w) \/ PeerCertificateChain(k, w)
    \/ \E o \in Wrappers : Forget(o) \/ Collect(o)

Spec == Init /\ [][Next]_vars

-----------------------------------------------------------------------------
(* Properties *)

(* The type of the variables; only live wrappers are held, pointed to or   *)
(* finalized, and each has the address of a C object.                      *)
TypeOK ==
    /\ root \subseteq go /\ final \subseteq go /\ go \subseteq made
    /\ made \subseteq Wrappers
    /\ refs \in [Wrappers -> SUBSET go]
    /\ handle \in [Wrappers -> CObjects \cup {None}]
    /\ \A o \in go : handle[o] # None
    /\ kind \in [Wraps -> {None, "cert", "chain", "name", "store"}]
    /\ DOMAIN count = CObjects /\ \A c \in CObjects : count[c] \in Nat
    /\ DOMAIN owners = CObjects
    /\ inner \in [Conns -> Ctxs \cup {None}]

(* Every reference that a C object counts has exactly one owner that will  *)
(* free it: a wrapper with a finalizer (ctx.go:67, cert.go:397, conn.go:   *)
(* 153, 378) or a C object that is alive itself.  With fewer references    *)
(* than owners the object is freed twice, with more it leaks.              *)
Balance ==
    \A c \in CObjects :
        /\ count[c] = Cardinality(owners[c])
        /\ \A o \in owners[c] :
              IF o[2] = "go" THEN o[1] \in final ELSE Alive(o[1])

(* A wrapper the program can reach has the address of a C object that is   *)
(* still there: the certificates of a peer's chain while their Conn is     *)
(* ("ref holds on to the underlying connection memory", conn.go:375), the  *)
(* store of a context ("we do need to keep the ctx around", ctx.go:335).   *)
(* The exceptions: a Name of a certificate that was dropped, and a         *)
(* certificate that was given away to the chain of a context.              *)
NoDangling ==
    \A o \in Usable : ~Alive(handle[o]) =>
        \/ o \in Wraps /\ kind[o] = "name"
        \/ o \in Certs \ final

(* A callback of a handshake finds the Go Ctx through the ex_data of the   *)
(* SSL_CTX that the SSL uses (ctx.go:66): while the Conn can be reached    *)
(* the Ctx has not been collected, and while the SSL is alive its SSL_CTX  *)
(* is.                                                                     *)
CallbackContext ==
    \A k \in Conns :
        /\ k \in Usable => inner[k] \in go
        /\ Alive(k) => Alive(inner[k])

(* Nothing that the program let go of stays for ever: as long as there are *)
(* wrappers it cannot reach, the collector can take one of them.           *)
NoStuckGarbage ==
    go \ Usable # {} => \E o \in go \ Usable : Collectable(o)
=============================================================================
