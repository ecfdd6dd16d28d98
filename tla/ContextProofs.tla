---------------------------- MODULE ContextProofs ----------------------------
(***************************************************************************)
(* A context and the callbacks of its handshakes, whatever the number of   *)
(* contexts, connections, managers, keys and setters.                      *)
(*                                                                         *)
(* Calls to a key manager are serialized per context: a handshake in such  *)
(* a call holds ticketStoreMu of the context in force (Inv), which must    *)
(* therefore not change meanwhile.                                         *)
(*                                                                         *)
(* Safety (SafeInv): what the setters left registered has its field set    *)
(* (SettersInv), if only to nil, and a connection is where its steps       *)
(* brought it (Good): the store was found before the mutex, a stale ticket *)
(* was refused, and a callback that rejects is that of the context still   *)
(* in force.                                                               *)
(*                                                                         *)
(* Tickets (TicketInv), while all contexts have one store: the tickets and *)
(* the store that the callback found are of that store (TicketsOfStore,    *)
(* StoreSeen), so what the manager does not know has expired, and a key    *)
(* that was behind has a newer one.                                        *)
(***************************************************************************)
EXTENDS Context, SequenceTheorems, TLAPS

Names == {"pc", "own", "ctx", "hook", "sslCb", "enc", "ticket", "seen",
          "resumed", "renew", "issued", "refused", "must", "stale", "behind"}

Conn(r) == r = [n \in Names |-> r[n]] /\ r.ctx \in Ctxs /\ r.own \in Ctxs

Types ==
  /\ go \in [Ctxs -> Fields]
  /\ storeMu = [c \in Ctxs |-> storeMu[c]]
  /\ conn = [i \in Conns |-> conn[i]]
  /\ \A i \in Conns : Conn(conn[i])

HoldsMutex ==
  \A i \in Conns : conn[i].pc \in InManager => storeMu[conn[i].ctx] = i

Inv == Types /\ HoldsMutex

LEMMA InitInv == Init => Inv
<1> SUFFICES ASSUME Init PROVE Inv
  OBVIOUS
<1>1. go \in [Ctxs -> Fields]
  BY ContextAssumption DEF Init, Fields, Callbacks
<1>2. storeMu = [c \in Ctxs |-> storeMu[c]] /\ conn = [i \in Conns |-> conn[i]]
  BY DEF Init
<1>3. ASSUME NEW i \in Conns
      PROVE  Conn(conn[i]) /\ conn[i].pc \notin InManager
  <2>1. PICK c \in Ctxs : conn[i] = Fresh(c)
    BY DEF Init
  <2> QED
    BY <2>1 DEF Fresh, Conn, Names, InManager
<1> QED
  BY <1>1, <1>2, <1>3 DEF Inv, Types, HoldsMutex

(* A step of connection i alone, which leaves the mutexes alone and does   *)
(* not enter a call of the manager, keeps the invariant.                   *)
LEMMA OneConnection ==
  ASSUME Inv, go' \in [Ctxs -> Fields], storeMu' = storeMu,
         NEW i \in Conns, NEW r, Conn(r), conn' = [conn EXCEPT ![i] = r],
         r.pc \in InManager =>
           conn[i].pc \in InManager /\ r.ctx = conn[i].ctx
  PROVE  Inv'
<1>1. Types'
  BY DEF Inv, Types, Conn
<1>2. HoldsMutex'
  BY DEF Inv, Types, HoldsMutex, InManager
<1> QED
  BY <1>1, <1>2 DEF Inv

(* A step in which connection i takes the free mutex of its context, or    *)
(* leaves a call of the manager and gives the mutex back.                  *)
LEMMA LockStep ==
  ASSUME Inv, go' = go, NEW i \in Conns, NEW r, Conn(r),
         conn' = [conn EXCEPT ![i] = r], r.ctx = conn[i].ctx,
         \/ /\ storeMu[conn[i].ctx] = None
            /\ storeMu' = [storeMu EXCEPT ![conn[i].ctx] = i]
         \/ /\ conn[i].pc \in InManager /\ r.pc \notin InManager
            /\ storeMu' = [storeMu EXCEPT ![conn[i].ctx] = None]
  PROVE  Inv'
<1>1. conn[i].ctx \in Ctxs
  BY DEF Inv, Types, Conn
<1>2. Types'
  BY <1>1 DEF Inv, Types, Conn
<1>3. ASSUME NEW j \in Conns, conn'[j].pc \in InManager
      PROVE  storeMu'[conn'[j].ctx] = j
  <2>1. CASE j = i
    BY <1>1, <1>3, <2>1 DEF Inv, Types
  <2>2. CASE j # i
    <3>1. conn'[j] = conn[j] /\ storeMu[conn[j].ctx] = j /\ conn[j].ctx \in Ctxs
      BY <1>3, <2>2 DEF Inv, Types, HoldsMutex, Conn
    <3>2. conn[j].ctx # conn[i].ctx
      BY <3>1, <2>2, ContextAssumption DEF Inv, HoldsMutex
    <3> QED
      BY <1>1, <3>1, <3>2 DEF Inv, Types
  <2> QED
    BY <2>1, <2>2
<1> QED
  BY <1>2, <1>3 DEF Inv, HoldsMutex

(* The handshake of one connection: its steps stay outside the calls of    *)
(* the manager (a), change nothing (b), stay in a call (c), leave one (d), *)
(* or take the mutex (e).                                                  *)
LEMMA HandshakeInv ==
  ASSUME Inv, NEW i \in Conns, Handshake(i)
  PROVE  Inv'
<1> DEFINE Only == /\ conn' = [conn EXCEPT ![i] = conn'[i]]
                   /\ Conn(conn'[i]) /\ go' = go
           Same == conn'[i].ctx = conn[i].ctx
           In   == conn[i].pc \in InManager
           Out  == conn'[i].pc \notin InManager
           Rest == storeMu' = storeMu
           Back == storeMu' = [storeMu EXCEPT ![conn[i].ctx] = None]
           Take == /\ storeMu[conn[i].ctx] = None
                   /\ storeMu' = [storeMu EXCEPT ![conn[i].ctx] = i]
<1>0. /\ Conn(conn[i]) /\ conn = [j \in Conns |-> conn[j]]
      /\ go \in [Ctxs -> Fields]
  BY DEF Inv, Types
<1>a. ASSUME Only, Out, Rest PROVE Inv'
  BY <1>0, <1>a, OneConnection
<1>b. ASSUME UNCHANGED <<conn, go, storeMu>> PROVE Inv'
  BY <1>b DEF Inv, Types, Conn, HoldsMutex
<1>c. ASSUME Only, Same, In, Rest PROVE Inv'
  BY <1>0, <1>c, OneConnection
<1>d. ASSUME Only, Same, In, Out, Back PROVE Inv'
  BY <1>0, <1>d, LockStep
<1>e. ASSUME Only, Same, Take PROVE Inv'
  BY <1>0, <1>e, LockStep
<1> HIDE DEF Only, Same, In, Out, Rest, Back, Take
<1>1. CASE NewConn(i)
  <2>1. Only /\ Out /\ Rest
    BY <1>0, <1>1, ZenonT(60) DEF NewConn, At, Frame, setterVars, Conn, Names, InManager,
       Only, Out, Rest
  <2> QED
    BY <2>1, <1>a
<1>2. CASE \E t \in tickets \cup {None} : Hello(i, t)
  <2>1. PICK t \in tickets \cup {None} : Hello(i, t)
    BY <1>2
  <2>2. Only /\ Out
    <3>1. /\ conn' = [conn EXCEPT ![i] = conn'[i]]
          /\ conn'[i].pc \in {"store", "sni"} /\ DOMAIN conn'[i] = Names
          /\ conn'[i].ctx = conn[i].ctx /\ conn'[i].own = conn[i].own
      BY <1>0, <2>1 DEF Hello, At, Conn, Names
    <3>2. conn'[i] = [n \in Names |-> conn'[i][n]]
      BY <1>0, <2>1 DEF Hello, At, Conn, Names
    <3> QED
      BY <1>0, <2>1, <3>1, <3>2
      DEF Hello, Only, Out, Conn, Frame, setterVars, InManager
  <2>3. Rest
    BY <2>1 DEF Hello, Rest, Frame
  <2> QED
    BY <2>2, <2>3, <1>a
<1>3. CASE ReadStore(i)
  <2>1. Only /\ Out /\ Rest
    BY <1>0, <1>3 DEF ReadStore, After, At, Frame, setterVars, Conn, Names,
       InManager, Only, Out, Rest
  <2> QED
    BY <2>1, <1>a
<1>4. CASE LockStore(i)
  <2>1. Only /\ Same /\ Take
    BY <1>0, <1>4 DEF LockStore, MuFree, At, Goto, Exit, setterVars, Conn,
       Names, Only, Same, Take
  <2> QED
    BY <2>1, <1>e
<1>5. CASE Lookup(i)
  <2>1. \/ Only /\ Same /\ In /\ Rest
        \/ Only /\ Same /\ In /\ Out /\ Back
    BY <1>0, <1>5 DEF Lookup, Unlock, At, Goto, setterVars, Conn, Names,
       InManager, Only, Same, In, Out, Rest, Back
  <2> QED
    BY <2>1, <1>c, <1>d
<1>6. CASE Expired(i)
  <2>1. \/ Only /\ Same /\ In /\ Rest
        \/ Only /\ Same /\ In /\ Out /\ Back
    BY <1>0, <1>6 DEF Expired, Unlock, At, Goto, setterVars, Conn, Names,
       InManager, Only, Same, In, Out, Rest, Back
  <2> QED
    BY <2>1, <1>c, <1>d
<1>7. CASE ShouldRenew(i)
  <2>1. Only /\ Same /\ In /\ Out /\ Back
    BY <1>0, <1>7 DEF ShouldRenew, Unlock, At, setterVars, Conn, Names,
       InManager, Only, Same, In, Out, Back
  <2> QED
    BY <2>1, <1>d
<1>8. CASE SniThunk(i)
  <2>1. \/ Only /\ Out /\ Rest
        \/ UNCHANGED <<conn, go, storeMu>>
    BY <1>0, <1>8 DEF SniThunk, Fields, At, Frame, Exit, setterVars, Conn,
       Names, InManager, Only, Out, Rest
  <2> QED
    BY <2>1, <1>a, <1>b
<1>9. CASE AlpnThunk(i)
  <2>1. \/ Only /\ Out /\ Rest
        \/ UNCHANGED <<conn, go, storeMu>>
    BY <1>0, <1>9 DEF AlpnThunk, At, Goto, Frame, Exit, setterVars, Conn,
       Names, InManager, Only, Out, Rest
  <2> QED
    BY <2>1, <1>a, <1>b
<1>10. CASE VerifyThunk(i)
  <2>1. CASE \E p \in {"issue", "failed"} : Goto(i, p)
    <3>1. Only /\ Out /\ Rest
      BY <1>0, <1>10, <2>1
      DEF VerifyThunk, Frame, setterVars, Goto, Conn, Names, InManager, Only,
          Out, Rest
    <3> QED
      BY <3>1, <1>a
  <2>2. CASE Exit(i)
    BY <1>10, <2>2, <1>b DEF VerifyThunk, Exit, Frame, setterVars
  <2> QED
    BY <1>10, <2>1, <2>2, Zenon DEF VerifyThunk
<1>11. CASE Issue(i)
  <2>1. Only /\ Out /\ Rest
    BY <1>0, <1>11 DEF Issue, At, Frame, setterVars, Conn, Names, InManager,
       Only, Out, Rest
  <2> QED
    BY <2>1, <1>a
<1>12. CASE Current(i)
  <2>1. \/ Only /\ Same /\ In /\ Rest
        \/ Only /\ Same /\ In /\ Out /\ Back
    BY <1>0, <1>12 DEF Current, Give, Unlock, At, Goto, setterVars, Conn,
       Names, InManager, Only, Same, In, Out, Rest, Back
  <2> QED
    BY <2>1, <1>c, <1>d
<1>13. CASE New(i)
  <2>1. Only /\ Same /\ In /\ Out /\ Back
    BY <1>0, <1>13 DEF New, Give, Unlock, At, Goto, setterVars, Conn, Names,
       InManager, Only, Same, In, Out, Back
  <2> QED
    BY <2>1, <1>d
<1> QED
  BY <1>1, <1>2, <1>3, <1>4, <1>5, <1>6, <1>7, <1>8, <1>9, <1>10,
     <1>11, <1>12, <1>13 DEF Handshake

LEMMA NextInv == Inv /\ [Next]_vars => Inv'
<1> SUFFICES ASSUME Inv, [Next]_vars PROVE Inv'
  OBVIOUS
<1>0. go \in [Ctxs -> Fields] /\ storeMu = [c \in Ctxs |-> storeMu[c]]
  BY DEF Inv, Types
<1>a. ASSUME UNCHANGED <<conn, storeMu>>, go' \in [Ctxs -> Fields] PROVE Inv'
  BY <1>a DEF Inv, Types, Conn, HoldsMutex
<1>1. CASE UNCHANGED vars
  BY <1>0, <1>1, <1>a DEF vars, setterVars
<1>2. CASE \E c \in Ctxs, cb \in Callbacks \cup {None} : SetVerify(c, cb)
  <2>1. PICK c \in Ctxs, cb \in Callbacks \cup {None} : SetVerify(c, cb)
    BY <1>2
  <2>2. go' \in [Ctxs -> Fields] /\ storeMu' = storeMu
    BY <1>0, <2>1 DEF SetVerify, Setter, SetField, Fields
  <2>3. conn' = [i \in Conns |-> conn'[i]]
    BY <2>1 DEF SetVerify
  <2>4. ASSUME NEW i \in Conns
        PROVE  /\ Conn(conn'[i]) /\ conn'[i].pc = conn[i].pc
               /\ conn'[i].ctx = conn[i].ctx
    BY <2>1, ZenonT(60) DEF SetVerify, Inv, Types, Conn, Names
  <2> QED
    BY <2>2, <2>3, <2>4 DEF Inv, Types, HoldsMutex
<1>3. CASE \E c \in Ctxs, d \in Ctxs \cup {"nil"} : SetTLSExtServernameCallback(c, d)
  BY <1>0, <1>3, <1>a, SMTT(30)
  DEF SetTLSExtServernameCallback, Setter, SetField, Fields
<1>4. CASE \E c \in Ctxs, l \in {"list", "empty"} : SetServerALPNProtos(c, l)
  BY <1>0, <1>4, <1>a, ZenonT(60) DEF SetServerALPNProtos, Setter, SetField, Fields
<1>5. CASE \E c \in Ctxs, m \in Managers \cup {None} : SetTicketStore(c, m)
  BY <1>0, <1>5, <1>a DEF SetTicketStore, Setter, SetField, Fields
<1>6. CASE SetterReturns
  BY <1>0, <1>6, <1>a DEF SetterReturns
<1>7. CASE \E m \in Managers :
             Rotate(m) \/ \E n \in DOMAIN keys[m] : Expire(m, n)
  BY <1>0, <1>7, <1>a DEF Rotate, Expire, setterVars
<1>8. CASE \E i \in Conns : Handshake(i)
  BY <1>8, HandshakeInv
<1>9. CASE \E i \in Conns, cb \in Callbacks : SslSetVerify(i, cb)
  <2>1. PICK i \in Conns, cb \in Callbacks : SslSetVerify(i, cb)
    BY <1>9
  <2>2. Conn(conn[i]) /\ conn = [j \in Conns |-> conn[j]]
    BY DEF Inv, Types
  <2>3. /\ conn' = [conn EXCEPT ![i] = conn'[i]] /\ Conn(conn'[i])
        /\ conn'[i].pc \notin InManager
    BY <2>1, <2>2 DEF SslSetVerify, At, Conn, Names, InManager
  <2> QED
    BY <1>0, <2>1, <2>3, OneConnection DEF SslSetVerify, InManager
<1>10. CASE Done
  BY <1>1, <1>10 DEF Done
<1> QED
  BY <1>1, <1>2, <1>3, <1>4, <1>5, <1>6, <1>7, <1>8, <1>9, <1>10 DEF Next

(* A handshake in a call of the key manager holds ticketStoreMu of the     *)
(* context in force (tickets.go:140).                                      *)
THEOREM MutexIsHeld == Spec => []Inv
<1>1. Init => Inv
  BY InitInv
<1>2. Inv /\ [Next]_vars => Inv'
  BY NextInv
<1> QED
  BY <1>1, <1>2, PTL DEF Spec

(* Calls to one manager are serialized among the handshakes that one       *)
(* context is in force for (tickets.go:140), not among all of them.        *)
THEOREM OneCallerHolds == Spec => []OneCallerPerContext
<1>1. Inv => OneCallerPerContext
  BY DEF Inv, HoldsMutex, OneCallerPerContext
<1> QED
  BY <1>1, MutexIsHeld, PTL

(***************************************************************************)
(* Types, in full.                                                         *)
(***************************************************************************)
States == {"live", "expired", "gone"}

ConnRec ==
  [pc : Pcs, own : Ctxs, ctx : Ctxs, hook : {"none", "ctx", "ssl"},
   sslCb : Callbacks \cup {None}, enc : BOOLEAN, ticket : Key \cup {None},
   seen : Managers \cup {None}, resumed : BOOLEAN, renew : BOOLEAN,
   issued : Key \cup {None}, refused : BOOLEAN, must : BOOLEAN,
   stale : BOOLEAN, behind : BOOLEAN]

Typed ==
  /\ TypeOK
  /\ keys \in [Managers -> Seq(States)]
  /\ conn \in [Conns -> ConnRec]

\* A handshake that got to the mutex found a store.
FoundStore(i) == conn[i].pc \in InManager \cup {"mutex"} => conn[i].seen # None

\* The initial states are typed.
LEMMA TypedInit == Init => Typed
<1> SUFFICES ASSUME Init PROVE Typed
  OBVIOUS
<1>1. ASSUME NEW i \in Conns
      PROVE  conn[i] \in ConnRec /\ conn[i].ticket = None
  <2>1. PICK c \in Ctxs : conn[i] = Fresh(c)
    BY DEF Init
  <2> QED
    BY <2>1 DEF Fresh, ConnRec, Pcs
<1>2. conn \in [Conns -> ConnRec]
  BY <1>1 DEF Init
<1>3. keys \in [Managers -> Seq(States)] /\ \A m \in Managers : Len(keys[m]) = 0
  BY DEF Init
<1>4. go \in [Ctxs -> Fields]
  BY InitInv DEF Inv, Types
<1>5. hooks \in [Ctxs -> SUBSET Hooks]
  BY DEF Init, HooksOf, Hooks
<1>6. storeMu \in [Ctxs -> Conns \cup {None}]
  BY DEF Init
<1>7. ASSUME NEW i \in Conns
      PROVE  /\ conn[i].pc \in Pcs /\ {conn[i].own, conn[i].ctx} \subseteq Ctxs
             /\ conn[i].hook \in {"none", "ctx", "ssl"}
             /\ conn[i].ticket \in tickets \cup {None}
             /\ conn[i].seen \in Managers \cup {None}
  BY <1>1 DEF ConnRec
<1>8. \A m \in Managers :
        /\ Len(keys[m]) <= MaxKeys
        /\ \A n \in DOMAIN keys[m] : keys[m][n] \in States
  BY <1>3, ContextAssumption
<1>9. /\ app \in Setting \cup {None} /\ sets \in 0..MaxSets /\ moved \in BOOLEAN
      /\ exited \in Conns \cup {None} /\ tickets \subseteq Key
  <2>1. /\ app = None /\ sets = 0 /\ moved = FALSE /\ exited = None
        /\ tickets = {}
    BY DEF Init
  <2>2. 0 \in 0..MaxSets
    BY ContextAssumption
  <2> QED
    BY <2>1, <2>2
<1> QED
  BY <1>2, <1>3, <1>4, <1>5, <1>6, <1>7, <1>8, <1>9 DEF Typed, TypeOK, States

\* The types that a step of one connection keeps, given those of what it
\* changes.
LEMMA OneTyped ==
  ASSUME Typed, UNCHANGED <<go, hooks, app, moved>>, sets' \in 0..MaxSets,
         exited' \in Conns \cup {None}, storeMu' \in [Ctxs -> Conns \cup {None}],
         keys' \in [Managers -> Seq(States)],
         \A m \in Managers : Len(keys'[m]) <= MaxKeys,
         tickets \subseteq tickets', tickets' \subseteq Key,
         NEW i \in Conns, conn' = [conn EXCEPT ![i] = conn'[i]],
         conn'[i] \in ConnRec, conn'[i].ticket \in tickets \cup {None}
  PROVE  Typed'
<1>1. conn' \in [Conns -> ConnRec]
  BY DEF Typed
<1>2. ASSUME NEW j \in Conns
      PROVE  /\ conn'[j].pc \in Pcs /\ {conn'[j].own, conn'[j].ctx} \subseteq Ctxs
             /\ conn'[j].hook \in {"none", "ctx", "ssl"}
             /\ conn'[j].ticket \in tickets' \cup {None}
             /\ conn'[j].seen \in Managers \cup {None}
  <2>1. conn'[j] \in ConnRec
    BY <1>1
  <2>2. conn'[j].ticket \in tickets \cup {None}
    <3>1. CASE j = i
      BY <3>1
    <3>2. CASE j # i
      <4>1. conn'[j] = conn[j]
        BY <3>2 DEF Typed
      <4> QED
        BY <4>1 DEF Typed, TypeOK
    <3> QED
      BY <3>1, <3>2
  <2> QED
    BY <2>1, <2>2 DEF ConnRec
<1>3. ASSUME NEW m \in Managers, NEW n \in DOMAIN keys'[m]
      PROVE  keys'[m][n] \in States
  BY <1>3
<1> QED
  BY <1>1, <1>2, <1>3 DEF Typed, TypeOK, States

\* The fields of a connection, one by one.
LEMMA ConnFields ==
  ASSUME NEW r \in ConnRec
  PROVE  /\ r.pc \in Pcs /\ r.own \in Ctxs /\ r.ctx \in Ctxs
         /\ r.hook \in {"none", "ctx", "ssl"}
         /\ r.sslCb \in Callbacks \cup {None} /\ r.enc \in BOOLEAN
         /\ r.ticket \in Key \cup {None} /\ r.seen \in Managers \cup {None}
         /\ r.resumed \in BOOLEAN /\ r.renew \in BOOLEAN
         /\ r.issued \in Key \cup {None} /\ r.refused \in BOOLEAN
         /\ r.must \in BOOLEAN /\ r.stale \in BOOLEAN /\ r.behind \in BOOLEAN
BY DEF ConnRec

(* The types of what one handshake step writes in its own connection.      *)
LEMMA HandshakeTyped ==
  ASSUME Typed, NEW i \in Conns, FoundStore(i), Handshake(i)
  PROVE  /\ conn' = [conn EXCEPT ![i] = conn'[i]]
         /\ conn'[i] \in ConnRec /\ conn'[i].ticket \in tickets \cup {None}
<1> DEFINE Goal == /\ conn' = [conn EXCEPT ![i] = conn'[i]]
                   /\ conn'[i] \in ConnRec
                   /\ conn'[i].ticket \in tickets \cup {None}
<1>0. /\ conn \in [Conns -> ConnRec] /\ conn[i] \in ConnRec
      /\ conn[i].ticket \in tickets \cup {None}
      /\ go \in [Ctxs -> Fields] /\ conn[i].own \in Ctxs
      /\ conn[i].ctx \in Ctxs
  BY ConnFields DEF Typed, TypeOK
<1>a. ASSUME NEW p \in Pcs, Goto(i, p) PROVE Goal
  BY <1>0, <1>a DEF Goto, ConnRec
<1>b. ASSUME conn' = conn PROVE Goal
  BY <1>0, <1>b
<1>1. CASE NewConn(i)
  BY <1>0, <1>1, ZenonT(60) DEF NewConn, At, ConnRec, Pcs
<1>2. CASE \E t \in tickets \cup {None} : Hello(i, t)
  BY <1>0, <1>2 DEF Hello, At, ConnRec, Pcs, Typed, TypeOK
<1>3. CASE ReadStore(i)
  BY <1>0, <1>3 DEF ReadStore, After, InForce, At, ConnRec, Pcs, Fields
<1>4. CASE LockStore(i)
  BY <1>a, <1>b, <1>4 DEF LockStore, Exit, Pcs
<1>5. CASE Lookup(i)
  BY <1>a, <1>5 DEF Lookup, Pcs
<1>6. CASE Expired(i)
  BY <1>a, <1>6 DEF Expired, Pcs
<1>7. CASE ShouldRenew(i)
  <2>1. Answer(i).resumed \in BOOLEAN /\ Answer(i).renew \in BOOLEAN
    BY DEF Answer
  <2>2. (~Answer(i).resumed) \in BOOLEAN
    OBVIOUS
  <2> DEFINE a == Answer(i)
  <2> HIDE DEF a
  <2>3. /\ conn' = [conn EXCEPT ![i].pc = "sni", ![i].resumed = a.resumed,
                                ![i].renew = a.renew, ![i].refused = ~a.resumed]
        /\ a.resumed \in BOOLEAN /\ a.renew \in BOOLEAN
        /\ (~a.resumed) \in BOOLEAN
    BY <1>7, <2>1, <2>2 DEF ShouldRenew, a
  <2> QED
    BY <1>0, <2>3, ZenonT(60) DEF ConnRec, Pcs
<1>8. CASE SniThunk(i)
  BY <1>0, <1>b, <1>8 DEF SniThunk, Exit, At, ConnRec, Pcs, Fields
<1>9. CASE AlpnThunk(i)
  <2>1. (\E p \in Pcs : Goto(i, p)) \/ conn' = conn
    BY <1>9 DEF AlpnThunk, Exit, Pcs
  <2> QED
    BY <1>a, <1>b, <2>1
<1>10. CASE VerifyThunk(i)
  <2>1. (\E p \in Pcs : Goto(i, p)) \/ conn' = conn
    BY <1>10 DEF VerifyThunk, Exit, Pcs
  <2> QED
    BY <1>a, <1>b, <2>1
<1>11. CASE Issue(i)
  BY <1>0, <1>11 DEF Issue, At, ConnRec, Pcs
<1>c. ASSUME conn[i].pc \in InManager, NEW n \in 1..MaxKeys, Give(i, n) PROVE Goal
  <2>1. KeyName(i, n) \in Key
    BY <1>0, <1>c, ConnFields DEF KeyName, Store, FoundStore, Key
  <2>2. conn' = [conn EXCEPT ![i].pc = "done", ![i].issued = KeyName(i, n)]
    BY <1>c DEF Give
  <2> QED
    BY <1>0, <2>1, <2>2 DEF ConnRec, Pcs
<1>d. ASSUME conn[i].pc \in InManager
      PROVE  /\ Store(i) \in Managers /\ Newest(Store(i)) \in Nat
             /\ Newest(Store(i)) <= MaxKeys
  <2>1. Store(i) \in Managers
    BY <1>0, <1>d, ConnFields DEF Store, FoundStore
  <2>2. /\ keys[Store(i)] \in Seq(States)
        /\ \A m \in Managers : Len(keys[m]) <= MaxKeys
    BY <2>1 DEF Typed, TypeOK
  <2>3. Len(keys[Store(i)]) \in Nat
    BY <2>2, LenProperties
  <2> QED
    BY <2>1, <2>2, <2>3 DEF Newest
<1>12. CASE Current(i)
  <2>0. conn[i].pc \in InManager /\ MaxKeys \in Nat
    BY <1>12, ContextAssumption DEF Current, At, InManager
  <2>1. Goto(i, "new") \/ \E n \in 1..MaxKeys : Give(i, n)
    BY <1>12, <1>d, <2>0 DEF Current
  <2> QED
    BY <1>a, <1>c, <2>0, <2>1 DEF Pcs
<1>13. CASE New(i)
  <2>0. conn[i].pc \in InManager /\ MaxKeys \in Nat
    BY <1>13, ContextAssumption DEF New, At, InManager
  <2>1. Goto(i, "done") \/ \E n \in 1..MaxKeys : Give(i, n)
    <3>1. Goto(i, "done") \/ (Newest(Store(i)) < MaxKeys /\ Give(i, Newest(Store(i)) + 1))
      BY <1>13 DEF New
    <3>2. Newest(Store(i)) < MaxKeys => Newest(Store(i)) + 1 \in 1..MaxKeys
      BY <1>d, <2>0
    <3> QED
      BY <3>1, <3>2
  <2> QED
    BY <1>a, <1>c, <2>0, <2>1 DEF Pcs
<1> QED
  BY <1>1, <1>2, <1>3, <1>4, <1>5, <1>6, <1>7, <1>8, <1>9, <1>10,
     <1>11, <1>12, <1>13 DEF Handshake

(***************************************************************************)
(* Keys only grow older.                                                   *)
(***************************************************************************)
KeysOK ==
  /\ keys \in [Managers -> Seq(States)]
  /\ \A m \in Managers : Len(keys[m]) \in Nat /\ Len(keys[m]) <= MaxKeys

Older ==
  \A m \in Managers :
    /\ Len(keys[m]) <= Len(keys'[m])
    /\ \A n \in 1..Len(keys[m]) : keys[m][n] # "live" => keys'[m][n] # "live"

\* The keys of a typed state.
LEMMA TypedKeys ==
  ASSUME Typed
  PROVE  KeysOK
BY LenProperties DEF Typed, TypeOK, KeysOK

\* The steps that leave the keys alone, make one, and age one.
LEMMA SameKeys ==
  ASSUME KeysOK, UNCHANGED keys
  PROVE  KeysOK' /\ Older
BY DEF KeysOK, Older

LEMMA OneMoreKey ==
  ASSUME KeysOK, NEW m \in Managers, Newest(m) < MaxKeys,
         keys' = [keys EXCEPT ![m] = Append(@, "live")]
  PROVE  KeysOK' /\ Older
<1>1. /\ keys[m] \in Seq(States) /\ Len(keys[m]) \in Nat
      /\ Len(keys[m]) < MaxKeys /\ "live" \in States /\ MaxKeys \in Nat
  BY ContextAssumption DEF KeysOK, Newest, States
<1>2. /\ keys' \in [Managers -> Seq(States)]
      /\ keys'[m] = Append(keys[m], "live")
      /\ \A o \in Managers : o # m => keys'[o] = keys[o]
  BY <1>1 DEF KeysOK
<1>3. /\ Len(keys'[m]) = Len(keys[m]) + 1
      /\ \A n \in 1..Len(keys[m]) : keys'[m][n] = keys[m][n]
  BY <1>1, <1>2, AppendProperties
<1>4. ASSUME NEW o \in Managers
      PROVE  /\ Len(keys'[o]) \in Nat /\ Len(keys'[o]) <= MaxKeys
             /\ Len(keys[o]) <= Len(keys'[o])
             /\ \A n \in 1..Len(keys[o]) : keys'[o][n] = keys[o][n]
  <2>1. CASE o = m
    BY <1>1, <1>3, <2>1
  <2>2. CASE o # m
    BY <1>2, <2>2 DEF KeysOK
  <2> QED
    BY <2>1, <2>2
<1> QED
  BY <1>2, <1>4 DEF KeysOK, Older

LEMMA OneOlderKey ==
  ASSUME KeysOK, NEW m \in Managers, NEW n \in DOMAIN keys[m],
         keys[m][n] # "gone",
         keys' = [keys EXCEPT
           ![m][n] = IF @ = "live" THEN "expired" ELSE "gone"]
  PROVE  KeysOK' /\ Older
<1> DEFINE s == IF keys[m][n] = "live" THEN "expired" ELSE "gone"
<1>1. /\ keys[m] \in Seq(States) /\ Len(keys[m]) \in Nat
      /\ n \in 1..Len(keys[m]) /\ s \in States
  BY LenProperties DEF KeysOK, States
<1>2. /\ keys' \in [Managers -> Seq(States)]
      /\ keys'[m] = [keys[m] EXCEPT ![n] = s]
      /\ \A o \in Managers : o # m => keys'[o] = keys[o]
  <2>1. keys' = [keys EXCEPT ![m] = [keys[m] EXCEPT ![n] = s]]
    BY <1>1 DEF KeysOK
  <2>2. [keys[m] EXCEPT ![n] = s] \in Seq(States)
    BY <1>1, ExceptSeq
  <2> QED
    BY <2>1, <2>2 DEF KeysOK
<1>3. /\ Len(keys'[m]) = Len(keys[m])
      /\ \A k \in 1..Len(keys[m]) : keys'[m][k] = IF k = n THEN s ELSE keys[m][k]
  <2> HIDE DEF s
  <2> QED
    BY <1>1, <1>2, ExceptSeq
<1>4. ASSUME NEW o \in Managers
      PROVE  /\ Len(keys'[o]) \in Nat /\ Len(keys'[o]) <= MaxKeys
             /\ Len(keys[o]) <= Len(keys'[o])
             /\ \A k \in 1..Len(keys[o]) : keys[o][k] # "live" => keys'[o][k] # "live"
  <2>1. CASE o = m
    BY <1>1, <1>3, <2>1 DEF KeysOK
  <2>2. CASE o # m
    BY <1>2, <2>2 DEF KeysOK
  <2> QED
    BY <2>1, <2>2
<1> QED
  BY <1>2, <1>4 DEF KeysOK, Older

\* A call of the manager has one to call.
LEMMA StoreFound ==
  ASSUME Typed, NEW i \in Conns, FoundStore(i), conn[i].pc \in InManager
  PROVE  /\ Store(i) \in Managers /\ Newest(Store(i)) \in Nat
         /\ Newest(Store(i)) <= MaxKeys
<1>1. Store(i) \in Managers
  <2>1. conn[i] \in ConnRec
    BY DEF Typed
  <2> QED
    BY <2>1, ConnFields DEF Store, FoundStore
<1> QED
  BY <1>1, TypedKeys DEF KeysOK, Newest

\* No step makes a key live again or takes one away.
LEMMA KeysStep ==
  ASSUME Typed, \A i \in Conns : FoundStore(i), [Next]_vars
  PROVE  KeysOK' /\ Older
<1>0. KeysOK
  BY TypedKeys
<1>1. ASSUME NEW m \in Managers,
             Rotate(m) \/ \E n \in DOMAIN keys[m] : Expire(m, n)
      PROVE  KeysOK' /\ Older
  BY <1>0, <1>1, OneMoreKey, OneOlderKey DEF Rotate, Expire
<1>2. ASSUME NEW i \in Conns, New(i) PROVE KeysOK' /\ Older
  <2>1. Store(i) \in Managers
    BY <1>2, StoreFound, SMTT(30) DEF New, At, InManager
  <2> QED
    BY <1>0, <1>2, <2>1, OneMoreKey, SameKeys DEF New
<1>3. ASSUME NEW i \in Conns,
             \/ NewConn(i) \/ \E t \in tickets \cup {None} : Hello(i, t)
             \/ ReadStore(i) \/ LockStore(i) \/ Lookup(i) \/ Expired(i)
             \/ ShouldRenew(i) \/ SniThunk(i) \/ AlpnThunk(i)
             \/ VerifyThunk(i) \/ Issue(i) \/ Current(i)
             \/ \E cb \in Callbacks : SslSetVerify(i, cb)
      PROVE  UNCHANGED keys
  BY <1>3 DEF NewConn, Hello, ReadStore, LockStore, Lookup, Expired,
    ShouldRenew, SniThunk, AlpnThunk, VerifyThunk, Issue, Current,
    SslSetVerify, Frame
<1>4. ASSUME NEW c \in Ctxs,
             \/ \E cb \in Callbacks \cup {None} : SetVerify(c, cb)
             \/ \E d \in Ctxs \cup {"nil"} : SetTLSExtServernameCallback(c, d)
             \/ \E l \in {"list", "empty"} : SetServerALPNProtos(c, l)
             \/ \E m \in Managers \cup {None} : SetTicketStore(c, m)
      PROVE  UNCHANGED keys
  BY <1>4 DEF SetVerify, SetTLSExtServernameCallback, SetServerALPNProtos,
    SetTicketStore, Setter
<1>5. SetterReturns \/ Done \/ UNCHANGED vars => UNCHANGED keys
  BY DEF SetterReturns, Done, vars
<1> QED
  BY <1>0, <1>1, <1>2, <1>3, <1>4, <1>5, SameKeys DEF Next, Handshake

\* A ticket under a key that the manager has is a ticket.
LEMMA AddTicket ==
  ASSUME Typed, KeysOK', NEW i \in Conns, NEW n \in Nat \ {0}, Give(i, n),
         Store(i) \in Managers, n <= Len(keys'[Store(i)])
  PROVE  /\ KeyName(i, n) \in Key
         /\ tickets' = tickets \cup {KeyName(i, n)}
         /\ tickets \subseteq tickets' /\ tickets' \subseteq Key
<1>1. KeyName(i, n) \in Key
  <2>1. Len(keys'[Store(i)]) \in Nat /\ Len(keys'[Store(i)]) <= MaxKeys
    BY DEF KeysOK
  <2>2. n \in 1..MaxKeys
    BY <2>1, ContextAssumption
  <2> QED
    BY <2>2 DEF KeyName, Key
<1>2. tickets \subseteq Key
  BY DEF Typed, TypeOK
<1> QED
  BY <1>1, <1>2 DEF Give

\* What a handshake step does to the rest of the state: the setters' part is
\* left alone, and a new ticket is under a key that the manager has.
LEMMA HandshakeRest ==
  ASSUME Typed, NEW i \in Conns, FoundStore(i), KeysOK', Older, Handshake(i)
  PROVE  /\ UNCHANGED setterVars /\ exited = None /\ exited' \in Conns \cup {None}
         /\ storeMu' \in [Ctxs -> Conns \cup {None}]
         /\ tickets \subseteq tickets' /\ tickets' \subseteq Key
         /\ \A t \in tickets' \ tickets :
              t.mgr = conn[i].seen /\ t.nr <= Newest(t.mgr)'
<1> DEFINE Rest == /\ UNCHANGED setterVars /\ exited = None /\ exited' \in Conns \cup {None}
                   /\ storeMu' \in [Ctxs -> Conns \cup {None}]
           Added == /\ tickets \subseteq tickets' /\ tickets' \subseteq Key
                    /\ \A t \in tickets' \ tickets :
                         /\ t.mgr = conn[i].seen
                         /\ t.nr <= Newest(t.mgr)'
<1>0. /\ storeMu \in [Ctxs -> Conns \cup {None}] /\ exited \in Conns \cup {None}
      /\ tickets \subseteq Key
  BY DEF Typed, TypeOK
<1>a. Unlock(i) => storeMu' \in [Ctxs -> Conns \cup {None}]
  BY <1>0 DEF Unlock
<1>b. UNCHANGED tickets => Added
  BY <1>0
<1>c. ASSUME NEW n \in Nat \ {0}, Give(i, n), Store(i) \in Managers,
             n <= Len(keys'[Store(i)])
      PROVE  Added
  <2>1. ASSUME NEW t \in tickets' \ tickets
        PROVE  t.mgr = conn[i].seen /\ t.nr <= Newest(t.mgr)'
    <3>1. t = KeyName(i, n)
      BY <1>c, <2>1, AddTicket
    <3>2. t.mgr = Store(i) /\ t.nr = n
      BY <3>1 DEF KeyName
    <3>3. Newest(t.mgr)' = Len(keys'[Store(i)])
      BY <3>2 DEF Newest
    <3> QED
      BY <1>c, <3>2, <3>3 DEF Store
  <2> QED
    BY <1>c, <2>1, AddTicket
<1> HIDE DEF Added
<1>1. CASE \/ NewConn(i) \/ \E t \in tickets \cup {None} : Hello(i, t)
           \/ ReadStore(i) \/ SniThunk(i) \/ AlpnThunk(i)
           \/ VerifyThunk(i) \/ Issue(i)
  <2>1. Rest /\ UNCHANGED tickets
    BY <1>0, <1>1 DEF NewConn, Hello, ReadStore, SniThunk, AlpnThunk,
      VerifyThunk, Issue, Frame, At, Exit
  <2> QED
    BY <2>1, <1>b DEF Added
<1>2. CASE LockStore(i) \/ Lookup(i) \/ Expired(i) \/ ShouldRenew(i)
  <2>1. Rest /\ UNCHANGED tickets
    BY <1>0, <1>a, <1>2 DEF LockStore, Lookup, Expired, ShouldRenew, At, Exit
  <2> QED
    BY <2>1, <1>b DEF Added
<1>3. CASE Current(i)
  <2>0. conn[i].pc \in InManager
    BY <1>3 DEF Current, At, InManager
  <2>1. Store(i) \in Managers /\ Newest(Store(i)) \in Nat
    BY <2>0, StoreFound
  <2>2. Rest
    BY <1>0, <1>a, <1>3 DEF Current, At, Give
  <2>3. CASE UNCHANGED tickets
    BY <2>2, <2>3, <1>b DEF Added
  <2>4. CASE Give(i, Newest(Store(i))) /\ Newest(Store(i)) > 0
    <3>1. Newest(Store(i)) <= Len(keys'[Store(i)])
      BY <1>3, <2>1 DEF Current, Newest
    <3> QED
      BY <2>1, <2>2, <2>4, <3>1, <1>c DEF Added
  <2> QED
    BY <1>3, <2>3, <2>4 DEF Current
<1>4. CASE New(i)
  <2>0. conn[i].pc \in InManager
    BY <1>4 DEF New, At, InManager
  <2>1. Store(i) \in Managers /\ Newest(Store(i)) \in Nat
    BY <2>0, StoreFound
  <2>2. Rest
    BY <1>0, <1>a, <1>4 DEF New, At, Give
  <2>3. CASE UNCHANGED tickets
    BY <2>2, <2>3, <1>b DEF Added
  <2>4. CASE Give(i, Newest(Store(i)) + 1)
             /\ keys' = [keys EXCEPT ![Store(i)] = Append(@, "live")]
    <3>1. keys[Store(i)] \in Seq(States) /\ "live" \in States
      BY <2>1 DEF Typed, States
    <3>2. Len(keys'[Store(i)]) = Newest(Store(i)) + 1
      BY <2>1, <2>4, <3>1, AppendProperties DEF Typed, Newest
    <3> QED
      BY <2>1, <2>2, <2>4, <3>2, <1>c DEF Added
  <2> QED
    BY <1>4, <2>3, <2>4 DEF New
<1> QED
  BY <1>1, <1>2, <1>3, <1>4 DEF Handshake

\* The same for a step that leaves all connections alone.
LEMMA NoneTyped ==
  ASSUME Typed, UNCHANGED <<conn, tickets, storeMu, exited>>,
         go' \in [Ctxs -> Fields], hooks' \in [Ctxs -> SUBSET Hooks],
         app' \in Setting \cup {None}, sets' \in 0..MaxSets,
         moved' \in BOOLEAN, KeysOK'
  PROVE  Typed'
<1>1. ASSUME NEW m \in Managers, NEW n \in DOMAIN keys'[m]
      PROVE  keys'[m][n] \in States
  BY <1>1 DEF KeysOK
<1> QED
  BY <1>1 DEF Typed, TypeOK, KeysOK, States

\* Every step keeps the types.
LEMMA TypedStep ==
  ASSUME Typed, \A i \in Conns : FoundStore(i), [Next]_vars
  PROVE  Typed'
<1>0. /\ KeysOK /\ KeysOK' /\ Older
      /\ go \in [Ctxs -> Fields] /\ hooks \in [Ctxs -> SUBSET Hooks]
      /\ app \in Setting \cup {None} /\ sets \in 0..MaxSets
      /\ moved \in BOOLEAN /\ exited \in Conns \cup {None}
      /\ conn \in [Conns -> ConnRec] /\ MaxSets \in Nat
      /\ storeMu \in [Ctxs -> Conns \cup {None}] /\ tickets \subseteq Key
  BY KeysStep, TypedKeys, ContextAssumption DEF Typed, TypeOK
<1>a. ASSUME NEW c \in Ctxs, NEW h \in Hooks, NEW on \in BOOLEAN,
             NEW f \in Fields, Setter(c, h, on, f)
      PROVE  /\ go' \in [Ctxs -> Fields] /\ hooks' \in [Ctxs -> SUBSET Hooks]
             /\ app' \in Setting \cup {None} /\ sets' \in 0..MaxSets
             /\ UNCHANGED <<tickets, storeMu, exited>>
  BY <1>0, <1>a DEF Setter, SetField, Setting
<1>b. \A c \in Ctxs : go[c] \in Fields
  BY <1>0
<1>1. CASE UNCHANGED vars
  BY <1>0, <1>1, NoneTyped DEF vars, setterVars
<1>2. ASSUME NEW c \in Ctxs, NEW cb \in Callbacks \cup {None}, SetVerify(c, cb)
      PROVE  Typed'
  <2>1. [go[c] EXCEPT !.verify = cb] \in Fields /\ (cb # None) \in BOOLEAN
    BY <1>b DEF Fields
  <2>2. /\ go' \in [Ctxs -> Fields] /\ hooks' \in [Ctxs -> SUBSET Hooks]
        /\ app' \in Setting \cup {None} /\ sets' \in 0..MaxSets
        /\ UNCHANGED <<tickets, storeMu, exited>> /\ moved' = moved
    BY <1>2, <1>a, <2>1 DEF SetVerify, Hooks
  <2>3. ASSUME NEW i \in Conns
        PROVE  conn'[i] \in ConnRec /\ conn'[i].ticket = conn[i].ticket
    <3>1. conn'[i] = [conn[i] EXCEPT !.must = @ /\ c # conn[i].ctx]
      BY <1>2 DEF SetVerify
    <3>2. conn[i] \in ConnRec
      BY <1>0
    <3>3. (conn[i].must /\ c # conn[i].ctx) \in BOOLEAN
      OBVIOUS
    <3> QED
      BY <3>1, <3>2, <3>3 DEF ConnRec
  <2>4. conn' \in [Conns -> ConnRec]
    BY <1>2, <2>3 DEF SetVerify
  <2>5. ASSUME NEW j \in Conns
        PROVE  /\ conn'[j].pc \in Pcs /\ {conn'[j].own, conn'[j].ctx} \subseteq Ctxs
               /\ conn'[j].hook \in {"none", "ctx", "ssl"}
               /\ conn'[j].ticket \in tickets \cup {None}
               /\ conn'[j].seen \in Managers \cup {None}
    <3>1. conn'[j].ticket \in tickets \cup {None}
      BY <2>3 DEF Typed, TypeOK
    <3> QED
      BY <2>3, <3>1, ConnFields
  <2>6. UNCHANGED keys
    BY <1>2 DEF SetVerify, Setter
  <2> QED
    BY <1>0, <2>2, <2>4, <2>5, <2>6 DEF Typed, TypeOK
<1>3. ASSUME NEW c \in Ctxs, NEW d \in Ctxs \cup {"nil"},
             SetTLSExtServernameCallback(c, d)
      PROVE  Typed'
  <2>1. [go[c] EXCEPT !.sni = d] \in Fields
    BY <1>b DEF Fields
  <2> QED
    BY <1>0, <1>3, <1>a, <2>1, NoneTyped
    DEF SetTLSExtServernameCallback, Setter, Hooks
<1>4. ASSUME NEW c \in Ctxs, NEW l \in {"list", "empty"},
             SetServerALPNProtos(c, l)
      PROVE  Typed'
  <2>1. [go[c] EXCEPT !.alpn = l] \in Fields
    BY <1>b DEF Fields
  <2> QED
    BY <1>0, <1>4, <1>a, <2>1, NoneTyped DEF SetServerALPNProtos, Setter, Hooks
<1>5. ASSUME NEW c \in Ctxs, NEW m \in Managers \cup {None}, SetTicketStore(c, m)
      PROVE  Typed'
  <2>1. [go[c] EXCEPT !.store = m] \in Fields /\ (m # None) \in BOOLEAN
    BY <1>b DEF Fields
  <2> QED
    BY <1>0, <1>5, <1>a, <2>1, NoneTyped DEF SetTicketStore, Setter, Hooks
<1>6. CASE SetterReturns
  <2>1. app.ctx \in Ctxs /\ app.hook \in Hooks
    BY <1>0, <1>6 DEF SetterReturns, Setting
  <2>2. hooks' \in [Ctxs -> SUBSET Hooks]
    BY <1>0, <1>6, <2>1 DEF SetterReturns, Register
  <2> QED
    BY <1>0, <1>6, <2>2, NoneTyped DEF SetterReturns
<1>7. ASSUME NEW m \in Managers,
             Rotate(m) \/ \E n \in DOMAIN keys[m] : Expire(m, n)
      PROVE  Typed'
  BY <1>0, <1>7, NoneTyped DEF Rotate, Expire, setterVars
<1>8. ASSUME NEW i \in Conns, Handshake(i) PROVE Typed'
  <2>1. /\ UNCHANGED <<go, hooks, app, moved>> /\ sets' \in 0..MaxSets
        /\ exited' \in Conns \cup {None} /\ storeMu' \in [Ctxs -> Conns \cup {None}]
        /\ tickets \subseteq tickets' /\ tickets' \subseteq Key
    BY <1>0, <1>8, HandshakeRest DEF setterVars
  <2>2. /\ conn' = [conn EXCEPT ![i] = conn'[i]]
        /\ conn'[i] \in ConnRec /\ conn'[i].ticket \in tickets \cup {None}
    BY <1>8, HandshakeTyped
  <2>3. /\ keys' \in [Managers -> Seq(States)]
        /\ \A m \in Managers : Len(keys'[m]) <= MaxKeys
    BY <1>0 DEF KeysOK
  <2> QED
    BY <2>1, <2>2, <2>3, OneTyped
<1>9. ASSUME NEW i \in Conns, NEW cb \in Callbacks, SslSetVerify(i, cb)
      PROVE  Typed'
  <2>1. /\ UNCHANGED <<go, hooks, app, moved>> /\ sets' \in 0..MaxSets
        /\ exited' \in Conns \cup {None} /\ storeMu' \in [Ctxs -> Conns \cup {None}]
        /\ tickets \subseteq tickets' /\ tickets' \subseteq Key
    BY <1>0, <1>9 DEF SslSetVerify
  <2>2. conn' = [conn EXCEPT ![i] = conn'[i]] /\ conn'[i] \in ConnRec
    <3>1. conn[i] \in ConnRec
      BY <1>0
    <3>2. conn' = [conn EXCEPT ![i] = [conn[i] EXCEPT
                    !.sslCb = cb, !.hook = "ssl", !.must = FALSE]]
      BY <1>0, <1>9, <3>1 DEF SslSetVerify, ConnRec
    <3>3. [conn[i] EXCEPT !.sslCb = cb, !.hook = "ssl", !.must = FALSE] \in ConnRec
      BY <3>1 DEF ConnRec
    <3> QED
      BY <1>0, <3>2, <3>3
  <2>3. conn'[i].ticket \in tickets \cup {None}
    BY <1>0, <1>9 DEF SslSetVerify, Typed, TypeOK, ConnRec
  <2>4. /\ keys' \in [Managers -> Seq(States)]
        /\ \A m \in Managers : Len(keys'[m]) <= MaxKeys
    BY <1>0 DEF KeysOK
  <2> QED
    BY <2>1, <2>2, <2>3, <2>4, OneTyped
<1>10. CASE Done
  BY <1>1, <1>10 DEF Done
<1> QED
  BY <1>1, <1>2, <1>3, <1>4, <1>5, <1>6, <1>7, <1>8, <1>9, <1>10 DEF Next

(***************************************************************************)
(* The setters.                                                            *)
(***************************************************************************)
\* What is registered has its field set: a setter writes the field first, and
\* the fields of the SNI and the ALPN callback are never reset.
SettersInv ==
  /\ \A c \in Ctxs : /\ "sni" \in hooks[c] => go[c].sni # None
                     /\ "alpn" \in hooks[c] => go[c].alpn # "none"
  /\ app # None =>
       /\ app.hook = "sni" => app.on /\ go[app.ctx].sni # None
       /\ app.hook = "alpn" => app.on /\ go[app.ctx].alpn # "none"
       /\ app.hook = "verify" => (app.on <=> go[app.ctx].verify # None)
       /\ app.hook = "ticket" => moved
  /\ \A c \in Ctxs :
       \/ app # None /\ app.ctx = c /\ app.hook = "verify"
       \/ go[c].verify # None <=> "verify" \in hooks[c]

\* A program that configured everything before the first handshake.
LEMMA SettersInit == Init => SettersInv
<1> SUFFICES ASSUME Init PROVE SettersInv
  OBVIOUS
<1>1. /\ app = None /\ go \in Configs
      /\ hooks = [c \in Ctxs |-> HooksOf(go[c])]
  BY DEF Init
<1> QED
  BY <1>1 DEF SettersInv, HooksOf

\* A setter writes its own field and no other.
LEMMA SetterKeeps ==
  ASSUME Typed, SettersInv, NEW c \in Ctxs, NEW h \in Hooks,
         NEW on \in BOOLEAN, NEW f \in Fields, Setter(c, h, on, f),
         IF h = "sni" THEN on /\ f.sni # None ELSE f.sni = go[c].sni,
         IF h = "alpn" THEN on /\ f.alpn # "none" ELSE f.alpn = go[c].alpn,
         IF h = "verify" THEN on <=> f.verify # None
                         ELSE f.verify = go[c].verify,
         IF h = "ticket" THEN moved' ELSE UNCHANGED moved
  PROVE  SettersInv'
<1>0. go \in [Ctxs -> Fields]
  BY DEF Typed, TypeOK
<1>1. /\ app = None /\ app' = [ctx |-> c, hook |-> h, on |-> on]
      /\ go' = [go EXCEPT ![c] = f] /\ hooks' = hooks
      /\ app' \in Setting
  BY DEF Setter, SetField, Setting
<1>2. app' # None
  BY <1>1, ContextAssumption
<1>3. ASSUME NEW d \in Ctxs
      PROVE  /\ "sni" \in hooks'[d] => go'[d].sni # None
             /\ "alpn" \in hooks'[d] => go'[d].alpn # "none"
             /\ \/ app'.ctx = d /\ app'.hook = "verify"
                \/ go'[d].verify # None <=> "verify" \in hooks'[d]
  <2>1. CASE d = c
    <3>1. go'[d] = f
      BY <1>0, <1>1, <2>1
    <3> QED
      BY <1>1, <2>1, <3>1 DEF SettersInv
  <2>2. CASE d # c
    <3>1. go'[d] = go[d]
      BY <1>0, <1>1, <2>2
    <3> QED
      BY <1>1, <3>1 DEF SettersInv
  <2> QED
    BY <2>1, <2>2
<1>4. go'[app'.ctx] = f
  BY <1>0, <1>1
<1> QED
  BY <1>1, <1>2, <1>3, <1>4 DEF SettersInv

\* What a step other than the setters' leaves alone.
LEMMA NotASetter ==
  ASSUME Typed, \A i \in Conns : FoundStore(i), [Next]_vars
  PROVE  \/ UNCHANGED <<go, hooks, app, moved>>
         \/ SetterReturns
         \/ /\ app = None /\ UNCHANGED <<hooks, keys, tickets, exited>>
            /\ \/ \E c \in Ctxs, cb \in Callbacks \cup {None} : SetVerify(c, cb)
               \/ /\ UNCHANGED conn
                  /\ \/ \E c \in Ctxs, d \in Ctxs \cup {"nil"} :
                          SetTLSExtServernameCallback(c, d)
                     \/ \E c \in Ctxs, l \in {"list", "empty"} : SetServerALPNProtos(c, l)
                     \/ \E c \in Ctxs, m \in Managers \cup {None} :
                          SetTicketStore(c, m)
<1>0. KeysOK' /\ Older
  BY KeysStep, SMTT(30)
<1>1. ASSUME NEW i \in Conns,
             Handshake(i) \/ \E cb \in Callbacks : SslSetVerify(i, cb)
      PROVE  UNCHANGED <<go, hooks, app, moved>>
  BY <1>0, <1>1, HandshakeRest DEF SslSetVerify, setterVars
<1>2. ASSUME NEW m \in Managers,
             Rotate(m) \/ \E n \in DOMAIN keys[m] : Expire(m, n)
      PROVE  UNCHANGED <<go, hooks, app, moved>>
  BY <1>2 DEF Rotate, Expire, setterVars
<1>3. Done \/ UNCHANGED vars => UNCHANGED <<go, hooks, app, moved>>
  BY DEF Done, vars, setterVars
<1>4. ASSUME NEW c \in Ctxs,
             \/ \E cb \in Callbacks \cup {None} : SetVerify(c, cb)
             \/ \E d \in Ctxs \cup {"nil"} : SetTLSExtServernameCallback(c, d)
             \/ \E l \in {"list", "empty"} : SetServerALPNProtos(c, l)
             \/ \E m \in Managers \cup {None} : SetTicketStore(c, m)
      PROVE  app = None /\ UNCHANGED <<hooks, keys, tickets, exited>>
  BY <1>4 DEF SetVerify, SetTLSExtServernameCallback, SetServerALPNProtos,
    SetTicketStore, Setter
<1>5. ASSUME NEW c \in Ctxs,
             \/ \E d \in Ctxs \cup {"nil"} : SetTLSExtServernameCallback(c, d)
             \/ \E l \in {"list", "empty"} : SetServerALPNProtos(c, l)
             \/ \E m \in Managers \cup {None} : SetTicketStore(c, m)
      PROVE  UNCHANGED conn
  BY <1>5 DEF SetTLSExtServernameCallback, SetServerALPNProtos, SetTicketStore
<1> QED
  BY <1>1, <1>2, <1>3, <1>4, <1>5 DEF Next

\* Every step keeps fields and registrations together.
LEMMA SettersStep ==
  ASSUME Typed, \A i \in Conns : FoundStore(i), SettersInv, [Next]_vars
  PROVE  SettersInv'
<1>0. /\ go \in [Ctxs -> Fields] /\ \A c \in Ctxs : go[c] \in Fields
      /\ app \in Setting \cup {None} /\ hooks \in [Ctxs -> SUBSET Hooks]
  BY DEF Typed, TypeOK
<1>1. CASE UNCHANGED <<go, hooks, app, moved>>
  BY <1>1 DEF SettersInv
<1>2. CASE SetterReturns
  <2>1. /\ app # None /\ app' = None /\ UNCHANGED <<go, moved>>
        /\ app.ctx \in Ctxs
        /\ hooks' = [hooks EXCEPT ![app.ctx] =
                       IF app.on THEN @ \cup {app.hook} ELSE @ \ {app.hook}]
    BY <1>0, <1>2 DEF SetterReturns, Register, Setting
  <2>2. ASSUME NEW d \in Ctxs
        PROVE  /\ "sni" \in hooks'[d] => go'[d].sni # None
               /\ "alpn" \in hooks'[d] => go'[d].alpn # "none"
               /\ go'[d].verify # None <=> "verify" \in hooks'[d]
    <3>1. CASE d = app.ctx
      <4>1. hooks'[d] = IF app.on THEN hooks[d] \cup {app.hook}
                                  ELSE hooks[d] \ {app.hook}
        BY <1>0, <2>1, <3>1
      <4> QED
        BY <2>1, <3>1, <4>1 DEF SettersInv
    <3>2. CASE d # app.ctx
      <4>1. hooks'[d] = hooks[d]
        BY <1>0, <2>1, <3>2
      <4> QED
        BY <2>1, <3>2, <4>1 DEF SettersInv
    <3> QED
      BY <3>1, <3>2
  <2> QED
    BY <2>1, <2>2 DEF SettersInv
<1>3. ASSUME NEW c \in Ctxs, NEW cb \in Callbacks \cup {None}, SetVerify(c, cb)
      PROVE  SettersInv'
  <2> DEFINE f == [go[c] EXCEPT !.verify = cb]
  <2>1. /\ f \in Fields /\ (cb # None) \in BOOLEAN /\ "verify" \in Hooks
        /\ f.verify = cb /\ f.sni = go[c].sni /\ f.alpn = go[c].alpn
    BY <1>0 DEF Fields, Hooks
  <2>2. Setter(c, "verify", cb # None, f) /\ UNCHANGED moved
    BY <1>3 DEF SetVerify
  <2> HIDE DEF f
  <2> QED
    BY <2>1, <2>2, SetterKeeps
<1>4. ASSUME NEW c \in Ctxs, NEW d \in Ctxs \cup {"nil"},
             SetTLSExtServernameCallback(c, d)
      PROVE  SettersInv'
  <2> DEFINE f == [go[c] EXCEPT !.sni = d]
  <2>1. /\ f \in Fields /\ "sni" \in Hooks /\ d # None
        /\ f.sni = d /\ f.verify = go[c].verify /\ f.alpn = go[c].alpn
    BY <1>0, ContextAssumption DEF Fields, Hooks
  <2>2. Setter(c, "sni", TRUE, f) /\ UNCHANGED moved
    BY <1>4 DEF SetTLSExtServernameCallback
  <2> HIDE DEF f
  <2> QED
    BY <2>1, <2>2, SetterKeeps
<1>5. ASSUME NEW c \in Ctxs, NEW l \in {"list", "empty"},
             SetServerALPNProtos(c, l)
      PROVE  SettersInv'
  <2> DEFINE f == [go[c] EXCEPT !.alpn = l]
  <2>1. /\ f \in Fields /\ "alpn" \in Hooks
        /\ f.sni = go[c].sni /\ f.verify = go[c].verify /\ f.alpn = l
    BY <1>0 DEF Fields, Hooks
  <2>2. Setter(c, "alpn", TRUE, f) /\ UNCHANGED moved
    BY <1>5 DEF SetServerALPNProtos
  <2> HIDE DEF f
  <2> QED
    BY <2>1, <2>2, SetterKeeps
<1>6. ASSUME NEW c \in Ctxs, NEW m \in Managers \cup {None}, SetTicketStore(c, m)
      PROVE  SettersInv'
  <2> DEFINE f == [go[c] EXCEPT !.store = m]
  <2>1. /\ f \in Fields /\ (m # None) \in BOOLEAN /\ "ticket" \in Hooks
        /\ f.sni = go[c].sni /\ f.verify = go[c].verify /\ f.alpn = go[c].alpn
    BY <1>0 DEF Fields, Hooks
  <2>2. Setter(c, "ticket", m # None, f) /\ moved'
    BY <1>6 DEF SetTicketStore
  <2> HIDE DEF f
  <2> QED
    BY <2>1, <2>2, SetterKeeps
<1> QED
  BY <1>1, <1>2, <1>3, <1>4, <1>5, <1>6, NotASetter

(***************************************************************************)
(* What holds of every connection.                                         *)
(***************************************************************************)
Early == {"free", "hello", "lookup", "expired", "renew",
          "sni", "alpn", "verify", "issue"}

\* The callback is asked about the ticket that the client brought.
Asking(i) ==
  ~conn[i].enc /\ conn[i].pc \in {"store", "mutex", "lookup", "expired", "renew"}

\* What the program counter of a handshake says of its other fields.
Started(i) ==
  /\ conn[i].pc = "free" => conn[i].ctx = conn[i].own /\ ~conn[i].must
  /\ conn[i].pc \in {"free", "hello"} =>
       /\ ~conn[i].resumed /\ ~conn[i].refused
       /\ ~conn[i].stale /\ conn[i].ticket = None
  /\ conn[i].pc \in Early => ~conn[i].enc
  /\ conn[i].pc \in {"current", "new", "done"} => conn[i].enc
  /\ Asking(i) => conn[i].ticket # None /\ ~conn[i].resumed

\* A ticket that was stale stays so, is refused, and resumes nothing.
Refused(i) ==
  /\ conn[i].stale => conn[i].ticket # None /\ IsExpired(conn[i].ticket)
  /\ conn[i].pc = "renew" => ~conn[i].stale
  /\ conn[i].resumed => ~conn[i].stale /\ conn[i].ticket # None

\* A callback that rejects is that of the context in force, and where it is
\* asked it lets no new session through.
Rejected(i) ==
  /\ conn[i].must => /\ conn[i].hook # "ssl"
                     /\ go[conn[i].ctx].verify = "reject"
  /\ (conn[i].enc \/ conn[i].pc = "issue") /\ ~conn[i].resumed
       /\ conn[i].hook = "ctx"
       => ~conn[i].must

Good(i) == FoundStore(i) /\ Started(i) /\ Refused(i) /\ Rejected(i)

\* Every ticket is under a key that its manager made.
TicketsKnown == \A t \in tickets : t.nr <= Newest(t.mgr)

\* A key that expired does not come back.
LEMMA ExpiredStays ==
  ASSUME Typed, TicketsKnown, Older, NEW t \in tickets, IsExpired(t)
  PROVE  keys'[t.mgr][t.nr] # "live"
<1>1. t.mgr \in Managers /\ t.nr \in 1..MaxKeys
  BY DEF Typed, TypeOK, Key
<1>2. t.nr \in 1..Len(keys[t.mgr])
  BY <1>1, TypedKeys, ContextAssumption DEF TicketsKnown, Newest, KeysOK
<1> QED
  BY <1>1, <1>2 DEF Older, IsExpired

\* A step of somebody else.
LEMMA OtherGood ==
  ASSUME Typed, TicketsKnown, Older, NEW j \in Conns, Good(j),
         conn'[j] = conn[j],
         conn[j].must => go'[conn[j].ctx].verify = go[conn[j].ctx].verify
  PROVE  Good(j)'
<1>1. FoundStore(j)' /\ Started(j)'
  BY DEF Good, FoundStore, Started, Asking
<1>2. Rejected(j)'
  BY DEF Good, Rejected
<1>3. Refused(j)'
  <2>1. conn[j].ticket \in tickets \cup {None}
    BY DEF Typed, TypeOK
  <2>2. conn[j].stale => /\ conn[j].ticket # None
                         /\ keys'[conn[j].ticket.mgr][conn[j].ticket.nr] # "live"
    BY <2>1, ExpiredStays DEF Good, Refused
  <2> QED
    BY <2>2 DEF Good, Refused, IsExpired
<1> QED
  BY <1>1, <1>2, <1>3 DEF Good

\* A step of its own handshake.
LEMMA HandshakeGood ==
  ASSUME Typed, TicketsKnown, SettersInv, KeysOK', Older,
         NEW i \in Conns, Good(i), Handshake(i)
  PROVE  Good(i)'
<1>0. /\ conn \in [Conns -> ConnRec] /\ conn[i] \in ConnRec /\ go' = go
      /\ conn[i].ticket \in tickets \cup {None}
      /\ conn[i].own \in Ctxs /\ conn[i].ctx \in Ctxs
  BY HandshakeRest DEF Good, Typed, TypeOK, setterVars
<1>a. ASSUME conn[i].stale
      PROVE  /\ conn[i].ticket # None
             /\ keys'[conn[i].ticket.mgr][conn[i].ticket.nr] # "live"
  BY <1>0, <1>a, ExpiredStays DEF Good, Refused
<1>b. ASSUME UNCHANGED conn PROVE Good(i)'
  BY <1>0, <1>b, OtherGood
<1> USE DEF Good
<1>1. CASE NewConn(i)
  <2>1. /\ conn'[i] = [conn[i] EXCEPT !.pc = "hello", !.hook = conn'[i].hook,
                                      !.must = conn'[i].must]
        /\ conn'[i].hook = IF "verify" \in hooks[conn[i].own] THEN "ctx" ELSE "none"
        /\ conn'[i].must = (go[conn[i].own].verify = "reject"
                              /\ Settled(conn[i].own))
        /\ conn[i].pc = "free"
    BY <1>0, <1>1 DEF NewConn, At, ConnRec
  <2>2. FoundStore(i)' /\ Started(i)'
    BY <1>0, <2>1, ZenonT(60) DEF FoundStore, Started, Asking, Early, ConnRec, InManager
  <2>3. Refused(i)'
    BY <1>0, <2>1 DEF Started, Refused, Early, ConnRec
  <2>4. Rejected(i)'
    <3>1. /\ conn[i].ctx = conn[i].own /\ ~conn[i].enc
          /\ conn'[i].ctx = conn[i].ctx /\ conn'[i].enc = conn[i].enc
          /\ conn'[i].pc = "hello"
      BY <1>0, <2>1 DEF Started, Early, ConnRec
    <3>2. ASSUME conn'[i].must
          PROVE  go[conn[i].own].verify = "reject" /\ conn'[i].hook = "ctx"
      <4>1. go[conn[i].own].verify # None /\ Settled(conn[i].own)
        BY <2>1, <3>2, ContextAssumption DEF Callbacks
      <4>2. "verify" \in hooks[conn[i].own]
        BY <1>0, <4>1 DEF SettersInv, Settled
      <4> QED
        BY <2>1, <3>2, <4>2
    <3> QED
      BY <1>0, <3>1, <3>2 DEF Rejected
  <2> QED
    BY <2>2, <2>3, <2>4
<1>2. CASE \E t \in tickets \cup {None} : Hello(i, t)
  <2>0. PICK t \in tickets \cup {None} : Hello(i, t)
    BY <1>2
  <2>1. /\ conn'[i].pc \in {"store", "sni"} /\ conn[i].pc = "hello"
        /\ conn'[i].pc = "store" => t # None
        /\ conn'[i].ticket = t /\ conn'[i].enc = FALSE
        /\ conn'[i].stale = (t # None /\ IsExpired(t))
        /\ conn'[i].resumed = conn[i].resumed /\ conn'[i].must = conn[i].must
        /\ conn'[i].hook = conn[i].hook /\ conn'[i].ctx = conn[i].ctx
        /\ keys' = keys
    BY <1>0, <2>0 DEF Hello, At, ConnRec, Frame
  <2>2. FoundStore(i)' /\ Started(i)'
    BY <1>0, <2>1 DEF FoundStore, Started, Asking, Early, ConnRec, InManager
  <2>3. Refused(i)'
    BY <1>0, <2>1 DEF Started, Refused, Early, IsExpired
  <2>4. Rejected(i)'
    BY <1>0, <2>1 DEF Started, Rejected
  <2> QED
    BY <2>2, <2>3, <2>4
<1>c. ASSUME NEW p \in Pcs \ {"free", "hello"}, Goto(i, p), conn[i].pc # "free",
             p \in InManager \cup {"mutex"} => conn[i].seen # None,
             p \in Early => ~conn[i].enc,
             p \in {"current", "new", "done"} => conn[i].enc,
             ~conn[i].enc
               /\ p \in {"store", "mutex", "lookup", "expired", "renew"}
               => Asking(i),
             p = "renew" => ~conn[i].stale,
             p = "issue" /\ ~conn[i].resumed /\ conn[i].hook = "ctx"
               => ~conn[i].must
      PROVE  Good(i)'
  <2>1. /\ conn'[i].pc = p /\ conn'[i].seen = conn[i].seen
        /\ conn'[i].enc = conn[i].enc /\ conn'[i].ticket = conn[i].ticket
        /\ conn'[i].stale = conn[i].stale /\ conn'[i].resumed = conn[i].resumed
        /\ conn'[i].must = conn[i].must /\ conn'[i].hook = conn[i].hook
        /\ conn'[i].ctx = conn[i].ctx
    BY <1>0, <1>c DEF Goto, ConnRec
  <2>2. FoundStore(i)' /\ Started(i)'
    BY <1>c, <2>1 DEF FoundStore, Started, Asking
  <2>3. Refused(i)'
    BY <1>a, <1>c, <2>1 DEF Refused, IsExpired
  <2>4. Rejected(i)'
    BY <1>0, <1>c, <2>1 DEF Rejected
  <2> QED
    BY <2>2, <2>3, <2>4
<1>3. CASE ReadStore(i)
  <2>1. /\ conn[i].pc = "store" /\ conn'[i].seen = go[conn[i].ctx].store
        /\ conn'[i].pc = IF conn'[i].seen = None THEN After(i) ELSE "mutex"
        /\ conn'[i].enc = conn[i].enc /\ conn'[i].ticket = conn[i].ticket
        /\ conn'[i].stale = conn[i].stale /\ conn'[i].resumed = conn[i].resumed
        /\ conn'[i].must = conn[i].must /\ conn'[i].hook = conn[i].hook
        /\ conn'[i].ctx = conn[i].ctx
    BY <1>0, <1>3 DEF ReadStore, At, InForce, ConnRec
  <2>2. FoundStore(i)' /\ Started(i)'
    BY <2>1 DEF FoundStore, Started, Asking, After, Early, InManager
  <2>3. Refused(i)'
    BY <1>a, <2>1 DEF Refused, IsExpired, After
  <2>4. Rejected(i)'
    BY <1>0, <2>1 DEF Rejected, After
  <2> QED
    BY <2>2, <2>3, <2>4
<1>4. CASE LockStore(i)
  <2>1. Exit(i) \/ Goto(i, IF conn[i].enc THEN "current" ELSE "lookup")
    BY <1>4 DEF LockStore
  <2> QED
    BY <1>4, <2>1, <1>b, <1>c
    DEF LockStore, At, Exit, FoundStore, Asking, Early, Pcs
<1>5. CASE Lookup(i)
  BY <1>5, <1>c DEF Lookup, At, FoundStore, Started, Asking, Early, InManager, Pcs
<1>6. CASE Expired(i)
  <2>1. /\ conn[i].pc = "expired"
        /\ \/ Goto(i, "sni")
           \/ Goto(i, "renew") /\ ~IsExpired(conn[i].ticket)
    BY <1>6 DEF Expired, At, Refuse
  <2> QED
    BY <2>1, <1>c
    DEF FoundStore, Started, Asking, Early, InManager, Pcs, Refused
<1>7. CASE ShouldRenew(i)
  <2>1. /\ conn[i].pc = "renew" /\ conn'[i].pc = "sni"
        /\ conn'[i].enc = conn[i].enc /\ conn'[i].ticket = conn[i].ticket
        /\ conn'[i].stale = conn[i].stale /\ conn'[i].must = conn[i].must
        /\ conn'[i].hook = conn[i].hook /\ conn'[i].ctx = conn[i].ctx
    BY <1>0, <1>7 DEF ShouldRenew, At, ConnRec
  <2>2. FoundStore(i)' /\ Started(i)'
    BY <2>1 DEF FoundStore, Started, Asking, Early, InManager
  <2>3. Refused(i)'
    BY <1>a, <2>1 DEF Started, Asking, Early, Refused, IsExpired
  <2>4. Rejected(i)'
    BY <1>0, <2>1 DEF Rejected, Started, Early
  <2> QED
    BY <2>2, <2>3, <2>4
<1>8. CASE SniThunk(i)
  <2>1. CASE Exit(i)
    BY <2>1, <1>b DEF Exit
  <2>2. CASE ~Exit(i)
    <3>1. /\ conn[i].pc = "sni" /\ conn'[i].pc = "alpn"
          /\ conn'[i].enc = conn[i].enc /\ conn'[i].ticket = conn[i].ticket
          /\ conn'[i].stale = conn[i].stale /\ conn'[i].hook = conn[i].hook
          /\ conn'[i].resumed = conn[i].resumed
          /\ \/ conn'[i].ctx = conn[i].ctx /\ conn'[i].must = conn[i].must
             \/ conn'[i].must => /\ conn[i].hook # "ssl"
                                 /\ go[conn'[i].ctx].verify = "reject"
      BY <1>0, <1>8, <2>2 DEF SniThunk, At, ConnRec
    <3>2. FoundStore(i)' /\ Started(i)'
      BY <3>1 DEF FoundStore, Started, Asking, Early, InManager
    <3>3. Refused(i)'
      BY <1>a, <3>1 DEF Refused, IsExpired
    <3>4. Rejected(i)'
      BY <1>0, <3>1 DEF Rejected, Started, Early
    <3> QED
      BY <3>2, <3>3, <3>4
  <2> QED
    BY <2>1, <2>2
<1>9. CASE AlpnThunk(i)
  <2>1. /\ conn[i].pc = "alpn"
        /\ \/ Exit(i) \/ Goto(i, "failed") \/ Goto(i, "verify")
           \/ conn[i].resumed /\ Goto(i, "issue")
    BY <1>9 DEF AlpnThunk, At
  <2> QED
    BY <2>1, <1>b, <1>c DEF Exit, Started, Asking, Early, InManager, Pcs
<1>10. CASE VerifyThunk(i)
  <2>1. conn[i].must => conn[i].hook # "ssl"
    BY DEF Rejected
  <2>2. \/ Exit(i) \/ Goto(i, "failed")
        \/ Goto(i, "issue") /\ (conn[i].hook = "ctx" => ~conn[i].must)
    <3>1. go[conn[i].ctx].verify = "reject" => \A ok \in BOOLEAN : ~Verdict(conn[i].ctx, ok)
      BY ContextAssumption DEF Verdict, Callbacks
    <3> QED
      BY <1>10, <2>1, <3>1 DEF VerifyThunk, InForce, Rejected
  <2>3. conn[i].pc = "verify"
    BY <1>10 DEF VerifyThunk, At
  <2> QED
    BY <2>2, <2>3, <1>b, <1>c DEF Exit, Started, Asking, Early, InManager, Pcs
<1>11. CASE Issue(i)
  <2>1. /\ conn[i].pc = "issue" /\ conn'[i].pc \in {"store", "done"}
        /\ conn'[i].enc /\ conn'[i].ticket = conn[i].ticket
        /\ conn'[i].stale = conn[i].stale /\ conn'[i].hook = conn[i].hook
        /\ conn'[i].resumed = conn[i].resumed /\ conn'[i].must = conn[i].must
        /\ conn'[i].ctx = conn[i].ctx
    BY <1>0, <1>11 DEF Issue, At, ConnRec
  <2>2. FoundStore(i)' /\ Started(i)'
    BY <2>1 DEF FoundStore, Started, Asking, Early, InManager
  <2>3. Refused(i)'
    BY <1>a, <2>1 DEF Refused, IsExpired
  <2>4. Rejected(i)'
    BY <1>0, <2>1 DEF Rejected
  <2> QED
    BY <2>2, <2>3, <2>4
<1>d. ASSUME conn[i].pc \in {"current", "new"}, NEW n, Give(i, n) PROVE Good(i)'
  <2>1. /\ conn'[i].pc = "done" /\ conn'[i].enc = conn[i].enc
        /\ conn'[i].ticket = conn[i].ticket
        /\ conn'[i].stale = conn[i].stale /\ conn'[i].hook = conn[i].hook
        /\ conn'[i].resumed = conn[i].resumed /\ conn'[i].must = conn[i].must
        /\ conn'[i].ctx = conn[i].ctx
    BY <1>0, <1>d DEF Give, ConnRec
  <2>2. FoundStore(i)' /\ Started(i)'
    BY <1>d, <2>1 DEF FoundStore, Started, Asking, Early, InManager
  <2>3. Refused(i)'
    BY <1>a, <2>1 DEF Refused, IsExpired
  <2>4. Rejected(i)'
    BY <1>0, <1>d, <2>1 DEF Rejected, Started
  <2> QED
    BY <2>2, <2>3, <2>4
<1>12. CASE Current(i)
  <2>1. conn[i].pc = "current" /\ (Goto(i, "new") \/ \E n : Give(i, n))
    BY <1>12 DEF Current, At
  <2> QED
    BY <2>1, <1>c, <1>d DEF FoundStore, Started, Asking, Early, InManager, Pcs
<1>13. CASE New(i)
  <2>1. conn[i].pc = "new" /\ (Goto(i, "done") \/ \E n : Give(i, n))
    BY <1>13 DEF New, At
  <2> QED
    BY <2>1, <1>c, <1>d DEF FoundStore, Started, Asking, Early, InManager, Pcs
<1> QED
  BY <1>1, <1>2, <1>3, <1>4, <1>5, <1>6, <1>7, <1>8, <1>9, <1>10,
     <1>11, <1>12, <1>13 DEF Handshake

\* Connections begin so.
LEMMA GoodInit == Init => (\A i \in Conns : Good(i)) /\ TicketsKnown
<1> SUFFICES ASSUME Init, NEW i \in Conns PROVE Good(i) /\ TicketsKnown
  BY DEF TicketsKnown, Init
<1>1. PICK c \in Ctxs : conn[i] = Fresh(c)
  BY DEF Init
<1>2. Good(i)
  BY <1>1 DEF Good, FoundStore, Started, Asking, Refused, Rejected, Fresh,
    Early, InManager
<1> QED
  BY <1>2 DEF TicketsKnown, Init

\* Every step of anybody keeps a connection so.
LEMMA GoodStep ==
  ASSUME Typed, TicketsKnown, SettersInv, \A i \in Conns : Good(i), [Next]_vars,
         NEW i \in Conns
  PROVE  Good(i)'
<1>0. /\ KeysOK' /\ Older /\ Good(i) /\ \A j \in Conns : FoundStore(j)
      /\ conn \in [Conns -> ConnRec] /\ go \in [Ctxs -> Fields]
      /\ conn[i] \in ConnRec /\ conn[i].ctx \in Ctxs
  BY KeysStep DEF Good, Typed, TypeOK
<1>1. ASSUME conn'[i] = conn[i],
             conn[i].must => go'[conn[i].ctx].verify = go[conn[i].ctx].verify
      PROVE  Good(i)'
  BY <1>0, <1>1, OtherGood
<1>2. ASSUME NEW c \in Ctxs, NEW cb \in Callbacks \cup {None}, SetVerify(c, cb)
      PROVE  Good(i)'
  <2>1. /\ conn'[i].pc = conn[i].pc /\ conn'[i].enc = conn[i].enc
        /\ conn'[i].own = conn[i].own /\ conn'[i].refused = conn[i].refused
        /\ conn'[i].seen = conn[i].seen /\ conn'[i].ticket = conn[i].ticket
        /\ conn'[i].stale = conn[i].stale /\ conn'[i].hook = conn[i].hook
        /\ conn'[i].resumed = conn[i].resumed /\ conn'[i].ctx = conn[i].ctx
        /\ conn'[i].must => conn[i].must /\ c # conn[i].ctx
    BY <1>0, <1>2 DEF SetVerify, ConnRec
  <2>2. keys' = keys /\ (c # conn[i].ctx => go'[conn[i].ctx] = go[conn[i].ctx])
    BY <1>0, <1>2 DEF SetVerify, Setter, SetField
  <2>3. FoundStore(i)' /\ Started(i)'
    BY <1>0, <2>1 DEF Good, FoundStore, Started, Asking
  <2>4. Refused(i)'
    BY <1>0, <2>1, <2>2 DEF Good, Refused, IsExpired
  <2>5. Rejected(i)'
    BY <1>0, <2>1, <2>2 DEF Good, Rejected
  <2> QED
    BY <2>3, <2>4, <2>5 DEF Good
<1>3. CASE SetterReturns
  BY <1>0, <1>1, <1>3 DEF SetterReturns
<1>4. ASSUME NEW c \in Ctxs,
             \/ \E d \in Ctxs \cup {"nil"} : SetTLSExtServernameCallback(c, d)
             \/ \E l \in {"list", "empty"} : SetServerALPNProtos(c, l)
             \/ \E m \in Managers \cup {None} : SetTicketStore(c, m)
      PROVE  Good(i)'
  <2>1. conn' = conn /\ \E f : /\ go' = [go EXCEPT ![c] = f]
                               /\ f.verify = go[c].verify
    <3>1. CASE \E d \in Ctxs \cup {"nil"} : SetTLSExtServernameCallback(c, d)
      <4>1. PICK d \in Ctxs \cup {"nil"} : SetTLSExtServernameCallback(c, d)
        BY <3>1
      <4>2. [go[c] EXCEPT !.sni = d].verify = go[c].verify
        BY <1>0 DEF Fields
      <4> QED
        BY <4>1, <4>2 DEF SetTLSExtServernameCallback, Setter, SetField
    <3>2. CASE \E l \in {"list", "empty"} : SetServerALPNProtos(c, l)
      <4>1. PICK l \in {"list", "empty"} : SetServerALPNProtos(c, l)
        BY <3>2
      <4>2. [go[c] EXCEPT !.alpn = l].verify = go[c].verify
        BY <1>0 DEF Fields
      <4> QED
        BY <4>1, <4>2 DEF SetServerALPNProtos, Setter, SetField
    <3>3. CASE \E m \in Managers \cup {None} : SetTicketStore(c, m)
      <4>1. PICK m \in Managers \cup {None} : SetTicketStore(c, m)
        BY <3>3
      <4>2. [go[c] EXCEPT !.store = m].verify = go[c].verify
        BY <1>0 DEF Fields
      <4> QED
        BY <4>1, <4>2 DEF SetTicketStore, Setter, SetField
    <3> QED
      BY <1>4, <3>1, <3>2, <3>3
  <2>2. go'[conn[i].ctx].verify = go[conn[i].ctx].verify
    BY <1>0, <2>1
  <2> QED
    BY <1>1, <2>1, <2>2
<1>5. ASSUME NEW m \in Managers,
             Rotate(m) \/ \E n \in DOMAIN keys[m] : Expire(m, n)
      PROVE  Good(i)'
  BY <1>1, <1>5 DEF Rotate, Expire, setterVars
<1>6. ASSUME NEW j \in Conns, Handshake(j) PROVE Good(i)'
  <2>1. CASE j = i
    BY <1>0, <1>6, <2>1, HandshakeGood
  <2>2. CASE j # i
    <3>1. conn'[i] = conn[i] /\ go' = go
      BY <1>0, <1>6, <2>2, HandshakeTyped, HandshakeRest DEF setterVars
    <3> QED
      BY <1>1, <3>1
  <2> QED
    BY <2>1, <2>2
<1>7. ASSUME NEW j \in Conns, NEW cb \in Callbacks, SslSetVerify(j, cb)
      PROVE  Good(i)'
  <2>1. CASE j = i
    <3>1. /\ conn'[i].pc = conn[i].pc /\ conn'[i].enc = conn[i].enc
          /\ conn'[i].own = conn[i].own /\ conn'[i].refused = conn[i].refused
          /\ conn'[i].seen = conn[i].seen /\ conn'[i].ticket = conn[i].ticket
          /\ conn'[i].stale = conn[i].stale /\ conn'[i].ctx = conn[i].ctx
          /\ conn'[i].resumed = conn[i].resumed /\ conn'[i].must = FALSE
          /\ keys' = keys
      BY <1>0, <1>7, <2>1 DEF SslSetVerify, ConnRec
    <3>2. FoundStore(i)' /\ Started(i)'
      BY <1>0, <3>1 DEF Good, FoundStore, Started, Asking
    <3>3. Refused(i)' /\ Rejected(i)'
      BY <1>0, <3>1 DEF Good, Refused, Rejected, IsExpired
    <3> QED
      BY <3>2, <3>3 DEF Good
  <2>2. CASE j # i
    <3>1. conn'[i] = conn[i] /\ go' = go
      BY <1>0, <1>7, <2>2 DEF SslSetVerify
    <3> QED
      BY <1>1, <3>1
  <2> QED
    BY <2>1, <2>2
<1>8. Done \/ UNCHANGED vars => Good(i)'
  BY <1>1 DEF Done, vars, setterVars
<1> QED
  BY <1>2, <1>3, <1>4, <1>5, <1>6, <1>7, <1>8 DEF Next

\* New tickets are under keys that exist, and keys are never unmade.
LEMMA TicketsKnownStep ==
  ASSUME Typed, TicketsKnown, \A i \in Conns : FoundStore(i), [Next]_vars
  PROVE  TicketsKnown'
<1>0. /\ KeysOK /\ KeysOK' /\ Older
      /\ \A t \in tickets : t.mgr \in Managers /\ t.nr \in Nat
  BY TypedKeys, KeysStep, ContextAssumption DEF Typed, TypeOK, Key
<1>1. ASSUME NEW t \in tickets PROVE t.nr <= Len(keys'[t.mgr])
  BY <1>0 DEF TicketsKnown, Newest, Older, KeysOK
<1>2. ASSUME NEW t \in tickets' \ tickets PROVE t.nr <= Len(keys'[t.mgr])
  <2>1. PICK i \in Conns : Handshake(i)
    <3>1. ASSUME ~ \E i \in Conns : Handshake(i) PROVE tickets' = tickets
      BY <3>1 DEF Next, vars, Done, SetVerify, SetTLSExtServernameCallback,
        SetServerALPNProtos, SetTicketStore, Setter, SetterReturns, Rotate,
        Expire, SslSetVerify
    <3> QED
      BY <1>2, <3>1
  <2> QED
    BY <1>0, <1>2, <2>1, HandshakeRest DEF Newest
<1> QED
  BY <1>1, <1>2 DEF TicketsKnown, Newest

\* A callback that is called finds its field set, if only to nil, and the
\* process that a panic ended does nothing any more.
LEMMA PanicStep ==
  ASSUME Typed, SettersInv, \A i \in Conns : Good(i), PanicHasCause,
         [Next]_vars
  PROVE  PanicHasCause'
<1>0. conn \in [Conns -> ConnRec] /\ \A i \in Conns : conn[i].ctx \in Ctxs
  BY DEF Typed, TypeOK
<1>a. ASSUME NEW i \in Conns, Handshake(i)
      PROVE  /\ exited = None
             /\ \/ exited' = exited
                \/ /\ Exit(i)
                   /\ LockStore(i) \/ SniThunk(i) \/ AlpnThunk(i) \/ VerifyThunk(i)
  <2>1. exited = None
    BY <1>a, KeysStep, HandshakeRest, SMTT(30) DEF Good
  <2>2. CASE LockStore(i) \/ SniThunk(i) \/ AlpnThunk(i) \/ VerifyThunk(i)
    BY <2>1, <2>2 DEF LockStore, SniThunk, AlpnThunk, VerifyThunk
  <2>3. CASE \/ NewConn(i) \/ \E t \in tickets \cup {None} : Hello(i, t)
             \/ ReadStore(i) \/ Lookup(i) \/ Expired(i) \/ ShouldRenew(i)
             \/ Issue(i) \/ Current(i) \/ New(i)
    <3>1. exited' = exited
      BY <2>3 DEF NewConn, Hello, ReadStore, Lookup, Expired, ShouldRenew,
        Issue, Current, New
    <3> QED
      BY <2>1, <3>1
  <2> QED
    BY <1>a, <2>2, <2>3 DEF Handshake
<1>b. ASSUME NEW i \in Conns, NEW cb \in Callbacks, SslSetVerify(i, cb)
      PROVE  exited = None /\ exited' = exited
  BY <1>b DEF SslSetVerify, At
<1>c. ASSUME NEW m \in Managers,
             Rotate(m) \/ \E n \in DOMAIN keys[m] : Expire(m, n)
      PROVE  exited = None /\ exited' = exited
  BY <1>c DEF Rotate, Expire
<1>d. ASSUME NEW c \in Ctxs,
             \/ \E cb \in Callbacks \cup {None} : SetVerify(c, cb)
             \/ \E d \in Ctxs \cup {"nil"} : SetTLSExtServernameCallback(c, d)
             \/ \E l \in {"list", "empty"} : SetServerALPNProtos(c, l)
             \/ \E m \in Managers \cup {None} : SetTicketStore(c, m)
      PROVE  exited = None /\ exited' = exited
  BY <1>d DEF SetVerify, SetTLSExtServernameCallback, SetServerALPNProtos,
    SetTicketStore, Setter
<1>e. SetterReturns => exited = None /\ exited' = exited
  BY DEF SetterReturns
<1>f. Done \/ UNCHANGED vars => UNCHANGED <<conn, go, exited>>
  BY DEF Done, vars, setterVars
<1>1. CASE exited # None
  <2>1. UNCHANGED <<conn, go, exited>>
    BY <1>1, <1>a, <1>b, <1>c, <1>d, <1>e, <1>f DEF Next
  <2> QED
    BY <1>1, <2>1 DEF PanicHasCause, AskedForNil, HasNoProtocol
<1>2. CASE exited = None /\ exited' = None
  BY <1>2 DEF PanicHasCause
<1>3. CASE exited = None /\ exited' # None
  <2>1. PICK i \in Conns : /\ Exit(i)
                           /\ LockStore(i) \/ SniThunk(i) \/ AlpnThunk(i)
                                \/ VerifyThunk(i)
    BY <1>3, <1>a, <1>b, <1>c, <1>d, <1>e, <1>f DEF Next
  <2>0. UNCHANGED <<conn, go>> /\ exited' = i
    BY <1>3, <2>1, <1>a, KeysStep, HandshakeRest DEF Exit, Good, setterVars, Handshake
  <2>2. ~LockStore(i)
    BY <1>3, <2>0 DEF LockStore, At, Store, Good, FoundStore
  <2>3. SniThunk(i) => AskedForNil(i)
    BY <1>0, <1>3, <2>0 DEF SniThunk, At, SettersInv, AskedForNil
  <2>4. AlpnThunk(i) => HasNoProtocol(i)
    BY <1>0, <1>3, <2>0 DEF AlpnThunk, At, SettersInv, HasNoProtocol, Typed, TypeOK, Fields
  <2>5. VerifyThunk(i) => conn[i].pc = "verify" /\ conn[i].hook = "ssl"
    BY <1>3, <2>0 DEF VerifyThunk, At
  <2> QED
    BY <2>0, <2>1, <2>2, <2>3, <2>4, <2>5
    DEF PanicHasCause, AskedForNil, HasNoProtocol
<1> QED
  BY <1>1, <1>2, <1>3

\* All of that.
SafeInv ==
  /\ Typed /\ SettersInv /\ TicketsKnown
  /\ \A i \in Conns : Good(i)
  /\ PanicHasCause

(* The fields are typed and a connection that is somewhere in its          *)
(* handshake got there by the steps before (ctx.go, tickets.go).           *)
THEOREM SafetyHolds == Spec => []SafeInv
<1>1. Init => SafeInv
  <2>1. Init => PanicHasCause
    BY DEF Init, PanicHasCause
  <2> QED
    BY <2>1, TypedInit, SettersInit, GoodInit DEF SafeInv
<1>2. SafeInv /\ [Next]_vars => SafeInv'
  <2> SUFFICES ASSUME SafeInv, [Next]_vars PROVE SafeInv'
    OBVIOUS
  <2>1. \A i \in Conns : FoundStore(i)
    BY DEF SafeInv, Good
  <2>2. Typed' /\ SettersInv' /\ TicketsKnown'
    BY <2>1, TypedStep, SettersStep, TicketsKnownStep DEF SafeInv
  <2>3. \A i \in Conns : Good(i)'
    BY GoodStep DEF SafeInv
  <2>4. PanicHasCause'
    BY PanicStep DEF SafeInv
  <2> QED
    BY <2>2, <2>3, <2>4 DEF SafeInv
<1> QED
  BY <1>1, <1>2, PTL DEF Spec

(* The fields keep their types, with a bound on keys and setters.          *)
THEOREM ContextTypes == Spec => []TypeOK
<1>1. SafeInv => TypeOK
  BY DEF SafeInv, Typed
<1> QED
  BY <1>1, SafetyHolds, PTL

(* Setters run between any two steps of a handshake, and yet no callback   *)
(* meets a field that is not set: one panics because the setter was given  *)
(* nil or an empty list, or because of SSL.SetVerify (tickets.go:119,      *)
(* ssl.go:157, ssl.go:51).                                                 *)
THEOREM PanicsHaveACause == Spec => []PanicHasCause
<1>1. SafeInv => PanicHasCause
  BY DEF SafeInv
<1> QED
  BY <1>1, SafetyHolds, PTL

(* A ticket whose key had expired when the ClientHello came resumes no     *)
(* session, however many keys the manager makes meanwhile (tickets.go:183).*)
THEOREM StaleTicketsAreRefused == Spec => []NoStaleResumption
<1>1. SafeInv => NoStaleResumption
  BY DEF SafeInv, Good, Refused, NoStaleResumption
<1> QED
  BY <1>1, SafetyHolds, PTL

(* A connection whose verify function comes from its context is not        *)
(* completed as a new session against a callback that rejects, of the      *)
(* context it was made from or was switched to (ctx.go:505, ssl.go:148).   *)
THEOREM RejectionIsHonoured == Spec => []VerifyHonoured
<1>1. SafeInv => VerifyHonoured
  BY DEF SafeInv, Good, Started, Rejected, VerifyHonoured
<1> QED
  BY <1>1, SafetyHolds, PTL

(***************************************************************************)
(* With one store that is never replaced.                                  *)
(***************************************************************************)
Kept == OneStore /\ ~moved

\* A key after k has expired.
Spent(k) ==
  \E n \in (k.nr + 1)..Newest(k.mgr) : IsExpired([k EXCEPT !.nr = n])

\* The store that the ticket callback works with.
StoreSeen(i) == conn[i].seen # None => conn[i].seen = go[conn[i].ctx].store

\* A ticket was refused because its key had expired.
GoodReason(i) ==
  conn[i].refused /\ ~Asking(i)
    => conn[i].ticket # None /\ IsExpired(conn[i].ticket)

\* Who asked about a ticket had the callback registered, and keeps it.
Registered(i) ==
  Asking(i) \/ conn[i].resumed => "ticket" \in hooks[conn[i].own]

\* A key that was not the newest then is not the newest now; it is renewed,
\* with a newer one or, when those expired too, with a new one.
Renewing(i) ==
  LET k == conn[i].ticket IN
  /\ conn[i].behind => conn[i].ticket # None /\ k.nr < Newest(k.mgr)
  /\ conn[i].resumed /\ conn[i].behind =>
       /\ conn[i].renew
       /\ conn[i].pc = "new" => Spent(k)
       /\ conn[i].pc = "done" =>
            \/ conn[i].issued # None /\ conn[i].issued.nr > k.nr
            \/ Newest(k.mgr) = MaxKeys /\ Spent(k)

Same(i) == StoreSeen(i) /\ GoodReason(i) /\ Registered(i) /\ Renewing(i)

\* The clients hold tickets of that store only.
TicketsOfStore == \A t \in tickets, c \in Ctxs : t.mgr = go[c].store

\* A state with one store that was never replaced comes from such a state.
LEMMA KeptStep ==
  ASSUME Typed, \A i \in Conns : FoundStore(i), [Next]_vars, Kept'
  PROVE  Kept /\ \A c \in Ctxs : go'[c].store = go[c].store
<1>0. go \in [Ctxs -> Fields] /\ \A c \in Ctxs : go[c] \in Fields
  BY DEF Typed, TypeOK
<1>a. ASSUME \A c \in Ctxs : go'[c].store = go[c].store, moved' = moved
      PROVE  Kept
  BY <1>a DEF Kept, OneStore
<1>b. ASSUME NEW c \in Ctxs, NEW f, f.store = go[c].store,
             go' = [go EXCEPT ![c] = f], NEW d \in Ctxs
      PROVE  go'[d].store = go[d].store
  BY <1>0, <1>b
<1>1. CASE UNCHANGED <<go, hooks, app, moved>> \/ SetterReturns
  BY <1>1, <1>a DEF SetterReturns
<1>2. ASSUME NEW c \in Ctxs, NEW cb \in Callbacks \cup {None}, SetVerify(c, cb)
      PROVE  /\ \A d \in Ctxs : go'[d].store = go[d].store
             /\ moved' = moved
  <2>1. [go[c] EXCEPT !.verify = cb].store = go[c].store
    BY <1>0 DEF Fields
  <2> QED
    BY <1>2, <1>b, <2>1 DEF SetVerify, Setter, SetField
<1>3. ASSUME NEW c \in Ctxs, NEW d \in Ctxs \cup {"nil"},
             SetTLSExtServernameCallback(c, d)
      PROVE  /\ \A e \in Ctxs : go'[e].store = go[e].store
             /\ moved' = moved
  <2>1. [go[c] EXCEPT !.sni = d].store = go[c].store
    BY <1>0 DEF Fields
  <2> QED
    BY <1>3, <1>b, <2>1 DEF SetTLSExtServernameCallback, Setter, SetField
<1>4. ASSUME NEW c \in Ctxs, NEW l \in {"list", "empty"},
             SetServerALPNProtos(c, l)
      PROVE  /\ \A d \in Ctxs : go'[d].store = go[d].store
             /\ moved' = moved
  <2>1. [go[c] EXCEPT !.alpn = l].store = go[c].store
    BY <1>0 DEF Fields
  <2> QED
    BY <1>4, <1>b, <2>1 DEF SetServerALPNProtos, Setter, SetField
<1>5. ASSUME NEW c \in Ctxs, NEW m \in Managers \cup {None}
      PROVE  ~SetTicketStore(c, m)
  BY DEF SetTicketStore, Kept
<1> QED
  BY <1>1, <1>2, <1>3, <1>4, <1>5, <1>a, NotASetter

\* Keys that expired stay expired, and a manager that is full stays full.
LEMMA SpentStays ==
  ASSUME KeysOK, KeysOK', Older, NEW k \in Key, Spent(k)
  PROVE  /\ \E n \in (k.nr + 1)..Len(keys'[k.mgr]) :
              keys'[[k EXCEPT !.nr = n].mgr][[k EXCEPT !.nr = n].nr] # "live"
         /\ Newest(k.mgr) = MaxKeys => Len(keys'[k.mgr]) = MaxKeys
<1>1. k.mgr \in Managers /\ k.nr \in Nat /\ MaxKeys \in Nat
  BY ContextAssumption DEF Key
<1>2. PICK n \in (k.nr + 1)..Newest(k.mgr) : IsExpired([k EXCEPT !.nr = n])
  BY DEF Spent
<1>3. [k EXCEPT !.nr = n].mgr = k.mgr /\ [k EXCEPT !.nr = n].nr = n
  BY DEF Key
<1>4. /\ Len(keys[k.mgr]) <= Len(keys'[k.mgr]) /\ Len(keys'[k.mgr]) <= MaxKeys
      /\ Len(keys[k.mgr]) \in Nat /\ Len(keys'[k.mgr]) \in Nat
      /\ \A o \in 1..Len(keys[k.mgr]) :
           keys[k.mgr][o] # "live" => keys'[k.mgr][o] # "live"
  BY <1>1 DEF KeysOK, Older
<1>5. n \in 1..Len(keys[k.mgr]) /\ n \in (k.nr + 1)..Len(keys'[k.mgr])
  BY <1>1, <1>2, <1>4, SMTT(30) DEF Newest
<1>6. keys'[k.mgr][n] # "live"
  BY <1>2, <1>3, <1>4, <1>5 DEF IsExpired
<1> QED
  BY <1>1, <1>3, <1>4, <1>5, <1>6 DEF Newest

\* A step of somebody else.
LEMMA OtherSame ==
  ASSUME Typed, TicketsKnown, KeysOK', Older, NEW j \in Conns, Same(j),
         conn'[j] = conn[j],
         go'[conn[j].ctx].store = go[conn[j].ctx].store,
         "ticket" \in hooks[conn[j].own] => "ticket" \in hooks'[conn[j].own]
  PROVE  Same(j)'
<1>0. /\ conn[j].ticket \in tickets \cup {None} /\ tickets \subseteq Key
      /\ KeysOK /\ MaxKeys \in Nat
  BY TypedKeys, ContextAssumption DEF Typed, TypeOK
<1> DEFINE k == conn[j].ticket
<1>1. conn[j].ticket # None =>
        /\ k \in Key /\ k.mgr \in Managers /\ k.nr \in Nat
        /\ IsExpired(k) => keys'[k.mgr][k.nr] # "live"
        /\ Newest(k.mgr) <= Len(keys'[k.mgr])
        /\ Newest(k.mgr) \in Nat /\ Len(keys'[k.mgr]) \in Nat
  BY <1>0, ExpiredStays, SMTT(30) DEF Key, Older, KeysOK, Newest
<1>2. StoreSeen(j)' /\ Registered(j)' /\ GoodReason(j)'
  BY <1>1 DEF Same, StoreSeen, Registered, GoodReason, Asking, IsExpired
<1>3. ASSUME conn[j].behind PROVE k.nr < Len(keys'[k.mgr]) /\ conn[j].ticket # None
  BY <1>1, <1>3, SMTT(30) DEF Same, Renewing
<1>4. ASSUME conn[j].behind, Spent(k)
      PROVE  /\ Spent(k)'
             /\ Newest(k.mgr) = MaxKeys => Len(keys'[k.mgr]) = MaxKeys
  <2>1. k \in Key
    BY <1>1, <1>3, <1>4
  <2> QED
    BY <1>0, <1>4, <2>1, SpentStays DEF Spent, Newest, IsExpired
<1>5. Renewing(j)'
  BY <1>3, <1>4 DEF Same, Renewing, Newest
<1> QED
  BY <1>2, <1>5 DEF Same

\* A step of its own handshake.
LEMMA HandshakeSame ==
  ASSUME Typed, TicketsKnown, KeysOK', Older, Kept, TicketsOfStore,
         NEW i \in Conns, Good(i), Same(i), Handshake(i)
  PROVE  Same(i)'
<1> DEFINE r == conn[i]
           k == conn[i].ticket
           Stays == /\ conn'[i].own = r.own /\ conn'[i].ticket = r.ticket
                    /\ conn'[i].behind = r.behind
           Quiet == /\ conn'[i].seen = r.seen
                    /\ go[conn'[i].ctx].store = go[r.ctx].store
                    /\ conn'[i].refused = r.refused
                    /\ conn'[i].resumed = r.resumed /\ conn'[i].renew = r.renew
<1>0. /\ conn \in [Conns -> ConnRec] /\ conn[i] \in ConnRec
      /\ go' = go /\ hooks' = hooks /\ KeysOK /\ MaxKeys \in Nat
      /\ r.ticket \in tickets \cup {None} /\ tickets \subseteq Key
      /\ r.own \in Ctxs /\ r.ctx \in Ctxs
      /\ go \in [Ctxs -> Fields]
  BY HandshakeRest, TypedKeys, ContextAssumption
  DEF Good, Typed, TypeOK, setterVars
<1>1. r.ticket # None =>
        /\ k \in Key /\ k.mgr \in Managers /\ k.nr \in Nat \ {0}
        /\ k.mgr = go[r.ctx].store /\ k.mgr # None
        /\ k.nr <= Newest(k.mgr)
        /\ IsExpired(k) => keys'[k.mgr][k.nr] # "live"
        /\ Newest(k.mgr) <= Len(keys'[k.mgr])
        /\ Newest(k.mgr) \in Nat /\ Len(keys'[k.mgr]) \in Nat
  BY <1>0, ExpiredStays, ContextAssumption
  DEF Key, Older, KeysOK, Newest, TicketsOfStore, TicketsKnown
<1>2. r.behind => /\ r.ticket # None /\ k.nr < Newest(k.mgr)
                  /\ k.nr < Len(keys'[k.mgr])
  BY <1>1 DEF Same, Renewing
\* A step that leaves alone all that the properties speak of but pc.
<1>a. ASSUME Stays, Quiet, UNCHANGED keys,
             Asking(i)' => Asking(i),
             Asking(i) /\ ~Asking(i)' /\ r.refused => IsExpired(k),
             conn'[i].pc = "new" /\ r.resumed /\ r.behind => Spent(k),
             conn'[i].pc = "done" /\ r.resumed /\ r.behind
               => Newest(k.mgr) = MaxKeys /\ Spent(k)
      PROVE  Same(i)'
  <2>1. StoreSeen(i)' /\ Registered(i)'
    BY <1>0, <1>a DEF Same, StoreSeen, Registered
  <2>2. GoodReason(i)'
    <3>1. Asking(i) => r.ticket # None
      BY DEF Good, Started
    <3>2. ASSUME r.refused, ~Asking(i)'
          PROVE  r.ticket # None /\ IsExpired(k)
      <4>1. CASE Asking(i)
        BY <1>a, <3>1, <3>2, <4>1
      <4>2. CASE ~Asking(i)
        BY <3>2, <4>2 DEF Same, GoodReason
      <4> QED
        BY <4>1, <4>2
    <3> QED
      BY <1>a, <3>2 DEF GoodReason, IsExpired
  <2>3. ASSUME r.resumed, r.behind, conn'[i].pc \in {"new", "done"}
        PROVE  Spent(k)'
    BY <1>a, <2>3 DEF Spent, Newest, IsExpired
  <2>4. Renewing(i)'
    BY <1>a, <1>2, <2>3 DEF Same, Renewing, Newest
  <2> QED
    BY <2>1, <2>2, <2>4 DEF Same
<1>b. ASSUME UNCHANGED conn PROVE Same(i)'
  BY <1>0, <1>b, OtherSame
<1>c. ASSUME NEW p, Goto(i, p)
      PROVE  Stays /\ Quiet /\ conn'[i].pc = p /\ conn'[i].enc = r.enc
  BY <1>0, <1>c DEF Goto, ConnRec
<1>d. k.nr < Newest(k.mgr) /\ r.ticket # None => Newest(k.mgr) > 0
  BY <1>1
<1>3. CASE NewConn(i)
  <2>1. /\ Stays /\ Quiet /\ UNCHANGED keys /\ r.pc = "free"
        /\ conn'[i].pc = "hello"
    BY <1>0, <1>3 DEF NewConn, At, Frame, ConnRec
  <2> QED
    BY <2>1, <1>a DEF Asking
<1>4. CASE \E t \in tickets \cup {None} : Hello(i, t)
  <2>0. PICK t \in tickets \cup {None} : Hello(i, t)
    BY <1>4
  <2>1. /\ conn'[i].pc \in {"store", "sni"} /\ r.pc = "hello"
        /\ conn'[i].pc = "store" => "ticket" \in hooks[r.own]
        /\ conn'[i].ticket = t /\ conn'[i].own = r.own
        /\ conn'[i].behind = (t # None /\ t.nr < Newest(t.mgr))
        /\ Quiet /\ UNCHANGED keys
    BY <1>0, <2>0 DEF Hello, At, ConnRec, Frame
  <2>2. ~r.resumed /\ ~r.refused
    BY <2>1 DEF Good, Started
  <2>3. StoreSeen(i)' /\ Registered(i)' /\ GoodReason(i)'
    BY <1>0, <2>1, <2>2 DEF Same, StoreSeen, Registered, GoodReason, Asking
  <2>4. Renewing(i)'
    BY <2>1, <2>2 DEF Renewing, Newest
  <2> QED
    BY <2>3, <2>4 DEF Same
<1>5. CASE ReadStore(i)
  <2>1. /\ r.pc = "store" /\ conn'[i].seen = go[r.ctx].store
        /\ conn'[i].pc = IF conn'[i].seen = None THEN After(i) ELSE "mutex"
        /\ conn'[i].enc = r.enc /\ conn'[i].ctx = r.ctx
        /\ conn'[i].resumed = r.resumed /\ conn'[i].renew = r.renew
        /\ conn'[i].refused = (r.refused \/ ~r.enc)
        /\ Stays /\ UNCHANGED keys
    BY <1>0, <1>5 DEF ReadStore, At, InForce, ConnRec, Frame
  <2>2. r.ticket # None => conn'[i].pc = "mutex"
    BY <1>1, <2>1
  <2>3. ~r.enc => Asking(i) /\ r.ticket # None
    BY <2>1 DEF Good, Started, Asking
  <2>4. StoreSeen(i)' /\ Registered(i)'
    BY <1>0, <2>1, <2>3 DEF Same, StoreSeen, Registered, Asking
  <2>5. GoodReason(i)'
    BY <2>1, <2>2, <2>3 DEF Same, GoodReason, Asking, IsExpired
  <2>6. Renewing(i)'
    BY <1>2, <2>1, <2>2 DEF Same, Renewing, Newest
  <2> QED
    BY <2>4, <2>5, <2>6 DEF Same
<1>6. CASE LockStore(i)
  <2>1. /\ r.pc = "mutex" /\ UNCHANGED keys
        /\ Exit(i) \/ Goto(i, IF r.enc THEN "current" ELSE "lookup")
    BY <1>6 DEF LockStore, At
  <2>2. CASE Exit(i)
    BY <2>2, <1>b DEF Exit
  <2>3. CASE Goto(i, IF r.enc THEN "current" ELSE "lookup")
    BY <2>1, <2>3, <1>a, <1>c DEF Asking
  <2> QED
    BY <2>1, <2>2, <2>3
<1>7. CASE Lookup(i)
  <2>1. /\ r.pc = "lookup" /\ UNCHANGED keys
        /\ \/ Goto(i, "expired")
           \/ Goto(i, "sni") /\ ~Knows(r.seen, k)
    BY <1>7 DEF Lookup, At, Store
  <2>2. r.ticket # None /\ ~r.enc /\ r.seen = k.mgr
    BY <1>1, <2>1 DEF Same, StoreSeen, Good, FoundStore, InManager, Started,
      Asking, Early
  <2>3. ~Knows(r.seen, k) => IsExpired(k)
    BY <1>1, <2>2 DEF Knows, IsExpired
  <2> QED
    BY <2>1, <2>2, <2>3, <1>a, <1>c DEF Asking
<1>8. CASE Expired(i)
  <2>1. /\ r.pc = "expired" /\ UNCHANGED keys
        /\ \/ Goto(i, "sni") /\ IsExpired(k)
           \/ Goto(i, "renew")
    BY <1>8 DEF Expired, At, Refuse
  <2>2. ~r.enc
    BY <2>1 DEF Good, Started, Early
  <2> QED
    BY <2>1, <2>2, <1>a, <1>c DEF Asking
<1>9. CASE ShouldRenew(i)
  <2>1. /\ r.pc = "renew" /\ conn'[i].pc = "sni" /\ UNCHANGED keys
        /\ conn'[i].enc = r.enc /\ conn'[i].seen = r.seen
        /\ conn'[i].ctx = r.ctx /\ conn'[i].resumed = TRUE
        /\ conn'[i].renew = (k.nr < Newest(r.seen))
        /\ conn'[i].refused = FALSE /\ Stays
    BY <1>0, <1>9 DEF ShouldRenew, Answer, Store, At, ConnRec
  <2>2. Asking(i) /\ r.ticket # None /\ r.seen = k.mgr
    BY <1>1, <2>1 DEF Same, StoreSeen, Good, FoundStore, InManager, Started,
      Asking, Early
  <2>3. StoreSeen(i)' /\ Registered(i)' /\ GoodReason(i)'
    BY <1>0, <2>1, <2>2 DEF Same, StoreSeen, Registered, GoodReason, Asking
  <2>4. Renewing(i)'
    BY <1>2, <2>1, <2>2 DEF Renewing, Newest
  <2> QED
    BY <2>3, <2>4 DEF Same
<1>10. CASE SniThunk(i)
  <2>1. CASE Exit(i)
    BY <2>1, <1>b DEF Exit
  <2>2. CASE ~Exit(i)
    <3>1. /\ r.pc = "sni" /\ conn'[i].pc = "alpn" /\ UNCHANGED keys /\ Stays
          /\ conn'[i].seen = r.seen /\ conn'[i].refused = r.refused
          /\ conn'[i].resumed = r.resumed /\ conn'[i].renew = r.renew
          /\ \/ conn'[i].ctx = r.ctx
             \/ /\ conn'[i].ctx = go[r.ctx].sni
                /\ go[r.ctx].sni \notin {None, "nil"}
      BY <1>0, <1>10, <2>2 DEF SniThunk, At, Frame, ConnRec
    <3>2. conn'[i].ctx \in Ctxs
      <4>1. go[r.ctx].sni \in Ctxs \cup {"nil", None}
        BY <1>0 DEF Fields
      <4> QED
        BY <1>0, <3>1, <4>1
    <3>3. Quiet
      BY <1>0, <3>1, <3>2 DEF Kept, OneStore
    <3> QED
      BY <3>1, <3>3, <1>a DEF Asking
  <2> QED
    BY <2>1, <2>2
<1>11. CASE AlpnThunk(i)
  <2>1. /\ r.pc = "alpn" /\ UNCHANGED keys
        /\ \/ Exit(i) \/ Goto(i, "failed") \/ Goto(i, "verify") \/ Goto(i, "issue")
    BY <1>11 DEF AlpnThunk, At, Frame
  <2> QED
    BY <2>1, <1>a, <1>b, <1>c DEF Exit, Asking
<1>12. CASE VerifyThunk(i)
  <2>1. /\ r.pc = "verify" /\ UNCHANGED keys
        /\ Exit(i) \/ Goto(i, "failed") \/ Goto(i, "issue")
    BY <1>12 DEF VerifyThunk, At, Frame
  <2> QED
    BY <2>1, <1>a, <1>b, <1>c DEF Exit, Asking
<1>13. CASE Issue(i)
  <2>1. /\ r.pc = "issue" /\ conn'[i].enc /\ UNCHANGED keys /\ Stays /\ Quiet
        /\ conn'[i].pc =
             IF "ticket" \in hooks[r.own] /\ (r.resumed => r.renew)
             THEN "store" ELSE "done"
    BY <1>0, <1>13 DEF Issue, At, Frame, ConnRec
  <2>2. r.resumed /\ r.behind => conn'[i].pc = "store"
    BY <2>1 DEF Same, Registered, Renewing
  <2> QED
    BY <2>1, <2>2, <1>a DEF Asking
\* A ticket is given, under a key at least as new as any before.
<1>e. ASSUME r.pc \in {"current", "new"}, NEW n \in Nat, Give(i, n),
             Newest(r.seen) <= n, KeyName(i, n) \in Key
      PROVE  Same(i)'
  <2>1. /\ conn'[i].pc = "done" /\ conn'[i].enc = r.enc /\ Stays /\ Quiet
        /\ conn'[i].issued = KeyName(i, n)
    BY <1>0, <1>e DEF Give, ConnRec
  <2>2. r.enc
    BY <1>e DEF Good, Started
  <2>3. StoreSeen(i)' /\ Registered(i)'
    BY <1>0, <2>1, <2>2 DEF Same, StoreSeen, Registered, Asking
  <2>4. GoodReason(i)'
    BY <1>1, <2>1, <2>2 DEF Same, GoodReason, Asking, IsExpired
  <2>5. ASSUME r.resumed, r.behind
        PROVE  KeyName(i, n) # None /\ KeyName(i, n).nr > k.nr
    <3>1. r.seen = k.mgr
      BY <1>1, <1>2, <1>e, <2>5 DEF Same, StoreSeen, Good, FoundStore, InManager
    <3>2. k.nr < n
      BY <1>1, <1>2, <1>e, <2>5, <3>1
    <3> QED
      BY <1>e, <3>2, ContextAssumption DEF KeyName
  <2>6. Renewing(i)'
    BY <1>2, <2>1, <2>5 DEF Same, Renewing, Newest
  <2> QED
    BY <2>3, <2>4, <2>6 DEF Same
<1>f. ASSUME r.pc \in {"current", "new"}
      PROVE  /\ Store(i) = r.seen /\ r.seen \in Managers /\ Newest(r.seen) \in Nat
             /\ Newest(r.seen) <= MaxKeys /\ ~Asking(i)
             /\ r.ticket # None => r.seen = k.mgr
  <2>1. Store(i) \in Managers /\ Newest(Store(i)) \in Nat /\ Newest(Store(i)) <= MaxKeys
    BY <1>f, StoreFound DEF Good, InManager
  <2>2. r.ticket # None => r.seen = k.mgr
    BY <1>1, <1>f DEF Same, StoreSeen, Good, FoundStore, InManager
  <2> QED
    BY <1>f, <2>1, <2>2 DEF Asking, Store
<1>14. CASE Current(i)
  <2>1. /\ r.pc = "current" /\ UNCHANGED keys
        /\ \/ Newest(Store(i)) > 0 /\ Give(i, Newest(Store(i)))
           \/ /\ Goto(i, "new")
              /\ ~(Newest(Store(i)) > 0 /\ keys[Store(i)][Newest(Store(i))] = "live")
    BY <1>14 DEF Current, At
  <2>2. CASE Newest(Store(i)) > 0 /\ Give(i, Newest(Store(i)))
    <3>1. KeyName(i, Newest(Store(i))) \in Key
      BY <1>0, <1>f, <2>1, <2>2 DEF KeyName, Key
    <3> QED
      BY <1>e, <1>f, <2>1, <2>2, <3>1
  <2>3. CASE /\ Goto(i, "new")
             /\ ~(Newest(Store(i)) > 0 /\ keys[Store(i)][Newest(Store(i))] = "live")
    <3>1. ASSUME r.resumed, r.behind PROVE Spent(k)
      <4>1. /\ r.ticket # None /\ r.seen = k.mgr /\ k.nr < Newest(k.mgr)
            /\ k \in Key /\ k.nr \in Nat \ {0} /\ Newest(k.mgr) \in Nat
        BY <1>1, <1>2, <1>f, <2>1, <3>1
      <4>2. keys[k.mgr][Newest(k.mgr)] # "live"
        BY <1>f, <2>1, <2>3, <4>1
      <4>3. IsExpired([k EXCEPT !.nr = Newest(k.mgr)])
        BY <4>1, <4>2 DEF IsExpired, Key
      <4>4. Newest(k.mgr) \in (k.nr + 1)..Newest(k.mgr)
        BY <4>1
      <4> QED
        BY <4>3, <4>4 DEF Spent
    <3> QED
      BY <1>a, <1>c, <1>f, <2>1, <2>3, <3>1 DEF Asking
  <2> QED
    BY <2>1, <2>2, <2>3
<1>15. CASE New(i)
  <2>1. /\ r.pc = "new"
        /\ \/ Newest(Store(i)) < MaxKeys /\ Give(i, Newest(Store(i)) + 1)
           \/ ~(Newest(Store(i)) < MaxKeys) /\ Goto(i, "done") /\ UNCHANGED keys
    BY <1>15 DEF New, At
  <2>2. CASE Newest(Store(i)) < MaxKeys /\ Give(i, Newest(Store(i)) + 1)
    <3>1. KeyName(i, Newest(Store(i)) + 1) \in Key
      BY <1>0, <1>f, <2>1, <2>2 DEF KeyName, Key
    <3> QED
      BY <1>e, <1>f, <2>1, <2>2, <3>1
  <2>3. CASE ~(Newest(Store(i)) < MaxKeys) /\ Goto(i, "done") /\ UNCHANGED keys
    <3>1. ASSUME r.resumed, r.behind PROVE Newest(k.mgr) = MaxKeys /\ Spent(k)
      BY <1>0, <1>2, <1>f, <2>1, <2>3, <3>1 DEF Same, Renewing
    <3> QED
      BY <1>a, <1>c, <1>f, <2>1, <2>3, <3>1 DEF Asking
  <2> QED
    BY <2>1, <2>2, <2>3
<1> QED
  BY <1>3, <1>4, <1>5, <1>6, <1>7, <1>8, <1>9, <1>10, <1>11, <1>12,
     <1>13, <1>14, <1>15 DEF Handshake

\* Connections begin so.
LEMMA SameInit == Init => (\A i \in Conns : Same(i)) /\ TicketsOfStore
<1> SUFFICES ASSUME Init, NEW i \in Conns PROVE Same(i) /\ TicketsOfStore
  BY DEF TicketsOfStore, Init
<1>1. PICK c \in Ctxs : conn[i] = Fresh(c)
  BY DEF Init
<1>2. Same(i)
  BY <1>1 DEF Same, StoreSeen, GoodReason, Registered, Asking, Renewing, Fresh
<1> QED
  BY <1>2 DEF TicketsOfStore, Init

\* Every step of anybody keeps a connection so.
LEMMA SameStep ==
  ASSUME SafeInv, Kept, Kept', TicketsOfStore, \A i \in Conns : Same(i),
         [Next]_vars, NEW i \in Conns
  PROVE  Same(i)'
<1>0. /\ Typed /\ TicketsKnown /\ SettersInv /\ KeysOK' /\ Older
      /\ Good(i) /\ Same(i) /\ \A j \in Conns : FoundStore(j)
      /\ conn \in [Conns -> ConnRec] /\ conn[i] \in ConnRec
      /\ conn[i].ctx \in Ctxs /\ conn[i].own \in Ctxs
      /\ hooks \in [Ctxs -> SUBSET Hooks]
  BY KeysStep DEF SafeInv, Good, Typed, TypeOK
<1>1. go'[conn[i].ctx].store = go[conn[i].ctx].store
  BY <1>0, KeptStep
<1>2. ASSUME conn'[i] = conn[i], hooks' = hooks PROVE Same(i)'
  BY <1>0, <1>1, <1>2, OtherSame
<1>a. ASSUME /\ conn'[i].pc = conn[i].pc /\ conn'[i].enc = conn[i].enc
             /\ conn'[i].own = conn[i].own /\ conn'[i].refused = conn[i].refused
             /\ conn'[i].seen = conn[i].seen /\ conn'[i].ticket = conn[i].ticket
             /\ conn'[i].behind = conn[i].behind /\ conn'[i].ctx = conn[i].ctx
             /\ conn'[i].resumed = conn[i].resumed
             /\ conn'[i].renew = conn[i].renew /\ conn'[i].issued = conn[i].issued,
             keys' = keys, hooks' = hooks
      PROVE  Same(i)'
  <2>1. Asking(i)' = Asking(i)
    BY <1>a DEF Asking
  <2>2. StoreSeen(i)' /\ GoodReason(i)' /\ Registered(i)'
    BY <1>0, <1>1, <1>a, <2>1 DEF Same, StoreSeen, GoodReason, Registered, IsExpired
  <2>3. Renewing(i)'
    BY <1>0, <1>a DEF Same, Renewing, Newest, Spent, IsExpired
  <2> QED
    BY <2>2, <2>3 DEF Same
<1>3. ASSUME NEW c \in Ctxs, NEW cb \in Callbacks \cup {None}, SetVerify(c, cb)
      PROVE  Same(i)'
  <2>1. conn'[i] = [conn[i] EXCEPT !.must = @ /\ c # conn[i].ctx]
    BY <1>3 DEF SetVerify
  <2>2. keys' = keys /\ hooks' = hooks
    BY <1>3 DEF SetVerify, Setter
  <2> QED
    BY <1>0, <1>a, <2>1, <2>2 DEF ConnRec
<1>4. ASSUME NEW j \in Conns, NEW cb \in Callbacks, SslSetVerify(j, cb)
      PROVE  Same(i)'
  <2>1. conn' = [conn EXCEPT ![j].sslCb = cb, ![j].hook = "ssl", ![j].must = FALSE]
        /\ keys' = keys /\ hooks' = hooks
    BY <1>4 DEF SslSetVerify
  <2>2. CASE j = i
    BY <1>0, <1>a, <2>1, <2>2 DEF ConnRec
  <2>3. CASE j # i
    BY <1>0, <1>2, <2>1, <2>3
  <2> QED
    BY <2>2, <2>3
<1>5. CASE SetterReturns
  <2>1. /\ app # None /\ app.ctx \in Ctxs /\ conn' = conn
        /\ hooks' = [hooks EXCEPT ![app.ctx] =
                       IF app.on THEN @ \cup {app.hook} ELSE @ \ {app.hook}]
        /\ moved' = moved
    BY <1>0, <1>5 DEF SetterReturns, Register, Setting, Typed, TypeOK
  <2>2. app.hook # "ticket"
    BY <1>0, <2>1 DEF SettersInv, Kept
  <2>3. "ticket" \in hooks[conn[i].own] => "ticket" \in hooks'[conn[i].own]
    BY <1>0, <2>1, <2>2
  <2> QED
    BY <1>0, <1>1, <2>1, <2>3, OtherSame
<1>6. ASSUME NEW j \in Conns, Handshake(j) PROVE Same(i)'
  <2>1. CASE j = i
    BY <1>0, <1>6, <2>1, HandshakeSame
  <2>2. CASE j # i
    <3>1. conn'[i] = conn[i] /\ hooks' = hooks
      BY <1>0, <1>6, <2>2, HandshakeTyped, HandshakeRest DEF setterVars
    <3> QED
      BY <1>2, <3>1
  <2> QED
    BY <2>1, <2>2
<1>7. ASSUME NEW m \in Managers,
             Rotate(m) \/ \E n \in DOMAIN keys[m] : Expire(m, n)
      PROVE  Same(i)'
  BY <1>2, <1>7 DEF Rotate, Expire, setterVars
<1>8. ASSUME NEW c \in Ctxs,
             \/ \E d \in Ctxs \cup {"nil"} : SetTLSExtServernameCallback(c, d)
             \/ \E l \in {"list", "empty"} : SetServerALPNProtos(c, l)
             \/ \E m \in Managers \cup {None} : SetTicketStore(c, m)
      PROVE  Same(i)'
  BY <1>2, <1>8 DEF SetTLSExtServernameCallback, SetServerALPNProtos,
    SetTicketStore, Setter
<1>9. Done \/ UNCHANGED vars => Same(i)'
  BY <1>2 DEF Done, vars, setterVars
<1> QED
  BY <1>3, <1>4, <1>5, <1>6, <1>7, <1>8, <1>9 DEF Next

\* New tickets are of the store that the callback saw.
LEMMA TicketsOfStoreStep ==
  ASSUME SafeInv, Kept, Kept', TicketsOfStore, \A i \in Conns : Same(i),
         [Next]_vars
  PROVE  TicketsOfStore'
<1>0. /\ Typed /\ KeysOK' /\ Older /\ \A j \in Conns : FoundStore(j)
      /\ \A c \in Ctxs : go'[c].store = go[c].store
      /\ conn \in [Conns -> ConnRec] /\ \A j \in Conns : conn[j].ctx \in Ctxs
  BY KeysStep, KeptStep DEF SafeInv, Good, Typed, TypeOK
<1>1. ASSUME NEW t \in tickets, NEW c \in Ctxs PROVE t.mgr = go'[c].store
  BY <1>0 DEF TicketsOfStore
<1>2. ASSUME NEW t \in tickets' \ tickets, NEW c \in Ctxs
      PROVE  t.mgr = go'[c].store
  <2>1. PICK i \in Conns : Current(i) \/ New(i)
    <3>1. ASSUME NEW i \in Conns,
                 \/ NewConn(i) \/ \E u \in tickets \cup {None} : Hello(i, u)
                 \/ ReadStore(i) \/ LockStore(i) \/ Lookup(i) \/ Expired(i)
                 \/ ShouldRenew(i) \/ SniThunk(i) \/ AlpnThunk(i)
                 \/ VerifyThunk(i) \/ Issue(i)
                 \/ \E cb \in Callbacks : SslSetVerify(i, cb)
          PROVE  tickets' = tickets
      BY <3>1 DEF NewConn, Hello, ReadStore, LockStore, Lookup, Expired,
        ShouldRenew, SniThunk, AlpnThunk, VerifyThunk, Issue, SslSetVerify, Frame
    <3>2. ASSUME NEW m \in Managers,
                 Rotate(m) \/ \E n \in DOMAIN keys[m] : Expire(m, n)
          PROVE  tickets' = tickets
      BY <3>2 DEF Rotate, Expire
    <3>3. Done \/ UNCHANGED vars \/ SetterReturns => tickets' = tickets
      BY DEF Done, vars, SetterReturns
    <3>4. ASSUME NEW d \in Ctxs,
                 \/ \E cb \in Callbacks \cup {None} : SetVerify(d, cb)
                 \/ \E e \in Ctxs \cup {"nil"} : SetTLSExtServernameCallback(d, e)
                 \/ \E l \in {"list", "empty"} : SetServerALPNProtos(d, l)
                 \/ \E m \in Managers \cup {None} : SetTicketStore(d, m)
          PROVE  tickets' = tickets
      BY <3>4 DEF SetVerify, SetTLSExtServernameCallback, SetServerALPNProtos,
        SetTicketStore, Setter
    <3> QED
      BY <1>2, <3>1, <3>2, <3>3, <3>4, SMTT(30) DEF Next, Handshake
  <2>2. /\ conn[i].pc \in InManager /\ t.mgr = conn[i].seen
    BY <1>0, <1>2, <2>1, HandshakeRest DEF Handshake, Current, New, At, InManager
  <2>3. conn[i].seen = go[conn[i].ctx].store
    BY <1>0, <2>2 DEF Same, StoreSeen, FoundStore
  <2> QED
    BY <1>0, <2>2, <2>3 DEF Kept, OneStore
<1> QED
  BY <1>1, <1>2 DEF TicketsOfStore

\* All of that, under one store that is never replaced.
TicketInv ==
  /\ SafeInv
  /\ Kept => TicketsOfStore /\ \A i \in Conns : Same(i)

(* While all contexts have one store, a ticket callback works with that    *)
(* store and no other, and refuses or renews for a reason (tickets.go:119).*)
THEOREM TicketsCorrect == Spec => []TicketInv
<1>1. Init /\ SafeInv => TicketInv
  BY SameInit DEF TicketInv
<1>2. SafeInv' /\ TicketInv /\ [Next]_vars => TicketInv'
  <2> SUFFICES ASSUME SafeInv', TicketInv, [Next]_vars, Kept'
               PROVE  TicketsOfStore' /\ \A i \in Conns : Same(i)'
    BY DEF TicketInv
  <2>1. \A i \in Conns : FoundStore(i)
    BY DEF TicketInv, SafeInv, Good
  <2>2. Kept
    BY <2>1, KeptStep DEF TicketInv, SafeInv
  <2> QED
    BY <2>2, SameStep, TicketsOfStoreStep DEF TicketInv
<1> QED
  BY <1>1, <1>2, SafetyHolds, PTL DEF Spec

(* With one store that is never replaced, a ticket is refused only when    *)
(* its key has expired (tickets.go:119).                                   *)
THEOREM GoodTicketsResume == Spec => []TicketsResume
<1>1. TicketInv => TicketsResume
  BY DEF TicketInv, SafeInv, Same, GoodReason, Asking, Kept, TicketsResume,
    InManager
<1> QED
  BY <1>1, TicketsCorrect, PTL

(* A client that resumed under a key that was not the newest leaves with a *)
(* ticket under a newer one, or the manager is exhausted.                  *)
THEOREM OldKeysAreRenewed == Spec => []RenewalIsGiven
<1>1. TicketInv => RenewalIsGiven
  BY DEF TicketInv, Same, Renewing, Kept, Spent, RenewalIsGiven
<1> QED
  BY <1>1, TicketsCorrect, PTL
=============================================================================
