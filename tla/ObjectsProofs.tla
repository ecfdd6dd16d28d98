---------------------------- MODULE ObjectsProofs ----------------------------
(***************************************************************************)
(* Who owns which C object, for any number of objects and wrappers.        *)
(***************************************************************************)
EXTENDS Objects, FiniteSetTheorems, WellFoundedInduction, TLAPS

-----------------------------------------------------------------------------
(* What can be reached, in any graph r on the nodes g. *)

ClosedIn(r, S) == \A o \in S : r[o] \subseteq S

ReachIn(g, r, set) ==
    set \cup {o \in g \ set :
                \A S \in SUBSET (g \ (set \cup {o})) : ~ClosedIn(r, set \cup S)}

\* Reach and Closed are these for the wrappers and their fields.
LEMMA ReachIsReachIn ==
    /\ \A set : Reach(set) = ReachIn(go, refs, set)
    /\ Usable = ReachIn(go, refs, root)
<1>1. \A set : Reach(set) = ReachIn(go, refs, set)
  BY DEF Reach, ReachIn, Closed, ClosedIn
<1> QED
  BY <1>1 DEF Usable

\* A closed set that contains set contains all that can be reached from it.
LEMMA ReachLeast ==
    ASSUME NEW g, NEW r, \A o \in g : r[o] \subseteq g, NEW set \in SUBSET g,
           NEW S, ClosedIn(r, S), set \subseteq S
    PROVE  ReachIn(g, r, set) \subseteq S
<1> SUFFICES ASSUME NEW o \in ReachIn(g, r, set), o \notin S
             PROVE  FALSE
  OBVIOUS
<1> DEFINE T == (S \cap g) \ set
<1>1. T \in SUBSET (g \ (set \cup {o})) /\ set \cup T = S \cap g
  OBVIOUS
<1>2. ClosedIn(r, set \cup T)
  BY <1>1 DEF ClosedIn
<1>3. o \in g \ set
  BY DEF ReachIn
<1> QED
  BY <1>1, <1>2, <1>3 DEF ReachIn

LEMMA ReachClosed ==
    ASSUME NEW g, NEW r, \A o \in g : r[o] \subseteq g, NEW set \in SUBSET g
    PROVE  /\ set \subseteq ReachIn(g, r, set)
           /\ ReachIn(g, r, set) \subseteq g
           /\ ClosedIn(r, ReachIn(g, r, set))
<1>1. set \subseteq ReachIn(g, r, set) /\ ReachIn(g, r, set) \subseteq g
  BY DEF ReachIn
<1>2. ASSUME NEW o \in ReachIn(g, r, set), NEW q \in r[o],
             q \notin ReachIn(g, r, set)
      PROVE  FALSE
  <2>1. q \in g \ set
    BY <1>1, <1>2
  <2>2. PICK T \in SUBSET (g \ (set \cup {q})) : ClosedIn(r, set \cup T)
    BY <1>2, <2>1 DEF ReachIn
  <2>3. o \in set \cup T
    BY <2>2, ReachLeast
  <2> QED
    BY <1>2, <2>1, <2>2, <2>3 DEF ClosedIn
<1> QED
  BY <1>1, <1>2 DEF ClosedIn

-----------------------------------------------------------------------------
(* Reference counts.  A table of them is counted when each is the number   *)
(* of owners, and layered when connections own contexts and certificates   *)
(* of peers, and contexts and stores own certificates.                     *)

Counted(t) ==
    \A c \in CObjects :
        IsFiniteSet(t.owners[c]) /\ t.count[c] = Cardinality(t.owners[c])

Layered(t) ==
    \A c \in CObjects : \A o \in t.owners[c] :
        \/ o[2] = "go"
        \/ o[1] \in Conns /\ c \in Ctxs \cup Peers
        \/ o[1] \in Ctxs \cup Stores /\ c \in Certs

IsTable(t) ==
    t = [count |-> t.count, owners |-> t.owners]
      /\ t.count = [c \in CObjects |-> t.count[c]]
      /\ t.owners = [c \in CObjects |-> t.owners[c]]

\* An object is gone when it has no owner.
LEMMA CountedZero ==
    ASSUME NEW t, Counted(t), NEW c \in CObjects
    PROVE  /\ t.count[c] \in Nat
           /\ t.count[c] = 0 <=> t.owners[c] = {}
BY FS_EmptySet, FS_CardinalityType DEF Counted

LEMMA UpRefFacts ==
    ASSUME NEW t, IsTable(t), Counted(t), NEW c \in CObjects, NEW owner
    PROVE  LET u == UpRef(t, c, owner) IN
           /\ IsTable(u) /\ Counted(u)
           /\ u.owners[c] = t.owners[c] \cup {owner}
           /\ \A d \in CObjects : d # c => u.owners[d] = t.owners[d]
<1> DEFINE u == UpRef(t, c, owner)
<1>1. CASE owner \in t.owners[c]
  BY <1>1 DEF UpRef
<1>2. CASE owner \notin t.owners[c]
  <2>1. u = [count  |-> [t.count EXCEPT ![c] = @ + 1],
             owners |-> [t.owners EXCEPT ![c] = @ \cup {owner}]]
    BY <1>2 DEF UpRef
  <2>a. /\ u.count = [t.count EXCEPT ![c] = @ + 1]
        /\ u.owners = [t.owners EXCEPT ![c] = @ \cup {owner}]
        /\ u = [count |-> u.count, owners |-> u.owners]
    BY <2>1
  <2> HIDE DEF u
  <2>2. /\ IsTable(u)
        /\ u.owners[c] = t.owners[c] \cup {owner}
        /\ u.count[c] = t.count[c] + 1
        /\ \A d \in CObjects :
             d # c => u.owners[d] = t.owners[d] /\ u.count[d] = t.count[d]
    BY <2>a DEF IsTable
  <2>3. IsFiniteSet(u.owners[c]) /\ u.count[c] = Cardinality(u.owners[c])
    BY <1>2, <2>2, FS_AddElement, ZenonT(60) DEF Counted
  <2>4. Counted(u)
    BY <2>2, <2>3 DEF Counted
  <2> QED
    BY <2>2, <2>4 DEF u
<1> QED
  BY <1>1, <1>2

LEMMA FreeFacts ==
    ASSUME NEW t, Counted(t), NEW pairs
    PROVE  LET f == Free(t, pairs) IN
           /\ IsTable(f) /\ Counted(f)
           /\ \A c \in CObjects :
                f.owners[c] = {o \in t.owners[c] : <<c, o>> \notin pairs}
<1> DEFINE f == Free(t, pairs)
           objects == {pair[1] : pair \in pairs}
           freed(c) == {o \in t.owners[c] : <<c, o>> \in pairs}
<1>1. IsTable(f)
  BY DEF Free, IsTable
<1>2. ASSUME NEW c \in CObjects
      PROVE  /\ f.owners[c] = {o \in t.owners[c] : <<c, o>> \notin pairs}
             /\ IsFiniteSet(f.owners[c])
             /\ f.count[c] = Cardinality(f.owners[c])
  <2>1. CASE c \notin objects
    <3>1. f.owners[c] = t.owners[c] /\ f.count[c] = t.count[c]
      BY <2>1 DEF Free
    <3>2. ASSUME NEW o, <<c, o>> \in pairs PROVE FALSE
      <4>1. <<c, o>>[1] \in objects
        BY <3>2
      <4> QED
        BY <2>1, <4>1
    <3> QED
      BY <3>1, <3>2 DEF Counted
  <2>2. CASE c \in objects
    <3>1. /\ f.owners[c] = t.owners[c] \ freed(c)
          /\ f.count[c] = IF Cardinality(freed(c)) > t.count[c] THEN 0
                          ELSE t.count[c] - Cardinality(freed(c))
      BY <2>2 DEF Free
    <3>2. /\ IsFiniteSet(t.owners[c]) /\ t.count[c] = Cardinality(t.owners[c])
          /\ freed(c) \subseteq t.owners[c]
      BY DEF Counted
    <3>3. /\ Cardinality(freed(c)) <= t.count[c] /\ t.count[c] \in Nat
          /\ Cardinality(freed(c)) \in Nat
      <4> HIDE DEF freed
      <4>1. freed(c) \in SUBSET t.owners[c]
        BY <3>2
      <4>2. IsFiniteSet(freed(c)) /\ Cardinality(freed(c)) <= Cardinality(t.owners[c])
        BY <3>2, <4>1, FS_Subset
      <4> QED
        BY <3>2, <4>2, FS_CardinalityType
    <3>4. /\ IsFiniteSet(t.owners[c] \ freed(c))
          /\ Cardinality(t.owners[c] \ freed(c)) =
               Cardinality(t.owners[c]) - Cardinality(t.owners[c] \cap freed(c))
      BY <3>2, FS_Difference
    <3>5. t.owners[c] \cap freed(c) = freed(c)
      BY <3>2
    <3>6. t.owners[c] \ freed(c) = {o \in t.owners[c] : <<c, o>> \notin pairs}
      OBVIOUS
    <3> HIDE DEF freed
    <3>7. f.count[c] = t.count[c] - Cardinality(freed(c))
      BY <3>1, <3>3
    <3>8. f.count[c] = Cardinality(t.owners[c] \ freed(c))
      BY <3>2, <3>4, <3>5, <3>7
    <3> HIDE DEF f
    <3> QED
      BY <3>1, <3>4, <3>6, <3>8
  <2> QED
    BY <2>1, <2>2
<1>3. Counted(f)
  BY <1>2 DEF Counted
<1> QED
  BY <1>1, <1>2, <1>3

\* An object that is alive, in a table.
Live(t, c) == t.owners[c] # {}

\* Freeing the references of what died twice over is enough: a connection
\* takes its context with it, and that its certificates.
LEMMA ReleaseFacts ==
    ASSUME NEW t, Counted(t), Layered(t), NEW pairs
    PROVE  LET r == Release(t, pairs) IN
           /\ IsTable(r) /\ Counted(r)
           /\ \A c \in CObjects : \A o :
                o \in r.owners[c] <=>
                  /\ o \in t.owners[c] /\ <<c, o>> \notin pairs
                  /\ o[2] = "go" \/ (o[1] \in CObjects /\ Live(r, o[1]))
<1> DEFINE first  == Free(t, pairs)
           second == Free(first, OfTheDead(first))
           third  == Free(second, OfTheDead(second))
           Kept(u, c, o) == o[2] = "go" \/ Live(u, o[1])
<1>1. ASSUME NEW u, Counted(u), NEW c \in CObjects, NEW o \in u.owners[c],
             Layered(u)
      PROVE  <<c, o>> \in OfTheDead(u) <=> o[2] # "go" /\ ~Live(u, o[1])
  <2>1. o[2] # "go" => o[1] \in CObjects
    BY <1>1 DEF Layered, CObjects
  <2>2. o[2] # "go" => (u.count[o[1]] = 0 <=> ~Live(u, o[1]))
    BY <1>1, <2>1, CountedZero DEF Live
  <2>3. <<c, o>> \in OfTheDead(u) <=>
          o[2] # "go" /\ o[1] \in {d \in CObjects : u.count[d] = 0}
    BY <1>1 DEF OfTheDead
  <2> QED
    BY <2>1, <2>2, <2>3
<1>2. ASSUME NEW u, Counted(u), Layered(u)
      PROVE  LET f == Free(u, OfTheDead(u)) IN
             /\ IsTable(f) /\ Counted(f) /\ Layered(f)
             /\ \A c \in CObjects : \A o :
                  o \in f.owners[c] <=>
                    o \in u.owners[c] /\ (o[2] = "go" \/ Live(u, o[1]))
  <2> DEFINE f == Free(u, OfTheDead(u))
  <2>1. /\ IsTable(f) /\ Counted(f)
        /\ \A c \in CObjects :
             f.owners[c] = {o \in u.owners[c] : <<c, o>> \notin OfTheDead(u)}
    BY <1>2, FreeFacts
  <2>2. \A c \in CObjects : \A o :
          o \in f.owners[c] <=>
            o \in u.owners[c] /\ (o[2] = "go" \/ Live(u, o[1]))
    BY <1>1, <1>2, <2>1
  <2>3. Layered(f)
    BY <1>2, <2>2 DEF Layered
  <2> QED
    BY <2>1, <2>2, <2>3
<1>3. /\ IsTable(first) /\ Counted(first)
      /\ \A c \in CObjects :
           first.owners[c] = {o \in t.owners[c] : <<c, o>> \notin pairs}
  BY FreeFacts
<1>4. Layered(first)
  BY <1>3 DEF Layered
<1> HIDE DEF first
<1>5. /\ IsTable(second) /\ Counted(second) /\ Layered(second)
      /\ \A c \in CObjects : \A o :
           o \in second.owners[c] <=>
             o \in first.owners[c] /\ (o[2] = "go" \/ Live(first, o[1]))
  BY <1>2, <1>3, <1>4
<1> HIDE DEF second
<1>6. /\ IsTable(third) /\ Counted(third) /\ Layered(third)
      /\ \A c \in CObjects : \A o :
           o \in third.owners[c] <=>
             o \in second.owners[c] /\ (o[2] = "go" \/ Live(second, o[1]))
  BY <1>2, <1>5
<1> HIDE DEF third
\* what is left of the references of an object that died has died with it
<1>7. ASSUME NEW c \in CObjects, NEW o \in third.owners[c], o[2] # "go"
      PROVE  Live(third, o[1])
  <2>1. /\ o \in second.owners[c] /\ Live(second, o[1])
        /\ o \in first.owners[c] /\ Live(first, o[1])
    BY <1>5, <1>6, <1>7
  <2>2. PICK q \in second.owners[o[1]] : TRUE
    BY <2>1 DEF Live
  <2>3. o[1] \in CObjects
    BY <1>4, <1>7, <2>1 DEF Layered, CObjects
  <2>4. CASE q[2] = "go" \/ Live(second, q[1])
    BY <1>6, <2>2, <2>3, <2>4 DEF Live
  <2>5. CASE q[2] # "go" /\ ~Live(second, q[1])
    <3>1. q \in first.owners[o[1]] /\ Live(first, q[1])
      BY <1>5, <2>2, <2>3, <2>5
    <3>2. PICK p \in first.owners[q[1]] : TRUE
      BY <3>1 DEF Live
    <3>3. q[1] \in CObjects
      BY <1>4, <2>3, <2>5, <3>1 DEF Layered, CObjects
    <3>4. p[2] # "go" /\ p \notin second.owners[q[1]]
      BY <1>5, <2>5, <3>2, <3>3 DEF Live
    <3> QED
      BY <1>4, <1>7, <2>1, <2>3, <2>5, <3>1, <3>2, <3>3, <3>4,
        ObjectsAssumption DEF Layered
  <2> QED
    BY <2>4, <2>5
<1>8. CASE OfTheDead(first) = {}
  <2>1. Release(t, pairs) = first
    BY <1>8 DEF Release, first
  <2>2. ASSUME NEW c \in CObjects, NEW o \in first.owners[c], o[2] # "go"
        PROVE  o[1] \in CObjects /\ Live(first, o[1])
    BY <1>1, <1>3, <1>4, <1>8, <2>2 DEF Layered, CObjects
  <2> QED
    BY <1>3, <2>1, <2>2
<1>9. CASE OfTheDead(first) # {}
  <2>1. Release(t, pairs) = third
    BY <1>9 DEF Release, first, second, third
  <2>2. ASSUME NEW c \in CObjects, NEW o,
               o \in t.owners[c], <<c, o>> \notin pairs,
               o[2] = "go" \/ (o[1] \in CObjects /\ Live(third, o[1]))
        PROVE  o \in third.owners[c]
    BY <1>3, <1>5, <1>6, <2>2, SMTT(30) DEF Live
  <2>3. ASSUME NEW c \in CObjects, NEW o \in third.owners[c]
        PROVE  /\ o \in t.owners[c] /\ <<c, o>> \notin pairs
               /\ o[2] # "go" => o[1] \in CObjects /\ Live(third, o[1])
    BY <1>3, <1>5, <1>6, <1>7, <2>3 DEF Layered, CObjects
  <2> QED
    BY <1>6, <2>1, <2>2, <2>3
<1> QED
  BY <1>8, <1>9

-----------------------------------------------------------------------------
(* The wrappers and their fields. *)

GoTypes ==
    /\ root \subseteq go /\ final \subseteq go /\ go \subseteq made
    /\ made \subseteq Wrappers
    /\ refs \in [Wrappers -> SUBSET go]
    /\ handle \in [Wrappers -> CObjects \cup {None}]
    /\ \A o \in go : handle[o] # None
    /\ kind \in [Wraps -> {None, "cert", "chain", "name", "store"}]
    /\ inner \in [Conns -> Ctxs \cup {None}]

\* whose object a wrapper has
Handles ==
    /\ \A o \in made \ Wraps : handle[o] = o
    /\ \A w \in Wraps \cap made :
         /\ kind[w] \in {"cert", "chain", "name", "store"}
         /\ kind[w] = "store" => handle[w] \in Ctxs
         /\ kind[w] \in {"cert", "chain"} => handle[w] \in Peers

\* only certificates lose their finalizer
Finalizers ==
    /\ go \cap (Ctxs \cup Conns \cup Stores) \subseteq final
    /\ \A w \in Wraps \cap go : w \in final <=> kind[w] = "cert"

\* what points to what
Fields ==
    /\ \A o \in Certs \cup Ctxs \cup Stores : refs[o] \subseteq Certs
    /\ \A k \in Conns : refs[k] \subseteq Ctxs
    /\ \A w \in Wraps : /\ kind[w] = "store" => refs[w] \subseteq Ctxs \cup Certs
                        /\ kind[w] = "chain" => refs[w] \subseteq Conns
                        /\ kind[w] \notin {"store", "chain"} => refs[w] = {}
    /\ \A o \in Wrappers \ go : refs[o] = {}

\* and never to itself, on no path
Acyclic ==
    \A o \in go : \E S \in SUBSET go :
        ClosedIn(refs, S) /\ refs[o] \subseteq S /\ o \notin S

GoInv == GoTypes /\ Handles /\ Finalizers /\ Fields /\ Acyclic

LEMMA UsableClosed ==
    ASSUME GoTypes
    PROVE  /\ root \subseteq Usable /\ Usable \subseteq go
           /\ \A o \in Usable : refs[o] \subseteq Usable
<1>1. \A o \in go : refs[o] \subseteq go
  BY DEF GoTypes
<1> QED
  BY <1>1, ReachClosed, ReachIsReachIn DEF GoTypes, ClosedIn

LEMMA UsableBound ==
    ASSUME GoTypes', NEW S, root' \subseteq S,
           \A o \in S : refs'[o] \subseteq S
    PROVE  Usable' \subseteq S
<1>1. Usable' = ReachIn(go', refs', root')
  BY DEF Usable, Reach, Closed, ReachIn, ClosedIn
<1>2. (\A o \in go' : refs'[o] \subseteq go') /\ root' \in SUBSET go'
  BY DEF GoTypes
<1> QED
  BY <1>1, <1>2, ReachLeast DEF ClosedIn

\* What a wrapper is must suit what it points to and has.
Suits(o, c, to, k, fin) ==
    IF o \in Wraps
    THEN /\ k \in {"cert", "chain", "name", "store"}
         /\ o \in fin <=> k = "cert"
         /\ CASE k = "cert"  -> c \in Peers /\ to = {}
              [] k = "chain" -> c \in Peers /\ to \subseteq Conns
              [] k = "name"  -> to = {}
              [] k = "store" -> c \in Ctxs /\ to \subseteq Ctxs
    ELSE c = o /\ o \in fin /\ to \subseteq (IF o \in Conns THEN Ctxs ELSE {})

LEMMA NewWrapper ==
    ASSUME GoInv, NEW o \in Wrappers \ made, NEW c \in CObjects,
           NEW to \in SUBSET Usable, NEW k, Suits(o, c, to, k, final'),
           made' = made \cup {o}, go' = go \cup {o}, root' = root \cup {o},
           handle' = [handle EXCEPT ![o] = c],
           refs' = [refs EXCEPT ![o] = to],
           final \subseteq final', final' \subseteq final \cup {o},
           kind' = IF o \in Wraps THEN [kind EXCEPT ![o] = k] ELSE kind,
           inner' \in [Conns -> Ctxs \cup {None}]
    PROVE  GoInv' /\ Usable' \subseteq Usable \cup {o}
<1>1. /\ root \subseteq Usable /\ Usable \subseteq go /\ o \notin go
      /\ \A q \in Usable : refs[q] \subseteq Usable
      /\ to \subseteq go /\ None \notin CObjects
  BY UsableClosed, ObjectsAssumption DEF GoInv, GoTypes, CObjects, Wrappers
<1>2. /\ refs'[o] = to /\ handle'[o] = c
      /\ \A q \in Wrappers : q # o => refs'[q] = refs[q] /\ handle'[q] = handle[q]
  BY DEF GoInv, GoTypes
<1>3. GoTypes'
  <2>1. refs' \in [Wrappers -> SUBSET go'] /\ handle' \in [Wrappers -> CObjects \cup {None}]
    BY <1>1 DEF GoInv, GoTypes
  <2>2. kind' \in [Wraps -> {None, "cert", "chain", "name", "store"}]
    BY DEF GoInv, GoTypes, Suits
  <2>3. /\ root' \subseteq go' /\ final' \subseteq go' /\ go' \subseteq made'
        /\ made' \subseteq Wrappers
    BY DEF GoInv, GoTypes
  <2>4. \A q \in go' : handle'[q] # None
    BY <1>1, <1>2 DEF GoInv, GoTypes
  <2> QED
    BY <2>1, <2>2, <2>3, <2>4 DEF GoTypes
<1>4. \A w \in Wraps : kind'[w] = IF w = o THEN k ELSE kind[w]
  BY DEF GoInv, GoTypes
<1>5. Handles'
  <2>1. ASSUME NEW q \in made' \ Wraps
        PROVE  handle'[q] = q
    <3>1. CASE q = o
      BY <1>2, <2>1, <3>1 DEF Suits
    <3>2. CASE q # o
      BY <1>2, <2>1, <3>2 DEF GoInv, GoTypes, Handles
    <3> QED
      BY <3>1, <3>2
  <2>2. ASSUME NEW w \in Wraps \cap made'
        PROVE  /\ kind'[w] \in {"cert", "chain", "name", "store"}
               /\ kind'[w] = "store" => handle'[w] \in Ctxs
               /\ kind'[w] \in {"cert", "chain"} => handle'[w] \in Peers
    <3>1. CASE w = o
      <4>1. o \in Wraps /\ kind'[w] = k /\ handle'[w] = c
        BY <1>2, <1>4, <2>2, <3>1
      <4>2. /\ k \in {"cert", "chain", "name", "store"}
            /\ k = "store" => c \in Ctxs
            /\ k \in {"cert", "chain"} => c \in Peers
        BY <4>1 DEF Suits
      <4> QED
        BY <4>1, <4>2
    <3>2. CASE w # o
      BY <1>2, <1>4, <2>2, <3>2 DEF GoInv, GoTypes, Handles
    <3> QED
      BY <3>1, <3>2
  <2> QED
    BY <2>1, <2>2 DEF Handles
<1>6. Finalizers'
  <2>1. ASSUME NEW q \in go' \cap (Ctxs \cup Conns \cup Stores)
        PROVE  q \in final'
    <3>1. q \notin Wraps
      BY <2>1, ObjectsAssumption
    <3> QED
      BY <2>1, <3>1 DEF GoInv, Finalizers, Suits
  <2>2. ASSUME NEW w \in Wraps \cap go'
        PROVE  w \in final' <=> kind'[w] = "cert"
    <3>1. CASE w = o
      <4>1. o \in Wraps /\ kind'[w] = k /\ o \notin final
        BY <1>1, <1>4, <2>2, <3>1 DEF GoInv, GoTypes
      <4> QED
        BY <3>1, <4>1 DEF Suits
    <3>2. CASE w # o
      BY <1>4, <2>2, <3>2 DEF GoInv, Finalizers
    <3> QED
      BY <3>1, <3>2
  <2> QED
    BY <2>1, <2>2 DEF Finalizers
<1>7. Fields'
  <2>1. ASSUME NEW q \in Certs \cup Ctxs \cup Stores
        PROVE  refs'[q] \subseteq Certs
    <3>1. q \in Wrappers /\ q \notin Wraps \cup Conns
      BY ObjectsAssumption DEF Wrappers
    <3>2. CASE q = o
      <4>1. to = {}
        BY <3>1, <3>2 DEF Suits
      <4> QED
        BY <1>2, <3>2, <4>1
    <3>3. CASE q # o
      BY <1>2, <3>1, <3>3 DEF GoInv, Fields
    <3> QED
      BY <3>2, <3>3
  <2>2. ASSUME NEW q \in Conns
        PROVE  refs'[q] \subseteq Ctxs
    <3>1. q \in Wrappers /\ q \notin Wraps
      BY ObjectsAssumption DEF Wrappers
    <3>2. CASE q = o
      BY <1>2, <3>1, <3>2 DEF Suits
    <3>3. CASE q # o
      BY <1>2, <3>1, <3>3 DEF GoInv, Fields
    <3> QED
      BY <3>2, <3>3
  <2>3. ASSUME NEW w \in Wraps
        PROVE  /\ kind'[w] = "store" => refs'[w] \subseteq Ctxs \cup Certs
               /\ kind'[w] = "chain" => refs'[w] \subseteq Conns
               /\ kind'[w] \notin {"store", "chain"} => refs'[w] = {}
    <3>1. CASE w = o
      <4>1. o \in Wraps /\ kind'[w] = k /\ refs'[w] = to
        BY <1>2, <1>4, <3>1
      <4>2. CASE k = "cert"
        BY <4>1, <4>2 DEF Suits
      <4>3. CASE k = "chain"
        BY <4>1, <4>3 DEF Suits
      <4>4. CASE k = "name"
        BY <4>1, <4>4 DEF Suits
      <4>5. CASE k = "store"
        BY <4>1, <4>5 DEF Suits
      <4> QED
        BY <4>1, <4>2, <4>3, <4>4, <4>5 DEF Suits
    <3>2. CASE w # o
      <4>1. kind'[w] = kind[w] /\ refs'[w] = refs[w]
        BY <1>2, <1>4, <3>2 DEF Wrappers
      <4> QED
        BY <4>1 DEF GoInv, Fields
    <3> QED
      BY <3>1, <3>2
  <2>4. ASSUME NEW q \in Wrappers \ go'
        PROVE  refs'[q] = {}
    BY <1>2, <2>4 DEF GoInv, Fields
  <2> QED
    BY <2>1, <2>2, <2>3, <2>4 DEF Fields
<1>8. Acyclic'
  <2>1. ASSUME NEW q \in go
        PROVE  \E S \in SUBSET go' :
                 ClosedIn(refs', S) /\ refs'[q] \subseteq S /\ q \notin S
    <3>1. PICK S \in SUBSET go : ClosedIn(refs, S) /\ refs[q] \subseteq S /\ q \notin S
      BY DEF GoInv, Acyclic
    <3>2. ClosedIn(refs', S) /\ refs'[q] \subseteq S
      BY <1>1, <1>2, <3>1 DEF GoInv, GoTypes, ClosedIn
    <3> QED
      BY <3>1, <3>2
  <2>2. ClosedIn(refs', go) /\ refs'[o] \subseteq go /\ o \notin go
    BY <1>1, <1>2 DEF GoInv, GoTypes, ClosedIn
  <2> QED
    BY <2>1, <2>2 DEF Acyclic
<1>9. Usable' \subseteq Usable \cup {o}
  <2> DEFINE S == Usable \cup {o}
  <2>1. root' \subseteq S /\ \A q \in S : refs'[q] \subseteq S
    BY <1>1, <1>2 DEF GoInv, GoTypes
  <2> HIDE DEF S
  <2>2. Usable' \subseteq S
    BY <1>3, <2>1, UsableBound
  <2> QED
    BY <2>2 DEF S
<1> QED
  BY <1>3, <1>5, <1>6, <1>7, <1>8, <1>9 DEF GoInv

LEMMA NewField ==
    ASSUME GoInv, NEW a \in Usable, NEW b \in Usable,
           a \notin ReachIn(go, refs, {b}),
           b \in Certs, a \in Certs \cup Ctxs \cup Stores
                          \cup {w \in Wraps : kind[w] = "store"},
           refs' = [refs EXCEPT ![a] = @ \cup {b}],
           UNCHANGED <<made, go, root, handle, kind, inner>>,
           final' \subseteq final, final \ final' \subseteq Certs
    PROVE  GoInv' /\ Usable' \subseteq Usable
<1>1. /\ root \subseteq Usable /\ Usable \subseteq go
      /\ \A q \in Usable : refs[q] \subseteq Usable
      /\ \A q \in go : refs[q] \subseteq go
      /\ a \in Wrappers /\ a \in go /\ b \in go
  BY UsableClosed DEF GoInv, GoTypes
<1>2. /\ refs'[a] = refs[a] \cup {b}
      /\ \A q \in Wrappers : q # a => refs'[q] = refs[q]
  BY <1>1 DEF GoInv, GoTypes
<1>3. GoTypes'
  BY <1>1 DEF GoInv, GoTypes
<1>4. Handles' /\ Finalizers'
  BY ObjectsAssumption DEF GoInv, GoTypes, Handles, Finalizers
<1>5. Fields'
  BY <1>1, <1>2, ObjectsAssumption DEF GoInv, GoTypes, Fields, Wrappers
<1>6. Acyclic'
  <2> DEFINE B == ReachIn(go, refs, {b})
  <2>1. /\ {b} \subseteq B /\ B \subseteq go /\ ClosedIn(refs, B) /\ a \notin B
    BY <1>1, ReachClosed
  <2> HIDE DEF B
  <2>2. ASSUME NEW q \in go
        PROVE  \E S \in SUBSET go :
                 ClosedIn(refs', S) /\ refs'[q] \subseteq S /\ q \notin S
    <3>1. PICK S \in SUBSET go : ClosedIn(refs, S) /\ refs[q] \subseteq S /\ q \notin S
      BY DEF GoInv, Acyclic
    <3>2. CASE a \notin S /\ q # a
      <4>1. ClosedIn(refs', S) /\ refs'[q] \subseteq S
        BY <1>1, <1>2, <3>1, <3>2 DEF GoInv, GoTypes, ClosedIn
      <4> QED
        BY <3>1, <4>1
    <3>3. CASE q = a
      <4>1. /\ ClosedIn(refs', (S \cup B) \ {a}) /\ refs'[q] \subseteq S \cup B
            /\ a \notin S \cup B
        BY <1>1, <1>2, <2>1, <3>1, <3>3 DEF GoInv, GoTypes, ClosedIn
      <4>2. (S \cup B) \ {a} = S \cup B
        BY <4>1
      <4> QED
        BY <2>1, <3>3, <4>1, <4>2
    <3>4. CASE a \in S /\ q # a
      \* the nodes that q reaches, and the node q itself cannot be among B
      <4>1. CASE q \notin B
        <5>1. ClosedIn(refs', S \cup B) /\ refs'[q] \subseteq S \cup B
          BY <1>1, <1>2, <2>1, <3>1, <3>4 DEF GoInv, GoTypes, ClosedIn
        <5> QED
          BY <2>1, <3>1, <4>1, <5>1
      <4>2. CASE q \in B
        <5>1. ClosedIn(refs', S \cap B) /\ refs'[q] \subseteq S \cap B
          BY <1>1, <1>2, <2>1, <3>1, <3>4, <4>2 DEF GoInv, GoTypes, ClosedIn
        <5> QED
          BY <3>1, <5>1
      <4> QED
        BY <4>1, <4>2
    <3> QED
      BY <3>2, <3>3, <3>4
  <2> QED
    BY <2>2 DEF Acyclic
<1>7. Usable' \subseteq Usable
  <2>1. root' \subseteq Usable /\ \A q \in Usable : refs'[q] \subseteq Usable
    BY <1>1, <1>2 DEF GoInv, GoTypes
  <2> DEFINE S == Usable
  <2>2. root' \subseteq S /\ \A q \in S : refs'[q] \subseteq S
    BY <2>1
  <2> HIDE DEF S
  <2>3. Usable' \subseteq S
    BY <1>3, <2>2, UsableBound
  <2> QED
    BY <2>3 DEF S
<1> QED
  BY <1>3, <1>4, <1>5, <1>6, <1>7 DEF GoInv

\* Certificates lead to certificates only.
LEMMA CertsLeadToCerts ==
    ASSUME GoInv, NEW b \in Certs \cap go
    PROVE  ReachIn(go, refs, {b}) \subseteq Certs
<1> DEFINE S == Certs \cap go
<1>1. ClosedIn(refs, S) /\ {b} \subseteq S
  BY DEF GoInv, GoTypes, Fields, ClosedIn, Wrappers
<1>2. \A o \in go : refs[o] \subseteq go
  BY DEF GoInv, GoTypes
<1> HIDE DEF S
<1>3. ReachIn(go, refs, {b}) \subseteq S
  BY <1>1, <1>2, ReachLeast DEF S
<1> QED
  BY <1>3 DEF S

LEMMA SameWrappers ==
    ASSUME GoInv, root' \subseteq root, inner' \in [Conns -> Ctxs \cup {None}],
           UNCHANGED <<made, go, refs, final, handle, kind>>
    PROVE  GoInv' /\ Usable' \subseteq Usable
<1>1. GoTypes'
  BY DEF GoInv, GoTypes
<1>2. Handles' /\ Finalizers' /\ Fields' /\ Acyclic'
  BY DEF GoInv, Handles, Finalizers, Fields, Acyclic
<1> DEFINE S == Usable
<1>3. root' \subseteq S /\ \A q \in S : refs'[q] \subseteq S
  BY UsableClosed DEF GoInv, GoTypes
<1> HIDE DEF S
<1>4. Usable' \subseteq S
  BY <1>1, <1>3, UsableBound
<1> QED
  BY <1>1, <1>2, <1>4 DEF S, GoInv

LEMMA NewPair ==
    ASSUME GoInv, NEW k \in Conns, NEW x \in Ctxs, DialNoCtx(k, x)
    PROVE  GoInv' /\ Usable' \subseteq Usable \cup {k, x}
<1>1. /\ root \subseteq Usable /\ Usable \subseteq go
      /\ k \notin go /\ x \notin go /\ k # x /\ k \in Wrappers /\ x \in Wrappers
      /\ \A q \in Usable : refs[q] \subseteq Usable
      /\ None \notin CObjects
      /\ k \in CObjects /\ x \in CObjects /\ k \notin Wraps /\ x \notin Wraps
      /\ k \notin Certs \cup Ctxs \cup Stores /\ x \notin Conns
  BY UsableClosed, ObjectsAssumption
    DEF GoInv, GoTypes, CObjects, Wrappers, DialNoCtx
<1>2. /\ refs'[k] = {x} /\ refs'[x] = refs[x]
      /\ handle'[k] = k /\ handle'[x] = x
      /\ \A q \in Wrappers : q # k => refs'[q] = refs[q]
      /\ \A q \in Wrappers : q # k /\ q # x => handle'[q] = handle[q]
  BY <1>1 DEF GoInv, GoTypes, DialNoCtx
<1>3. /\ made' = made \cup {k, x} /\ go' = go \cup {k, x}
      /\ root' = root \cup {k} /\ final' = final \cup {k, x} /\ kind' = kind
  BY DEF DialNoCtx
<1>4. GoTypes'
  <2>1. refs' \in [Wrappers -> SUBSET go'] /\ handle' \in [Wrappers -> CObjects \cup {None}]
    BY <1>1, <1>3 DEF GoInv, GoTypes, DialNoCtx
  <2>2. inner' \in [Conns -> Ctxs \cup {None}]
    BY DEF GoInv, GoTypes, DialNoCtx
  <2>3. /\ root' \subseteq go' /\ final' \subseteq go' /\ go' \subseteq made'
        /\ made' \subseteq Wrappers
    BY <1>1, <1>3 DEF GoInv, GoTypes
  <2>4. \A q \in go' : handle'[q] # None
    BY <1>1, <1>2, <1>3 DEF GoInv, GoTypes
  <2> QED
    BY <1>3, <2>1, <2>2, <2>3, <2>4 DEF GoInv, GoTypes
<1>5. Handles'
  BY <1>1, <1>2, <1>3 DEF GoInv, GoTypes, Handles
<1>6. Finalizers'
  BY <1>1, <1>3 DEF GoInv, GoTypes, Finalizers
<1>7. Fields'
  BY <1>1, <1>2, <1>3 DEF GoInv, GoTypes, Fields, Wrappers
<1>a. refs[x] = {}
  BY <1>1 DEF GoInv, Fields
<1>8. Acyclic'
  <2>1. ASSUME NEW q \in go
        PROVE  \E S \in SUBSET go' :
                 ClosedIn(refs', S) /\ refs'[q] \subseteq S /\ q \notin S
    <3>1. PICK S \in SUBSET go : ClosedIn(refs, S) /\ refs[q] \subseteq S /\ q \notin S
      BY DEF GoInv, Acyclic
    <3>2. ClosedIn(refs', S) /\ refs'[q] \subseteq S
      BY <1>1, <1>2, <3>1 DEF GoInv, GoTypes, ClosedIn
    <3> QED
      BY <1>3, <3>1, <3>2
  <2>2. ClosedIn(refs', go) /\ refs'[x] \subseteq go /\ x \notin go
    BY <1>1, <1>2 DEF GoInv, GoTypes, ClosedIn
  <2>3. /\ ClosedIn(refs', go \cup {x}) /\ refs'[k] \subseteq go \cup {x}
        /\ k \notin go \cup {x}
    BY <1>1, <1>2, <2>2 DEF ClosedIn
  <2> QED
    BY <1>3, <2>1, <2>2, <2>3 DEF Acyclic
<1>9. Usable' \subseteq Usable \cup {k, x}
  <2> DEFINE S == Usable \cup {k, x}
  <2>1. root' \subseteq S /\ \A q \in S : refs'[q] \subseteq S
    BY <1>1, <1>2, <1>3, <1>a DEF GoInv, GoTypes
  <2> HIDE DEF S
  <2>2. Usable' \subseteq S
    BY <1>4, <2>1, UsableBound
  <2> QED
    BY <2>2 DEF S
<1> QED
  BY <1>4, <1>5, <1>6, <1>7, <1>8, <1>9 DEF GoInv

LEMMA WrapperGoes ==
    ASSUME GoInv, NEW o \in Wrappers, Collect(o)
    PROVE  GoInv' /\ Usable' \subseteq Usable
<1>1. /\ root \subseteq Usable /\ Usable \subseteq go
      /\ \A q \in Usable : refs[q] \subseteq Usable
      /\ o \notin Usable /\ o \in go
  BY UsableClosed DEF GoInv, Collect, Collectable
<1>2. /\ go' = go \ {o} /\ final' = final \ {o} /\ made' = made /\ root' = root
      /\ handle' = handle /\ kind' = kind /\ inner' = inner
      /\ refs' = [q \in Wrappers |-> IF q = o THEN {} ELSE refs[q] \ {o}]
  BY DEF Collect
<1>3. /\ refs'[o] = {}
      /\ \A q \in Wrappers : q # o => refs'[q] = refs[q] \ {o}
  BY <1>2
<1>4. GoTypes'
  <2>1. refs' \in [Wrappers -> SUBSET go']
    BY <1>2 DEF GoInv, GoTypes
  <2> QED
    BY <1>1, <1>2, <2>1 DEF GoInv, GoTypes
<1>5. Handles' /\ Finalizers'
  BY <1>2 DEF GoInv, Handles, Finalizers
<1>6. Fields'
  BY <1>2, <1>3 DEF GoInv, Fields, Wrappers
<1>7. Acyclic'
  <2>1. ASSUME NEW q \in go, q # o
        PROVE  \E S \in SUBSET (go \ {o}) :
                 ClosedIn(refs', S) /\ refs'[q] \subseteq S /\ q \notin S
    <3>1. PICK S \in SUBSET go : ClosedIn(refs, S) /\ refs[q] \subseteq S /\ q \notin S
      BY DEF GoInv, Acyclic
    <3>2. ClosedIn(refs', S \ {o}) /\ refs'[q] \subseteq S \ {o}
      BY <1>3, <2>1, <3>1 DEF GoInv, GoTypes, ClosedIn
    <3> QED
      BY <3>1, <3>2
  <2> QED
    BY <1>2, <2>1 DEF Acyclic
<1>8. Usable' \subseteq Usable
  <2> DEFINE S == Usable
  <2>1. root' \subseteq S /\ \A q \in S : refs'[q] \subseteq S
    BY <1>1, <1>2, <1>3 DEF GoInv, GoTypes
  <2> HIDE DEF S
  <2>2. Usable' \subseteq S
    BY <1>4, <2>1, UsableBound
  <2> QED
    BY <2>2 DEF S
<1> QED
  BY <1>4, <1>5, <1>6, <1>7, <1>8 DEF GoInv

LEMMA GoStep ==
    ASSUME GoInv, [Next]_vars
    PROVE  GoInv' /\ Usable' \subseteq Usable \cup (made' \ made)
<1> DEFINE P == GoInv' /\ Usable' \subseteq Usable \cup (made' \ made)
<1>1. /\ Usable \subseteq go /\ go \subseteq made /\ root \subseteq Usable
      /\ final \subseteq made
      /\ \A o \in go : refs[o] \subseteq go
      /\ Certs \subseteq (Wrappers \cap CObjects) \ Wraps
      /\ Ctxs \subseteq (Wrappers \cap CObjects) \ Wraps
      /\ Stores \subseteq (Wrappers \cap CObjects) \ Wraps
      /\ Conns \subseteq (Wrappers \cap CObjects) \ Wraps
      /\ Wraps \subseteq Wrappers
      /\ \A k \in Conns : Peer[k] \in Peers /\ Peer[k] \in CObjects
      /\ inner \in [Conns -> Ctxs \cup {None}]
      /\ (Certs \cup Stores \cup Ctxs) \cap Conns = {}
      /\ (Ctxs \cup Stores) \cap Certs = {}
  BY UsableClosed, ObjectsAssumption
    DEF GoInv, GoTypes, Wrappers, CObjects, Peers
<1>2. ASSUME NEW o \in Ctxs \cup Certs \cup Stores, Create(o)
      PROVE  P
  <2>1. /\ o \in Wrappers \ made /\ o \in CObjects /\ o \notin Wraps
        /\ made' = made \cup {o} /\ go' = go \cup {o} /\ root' = root \cup {o}
        /\ handle' = [handle EXCEPT ![o] = o]
        /\ refs' = [refs EXCEPT ![o] = {}]
        /\ final' = final \cup {o} /\ kind' = kind /\ inner' = inner
    BY <1>1, <1>2 DEF Create, Wrap
  <2>2. Suits(o, o, {}, "name", final')
    BY <2>1 DEF Suits
  <2> QED
    BY <1>1, <2>1, <2>2, NewWrapper
<1>3. ASSUME NEW k \in Conns, NEW x \in Ctxs, Connect(k, x)
      PROVE  P
  <2>1. /\ k \in Wrappers \ made /\ k \in CObjects /\ k \notin Wraps
        /\ {x} \in SUBSET Usable
        /\ made' = made \cup {k} /\ go' = go \cup {k} /\ root' = root \cup {k}
        /\ handle' = [handle EXCEPT ![k] = k]
        /\ refs' = [refs EXCEPT ![k] = {x}]
        /\ final' = final \cup {k} /\ kind' = kind
        /\ inner' = [inner EXCEPT ![k] = x]
    BY <1>1, <1>3 DEF Connect, NewConn, Wrap
  <2>2. Suits(k, k, {x}, "name", final') /\ inner' \in [Conns -> Ctxs \cup {None}]
    BY <1>1, <2>1 DEF Suits
  <2> QED
    BY <1>1, <2>1, <2>2, NewWrapper
<1>4. ASSUME NEW w \in Wraps, NEW c \in CObjects, NEW to \in SUBSET Usable,
             NEW k, Suits(w, c, to, k, final'),
             Wrap(w, c, to), root' = root \cup {w}, inner' = inner,
             final \subseteq final', final' \subseteq final \cup {w},
             kind' = [kind EXCEPT ![w] = k]
      PROVE  P
  <2>1. /\ w \in Wrappers \ made
        /\ made' = made \cup {w} /\ go' = go \cup {w}
        /\ handle' = [handle EXCEPT ![w] = c]
        /\ refs' = [refs EXCEPT ![w] = to]
    BY <1>1, <1>4 DEF Wrap
  <2>2. /\ root' = root \cup {w} /\ inner' \in [Conns -> Ctxs \cup {None}]
        /\ kind' = IF w \in Wraps THEN [kind EXCEPT ![w] = k] ELSE kind
    BY <1>1, <1>4
  <2>3. GoInv' /\ Usable' \subseteq Usable \cup {w}
    BY <1>4, <2>1, <2>2, NewWrapper
  <2> QED
    BY <2>1, <2>3
<1>5. ASSUME NEW a \in Usable \cap (Ctxs \cup Stores
                                     \cup {w \in Wraps : kind[w] = "store"}),
             NEW b \in Certs \cap Usable,
             refs' = [refs EXCEPT ![a] = @ \cup {b}],
             UNCHANGED <<made, go, root, handle, kind, inner>>,
             final' \subseteq final, final \ final' \subseteq Certs
      PROVE  P
  <2>1. a \notin Certs /\ b \in Certs \cap go
    BY <1>1, <1>5
  <2>2. a \notin ReachIn(go, refs, {b})
    BY <2>1, CertsLeadToCerts
  <2> QED
    BY <1>5, <2>2, NewField
<1>6. CASE \E x \in Ctxs :
             \/ NewCtx(x)
             \/ \E c \in Certs : UseCertificate(x, c) \/ AddChainCertificate(x, c)
             \/ \E w \in Wraps : GetCertificateStore(x, w)
  <2> PICK x \in Ctxs :
             \/ NewCtx(x)
             \/ \E c \in Certs : UseCertificate(x, c) \/ AddChainCertificate(x, c)
             \/ \E w \in Wraps : GetCertificateStore(x, w)
    BY <1>6
  <2>1. CASE NewCtx(x)
    BY <1>2, <2>1 DEF NewCtx
  <2>2. ASSUME NEW c \in Certs, UseCertificate(x, c) PROVE P
    BY <1>5, <2>2 DEF UseCertificate
  <2>3. ASSUME NEW c \in Certs, AddChainCertificate(x, c) PROVE P
    <3>1. final' \subseteq final /\ final \ final' \subseteq Certs
      BY <2>3 DEF AddChainCertificate
    <3> QED
      BY <1>5, <2>3, <3>1 DEF AddChainCertificate
  <2>4. ASSUME NEW w \in Wraps, GetCertificateStore(x, w) PROVE P
    <3>1. Suits(w, x, {x}, "store", final')
      BY <2>4, <1>1 DEF Suits, GetCertificateStore, Wrap
    <3> QED
      BY <1>1, <1>4, <2>4, <3>1 DEF GetCertificateStore
  <2> QED
    BY <2>1, <2>2, <2>3, <2>4
<1>7. CASE \E c \in Certs :
             \/ LoadCertificateFromPEM(c)
             \/ \E d \in Certs : SetIssuer(c, d)
             \/ \E w \in Wraps : GetName(c, w)
  <2> PICK c \in Certs :
             \/ LoadCertificateFromPEM(c)
             \/ \E d \in Certs : SetIssuer(c, d)
             \/ \E w \in Wraps : GetName(c, w)
    BY <1>7
  <2>1. CASE LoadCertificateFromPEM(c)
    BY <1>2, <2>1 DEF LoadCertificateFromPEM
  <2>2. ASSUME NEW d \in Certs, SetIssuer(c, d) PROVE P
    BY <2>2, NewField, ReachIsReachIn DEF SetIssuer
  <2>3. ASSUME NEW w \in Wraps, GetName(c, w) PROVE P
    <3>1. Suits(w, handle[c], {}, "name", final')
      BY <2>3, <1>1 DEF Suits, GetName, Wrap
    <3>2. handle[c] \in CObjects
      BY <1>1, <2>3 DEF GetName, GoInv, GoTypes
    <3> QED
      BY <1>1, <1>4, <2>3, <3>1, <3>2 DEF GetName
  <2> QED
    BY <2>1, <2>2, <2>3
<1>8. CASE \E s \in Stores : NewCertificateStore(s)
  BY <1>2, <1>8 DEF NewCertificateStore
<1>9. CASE \E s \in Stores \cup {w \in Wraps : kind[w] = "store"}, c \in Certs :
             AddCertificate(s, c)
  BY <1>5, <1>9 DEF AddCertificate
<1>10. CASE \E k \in Conns :
              \/ \E x \in Ctxs : Connect(k, x) \/ DialNoCtx(k, x) \/ SetSSLCtx(k, x)
              \/ PeerSendsCertificate(k)
              \/ \E w \in Wraps : PeerCertificate(k, w) \/ PeerCertificateChain(k, w)
  <2> PICK k \in Conns :
              \/ \E x \in Ctxs : Connect(k, x) \/ DialNoCtx(k, x) \/ SetSSLCtx(k, x)
              \/ PeerSendsCertificate(k)
              \/ \E w \in Wraps : PeerCertificate(k, w) \/ PeerCertificateChain(k, w)
    BY <1>10
  <2>1. ASSUME NEW x \in Ctxs, Connect(k, x) PROVE P
    BY <1>3, <2>1
  <2>2. ASSUME NEW x \in Ctxs, DialNoCtx(k, x) PROVE P
    <3>1. {k, x} \subseteq made' \ made
      BY <2>2 DEF DialNoCtx
    <3> QED
      BY <2>2, <3>1, NewPair
  <2>3. ASSUME NEW x \in Ctxs, SetSSLCtx(k, x) PROVE P
    <3>1. inner' \in [Conns -> Ctxs \cup {None}]
      BY <1>1, <2>3 DEF SetSSLCtx
    <3> QED
      BY <2>3, <3>1, SameWrappers DEF SetSSLCtx
  <2>4. CASE PeerSendsCertificate(k)
    BY <1>1, <2>4, SameWrappers DEF PeerSendsCertificate
  <2>5. ASSUME NEW w \in Wraps, PeerCertificate(k, w) PROVE P
    <3>1. Suits(w, Peer[k], {}, "cert", final')
      BY <2>5, <1>1 DEF Suits, PeerCertificate
    <3> QED
      BY <1>1, <1>4, <2>5, <3>1 DEF PeerCertificate
  <2>6. ASSUME NEW w \in Wraps, PeerCertificateChain(k, w) PROVE P
    <3>1. Suits(w, Peer[k], {k}, "chain", final')
      BY <2>6, <1>1 DEF Suits, PeerCertificateChain, Wrap
    <3> QED
      BY <1>1, <1>4, <2>6, <3>1 DEF PeerCertificateChain
  <2> QED
    BY <2>1, <2>2, <2>3, <2>4, <2>5, <2>6
<1>11. ASSUME NEW o \in Wrappers, Forget(o) PROVE P
  BY <1>1, <1>11, SameWrappers DEF Forget
<1>12. ASSUME NEW o \in Wrappers, Collect(o) PROVE P
  BY <1>12, WrapperGoes
<1>13. CASE UNCHANGED vars
  BY <1>1, <1>13, SameWrappers DEF vars
<1> QED
  BY <1>6, <1>7, <1>8, <1>9, <1>10, <1>11, <1>12, <1>13 DEF Next

-----------------------------------------------------------------------------
(* Who owns what.  Added and removed are sets of pairs <<C object, owner>>. *)

\* the roles in which a C object owns another
Role(c, o) ==
    \/ o[2] = "ctx" /\ o[1] \in Conns /\ c \in Ctxs
    \/ o[2] = "peer" /\ o[1] \in Conns /\ c = Peer[o[1]]
    \/ o[2] = "leaf" /\ o[1] \in Ctxs /\ c \in Certs
    \/ o[2] = "chain" /\ o[1] \in Ctxs /\ c \in (Certs \cap made) \ final
    \/ o[2] = "store" /\ o[1] \in Ctxs \cup Stores /\ c \in Certs

\* a wrapper with a finalizer, or a C object
Right(c, o) ==
    /\ o = <<o[1], o[2]>>
    /\ \/ o[2] = "go" /\ o[1] \in final /\ handle[o[1]] = c
       \/ Role(c, o)

\* which is alive
Held(c, o) == o[2] = "go" \/ (o[1] \in CObjects /\ owners[o[1]] # {})

OwnersRight ==
    \A c \in CObjects : \A o \in owners[c] : Right(c, o) /\ Held(c, o)

\* a wrapper with a finalizer has a reference
FinalizerOwns == \A o \in final : <<o, "go">> \in owners[handle[o]]

\* as has an SSL that is alive, to its SSL_CTX
SslOwnsCtx ==
    \A k \in Conns : owners[k] # {} =>
        inner[k] \in Ctxs /\ <<k, "ctx">> \in owners[inner[k]]

\* and the SSL of a connection to the certificate its peer sent
SslOwnsPeer ==
    \A k \in Conns : owners[Peer[k]] # {} =>
        k \in made /\ (k \in final => <<k, "peer">> \in owners[Peer[k]])

TableInv ==
    /\ IsTable(Table) /\ Counted(Table)
    /\ OwnersRight /\ FinalizerOwns /\ SslOwnsCtx /\ SslOwnsPeer

\* what a step does to the table
TableStep(added, removed) ==
    /\ IsTable(Table') /\ Counted(Table')
    /\ \A c \in CObjects : \A o :
         o \in owners'[c] <=>
           /\ (o \in owners[c] /\ <<c, o>> \notin removed) \/ <<c, o>> \in added
           /\ o[2] = "go" \/ (o[1] \in CObjects /\ owners'[o[1]] # {})

\* what a step may do to it
Lawful(added, removed) ==
    /\ \A c \in CObjects : \A o : <<c, o>> \in added =>
         /\ Right(c, o)'
         /\ \A k \in Conns : c = Peer[k] =>
              /\ k \in made
              /\ owners[c] # {} \/ <<c, <<k, "peer">>>> \in added
    /\ \A o \in final' \ final : <<handle'[o], <<o, "go">>>> \in added
    /\ \A o \in final \ final' : <<handle[o], <<o, "go">>>> \in removed
    /\ \A o \in final \cap final' : <<handle[o], <<o, "go">>>> \notin removed
    /\ \A k \in Conns :
         \/ /\ inner'[k] = inner[k] /\ <<inner[k], <<k, "ctx">>>> \notin removed
            /\ \A o : <<k, o>> \notin added
         \/ inner'[k] \in Ctxs /\ <<inner'[k], <<k, "ctx">>>> \in added
    /\ \A k \in Conns : <<Peer[k], <<k, "peer">>>> \notin removed

LEMMA NamesOfObjects ==
    /\ Ctxs \cup Conns \cup Certs \cup Stores \cup Peers = CObjects
    /\ \A k \in Conns : Peer[k] \in Peers
    /\ None \notin CObjects
    /\ Ctxs \cap (Conns \cup Certs \cup Stores \cup Wraps \cup Peers) = {}
    /\ Conns \cap (Certs \cup Stores \cup Wraps \cup Peers) = {}
    /\ Certs \cap (Stores \cup Wraps \cup Peers) = {}
    /\ Stores \cap (Wraps \cup Peers) = {} /\ Wraps \cap Peers = {}
BY ObjectsAssumption DEF CObjects, Peers, Wrappers

LEMMA TableInvKept ==
    ASSUME GoInv, GoInv', TableInv, NEW added, NEW removed,
           TableStep(added, removed), Lawful(added, removed),
           made \subseteq made', final' \ final \subseteq made' \ made,
           \A o \in made : handle'[o] = handle[o]
    PROVE  TableInv'
<1>1. IsTable(Table)' /\ Counted(Table)'
  BY DEF TableStep, IsTable, Counted, Table
<1>2. OwnersRight'
  <2> SUFFICES ASSUME NEW c \in CObjects, NEW o \in owners'[c]
               PROVE  Right(c, o)' /\ Held(c, o)'
    BY DEF OwnersRight
  <2>1. Held(c, o)'
    BY DEF TableStep, Held
  <2>2. CASE <<c, o>> \in added
    BY <2>1, <2>2 DEF Lawful
  <2>3. CASE o \in owners[c] /\ <<c, o>> \notin removed
    <3>1. Right(c, o)
      BY <2>3 DEF TableInv, OwnersRight
    <3>2. CASE o[2] = "go" /\ o[1] \in final /\ handle[o[1]] = c
      <4>1. <<handle[o[1]], <<o[1], "go">>>> \notin removed
        BY <2>3, <3>1, <3>2 DEF Right
      <4>2. o[1] \in final' /\ handle'[o[1]] = c
        BY <3>2, <4>1 DEF Lawful, GoInv, GoTypes
      <4> QED
        BY <2>1, <3>1, <3>2, <4>2 DEF Right
    <3>3. CASE Role(c, o)
      <4>1. Role(c, o)'
        BY <3>3 DEF Role
      <4> QED
        BY <2>1, <3>1, <4>1 DEF Right
    <3> QED
      BY <3>1, <3>2, <3>3 DEF Right
  <2> QED
    BY <2>2, <2>3 DEF TableStep
<1>3. FinalizerOwns'
  <2> SUFFICES ASSUME NEW o \in final'
               PROVE  <<o, "go">> \in owners'[handle'[o]]
    BY DEF FinalizerOwns
  <2>1. handle'[o] \in CObjects
    BY DEF GoInv, GoTypes
  <2>2. CASE o \in final
    <3>1. handle'[o] = handle[o] /\ <<o, "go">> \in owners[handle[o]]
      BY <2>2 DEF GoInv, GoTypes, TableInv, FinalizerOwns
    <3>2. <<handle[o], <<o, "go">>>> \notin removed
      BY <2>2 DEF Lawful
    <3> QED
      BY <2>1, <3>1, <3>2 DEF TableStep
  <2>3. CASE o \notin final
    BY <2>1, <2>3 DEF Lawful, TableStep
  <2> QED
    BY <2>2, <2>3
<1>4. SslOwnsCtx'
  <2> SUFFICES ASSUME NEW k \in Conns, owners'[k] # {}
               PROVE  inner'[k] \in Ctxs /\ <<k, "ctx">> \in owners'[inner'[k]]
    BY DEF SslOwnsCtx
  <2>1. k \in CObjects /\ Ctxs \subseteq CObjects
    BY NamesOfObjects
  <2>2. CASE inner'[k] \in Ctxs /\ <<inner'[k], <<k, "ctx">>>> \in added
    BY <2>1, <2>2 DEF TableStep
  <2>3. CASE /\ inner'[k] = inner[k] /\ <<inner[k], <<k, "ctx">>>> \notin removed
             /\ \A o : <<k, o>> \notin added
    <3>1. owners[k] # {}
      BY <2>1, <2>3 DEF TableStep
    <3>2. inner[k] \in Ctxs /\ <<k, "ctx">> \in owners[inner[k]]
      BY <3>1 DEF TableInv, SslOwnsCtx
    <3> QED
      BY <2>1, <2>3, <3>2 DEF TableStep
  <2> QED
    BY <2>2, <2>3 DEF Lawful
<1>5. SslOwnsPeer'
  <2> SUFFICES ASSUME NEW k \in Conns, NEW o \in owners'[Peer[k]]
               PROVE  k \in made' /\ (k \in final' => <<k, "peer">> \in owners'[Peer[k]])
    BY DEF SslOwnsPeer
  <2>1. Peer[k] \in CObjects /\ k \in CObjects
    BY NamesOfObjects
  <2>2. /\ k \in made
        /\ owners[Peer[k]] # {} \/ <<Peer[k], <<k, "peer">>>> \in added
    <3>1. CASE <<Peer[k], o>> \in added
      BY <2>1, <3>1 DEF Lawful
    <3>2. CASE o \in owners[Peer[k]]
      BY <3>2 DEF TableInv, SslOwnsPeer
    <3> QED
      BY <2>1, <3>1, <3>2 DEF TableStep
  <2>3. ASSUME k \in final' PROVE <<k, "peer">> \in owners'[Peer[k]]
    <3>1. k \in final
      BY <2>2, <2>3
    <3>2. (<<k, "peer">> \in owners[Peer[k]] /\ <<Peer[k], <<k, "peer">>>> \notin removed)
            \/ <<Peer[k], <<k, "peer">>>> \in added
      BY <2>2, <3>1 DEF TableInv, SslOwnsPeer, Lawful
    <3>3. handle'[k] = k
      BY <2>2, NamesOfObjects DEF GoInv, Handles
    <3>4. owners'[k] # {}
      BY <1>3, <2>3, <3>3 DEF FinalizerOwns
    <3> QED
      BY <2>1, <3>2, <3>4 DEF TableStep
  <2> QED
    BY <2>2, <2>3
<1> QED
  BY <1>1, <1>2, <1>3, <1>4, <1>5 DEF TableInv

-----------------------------------------------------------------------------
(* What the wrappers that the program can reach rely on: the context of a  *)
(* store, the connection of a chain and the context that an SSL uses.      *)

Used ==
    /\ \A w \in Wraps \cap Usable : kind[w] = "store" => handle[w] \in refs[w]
    /\ \A w \in Wraps \cap Usable : kind[w] = "chain" =>
         \E k \in Conns \cap refs[w] : handle[w] = Peer[k] /\ owners[Peer[k]] # {}
    /\ \A k \in Conns \cap Usable : inner[k] \in root \cup refs[k]

ObjectsInv == GoInv /\ TableInv /\ Used

\* what every step leaves as it is, and what it does right for new wrappers
Steady ==
    /\ made \subseteq made' /\ final' \ final \subseteq made' \ made
    /\ \A o \in made :
         handle'[o] = handle[o] /\ (o \in Wraps => kind'[o] = kind[o])
    /\ Usable \subseteq go'
    /\ \A o \in Usable : refs[o] \subseteq refs'[o]
    /\ \A w \in Wraps \cap (made' \ made) :
         /\ kind'[w] = "store" => handle'[w] \in refs'[w]
         /\ kind'[w] = "chain" =>
              \E k \in Conns \cap refs'[w] \cap Usable :
                 handle'[w] = Peer[k] /\ owners[Peer[k]] # {}
    /\ \A k \in Conns \cap Usable' : inner'[k] \in root' \cup refs'[k]

LEMMA UsedKept ==
    ASSUME ObjectsInv, GoInv', TableInv', NEW added, NEW removed,
           TableStep(added, removed), Lawful(added, removed), Steady,
           Usable' \subseteq Usable \cup (made' \ made)
    PROVE  Used'
<1>1. /\ Usable \subseteq go /\ go \subseteq made
      /\ \A q \in Usable : refs[q] \subseteq Usable
  BY UsableClosed DEF ObjectsInv, GoInv, GoTypes
\* the certificate of a usable connection stays
<1>2. ASSUME NEW k \in Conns \cap Usable, owners[Peer[k]] # {}
      PROVE  owners'[Peer[k]] # {}
  <2>1. k \in go /\ k \in go'
    BY <1>1, <1>2 DEF Steady
  <2>2. k \in final /\ k \in final' /\ k \in made'
    BY <2>1, <1>1 DEF ObjectsInv, GoInv, Finalizers, Steady
  <2>3. handle'[k] = k /\ k \in CObjects /\ Peer[k] \in CObjects
    BY <2>2, NamesOfObjects DEF GoInv, Handles
  <2>4. owners'[k] # {}
    BY <2>2, <2>3 DEF TableInv, FinalizerOwns
  <2>5. <<k, "peer">> \in owners[Peer[k]] /\ <<Peer[k], <<k, "peer">>>> \notin removed
    BY <1>2, <2>2 DEF ObjectsInv, TableInv, SslOwnsPeer, Lawful
  <2> QED
    BY <2>3, <2>4, <2>5 DEF TableStep
<1>3. ASSUME NEW w \in Wraps \cap Usable', kind'[w] = "store"
      PROVE  handle'[w] \in refs'[w]
  <2>1. CASE w \in made' \ made
    BY <1>3, <2>1 DEF Steady
  <2>2. CASE w \in Usable
    BY <1>1, <1>3, <2>2 DEF Steady, ObjectsInv, Used
  <2> QED
    BY <1>3, <2>1, <2>2
<1>4. ASSUME NEW w \in Wraps \cap Usable', kind'[w] = "chain"
      PROVE  \E k \in Conns \cap refs'[w] :
                handle'[w] = Peer[k] /\ owners'[Peer[k]] # {}
  <2>1. CASE w \in made' \ made
    BY <1>2, <1>4, <2>1 DEF Steady
  <2>2. CASE w \in Usable
    <3>1. kind[w] = "chain" /\ handle'[w] = handle[w] /\ refs[w] \subseteq refs'[w]
      BY <1>1, <1>4, <2>2 DEF Steady
    <3>2. PICK k \in Conns \cap refs[w] : handle[w] = Peer[k] /\ owners[Peer[k]] # {}
      BY <2>2, <3>1 DEF ObjectsInv, Used
    <3> QED
      BY <1>1, <1>2, <2>2, <3>1, <3>2
  <2> QED
    BY <1>4, <2>1, <2>2
<1> QED
  BY <1>3, <1>4 DEF Used, Steady

\* Who holds a usable wrapper holds what it has the address of.
LEMMA UsableOwns ==
    ASSUME ObjectsInv, NEW o \in Usable
    PROVE  /\ o \in Ctxs \cup Conns \cup Stores =>
                /\ o \in final /\ handle[o] = o
                /\ <<o, "go">> \in owners[o]
           /\ o \in Certs => handle[o] = o
           /\ o \in Wraps /\ kind[o] = "store" =>
                /\ handle[o] \in refs[o] \cap Ctxs /\ handle[o] \in Usable
<1>1. /\ o \in go /\ o \in made /\ refs[o] \subseteq Usable
  BY UsableClosed DEF ObjectsInv, GoInv, GoTypes
<1>2. o \in Ctxs \cup Conns \cup Stores \cup Certs => handle[o] = o
  BY <1>1, NamesOfObjects DEF ObjectsInv, GoInv, Handles
<1>3. o \in Ctxs \cup Conns \cup Stores => o \in final /\ <<o, "go">> \in owners[o]
  BY <1>1, <1>2 DEF ObjectsInv, GoInv, Finalizers, TableInv, FinalizerOwns
<1>4. o \in Wraps /\ kind[o] = "store" =>
        handle[o] \in refs[o] \cap Ctxs /\ handle[o] \in Usable
  BY <1>1 DEF ObjectsInv, Used, GoInv, Handles
<1> QED
  BY <1>2, <1>3, <1>4

LEMMA StepIsSteady ==
    ASSUME ObjectsInv, [Next]_vars
    PROVE  Steady
<1>1. /\ Usable \subseteq go /\ go \subseteq made /\ root \subseteq Usable
      /\ final \subseteq made /\ made \subseteq Wrappers
      /\ \A q \in Usable : refs[q] \subseteq Usable
      /\ (Certs \cup Ctxs \cup Stores \cup Conns) \cap Wraps = {}
      /\ (Certs \cup Ctxs \cup Stores) \cap Conns = {}
      /\ Usable' \subseteq Usable \cup (made' \ made)
      /\ inner \in [Conns -> Ctxs \cup {None}]
      /\ handle \in [Wrappers -> CObjects \cup {None}]
      /\ kind \in [Wraps -> {None, "cert", "chain", "name", "store"}]
      /\ DOMAIN refs = Wrappers /\ Wraps \subseteq Wrappers
      /\ (Certs \cup Ctxs \cup Stores \cup Conns) \subseteq Wrappers
  BY UsableClosed, GoStep, NamesOfObjects DEF ObjectsInv, GoInv, GoTypes, Wrappers
<1>2. \A k \in Conns \cap Usable : inner[k] \in root \cup refs[k]
  BY DEF ObjectsInv, Used
\* a new wrapper that is neither a store nor a chain of another object
<1>3. ASSUME NEW o \in Wrappers \ made, NEW c, NEW to \in SUBSET Usable,
             Wrap(o, c, to), final' \subseteq final \cup {o}, root \subseteq root',
             \A w \in Wraps \cap made : kind'[w] = kind[w],
             o \in Wraps =>
               /\ kind'[o] = "store" => c \in to
               /\ kind'[o] = "chain" =>
                    \E k \in Conns \cap to : c = Peer[k] /\ owners[Peer[k]] # {},
             \A k \in Conns \ {o} : inner'[k] = inner[k],
             o \in Conns => inner'[o] \in to
      PROVE  Steady
  <2>1. /\ made' = made \cup {o} /\ go' = go \cup {o}
        /\ handle' = [handle EXCEPT ![o] = c] /\ refs' = [refs EXCEPT ![o] = to]
    BY <1>3 DEF Wrap
  <2>2. /\ handle'[o] = c /\ refs'[o] = to
        /\ \A q \in made : handle'[q] = handle[q] /\ refs'[q] = refs[q]
    BY <1>1, <1>3, <2>1
  <2>3. \A k \in Conns \cap Usable' : inner'[k] \in root' \cup refs'[k]
    <3> SUFFICES ASSUME NEW k \in Conns \cap Usable'
                 PROVE  inner'[k] \in root' \cup refs'[k]
      OBVIOUS
    <3>1. CASE k = o
      BY <1>3, <2>2, <3>1
    <3>2. CASE k # o
      <4>1. k \in Usable /\ k \in made
        BY <1>1, <2>1, <3>2
      <4> QED
        BY <1>2, <1>3, <2>2, <3>2, <4>1
    <3> QED
      BY <3>1, <3>2
  <2>4. \A w \in Wraps \cap (made' \ made) :
         /\ kind'[w] = "store" => handle'[w] \in refs'[w]
         /\ kind'[w] = "chain" =>
              \E k \in Conns \cap refs'[w] \cap Usable :
                 handle'[w] = Peer[k] /\ owners[Peer[k]] # {}
    <3>1. \A w \in made' \ made : w = o
      BY <2>1
    <3>2. to \subseteq Usable
      BY <1>3
    <3> QED
      BY <1>3, <2>2, <3>1, <3>2
  <2> QED
    BY <1>1, <1>3, <2>1, <2>2, <2>3, <2>4 DEF Steady
\* no new wrapper
<1>4. ASSUME UNCHANGED <<made, handle, kind>>, final' \subseteq final,
             Usable \subseteq go',
             \A o \in Usable : refs[o] \subseteq refs'[o],
             \A k \in Conns \cap Usable : inner'[k] \in root' \cup refs'[k]
      PROVE  Steady
  BY <1>1, <1>4 DEF Steady
<1>5. ASSUME NEW a \in Usable, NEW b,
             refs' = [refs EXCEPT ![a] = @ \cup {b}],
             UNCHANGED <<made, go, root, handle, kind, inner>>,
             final' \subseteq final
      PROVE  Steady
  <2>1. \A o \in Usable : refs[o] \subseteq refs'[o]
    BY <1>1, <1>5
  <2> QED
    BY <1>1, <1>2, <1>4, <1>5, <2>1
<1>6. ASSUME NEW o \in Ctxs \cup Certs \cup Stores, Create(o) PROVE Steady
  <2>1. Wrap(o, o, {}) /\ o \in Wrappers \ made
    BY <1>1, <1>6 DEF Create, Wrap
  <2> QED
    BY <1>1, <1>3, <1>6, <2>1 DEF Create
<1>7. ASSUME NEW x \in Ctxs, NEW w \in Wraps, GetCertificateStore(x, w)
      PROVE  Steady
  <2>1. /\ w \in Wrappers \ made /\ Wrap(w, x, {x}) /\ x \in Usable
        /\ kind' = [kind EXCEPT ![w] = "store"]
        /\ root' = root \cup {w} /\ final' = final /\ inner' = inner
    BY <1>1, <1>7 DEF GetCertificateStore, Wrap
  <2>2. /\ kind'[w] = "store"
        /\ \A v \in Wraps \cap made : kind'[v] = kind[v]
    BY <1>1, <2>1
  <2> QED
    BY <1>1, <1>3, <2>1, <2>2
<1>8. ASSUME NEW c \in Certs, NEW w \in Wraps, GetName(c, w)
      PROVE  Steady
  <2>1. /\ w \in Wrappers \ made /\ Wrap(w, handle[c], {})
        /\ kind' = [kind EXCEPT ![w] = "name"]
        /\ root' = root \cup {w} /\ final' = final /\ inner' = inner
    BY <1>1, <1>8 DEF GetName, Wrap
  <2>2. /\ kind'[w] = "name"
        /\ \A v \in Wraps \cap made : kind'[v] = kind[v]
    BY <1>1, <2>1
  <2> QED
    BY <1>1, <1>3, <2>1, <2>2
<1>9. ASSUME NEW k \in Conns, NEW w \in Wraps, PeerCertificate(k, w)
      PROVE  Steady
  <2>1. /\ w \in Wrappers \ made /\ Wrap(w, Peer[k], {})
        /\ kind' = [kind EXCEPT ![w] = "cert"]
        /\ root' = root \cup {w} /\ final' = final \cup {w} /\ inner' = inner
    BY <1>1, <1>9 DEF PeerCertificate, Wrap
  <2>2. /\ kind'[w] = "cert"
        /\ \A v \in Wraps \cap made : kind'[v] = kind[v]
    BY <1>1, <2>1
  <2> QED
    BY <1>1, <1>3, <2>1, <2>2
<1>10. ASSUME NEW k \in Conns, NEW w \in Wraps, PeerCertificateChain(k, w)
       PROVE  Steady
  <2>1. /\ w \in Wrappers \ made /\ Wrap(w, Peer[k], {k}) /\ k \in Usable
        /\ kind' = [kind EXCEPT ![w] = "chain"]
        /\ root' = root \cup {w} /\ final' = final /\ inner' = inner
    BY <1>1, <1>10 DEF PeerCertificateChain, Wrap
  <2>2. /\ kind'[w] = "chain"
        /\ \A v \in Wraps \cap made : kind'[v] = kind[v]
    BY <1>1, <2>1
  <2>3. owners[Peer[k]] # {}
    <3>1. Counted(Table) /\ Peer[k] \in CObjects
      BY NamesOfObjects DEF ObjectsInv, TableInv
    <3> QED
      BY <1>10, <3>1, CountedZero DEF Table, PeerCertificateChain, Alive
  <2>4. \E l \in Conns \cap {k} : Peer[k] = Peer[l] /\ owners[Peer[l]] # {}
    BY <2>3
  <2>5. /\ {k} \in SUBSET Usable /\ w \notin Conns /\ final' \subseteq final \cup {w}
        /\ root \subseteq root' /\ \A l \in Conns \ {w} : inner'[l] = inner[l]
        /\ ~(kind'[w] = "store")
    BY <1>1, <2>1, <2>2
  <2> QED
    BY <1>3, <2>1, <2>2, <2>4, <2>5
<1>11. ASSUME NEW k \in Conns, NEW x \in Ctxs, Connect(k, x) PROVE Steady
  <2>1. /\ k \in Wrappers \ made /\ Wrap(k, k, {x}) /\ x \in Usable
        /\ kind' = kind /\ inner' = [inner EXCEPT ![k] = x]
        /\ root' = root \cup {k} /\ final' = final \cup {k}
    BY <1>1, <1>11 DEF Connect, NewConn, Wrap
  <2>2. inner'[k] = x /\ \A l \in Conns \ {k} : inner'[l] = inner[l]
    BY <1>1, <2>1
  <2> QED
    BY <1>1, <1>3, <2>1, <2>2
<1>12. ASSUME NEW k \in Conns, NEW x \in Ctxs, DialNoCtx(k, x) PROVE Steady
  <2>1. /\ k \notin made /\ x \notin made /\ k # x
        /\ made' = made \cup {k, x} /\ go' = go \cup {k, x}
        /\ root' = root \cup {k} /\ final' = final \cup {k, x}
        /\ kind' = kind /\ inner' = [inner EXCEPT ![k] = x]
        /\ handle' = [handle EXCEPT ![k] = k, ![x] = x]
        /\ refs' = [refs EXCEPT ![k] = {x}]
    BY <1>1, <1>12 DEF DialNoCtx
  <2>2. /\ inner'[k] = x /\ refs'[k] = {x}
        /\ \A l \in Conns \ {k} : inner'[l] = inner[l]
        /\ \A q \in made : handle'[q] = handle[q] /\ refs'[q] = refs[q]
    BY <1>1, <2>1
  <2>3. \A l \in Conns \cap Usable' : inner'[l] \in root' \cup refs'[l]
    <3> SUFFICES ASSUME NEW l \in Conns \cap Usable'
                 PROVE  inner'[l] \in root' \cup refs'[l]
      OBVIOUS
    <3>1. CASE l = k
      BY <2>2, <3>1
    <3>2. CASE l # k
      <4>1. l \in Usable /\ l \in made
        BY <1>1, <2>1, <3>2
      <4> QED
        BY <1>2, <2>1, <2>2, <3>2, <4>1
    <3> QED
      BY <3>1, <3>2
  <2>4. Wraps \cap (made' \ made) = {}
    BY <1>1, <2>1
  <2> QED
    BY <1>1, <2>1, <2>2, <2>3, <2>4 DEF Steady
<1>13. ASSUME NEW k \in Conns, NEW y \in Ctxs, SetSSLCtx(k, y) PROVE Steady
  <2>1. /\ y \in root /\ inner' = [inner EXCEPT ![k] = y]
        /\ UNCHANGED <<made, go, root, refs, final, handle, kind>>
    BY <1>13 DEF SetSSLCtx
  <2>2. \A l \in Conns \cap Usable : inner'[l] \in root' \cup refs'[l]
    BY <1>1, <1>2, <2>1
  <2> QED
    BY <1>1, <1>4, <2>1, <2>2
<1>14. ASSUME NEW k \in Conns, PeerSendsCertificate(k) PROVE Steady
  BY <1>1, <1>2, <1>4, <1>14 DEF PeerSendsCertificate
<1>15. ASSUME NEW o \in Wrappers, Forget(o) PROVE Steady
  <2>1. /\ root' = root \ {o} /\ KeepsSwitched(o)
        /\ UNCHANGED <<made, go, refs, final, handle, kind, inner>>
    BY <1>15 DEF Forget
  <2>2. ASSUME NEW k \in Conns \cap Usable PROVE inner'[k] \in root' \cup refs'[k]
    <3>1. inner[k] \in Ctxs
      BY <2>2, UsableOwns DEF ObjectsInv, TableInv, SslOwnsCtx
    <3> QED
      BY <1>2, <2>1, <2>2, <3>1 DEF KeepsSwitched
  <2> QED
    BY <1>1, <1>4, <2>1, <2>2
<1>16. ASSUME NEW o \in Wrappers, Collect(o) PROVE Steady
  <2>1. /\ o \notin Usable /\ go' = go \ {o} /\ final' = final \ {o}
        /\ refs' = [q \in Wrappers |-> IF q = o THEN {} ELSE refs[q] \ {o}]
        /\ UNCHANGED <<made, root, handle, kind, inner>>
    BY <1>16 DEF Collect, Collectable
  <2>2. \A q \in Usable : refs'[q] = refs[q]
    BY <1>1, <2>1
  <2> QED
    BY <1>1, <1>2, <1>4, <2>1, <2>2
<1>17. CASE UNCHANGED vars
  BY <1>1, <1>2, <1>4, <1>17 DEF vars
<1>18. CASE \E x \in Ctxs :
              \/ NewCtx(x)
              \/ \E c \in Certs : UseCertificate(x, c) \/ AddChainCertificate(x, c)
              \/ \E w \in Wraps : GetCertificateStore(x, w)
  <2>1. ASSUME NEW x \in Ctxs, NEW c \in Certs, UseCertificate(x, c) PROVE Steady
    BY <1>5, <2>1 DEF UseCertificate
  <2>2. ASSUME NEW x \in Ctxs, NEW c \in Certs, AddChainCertificate(x, c) PROVE Steady
    <3>1. final' \subseteq final
      BY <2>2 DEF AddChainCertificate
    <3> QED
      BY <1>5, <2>2, <3>1 DEF AddChainCertificate
  <2> QED
    BY <1>6, <1>7, <1>18, <2>1, <2>2 DEF NewCtx
<1>19. CASE \E c \in Certs :
              \/ LoadCertificateFromPEM(c)
              \/ \E d \in Certs : SetIssuer(c, d)
              \/ \E w \in Wraps : GetName(c, w)
  <2>1. ASSUME NEW c \in Certs, NEW d \in Certs, SetIssuer(c, d) PROVE Steady
    BY <1>5, <2>1 DEF SetIssuer
  <2> QED
    BY <1>6, <1>8, <1>19, <2>1 DEF LoadCertificateFromPEM
<1>20. CASE \E s \in Stores : NewCertificateStore(s)
  BY <1>6, <1>20 DEF NewCertificateStore
<1>21. CASE \E s \in Stores \cup {w \in Wraps : kind[w] = "store"}, c \in Certs :
              AddCertificate(s, c)
  BY <1>5, <1>21 DEF AddCertificate
<1> QED
  BY <1>9, <1>10, <1>11, <1>12, <1>13, <1>14, <1>15, <1>16, <1>17, <1>18,
     <1>19, <1>20, <1>21 DEF Next

-----------------------------------------------------------------------------
(* What the operations do to the table. *)

LEMMA IsLayered ==
    ASSUME TableInv
    PROVE  Layered(Table)
BY DEF TableInv, OwnersRight, Right, Role, Layered, Table, Peers

\* references are added
LEMMA Grows ==
    ASSUME TableInv, NEW u, IsTable(u), Counted(u), SetTable(u), NEW added,
           \A c \in CObjects : \A o :
              o \in u.owners[c] <=> (o \in owners[c] \/ <<c, o>> \in added),
           \A c \in CObjects : \A o : <<c, o>> \in added =>
              o[2] = "go" \/ (o[1] \in CObjects /\ u.owners[o[1]] # {})
    PROVE  TableStep(added, {})
<1>1. Table' = u /\ owners' = u.owners
  BY DEF SetTable, Table, IsTable
<1>2. IsTable(Table') /\ Counted(Table')
  BY <1>1
<1>3. \A c \in CObjects : \A o \in owners[c] :
         o[2] = "go" \/ (o[1] \in CObjects /\ owners[o[1]] # {})
  BY DEF TableInv, OwnersRight, Held
<1>4. \A c \in CObjects : owners[c] # {} => u.owners[c] # {}
  OBVIOUS
<1> QED
  BY <1>1, <1>2, <1>3, <1>4 DEF TableStep

\* one is added, and others are given up with what they kept alive
LEMMA Releases ==
    ASSUME TableInv, NEW t, Counted(t), Layered(t), NEW added, NEW removed,
           SetTable(Release(t, removed)), added \cap removed = {},
           \A c \in CObjects : \A o :
              o \in t.owners[c] <=> (o \in owners[c] \/ <<c, o>> \in added)
    PROVE  TableStep(added, removed)
<1> DEFINE r == Release(t, removed)
<1>1. /\ IsTable(r) /\ Counted(r)
      /\ \A c \in CObjects : \A o :
           o \in r.owners[c] <=>
             /\ o \in t.owners[c] /\ <<c, o>> \notin removed
             /\ o[2] = "go" \/ (o[1] \in CObjects /\ r.owners[o[1]] # {})
  BY ReleaseFacts DEF Live
<1>2. SetTable(r)
  OBVIOUS
<1> HIDE DEF r
<1>3. Table' = r /\ owners' = r.owners
  BY <1>1, <1>2 DEF SetTable, Table, IsTable
<1>4. IsTable(Table') /\ Counted(Table')
  BY <1>1, <1>3
<1> QED
  BY <1>1, <1>3, <1>4 DEF TableStep

\* nothing happens
LEMMA Stays ==
    ASSUME TableInv, UNCHANGED <<count, owners>>
    PROVE  TableStep({}, {})
BY DEF TableStep, TableInv, OwnersRight, Held, Table, IsTable, Counted

LEMMA Replaces ==
    ASSUME TableInv, NEW c, NEW role, NEW new \in CObjects,
           SetTable(Replace(Table, c, role, new)),
           \/ c \in Conns /\ new \in Ctxs
           \/ c \in Ctxs /\ new \in Certs
    PROVE  TableStep({<<new, <<c, role>>>>},
                     {<<old, <<c, role>>>> : old \in CObjects \ {new}})
<1> DEFINE t == UpRef(Table, new, <<c, role>>)
           added == {<<new, <<c, role>>>>}
           removed == {<<old, <<c, role>>>> : old \in CObjects \ {new}}
<1>1. IsTable(Table) /\ Counted(Table) /\ Layered(Table)
  BY IsLayered DEF TableInv
<1>2. /\ Counted(t) /\ t.owners[new] = owners[new] \cup {<<c, role>>}
      /\ \A d \in CObjects : d # new => t.owners[d] = owners[d]
  BY <1>1, UpRefFacts DEF Table
<1>3. SetTable(Release(t, removed))
  BY DEF Replace
<1> HIDE DEF t
<1>4. Layered(t)
  BY <1>1, <1>2 DEF Layered, Table
<1>5. added \cap removed = {}
  OBVIOUS
<1>6. \A d \in CObjects : \A o :
        o \in t.owners[d] <=> (o \in owners[d] \/ <<d, o>> \in added)
  BY <1>2
<1> HIDE DEF added, removed
<1>7. TableStep(added, removed)
  BY <1>2, <1>3, <1>4, <1>5, <1>6, Releases
<1> QED
  BY <1>7 DEF added, removed

\* what is added is lawful when no finalizer goes and no SSL_CTX changes
LEMMA LawfulAdding ==
    ASSUME NEW added, NEW removed,
           \A c \in CObjects : \A o : <<c, o>> \in added =>
             /\ Right(c, o)' /\ c \notin Conns
             /\ \A k \in Conns : c = Peer[k] =>
                  k \in made /\ (owners[c] # {} \/ <<c, <<k, "peer">>>> \in added),
           \A o \in final' \ final : <<handle'[o], <<o, "go">>>> \in added,
           final \subseteq final', inner' = inner,
           \A c, o : <<c, o>> \in removed => o[2] \notin {"go", "ctx", "peer"}
    PROVE  Lawful(added, removed)
<1>1. \A k \in Conns : \A o : <<k, o>> \notin added
  BY NamesOfObjects
<1>2. /\ \A o : <<handle[o], <<o, "go">>>> \notin removed
      /\ \A k : <<inner[k], <<k, "ctx">>>> \notin removed
      /\ \A k : <<Peer[k], <<k, "peer">>>> \notin removed
  <2> SUFFICES ASSUME NEW c, NEW o, NEW role \in {"go", "ctx", "peer"},
                      <<c, <<o, role>>>> \in removed
               PROVE  FALSE
    OBVIOUS
  <2>1. <<o, role>>[2] = role
    OBVIOUS
  <2> QED
    BY <2>1
<1> QED
  BY <1>1, <1>2 DEF Lawful

LEMMA StepOfTable ==
    ASSUME ObjectsInv, [Next]_vars
    PROVE  \E added, removed : TableStep(added, removed) /\ Lawful(added, removed)
<1> DEFINE P == \E added, removed :
                  TableStep(added, removed) /\ Lawful(added, removed)
<1>1. /\ Usable \subseteq go /\ go \subseteq made /\ root \subseteq Usable
      /\ final \subseteq made /\ final \subseteq go
      /\ handle \in [Wrappers -> CObjects \cup {None}]
      /\ inner \in [Conns -> Ctxs \cup {None}]
      /\ Wraps \subseteq Wrappers
      /\ (Certs \cup Ctxs \cup Stores \cup Conns) \subseteq Wrappers
      /\ TableInv /\ IsTable(Table) /\ Counted(Table) /\ GoInv /\ made \subseteq Wrappers
  BY UsableClosed, NamesOfObjects
    DEF ObjectsInv, GoInv, GoTypes, Wrappers, TableInv
<1>2. \A c \in CObjects : Table.owners[c] = owners[c]
  BY DEF Table
\* the owners stay as they are
<1>3. ASSUME UNCHANGED <<count, owners, final, inner>> PROVE P
  <2>1. Lawful({}, {})
    BY <1>3, LawfulAdding
  <2> QED
    BY <1>1, <1>3, <2>1, Stays
<1>4. ASSUME NEW o \in Ctxs \cup Certs \cup Stores, Create(o) PROVE P
  <2> DEFINE added == {<<o, <<o, "go">>>>}
             u == UpRef(Table, o, <<o, "go">>)
  <2>1. /\ o \in Wrappers \ made /\ o \in CObjects /\ o \notin Peers \cup Conns
        /\ handle'[o] = o /\ final' = final \cup {o} /\ inner' = inner
        /\ SetTable(u)
    BY <1>1, <1>4, NamesOfObjects DEF Create, Wrap
  <2>2. /\ IsTable(u) /\ Counted(u) /\ u.owners[o] = owners[o] \cup {<<o, "go">>}
        /\ \A d \in CObjects : d # o => u.owners[d] = owners[d]
    BY <1>1, <1>2, <2>1, UpRefFacts
  <2> HIDE DEF u
  <2>3. TableStep(added, {})
    BY <1>1, <2>1, <2>2, Grows
  <2>4. Right(o, <<o, "go">>)'
    BY <2>1 DEF Right
  <2>5. Lawful(added, {})
    BY <2>1, <2>4, LawfulAdding, NamesOfObjects
  <2> QED
    BY <2>3, <2>5
<1>5. ASSUME NEW x \in Ctxs, NEW c \in Certs, UseCertificate(x, c) PROVE P
  <2>1. CASE UNCHANGED cVars
    BY <1>3, <1>5, <2>1 DEF UseCertificate, cVars
  <2>2. CASE SetTable(Replace(Table, x, "leaf", handle[c]))
    <3> DEFINE added == {<<c, <<x, "leaf">>>>}
               removed == {<<old, <<x, "leaf">>>> : old \in CObjects \ {c}}
    <3>1. /\ handle[c] = c /\ c \in CObjects /\ c \notin Peers \cup Conns
          /\ final' = final /\ inner' = inner
      BY <1>5, UsableOwns, NamesOfObjects DEF UseCertificate
    <3>2. TableStep(added, removed)
      BY <1>1, <2>2, <3>1, Replaces
    <3>3. Right(c, <<x, "leaf">>)'
      BY DEF Right, Role
    <3>4. \A d, o : <<d, o>> \in removed => o[2] \notin {"go", "ctx", "peer"}
      OBVIOUS
    <3> HIDE DEF removed
    <3>5. Lawful(added, removed)
      BY <3>1, <3>3, <3>4, LawfulAdding, NamesOfObjects
    <3> QED
      BY <3>2, <3>5
  <2> QED
    BY <1>5, <2>1, <2>2 DEF UseCertificate
<1>6. ASSUME NEW x \in Ctxs, NEW c \in Certs, AddChainCertificate(x, c) PROVE P
  <2>1. CASE UNCHANGED <<owners, final>>
    BY <1>3, <1>6, <2>1 DEF AddChainCertificate
  <2>2. CASE /\ owners' = [owners EXCEPT ![handle[c]] =
                             (@ \ {<<c, "go">>}) \cup {<<x, "chain">>}]
             /\ final' = final \ {c}
    <3> DEFINE added == {<<c, <<x, "chain">>>>}
               removed == {<<c, <<c, "go">>>>}
    <3>1. /\ handle[c] = c /\ c \in CObjects /\ c \notin Peers \cup Conns
          /\ x \in CObjects /\ x # c /\ c \in final /\ c \in made
          /\ inner' = inner /\ count' = count /\ handle' = handle /\ made' = made
          /\ owners[x] # {} /\ Certs \cap Ctxs = {}
      <4>1. /\ x \in Usable /\ c \in Usable /\ c \in final
            /\ inner' = inner /\ count' = count /\ handle' = handle /\ made' = made
        BY <1>6 DEF AddChainCertificate
      <4>2. handle[c] = c /\ owners[x] # {}
        BY <4>1, UsableOwns
      <4> QED
        BY <1>1, <4>1, <4>2, NamesOfObjects
    <3>2. /\ owners'[c] = (owners[c] \ {<<c, "go">>}) \cup {<<x, "chain">>}
          /\ \A d \in CObjects : d # c => owners'[d] = owners[d]
          /\ owners' = [d \in CObjects |-> owners'[d]]
          /\ owners'[c] # {}
      BY <1>1, <2>2, <3>1 DEF IsTable, Table
    <3>3. <<c, "go">> \in owners[c] /\ <<x, "chain">> \notin owners[c]
      <4>1. <<c, "go">> \in owners[c]
        BY <1>1, <3>1 DEF TableInv, FinalizerOwns
      <4>2. ~Right(c, <<x, "chain">>)
        BY <3>1 DEF Right, Role
      <4> QED
        BY <1>1, <3>1, <4>1, <4>2 DEF TableInv, OwnersRight
    <3>4. IsFiniteSet(owners'[c]) /\ count'[c] = Cardinality(owners'[c])
      <4>1. IsFiniteSet(owners[c]) /\ count[c] = Cardinality(owners[c])
        BY <1>1, <3>1 DEF Counted, Table
      <4>2. /\ IsFiniteSet(owners[c] \ {<<c, "go">>})
            /\ Cardinality(owners[c] \ {<<c, "go">>}) = Cardinality(owners[c]) - 1
        BY <3>3, <4>1, FS_RemoveElement
      <4> DEFINE rest == owners[c] \ {<<c, "go">>}
      <4>a. <<x, "chain">> \notin rest /\ owners'[c] = rest \cup {<<x, "chain">>}
        BY <3>2, <3>3
      <4>b. IsFiniteSet(rest)
        BY <4>2
      <4>c. Cardinality(rest) = Cardinality(owners[c]) - 1
        BY <4>2
      <4> HIDE DEF rest
      <4>3. /\ Cardinality(owners'[c]) = Cardinality(rest) + 1
            /\ IsFiniteSet(owners'[c])
        BY <4>a, <4>b, FS_AddElement
      <4> QED
        BY <3>1, <4>1, <4>c, <4>3, FS_CardinalityType
    <3>5. IsTable(Table') /\ Counted(Table')
      BY <1>1, <3>1, <3>2, <3>4 DEF IsTable, Counted, Table
    <3>6. TableStep(added, removed)
      <4>1. \A d \in CObjects : owners[d] # {} => owners'[d] # {}
        BY <3>2
      <4>2. \A d \in CObjects : \A o \in owners[d] :
               o[2] = "go" \/ (o[1] \in CObjects /\ owners[o[1]] # {})
        BY <1>1 DEF TableInv, OwnersRight, Held
      <4> QED
        BY <3>1, <3>2, <3>3, <3>5, <4>1, <4>2 DEF TableStep
    <3>7. Right(c, <<x, "chain">>)'
      BY <2>2, <3>1 DEF Right, Role
    <3>8. Lawful(added, removed)
      BY <2>2, <3>1, <3>7, NamesOfObjects DEF Lawful
    <3> QED
      BY <3>6, <3>8
  <2> QED
    BY <1>6, <2>1, <2>2 DEF AddChainCertificate
<1>7. ASSUME NEW s \in Stores \cup {w \in Wraps : kind[w] = "store"},
             NEW c \in Certs, AddCertificate(s, c)
      PROVE  P
  <2>1. CASE UNCHANGED cVars
    BY <1>3, <1>7, <2>1 DEF AddCertificate, cVars
  <2>2. CASE SetTable(UpRef(Table, handle[c], <<handle[s], "store">>))
    <3>0. PICK h : h = handle[s]
      OBVIOUS
    <3> DEFINE added == {<<c, <<h, "store">>>>}
               u == UpRef(Table, c, <<h, "store">>)
    <3>1. /\ handle[c] = c /\ c \in CObjects /\ c \notin Peers \cup Conns
          /\ final' = final /\ inner' = inner
          /\ h \in Ctxs \cup Stores /\ owners[h] # {}
      <4>1. s \in Usable /\ c \in Usable /\ final' = final /\ inner' = inner
        BY <1>7 DEF AddCertificate
      <4>2. CASE s \in Stores
        BY <3>0, <4>1, <4>2, UsableOwns, NamesOfObjects
      <4>3. CASE s \in Wraps /\ kind[s] = "store"
        <5>1. handle[s] \in Ctxs \cap Usable
          BY <4>1, <4>3, UsableOwns
        <5> QED
          BY <3>0, <4>1, <5>1, UsableOwns, NamesOfObjects
      <4> QED
        BY <4>2, <4>3
    <3>2. /\ IsTable(u) /\ Counted(u)
          /\ u.owners[c] = owners[c] \cup {<<h, "store">>}
          /\ \A d \in CObjects : d # c => u.owners[d] = owners[d]
      BY <1>1, <1>2, <3>1, UpRefFacts
    <3>3. SetTable(u)
      BY <2>2, <3>0, <3>1
    <3> HIDE DEF u
    <3>4. h \in CObjects /\ u.owners[h] # {}
      BY <3>1, <3>2, NamesOfObjects
    <3>5. TableStep(added, {})
      BY <1>1, <3>1, <3>2, <3>3, <3>4, Grows
    <3>6. Right(c, <<h, "store">>)'
      BY <3>1 DEF Right, Role
    <3>7. Lawful(added, {})
      BY <3>1, <3>6, LawfulAdding, NamesOfObjects
    <3> QED
      BY <3>5, <3>7
  <2> QED
    BY <1>7, <2>1, <2>2 DEF AddCertificate
<1>8. ASSUME NEW k \in Conns, NEW x \in Ctxs, Connect(k, x) PROVE P
  <2> DEFINE added == {<<k, <<k, "go">>>>, <<x, <<k, "ctx">>>>}
             t == UpRef(Table, k, <<k, "go">>)
             u == UpRef(t, x, <<k, "ctx">>)
  <2>1. /\ k \in Wrappers \ made /\ k \in CObjects /\ x \in CObjects
        /\ k \notin Peers /\ x \notin Peers /\ x # k /\ Ctxs \cap Conns = {}
        /\ handle'[k] = k /\ final' = final \cup {k}
        /\ inner'[k] = x /\ \A l \in Conns \ {k} : inner'[l] = inner[l]
        /\ SetTable(u)
    BY <1>1, <1>8, NamesOfObjects DEF Connect, NewConn, Wrap
  <2>2. /\ IsTable(t) /\ Counted(t) /\ t.owners[k] = owners[k] \cup {<<k, "go">>}
        /\ \A d \in CObjects : d # k => t.owners[d] = owners[d]
    BY <1>1, <1>2, <2>1, UpRefFacts
  <2> HIDE DEF t
  <2>3. /\ IsTable(u) /\ Counted(u) /\ u.owners[x] = t.owners[x] \cup {<<k, "ctx">>}
        /\ \A d \in CObjects : d # x => u.owners[d] = t.owners[d]
    BY <2>1, <2>2, UpRefFacts
  <2> HIDE DEF u
  <2>4. TableStep(added, {})
    <3>1. u.owners[k] # {}
      BY <2>1, <2>2, <2>3
    <3>2. \A c \in CObjects : \A o :
              o \in u.owners[c] <=> (o \in owners[c] \/ <<c, o>> \in added)
      BY <2>1, <2>2, <2>3
    <3> QED
      BY <1>1, <2>1, <2>3, <3>1, <3>2, Grows
  <2>5. Right(k, <<k, "go">>)' /\ Right(x, <<k, "ctx">>)'
    BY <2>1 DEF Right, Role
  <2>6. Lawful(added, {})
    BY <2>1, <2>5, NamesOfObjects DEF Lawful
  <2> QED
    BY <2>4, <2>6
<1>9. ASSUME NEW k \in Conns, NEW x \in Ctxs, DialNoCtx(k, x) PROVE P
  <2> DEFINE added == {<<x, <<x, "go">>>>, <<k, <<k, "go">>>>, <<x, <<k, "ctx">>>>}
             s == UpRef(Table, x, <<x, "go">>)
             t == UpRef(s, k, <<k, "go">>)
             u == UpRef(t, x, <<k, "ctx">>)
  <2>1. /\ k \in Wrappers \ made /\ x \in Wrappers \ made
        /\ k \in CObjects /\ x \in CObjects
        /\ k \notin Peers /\ x \notin Peers /\ x # k /\ Ctxs \cap Conns = {}
        /\ handle'[k] = k /\ handle'[x] = x /\ final' = final \cup {k, x}
        /\ inner'[k] = x /\ \A l \in Conns \ {k} : inner'[l] = inner[l]
        /\ SetTable(u)
    BY <1>1, <1>9, NamesOfObjects DEF DialNoCtx
  <2>2. /\ IsTable(s) /\ Counted(s) /\ s.owners[x] = owners[x] \cup {<<x, "go">>}
        /\ \A d \in CObjects : d # x => s.owners[d] = owners[d]
    BY <1>1, <1>2, <2>1, UpRefFacts
  <2> HIDE DEF s
  <2>3. /\ IsTable(t) /\ Counted(t) /\ t.owners[k] = s.owners[k] \cup {<<k, "go">>}
        /\ \A d \in CObjects : d # k => t.owners[d] = s.owners[d]
    BY <2>1, <2>2, UpRefFacts
  <2> HIDE DEF t
  <2>4. /\ IsTable(u) /\ Counted(u) /\ u.owners[x] = t.owners[x] \cup {<<k, "ctx">>}
        /\ \A d \in CObjects : d # x => u.owners[d] = t.owners[d]
    BY <2>1, <2>3, UpRefFacts
  <2> HIDE DEF u
  <2>5. TableStep(added, {})
    <3>1. u.owners[k] # {}
      BY <2>1, <2>2, <2>3, <2>4
    <3>2. \A c \in CObjects : \A o :
              o \in u.owners[c] <=> (o \in owners[c] \/ <<c, o>> \in added)
      BY <2>1, <2>2, <2>3, <2>4
    <3> QED
      BY <1>1, <2>1, <2>4, <3>1, <3>2, Grows
  <2>6. Right(x, <<x, "go">>)' /\ Right(k, <<k, "go">>)' /\ Right(x, <<k, "ctx">>)'
    BY <2>1 DEF Right, Role
  <2>7. Lawful(added, {})
    BY <2>1, <2>6, NamesOfObjects DEF Lawful
  <2> QED
    BY <2>5, <2>7
<1>10. ASSUME NEW k \in Conns, NEW y \in Ctxs, SetSSLCtx(k, y) PROVE P
  <2> DEFINE added == {<<y, <<k, "ctx">>>>}
             removed == {<<old, <<k, "ctx">>>> : old \in CObjects \ {y}}
  <2>1. /\ y \in CObjects /\ y \notin Peers \cup Conns /\ final' = final
        /\ inner'[k] = y /\ \A l \in Conns \ {k} : inner'[l] = inner[l]
    BY <1>1, <1>10, NamesOfObjects DEF SetSSLCtx
  <2>2. TableStep(added, removed)
    BY <1>1, <1>10, <2>1, Replaces DEF SetSSLCtx
  <2>3. Right(y, <<k, "ctx">>)'
    BY DEF Right, Role
  <2>4. /\ \A c, o : <<c, o>> \in removed => o = <<k, "ctx">>
        /\ \A c, o : <<c, <<o, "go">>>> \notin removed
        /\ \A c, o : <<c, <<o, "peer">>>> \notin removed
        /\ \A c : \A l \in Conns \ {k} : <<c, <<l, "ctx">>>> \notin removed
    OBVIOUS
  <2> HIDE DEF removed
  <2>5. Lawful(added, removed)
    <3>1. \A l \in Conns :
            \/ /\ inner'[l] = inner[l] /\ <<inner[l], <<l, "ctx">>>> \notin removed
               /\ \A o : <<l, o>> \notin added
            \/ inner'[l] \in Ctxs /\ <<inner'[l], <<l, "ctx">>>> \in added
      <4> SUFFICES ASSUME NEW l \in Conns, l # k
                   PROVE  /\ inner'[l] = inner[l]
                          /\ <<inner[l], <<l, "ctx">>>> \notin removed
                          /\ \A o : <<l, o>> \notin added
        BY <2>1
      <4> QED
        BY <2>1, <2>4
    <3>2. \A c \in CObjects : \A o : <<c, o>> \in added =>
            Right(c, o)' /\ \A l \in Conns : c # Peer[l]
      BY <2>1, <2>3, NamesOfObjects
    <3> QED
      BY <2>1, <2>4, <3>1, <3>2 DEF Lawful
  <2> QED
    BY <2>2, <2>5
<1>11. ASSUME NEW k \in Conns, PeerSendsCertificate(k) PROVE P
  <2> DEFINE added == {<<Peer[k], <<k, "peer">>>>}
             u == UpRef(Table, Peer[k], <<k, "peer">>)
  <2>1. /\ Peer[k] \in CObjects /\ Peer[k] \notin Conns /\ k \in CObjects
        /\ k \in made /\ owners[k] # {} /\ final' = final /\ inner' = inner
        /\ SetTable(u)
    BY <1>1, <1>11, UsableOwns, NamesOfObjects DEF PeerSendsCertificate
  <2>2. /\ IsTable(u) /\ Counted(u)
        /\ u.owners[Peer[k]] = owners[Peer[k]] \cup {<<k, "peer">>}
        /\ \A d \in CObjects : d # Peer[k] => u.owners[d] = owners[d]
    BY <1>1, <1>2, <2>1, UpRefFacts
  <2> HIDE DEF u
  <2>3. TableStep(added, {})
    BY <1>1, <2>1, <2>2, Grows
  <2>4. Right(Peer[k], <<k, "peer">>)'
    BY DEF Right, Role
  <2>5. \A l \in Conns : Peer[k] = Peer[l] => l = k
    BY ObjectsAssumption
  <2>6. Lawful(added, {})
    BY <2>1, <2>4, <2>5, LawfulAdding
  <2> QED
    BY <2>3, <2>6
<1>12. ASSUME NEW k \in Conns, NEW w \in Wraps, PeerCertificate(k, w) PROVE P
  <2> DEFINE added == {<<Peer[k], <<w, "go">>>>}
             u == UpRef(Table, Peer[k], <<w, "go">>)
  <2>1. /\ Peer[k] \in CObjects /\ Peer[k] \notin Conns /\ k \in made
        /\ w \in Wrappers \ made /\ handle'[w] = Peer[k]
        /\ final' = final \cup {w} /\ inner' = inner
        /\ SetTable(u)
    BY <1>1, <1>12, NamesOfObjects DEF PeerCertificate, Wrap
  <2>2. owners[Peer[k]] # {}
    BY <1>1, <1>12, <2>1, CountedZero DEF PeerCertificate, Alive, Table
  <2>3. /\ IsTable(u) /\ Counted(u)
        /\ u.owners[Peer[k]] = owners[Peer[k]] \cup {<<w, "go">>}
        /\ \A d \in CObjects : d # Peer[k] => u.owners[d] = owners[d]
    BY <1>1, <1>2, <2>1, UpRefFacts
  <2> HIDE DEF u
  <2>4. TableStep(added, {})
    BY <1>1, <2>1, <2>3, Grows
  <2>5. Right(Peer[k], <<w, "go">>)'
    BY <2>1 DEF Right
  <2>6. \A l \in Conns : Peer[k] = Peer[l] => l = k
    BY ObjectsAssumption
  <2>7. Lawful(added, {})
    BY <2>1, <2>2, <2>5, <2>6, LawfulAdding
  <2> QED
    BY <2>4, <2>7
<1>13. ASSUME NEW o \in Wrappers, Collect(o) PROVE P
  <2> DEFINE removed == IF o \in final THEN {<<handle[o], <<o, "go">>>>} ELSE {}
  <2>1. /\ SetTable(Release(Table, removed))
        /\ final' = final \ {o} /\ inner' = inner
    BY <1>13 DEF Collect
  <2>2. /\ o \in final => <<handle[o], <<o, "go">>>> \in removed
        /\ \A c, q : <<c, <<q, "go">>>> \in removed => q = o
        /\ \A c, q : <<c, <<q, "ctx">>>> \notin removed
        /\ \A c, q : <<c, <<q, "peer">>>> \notin removed
    OBVIOUS
  <2> HIDE DEF removed
  <2>3. TableStep({}, removed)
    BY <1>1, <1>2, <2>1, IsLayered, Releases
  <2>4. Lawful({}, removed)
    BY <2>1, <2>2 DEF Lawful
  <2> QED
    BY <2>3, <2>4
<1>14. CASE UNCHANGED vars
  BY <1>3, <1>14 DEF vars
<1>15. ASSUME NEW o \in Wrappers, Forget(o) PROVE P
  BY <1>3, <1>15 DEF Forget, cVars
<1>16. ASSUME NEW x \in Ctxs, NEW w \in Wraps, GetCertificateStore(x, w) PROVE P
  BY <1>3, <1>16 DEF GetCertificateStore, cVars
<1>17. ASSUME NEW c \in Certs, NEW w \in Wraps, GetName(c, w) PROVE P
  BY <1>3, <1>17 DEF GetName, cVars
<1>18. ASSUME NEW c \in Certs, NEW d \in Certs, SetIssuer(c, d) PROVE P
  BY <1>3, <1>18 DEF SetIssuer, cVars
<1>19. ASSUME NEW k \in Conns, NEW w \in Wraps, PeerCertificateChain(k, w) PROVE P
  BY <1>3, <1>19 DEF PeerCertificateChain, cVars
<1>20. CASE \E x \in Ctxs :
              \/ NewCtx(x)
              \/ \E c \in Certs : UseCertificate(x, c) \/ AddChainCertificate(x, c)
              \/ \E w \in Wraps : GetCertificateStore(x, w)
  BY <1>4, <1>5, <1>6, <1>16, <1>20 DEF NewCtx
<1>21. CASE \E c \in Certs :
              \/ LoadCertificateFromPEM(c)
              \/ \E d \in Certs : SetIssuer(c, d)
              \/ \E w \in Wraps : GetName(c, w)
  BY <1>4, <1>17, <1>18, <1>21 DEF LoadCertificateFromPEM
<1>22. CASE \E s \in Stores : NewCertificateStore(s)
  BY <1>4, <1>22 DEF NewCertificateStore
<1>23. CASE \E k \in Conns :
              \/ \E x \in Ctxs : Connect(k, x) \/ DialNoCtx(k, x) \/ SetSSLCtx(k, x)
              \/ PeerSendsCertificate(k)
              \/ \E w \in Wraps : PeerCertificate(k, w) \/ PeerCertificateChain(k, w)
  BY <1>8, <1>9, <1>10, <1>11, <1>12, <1>19, <1>23
<1> QED
  BY <1>7, <1>13, <1>14, <1>15, <1>20, <1>21, <1>22, <1>23 DEF Next

-----------------------------------------------------------------------------
(* The theorems. *)

LEMMA InitObjects ==
    ASSUME Init
    PROVE  ObjectsInv
<1>1. GoInv
  <2>1. GoTypes
    BY DEF Init, GoTypes
  <2>2. Fields
    BY DEF Init, Fields, Wrappers
  <2>3. Handles /\ Finalizers /\ Acyclic
    BY DEF Init, Handles, Finalizers, Acyclic
  <2> QED
    BY <2>1, <2>2, <2>3 DEF GoInv
<1>2. /\ \A c \in CObjects : owners[c] = {} /\ count[c] = 0
      /\ IsTable(Table)
  BY DEF Init, IsTable, Table
<1>3. Counted(Table)
  BY <1>2, FS_EmptySet DEF Counted, Table
<1>4. OwnersRight /\ FinalizerOwns /\ SslOwnsCtx /\ SslOwnsPeer
  BY <1>2, NamesOfObjects
    DEF Init, OwnersRight, FinalizerOwns, SslOwnsCtx, SslOwnsPeer
<1>5. Usable = {}
  BY <1>1, UsableClosed DEF Init, GoInv
<1>6. Used
  BY <1>5 DEF Used
<1> QED
  BY <1>1, <1>2, <1>3, <1>4, <1>6 DEF ObjectsInv, TableInv

(* In every reachable state the wrappers point to what suits them and the  *)
(* table of owners agrees with them.                                       *)
THEOREM ObjectsCorrect == Spec => []ObjectsInv
<1>1. ASSUME ObjectsInv, [Next]_vars PROVE ObjectsInv'
  <2>1. GoInv' /\ Usable' \subseteq Usable \cup (made' \ made)
    BY <1>1, GoStep DEF ObjectsInv
  <2>2. Steady
    BY <1>1, StepIsSteady
  <2>3. PICK added, removed : TableStep(added, removed) /\ Lawful(added, removed)
    BY <1>1, StepOfTable
  <2>4. TableInv'
    BY <1>1, <2>1, <2>2, <2>3, TableInvKept DEF ObjectsInv, Steady
  <2>5. Used'
    BY <1>1, <2>1, <2>2, <2>3, <2>4, UsedKept
  <2> QED
    BY <2>1, <2>4, <2>5 DEF ObjectsInv
<1> QED
  BY <1>1, InitObjects, PTL DEF Spec

LEMMA AliveIsOwned ==
    ASSUME TableInv, NEW c \in CObjects
    PROVE  Alive(c) <=> owners[c] # {}
BY CountedZero DEF TableInv, Alive, Table

(* Only live wrappers are held, pointed to or finalized, and each has the  *)
(* address of a C object.                                                  *)
THEOREM ObjectTypes == Spec => []TypeOK
<1>1. ASSUME ObjectsInv PROVE TypeOK
  <2>1. GoTypes /\ IsTable(Table) /\ Counted(Table)
    BY <1>1 DEF ObjectsInv, GoInv, TableInv
  <2>2. /\ DOMAIN count = CObjects /\ DOMAIN owners = CObjects
        /\ \A c \in CObjects : count[c] \in Nat
    BY <2>1, CountedZero DEF IsTable, Table
  <2> QED
    BY <2>1, <2>2 DEF GoTypes, TypeOK
<1> QED
  BY <1>1, ObjectsCorrect, PTL

(* Each reference that a C object counts has one owner that will free it.  *)
THEOREM ReferencesBalance == Spec => []Balance
<1>1. ASSUME ObjectsInv PROVE Balance
  <2> SUFFICES ASSUME NEW c \in CObjects
               PROVE  /\ count[c] = Cardinality(owners[c])
                      /\ \A o \in owners[c] :
                           IF o[2] = "go" THEN o[1] \in final ELSE Alive(o[1])
    BY DEF Balance
  <2>1. count[c] = Cardinality(owners[c])
    BY <1>1 DEF ObjectsInv, TableInv, Counted, Table
  <2>2. ASSUME NEW o \in owners[c], o[2] = "go" PROVE o[1] \in final
    BY <1>1, <2>2 DEF ObjectsInv, TableInv, OwnersRight, Right, Role
  <2>3. ASSUME NEW o \in owners[c], o[2] # "go" PROVE Alive(o[1])
    BY <1>1, <2>3, AliveIsOwned DEF ObjectsInv, TableInv, OwnersRight, Held
  <2> QED
    BY <2>1, <2>2, <2>3
<1> QED
  BY <1>1, ObjectsCorrect, PTL

(* A wrapper that the program can reach has the address of a C object that *)
(* has not been freed.                                                     *)
THEOREM NothingDangles == Spec => []NoDangling
<1>1. ASSUME ObjectsInv PROVE NoDangling
  <2> SUFFICES ASSUME NEW o \in Usable, ~Alive(handle[o]),
                      ~(o \in Wraps /\ kind[o] = "name"), o \notin Certs \ final
               PROVE  FALSE
    BY DEF NoDangling
  <2>1. /\ o \in go /\ o \in made /\ o \in Wrappers /\ handle[o] \in CObjects
        /\ TableInv
    BY <1>1, UsableClosed DEF ObjectsInv, GoInv, GoTypes
  <2>2. owners[handle[o]] = {}
    BY <2>1, AliveIsOwned
  <2>3. CASE o \in final
    BY <2>1, <2>2, <2>3 DEF TableInv, FinalizerOwns
  <2>4. CASE o \in Ctxs \cup Conns \cup Stores
    BY <1>1, <2>2, <2>4, UsableOwns
  <2>5. CASE o \in Wraps
    <3>1. kind[o] \in {"cert", "chain", "store"}
      BY <1>1, <2>1, <2>5 DEF ObjectsInv, GoInv, Handles
    <3>2. CASE kind[o] = "cert"
      BY <1>1, <2>1, <2>3, <2>5, <3>2 DEF ObjectsInv, GoInv, Finalizers
    <3>3. CASE kind[o] = "chain"
      BY <1>1, <2>2, <2>5, <3>3 DEF ObjectsInv, Used
    <3>4. CASE kind[o] = "store"
      BY <1>1, <2>2, <2>5, <3>4, UsableOwns
    <3> QED
      BY <3>1, <3>2, <3>3, <3>4
  <2> QED
    BY <2>1, <2>3, <2>4, <2>5 DEF Wrappers
<1> QED
  BY <1>1, ObjectsCorrect, PTL

(* While a connection can be reached the context that its SSL uses is      *)
(* there for the callbacks, and while the SSL is alive its SSL_CTX is.     *)
THEOREM CallbacksFindTheirContext == Spec => []CallbackContext
<1>1. ASSUME ObjectsInv PROVE CallbackContext
  <2> SUFFICES ASSUME NEW k \in Conns
               PROVE  /\ k \in Usable => inner[k] \in go
                      /\ Alive(k) => Alive(inner[k])
    BY DEF CallbackContext
  <2>1. k \in Usable => inner[k] \in go
    BY <1>1, UsableClosed DEF ObjectsInv, Used, GoInv, GoTypes
  <2>2. ASSUME Alive(k) PROVE Alive(inner[k])
    <3>1. k \in CObjects /\ owners[k] # {} /\ TableInv
      BY <1>1, <2>2, AliveIsOwned, NamesOfObjects DEF ObjectsInv
    <3>2. inner[k] \in CObjects /\ owners[inner[k]] # {}
      BY <3>1, NamesOfObjects DEF TableInv, SslOwnsCtx
    <3> QED
      BY <3>1, <3>2, AliveIsOwned
  <2> QED
    BY <2>1, <2>2
<1> QED
  BY <1>1, ObjectsCorrect, PTL

-----------------------------------------------------------------------------
(* Garbage.  Some wrapper that the program cannot reach is pointed to by   *)
(* no other, and the collector can take it.                                *)

LEMMA UnpointedIsCollectable ==
    ASSUME GoInv, NEW o \in go \ Usable, \A q \in go \ {o} : o \notin refs[q]
    PROVE  Collectable(o)
<1>1. /\ root \subseteq Usable /\ final \subseteq go /\ o \in Wrappers
      /\ \A q \in go : refs[q] \subseteq go
  BY UsableClosed DEF GoInv, GoTypes
<1>2. o \notin Reach(final \ {o})
  <2> DEFINE S == go \ {o}
  <2>1. ClosedIn(refs, S) /\ final \ {o} \subseteq S
    BY <1>1 DEF ClosedIn
  <2>2. final \ {o} \in SUBSET go
    BY <1>1
  <2> HIDE DEF S
  <2>3. ReachIn(go, refs, final \ {o}) \subseteq S
    BY <1>1, <2>1, <2>2, ReachLeast
  <2> QED
    BY <2>3, ReachIsReachIn DEF S
<1>3. o \notin Reach(refs[o])
  <2>1. PICK S \in SUBSET go : ClosedIn(refs, S) /\ refs[o] \subseteq S /\ o \notin S
    BY DEF GoInv, Acyclic
  <2>2. refs[o] \in SUBSET go
    BY <1>1
  <2>3. ReachIn(go, refs, refs[o]) \subseteq S
    BY <1>1, <2>1, <2>2, ReachLeast
  <2> QED
    BY <2>1, <2>3, ReachIsReachIn
<1> QED
  BY <1>1, <1>2, <1>3 DEF Collectable

\* In a set of wrappers one is pointed to by no other of the set.
LEMMA FirstOf ==
    ASSUME GoInv, NEW T \in SUBSET go, T # {}
    PROVE  \E o \in T : \A q \in T \ {o} : o \notin refs[q]
<1> DEFINE R(o) == ReachIn(go, refs, {o})
           Left(o) == go \ R(o)
           F == {Left(o) : o \in T}
<1>1. /\ IsFiniteSet(go) /\ \A q \in go : refs[q] \subseteq go
  BY ObjectsAssumption, FS_Subset DEF GoInv, GoTypes
<1>2. IsWellFoundedOn(StrictSubsetOrdering(go), SUBSET go)
  BY <1>1, FS_StrictSubsetOrderingWellFounded, FS_FiniteSubsetsOfFinite
<1>3. F \subseteq SUBSET go /\ F # {}
  OBVIOUS
<1> HIDE DEF F
<1>4. PICK L \in F : \A M \in F : ~(<<M, L>> \in StrictSubsetOrdering(go))
  BY <1>2, <1>3, WFMin
<1>5. PICK o \in T : L = Left(o)
  BY <1>4 DEF F
<1>6. ASSUME NEW q \in T \ {o}, o \in refs[q] PROVE FALSE
  <2>1. PICK S \in SUBSET go : ClosedIn(refs, S) /\ refs[q] \subseteq S /\ q \notin S
    BY DEF GoInv, Acyclic
  <2>2. R(o) \subseteq S
    BY <1>1, <1>6, <2>1, ReachLeast
  <2>3. {q} \subseteq R(q) /\ R(q) \subseteq go /\ ClosedIn(refs, R(q))
    BY <1>1, ReachClosed
  <2>4. {o} \subseteq R(q)
    BY <1>6, <2>3 DEF ClosedIn
  <2>5. R(o) \subseteq R(q)
    BY <1>1, <2>3, <2>4, ReachLeast
  <2> HIDE DEF R
  <2>6. Left(q) \subseteq Left(o) /\ Left(q) # Left(o)
    BY <2>1, <2>2, <2>3, <2>5
  <2>7. <<Left(q), Left(o)>> \in StrictSubsetOrdering(go)
    BY <2>6 DEF StrictSubsetOrdering
  <2>8. Left(q) \in F
    BY DEF F
  <2> QED
    BY <1>4, <1>5, <2>7, <2>8
<1> QED
  BY <1>6

(* As long as there are wrappers that the program cannot reach the         *)
(* collector can take one of them.                                         *)
THEOREM GarbageIsCollectable == Spec => []NoStuckGarbage
<1>1. ASSUME ObjectsInv PROVE NoStuckGarbage
  <2> SUFFICES ASSUME go \ Usable # {}
               PROVE  \E o \in go \ Usable : Collectable(o)
    BY DEF NoStuckGarbage
  <2>1. PICK o \in go \ Usable : \A q \in (go \ Usable) \ {o} : o \notin refs[q]
    BY <1>1, FirstOf DEF ObjectsInv
  <2>2. \A q \in Usable : refs[q] \subseteq Usable
    BY <1>1, UsableClosed DEF ObjectsInv, GoInv
  <2>3. \A q \in go \ {o} : o \notin refs[q]
    BY <2>1, <2>2
  <2> QED
    BY <1>1, <2>3, UnpointedIsCollectable DEF ObjectsInv
<1> QED
  BY <1>1, ObjectsCorrect, PTL
====
