---------------------------- MODULE CCallsProofs ----------------------------
(***************************************************************************)
(* What holds of the calls of the library for every number of threads,     *)
(* goroutines and calls.                                                   *)
(*                                                                         *)
(* What makes the invariant inductive is that two goroutines are never     *)
(* locked to one thread (Exclusive), so that the error of a locked         *)
(* goroutine is still in the queue of its thread when PopError comes       *)
(* (Pending).                                                              *)
(*                                                                         *)
(* What is reported, what leaks and whose error can tear down a connection *)
(* depends on the scripts: TablesAreFine says of each script of each       *)
(* function what is held by hand before each of its steps, that a function *)
(* of Tidy reads every error it raises on a locked thread, and that one of *)
(* Pinned calls PopError on a locked thread only; CallInv then follows a   *)
(* goroutine through the rest of its script.                               *)
(***************************************************************************)
EXTENDS CCalls, TLAPS

\* the shapes of the variables the steps update
Shape ==
    /\ queue = [t \in Threads |-> queue[t]]
    /\ call = [g \in Goroutines |-> call[g]]
    /\ script = [g \in Goroutines |-> script[g]]
    /\ failed \in [Goroutines -> BOOLEAN]
    /\ thread \in [Goroutines -> Threads \cup {None}]

\* two goroutines are never locked to one thread
Exclusive ==
    \A g, h \in Goroutines :
        g # h /\ thread[g] # None => thread[g] # thread[h]

\* the error a locked goroutine is about to read is in the queue of its thread
HasError(g) ==
    \/ call[g] \in queue[thread[g]]
    \/ Head(script[g]).onError = "ssl" /\ queue[thread[g]] # {}

Pending ==
    \A g \in Goroutines : failed[g] /\ thread[g] # None => HasError(g)

\* a goroutine in no call has no script left, no failed step and no lock
Idle ==
    \A g \in Goroutines :
        call[g] = 0 => script[g] = <<>> /\ ~failed[g] /\ thread[g] = None

IInv == Shape /\ Exclusive /\ Idle /\ Pending

(* The initial state: no goroutine is locked and nothing was reported. *)
LEMMA InitIInv == Init => IInv
  BY CallsAssumption DEF Init, IInv, Shape, Exclusive, Idle, Pending

(* A goroutine that may run on a thread is the only one that can be locked *)
(* to it.                                                                  *)
LEMMA RunsAlone ==
  ASSUME Shape, Exclusive, NEW g \in Goroutines, NEW t \in MayRunOn(g)
  PROVE  /\ t \in Threads /\ t # None
         /\ \A h \in Goroutines : h # g => thread[h] # t
  BY CallsAssumption DEF Shape, Exclusive, MayRunOn

\* what a step of g on thread t may do: q, c, s, f and l are the new values
Update(g, t, q, c, s, f, l) ==
    /\ f \in BOOLEAN /\ l \in {t, None}
    /\ queue' = [queue EXCEPT ![t] = q]
    /\ call' = [call EXCEPT ![g] = c]
    /\ script' = [script EXCEPT ![g] = s]
    /\ failed' = [failed EXCEPT ![g] = f]
    /\ thread' = [thread EXCEPT ![g] = l]
    /\ c = 0 => s = <<>> /\ ~f /\ l = None
    /\ f /\ l = t => c \in q \/ (Head(s).onError = "ssl" /\ q # {})

(* A step of g on thread t that touches no queue but that of t, nothing of *)
(* the other goroutines, and reports nothing, keeps the invariant as soon  *)
(* as g itself has its error pending when it is left with a failed call.   *)
LEMMA StepOfOne ==
  ASSUME IInv, NEW g \in Goroutines, NEW t \in Threads, t # None,
         \A h \in Goroutines : h # g => thread[h] # t,
         NEW q, NEW c, NEW s, NEW f, NEW l, Update(g, t, q, c, s, f, l)
  PROVE  IInv'
<1> USE DEF Update
<1>1. Shape'
  BY DEF IInv, Shape
<1>2. Exclusive'
  BY DEF IInv, Shape, Exclusive
<1>3. Pending'
  <2> SUFFICES ASSUME NEW h \in Goroutines, failed'[h], thread'[h] # None
               PROVE  HasError(h)'
    BY DEF Pending
  <2>1. CASE h = g
    <3>1. call'[h] = c /\ script'[h] = s /\ thread'[h] = t /\ f /\ l = t
      BY <2>1 DEF IInv, Shape
    <3>2. queue'[t] = q
      BY DEF IInv, Shape
    <3> QED
      BY <3>1, <3>2 DEF HasError
  <2>2. CASE h # g
    <3>1. /\ call'[h] = call[h] /\ script'[h] = script[h]
          /\ thread'[h] = thread[h] /\ failed[h]
      BY <2>2 DEF IInv, Shape
    <3>2. thread[h] \in Threads /\ thread[h] # t
      BY <2>2, <3>1 DEF IInv, Shape
    <3>3. queue'[thread[h]] = queue[thread[h]]
      BY <3>2 DEF IInv, Shape
    <3>4. HasError(h)
      BY <3>1 DEF IInv, Pending
    <3> QED
      BY <3>1, <3>3, <3>4 DEF HasError
  <2> QED
    BY <2>1, <2>2
<1>4. Idle'
  BY DEF IInv, Shape, Idle
<1> QED
  BY <1>1, <1>2, <1>3, <1>4 DEF IInv

(* Return leaves the goroutine with no failed call and no lock.            *)
LEMMA ReturnUpdates ==
  ASSUME Shape, NEW g \in Goroutines, NEW o, Return(g, o)
  PROVE  /\ call' = [call EXCEPT ![g] = 0]
         /\ script' = [script EXCEPT ![g] = <<>>]
         /\ failed' = [failed EXCEPT ![g] = FALSE]
         /\ thread' = [thread EXCEPT ![g] = None]
         /\ made' = made
  BY DEF Return

(* The next step of a script leaves no failed call.                        *)
LEMMA GoOnUpdates ==
  ASSUME Shape, NEW g \in Goroutines, NEW t \in Threads, NEW o, ~failed[g],
         call[g] # 0, GoOn(g, t, o)
  PROVE  \E c, s, l :
            /\ l \in {t, None}
            /\ c = 0 => s = <<>> /\ l = None
            /\ call' = [call EXCEPT ![g] = c]
            /\ script' = [script EXCEPT ![g] = s]
            /\ failed' = [failed EXCEPT ![g] = FALSE]
            /\ thread' = [thread EXCEPT ![g] = l]
<1>1. CASE Tail(script[g]) = <<>>
  BY <1>1, ReturnUpdates DEF GoOn
<1>2. CASE Tail(script[g]) # <<>>
  <2>1. call' = [call EXCEPT ![g] = call[g]]
    BY <1>2 DEF GoOn, Shape
  <2>2. failed' = [failed EXCEPT ![g] = FALSE]
    BY <1>2 DEF GoOn, Shape
  <2> QED
    BY <1>2, <2>1, <2>2 DEF GoOn
<1> QED
  BY <1>1, <1>2

(* A call begins: nothing of the queues or of the locks changes.           *)
LEMMA CallStep ==
  ASSUME IInv, NEW g \in Goroutines, Call(g)
  PROVE  IInv'
<1> USE DEF Call
<1>1. Shape' /\ Exclusive'
  BY DEF IInv, Shape, Exclusive
<1>4. Idle'
  BY CallsAssumption DEF IInv, Shape, Idle
<1>3. Pending'
  <2> SUFFICES ASSUME NEW h \in Goroutines, failed[h], thread[h] # None
               PROVE  HasError(h)'
    BY DEF Pending
  <2>1. HasError(h)
    BY DEF IInv, Pending
  <2>2. CASE h # g
    BY <2>1, <2>2 DEF HasError, IInv, Shape
  <2>3. CASE h = g
    BY <2>3 DEF IInv, Idle
  <2> QED
    BY <2>2, <2>3
<1> QED
  BY <1>1, <1>3, <1>4 DEF IInv

(* A C call that succeeds: only an SSL operation changes a queue, and then *)
(* only that of the thread it runs on.                                     *)
LEMMA SucceedStep ==
  ASSUME IInv, NEW g \in Goroutines, Succeed(g)
  PROVE  IInv'
<1>1. PICK t \in MayRunOn(g) :
        /\ GoOn(g, t, Without(Acquired(g, Head(script[g])), Head(script[g]).gives))
        /\ queue' = IF Head(script[g]).onError = "ssl"
                    THEN [queue EXCEPT ![t] = Found(made[call[g]], t)]
                    ELSE queue
  BY DEF Succeed
<1>2. /\ t \in Threads /\ t # None
      /\ \A h \in Goroutines : h # g => thread[h] # t
  BY RunsAlone DEF IInv
<1>3. ~failed[g] /\ call[g] # 0
  BY DEF Succeed, IInv, Idle
<1>4. PICK c, s, l :
        /\ l \in {t, None}
        /\ c = 0 => s = <<>> /\ l = None
        /\ call' = [call EXCEPT ![g] = c]
        /\ script' = [script EXCEPT ![g] = s]
        /\ failed' = [failed EXCEPT ![g] = FALSE]
        /\ thread' = [thread EXCEPT ![g] = l]
  BY <1>1, <1>2, <1>3, GoOnUpdates DEF IInv
<1>5. \E q : queue' = [queue EXCEPT ![t] = q]
  <2>1. CASE Head(script[g]).onError = "ssl"
    BY <1>1, <2>1
  <2>2. CASE Head(script[g]).onError # "ssl"
    <3>1. queue' = [queue EXCEPT ![t] = queue[t]]
      BY <1>1, <2>2 DEF IInv, Shape
    <3> QED
      BY <3>1
  <2> QED
    BY <2>1, <2>2
<1>7. PICK q : queue' = [queue EXCEPT ![t] = q]
  BY <1>5
<1>8. Update(g, t, q, c, s, FALSE, l)
  BY <1>4, <1>7 DEF Update
<1> QED
  BY <1>2, <1>8, StepOfOne

(* A C call that fails puts the call in the queue of the thread it ran on, *)
(* and a locked goroutine stays there until PopError.                      *)
LEMMA FailStep ==
  ASSUME IInv, NEW g \in Goroutines, Fail(g)
  PROVE  IInv'
<1> DEFINE s      == Head(script[g])
           rest   == Without(held[g], s.frees)
           error  == IF s.onError = "check" THEN {} ELSE {call[g]}
           before(t) == IF s.onError = "ssl" THEN Found(made[call[g]], t)
                                             ELSE queue[t]
           Outcome(t) ==
             \/ s.onError \in {"keep", "check"} /\ Return(g, rest)
             \/ s.onError = "ignore" /\ GoOn(g, t, Without(rest, s.gives))
             \/ /\ s.onError \in {"pop", "ssl"}
                /\ failed' = [failed EXCEPT ![g] = TRUE]
                /\ thread' = [thread EXCEPT ![g] = IF s.pinned THEN t ELSE None]
                /\ held' = [held EXCEPT ![g] = rest]
                /\ UNCHANGED <<made, call, script, leaked>>
<1>1. PICK t \in MayRunOn(g) :
        queue' = [queue EXCEPT ![t] = before(t) \cup error] /\ Outcome(t)
  BY DEF Fail
<1>2. /\ t \in Threads /\ t # None
      /\ \A h \in Goroutines : h # g => thread[h] # t
  BY RunsAlone DEF IInv
<1>3. ~failed[g] /\ call[g] # 0
  BY DEF Fail, IInv, Idle
<1>5. CASE s.onError \in {"keep", "check"}
  <2>1. Return(g, rest)
    BY <1>1, <1>5
  <2>2. Update(g, t, before(t) \cup error, 0, <<>>, FALSE, None)
    BY <1>1, <2>1, ReturnUpdates DEF IInv, Update
  <2> QED
    BY <1>2, <2>2, StepOfOne
<1>6. CASE s.onError = "ignore"
  <2>1. GoOn(g, t, Without(rest, s.gives))
    BY <1>1, <1>6
  <2>2. PICK c, r, l :
          /\ l \in {t, None}
          /\ c = 0 => r = <<>> /\ l = None
          /\ call' = [call EXCEPT ![g] = c]
          /\ script' = [script EXCEPT ![g] = r]
          /\ failed' = [failed EXCEPT ![g] = FALSE]
          /\ thread' = [thread EXCEPT ![g] = l]
    BY <1>2, <1>3, <2>1, GoOnUpdates DEF IInv
  <2>3. Update(g, t, before(t) \cup error, c, r, FALSE, l)
    BY <1>1, <2>2 DEF Update
  <2> QED
    BY <1>2, <2>3, StepOfOne
<1>7. CASE s.onError \in {"pop", "ssl"}
  <2> DEFINE l == IF s.pinned THEN t ELSE None
             q == before(t) \cup error
  <2>1. /\ failed' = [failed EXCEPT ![g] = TRUE]
        /\ thread' = [thread EXCEPT ![g] = l]
        /\ call' = call /\ script' = script
    BY <1>1, <1>7
  <2>2. /\ call' = [call EXCEPT ![g] = call[g]]
        /\ script' = [script EXCEPT ![g] = script[g]]
    BY <2>1 DEF IInv, Shape
  <2>3. call[g] \in q
    BY <1>7
  <2>4. l \in {t, None} /\ queue' = [queue EXCEPT ![t] = q]
    BY <1>1
  <2>5. Update(g, t, q, call[g], script[g], TRUE, l)
    BY <1>3, <2>1, <2>2, <2>3, <2>4 DEF Update
  <2> HIDE DEF l, q
  <2> QED
    BY <1>2, <2>5, StepOfOne
<1> QED
  BY <1>1, <1>5, <1>6, <1>7

(* A waiting SSL operation goes on to PopError only when the queue of its  *)
(* thread is not empty.                                                    *)
LEMMA HealthyWaitStep ==
  ASSUME IInv, NEW g \in Goroutines, HealthyWait(g)
  PROVE  IInv'
<1>1. PICK t \in MayRunOn(g) :
        LET found == Found(made[call[g]], t) IN
        /\ queue' = [queue EXCEPT ![t] = found]
        /\ IF found = {} THEN Return(g, held[g])
           ELSE /\ failed' = [failed EXCEPT ![g] = TRUE]
                /\ thread' = [thread EXCEPT ![g] = t]
                /\ UNCHANGED <<made, call, script, held, leaked>>
  BY DEF HealthyWait
<1>2. /\ t \in Threads /\ t # None
      /\ \A h \in Goroutines : h # g => thread[h] # t
  BY RunsAlone DEF IInv
<1>3. /\ call[g] # 0
      /\ Head(script[g]).onError = "ssl"
  BY DEF HealthyWait, IInv, Idle
<1>5. CASE Found(made[call[g]], t) = {}
  <2>1. Update(g, t, {}, 0, <<>>, FALSE, None)
    BY <1>1, <1>5, ReturnUpdates DEF IInv, Update
  <2> QED
    BY <1>2, <2>1, StepOfOne
<1>6. CASE Found(made[call[g]], t) # {}
  <2> DEFINE q == Found(made[call[g]], t)
  <2>1. /\ call' = [call EXCEPT ![g] = call[g]]
        /\ script' = [script EXCEPT ![g] = script[g]]
    BY <1>1, <1>6 DEF IInv, Shape
  <2>2. /\ failed' = [failed EXCEPT ![g] = TRUE]
        /\ thread' = [thread EXCEPT ![g] = t]
        /\ queue' = [queue EXCEPT ![t] = q]
    BY <1>1, <1>6
  <2>3. q # {}
    BY <1>6
  <2>4. Update(g, t, q, call[g], script[g], TRUE, t)
    BY <1>3, <2>1, <2>2, <2>3 DEF Update
  <2> HIDE DEF q
  <2> QED
    BY <1>2, <2>4, StepOfOne
<1> QED
  BY <1>5, <1>6

(* PopError of a locked goroutine runs on the thread it is locked to.      *)
LEMMA PopErrorStep ==
  ASSUME IInv, NEW g \in Goroutines, PopError(g)
  PROVE  IInv'
<1>1. PICK t \in MayRunOn(g) : queue' = [queue EXCEPT ![t] = {}]
  BY DEF PopError
<1>2. /\ t \in Threads /\ t # None
      /\ \A h \in Goroutines : h # g => thread[h] # t
  BY RunsAlone DEF IInv
<1>3. failed[g] /\ Return(g, held[g])
  BY DEF PopError
<1>4. Update(g, t, {}, 0, <<>>, FALSE, None)
  BY <1>1, <1>3, ReturnUpdates DEF IInv, Update
<1> QED
  BY <1>2, <1>4, StepOfOne

\* a crash ends the process and changes nothing of the calls
LEMMA NextIInv == IInv /\ [Next]_vars => IInv'
<1> SUFFICES ASSUME IInv, [Next]_vars PROVE IInv'
  OBVIOUS
<1>1. CASE UNCHANGED callVars
  BY <1>1 DEF callVars, IInv, Shape, Exclusive, Idle, Pending, HasError
<1>2. ASSUME NEW g \in Goroutines,
             Call(g) \/ Succeed(g) \/ Fail(g) \/ HealthyWait(g) \/ PopError(g)
      PROVE  IInv'
  BY <1>2, CallStep, SucceedStep, FailStep, HealthyWaitStep, PopErrorStep
<1>3. \/ UNCHANGED callVars
      \/ \E g \in Goroutines :
            Call(g) \/ Succeed(g) \/ Fail(g) \/ HealthyWait(g) \/ PopError(g)
  BY DEF Next, Run, Crash, vars
<1> QED
  BY <1>1, <1>2, <1>3

(* LockOSThread is exclusive: two goroutines are never on one locked       *)
(* thread, and one in no call has given its thread back.                   *)
THEOREM LocksHold == Spec => [](Exclusive /\ Idle)
<1>1. IInv => Exclusive /\ Idle
  BY DEF IInv
<1> QED
  BY InitIInv, NextIInv, <1>1, PTL DEF Spec

-----------------------------------------------------------------------------
(* The scripts.  What is proved below rests on four facts about each       *)
(* script of Tables: of what kind its steps are, what is held by hand      *)
(* before each of them, for a function of Tidy that every step is locked   *)
(* and ends in PopError, and for one of Pinned that every PopError is      *)
(* called on a locked thread.                                              *)

Ways == {"defer", "finalizer", "hand"}

Steps == [onError : {"pop", "keep", "ignore", "check", "ssl", "crash"},
          pinned : BOOLEAN, unlocks : BOOLEAN,
          gets : SUBSET (Objects \X Ways), lacks : SUBSET Objects,
          gives : SUBSET Objects, frees : SUBSET Objects]

\* an SSL operation is made on a locked thread (conn.go:316, 334, 382, 553)
SslLocked(s) == s.onError = "ssl" => s.pinned

\* PopError is called on the thread the C call ran on
PopLocked(s) == s.onError = "pop" => s.pinned

PlainSteps == {s \in Steps : /\ SslLocked(s) /\ s.lacks = {}
                             /\ \A o \in s.gets : o[2] # "hand"}
TidySteps  == {s \in Steps : s.onError \in {"pop", "ssl"} /\ s.pinned}

Plain == Seq(PlainSteps) \ {<<>>}

\* what among objects nothing but the function knows of
Hands(objects) == {o \in Objects : <<o, "hand">> \in objects}

\* what a step that succeeds adds to it, at most
Takes(step) == Hands(step.gets) \cup step.lacks

\* a step with before held by hand: when it returns it leaves only objects of
\* allowed, and when it goes on no more than after is held
Keeping(step, before, after, allowed) ==
    /\ step.onError \notin {"ignore", "crash"} => before \ step.frees \subseteq allowed
    /\ step.onError = "ssl" => before \subseteq allowed
    /\ (before \cup Takes(step)) \ step.gives \subseteq after

\* h[i] is what is held by hand before step i of s
Balanced(s, allowed, h) ==
    /\ h \in [1 .. Len(s) + 1 -> SUBSET Objects]
    /\ h[Len(s) + 1] \subseteq allowed
    /\ \A i \in 1 .. Len(s) : Keeping(s[i], h[i], h[i + 1], allowed)

\* the scripts that start with nothing held by hand
Scripts(allowed) ==
    {s \in Seq(Steps) :
        /\ s # <<>>
        /\ \A i \in 1 .. Len(s) : SslLocked(s[i])
        /\ \E h : Balanced(s, allowed, h) /\ h[1] = {}}

Excepted == {<<"GenerateRSAKeyWithExponent", "rsa">>,
             <<"sm2Verify", "r">>, <<"sm2Verify", "s">>,
             <<"SetSerial", "sno">>, <<"SetSerial", "bn">>,
             <<"NewCertificate", "sno">>, <<"NewCertificate", "bn">>}

Allowed(f) == {o \in Objects : <<f, o>> \in Excepted}

PopsLocked(s) == \A i \in 1 .. Len(s) : PopLocked(s[i])

Good(f, s) ==
    /\ s \in Scripts(Allowed(f))
    /\ f \in Tidy => s \in Seq(TidySteps)
    /\ f = "NewConn" => PopsLocked(s)

\* every script of a table is good
Fine(table) == \A f \in DOMAIN table : \A s \in table[f] : Good(f, s)

\* a sequence whose elements are in T is a sequence of T
LEMMA SeqNarrows ==
    ASSUME NEW S, NEW T, NEW s \in Seq(S), NEW n, Len(s) = n
    PROVE  /\ \A i \in 1 .. n : s[i] \in S
           /\ (\A i \in 1 .. n : s[i] \in T) => s \in Seq(T)
OBVIOUS

\* what a defer or a finalizer frees is not held by hand
LEMMA NothingByHand ==
    ASSUME NEW objects, \A o \in objects : o[2] # "hand"
    PROVE  Hands(objects) = {}
BY DEF Hands

\* a script that never holds anything by hand is one, whatever is allowed
LEMMA PlainIsScript ==
    ASSUME NEW s \in Plain, NEW allowed
    PROVE  s \in Scripts(allowed)
<1> DEFINE h == [i \in 1 .. Len(s) + 1 |-> {}]
<1>1. s \in Seq(PlainSteps) /\ s # <<>> /\ Len(s) \in Nat
  BY DEF Plain
<1>2. \A i \in 1 .. Len(s) : s[i] \in PlainSteps
  BY <1>1
<1>3. s \in Seq(Steps)
  BY <1>1 DEF PlainSteps
<1>4. \A i \in 1 .. Len(s) : SslLocked(s[i]) /\ Takes(s[i]) = {}
  BY <1>2, NothingByHand DEF PlainSteps, Takes
<1>5. /\ h \in [1 .. Len(s) + 1 -> SUBSET Objects]
      /\ h[1] = {} /\ h[Len(s) + 1] = {}
      /\ \A i \in 1 .. Len(s) : h[i] = {} /\ h[i + 1] = {}
  BY <1>1
<1> HIDE DEF h
<1>6. Balanced(s, allowed, h)
  BY <1>4, <1>5 DEF Balanced, Keeping
<1> QED
  BY <1>1, <1>3, <1>4, <1>5, <1>6 DEF Scripts

\* a script that leaves nothing leaves nothing more than is allowed
LEMMA MoreAllowed ==
    ASSUME NEW s \in Scripts({}), NEW allowed
    PROVE  s \in Scripts(allowed)
<1>1. PICK h : Balanced(s, {}, h) /\ h[1] = {}
  BY DEF Scripts
<1>2. Balanced(s, allowed, h)
  BY <1>1 DEF Balanced, Keeping
<1> QED
  BY <1>1, <1>2 DEF Scripts

\* a sequence with elements is not empty
LEMMA LongEnough ==
    ASSUME NEW S, NEW s \in Seq(S), Len(s) # 0
    PROVE  s # <<>>
OBVIOUS

\* the elements of p followed by q
LEMMA JoinFacts ==
    ASSUME NEW S, NEW p \in Seq(S), NEW q \in Seq(S)
    PROVE  /\ p \o q \in Seq(S)
           /\ Len(p \o q) = Len(p) + Len(q)
           /\ Len(p) \in Nat /\ Len(q) \in Nat
           /\ p # <<>> => p \o q # <<>>
           /\ \A i \in 1 .. Len(p \o q) :
                \/ i \in 1 .. Len(p) /\ (p \o q)[i] = p[i]
                \/ i - Len(p) \in 1 .. Len(q) /\ (p \o q)[i] = q[i - Len(p)]
OBVIOUS

\* what an earlier script left may be held besides
LEMMA HoldsMore ==
    ASSUME NEW s \in Seq(Steps), NEW allowed, NEW h, Balanced(s, allowed, h),
           NEW more \in SUBSET Objects, more \subseteq allowed
    PROVE  \E k : Balanced(s, allowed, k) /\ k[1] = h[1] \cup more
<1>1. PICK n \in Nat : n = Len(s)
  OBVIOUS
<1> DEFINE k == [i \in 1 .. n + 1 |-> h[i] \cup more]
<1>2. /\ h \in [1 .. n + 1 -> SUBSET Objects] /\ h[n + 1] \subseteq allowed
      /\ \A i \in 1 .. n : Keeping(s[i], h[i], h[i + 1], allowed)
  BY <1>1 DEF Balanced
<1>3. /\ k \in [1 .. n + 1 -> SUBSET Objects]
      /\ \A i \in 1 .. n + 1 : k[i] = h[i] \cup more
  BY <1>2
<1> HIDE DEF k
<1>4. ASSUME NEW i \in 1 .. n
      PROVE  Keeping(s[i], k[i], k[i + 1], allowed)
  <2>1. k[i] = h[i] \cup more /\ k[i + 1] = h[i + 1] \cup more
    BY <1>3
  <2>2. Keeping(s[i], h[i], h[i + 1], allowed)
    BY <1>2
  <2> QED  BY <2>1, <2>2 DEF Keeping
<1>5. k[n + 1] \subseteq allowed
  BY <1>2, <1>3
<1>6. Balanced(s, allowed, k)
  BY <1>1, <1>3, <1>4, <1>5 DEF Balanced
<1> QED
  BY <1>3, <1>6

\* two scripts in a row are a script: the first leaves no more than is allowed
LEMMA JoinScripts ==
    ASSUME NEW allowed, NEW p \in Scripts(allowed), NEW q \in Scripts(allowed)
    PROVE  p \o q \in Scripts(allowed)
<1>1. PICK g : Balanced(p, allowed, g) /\ g[1] = {}
  BY DEF Scripts
<1>2. PICK h0 : Balanced(q, allowed, h0) /\ h0[1] = {}
  BY DEF Scripts
<1>3. p \in Seq(Steps) /\ q \in Seq(Steps) /\ p # <<>>
  BY DEF Scripts
<1>4. PICK s : s = p \o q
  OBVIOUS
<1>5. /\ s \in Seq(Steps) /\ Len(s) = Len(p) + Len(q)
      /\ Len(p) \in Nat /\ Len(q) \in Nat /\ s # <<>>
      /\ \A i \in 1 .. Len(s) :
           \/ i \in 1 .. Len(p) /\ s[i] = p[i]
           \/ i - Len(p) \in 1 .. Len(q) /\ s[i] = q[i - Len(p)]
  BY <1>3, <1>4, JoinFacts
<1>0. PICK h : Balanced(q, allowed, h) /\ h[1] = g[Len(p) + 1]
  <2>1. PICK more : more = g[Len(p) + 1]
    OBVIOUS
  <2>2. more \in SUBSET Objects /\ more \subseteq allowed
    BY <1>1, <1>5, <2>1, SMTT(30) DEF Balanced
  <2>3. PICK h : Balanced(q, allowed, h) /\ h[1] = h0[1] \cup more
    <3>1. q \in Seq(Steps) /\ Balanced(q, allowed, h0)
      BY <1>2, <1>3
    <3> QED  BY <2>2, <3>1, HoldsMore, SMTT(30)
  <2> QED  BY <1>2, <2>1, <2>3
<1> DEFINE k == [i \in 1 .. Len(s) + 1 |->
                   IF i <= Len(p) THEN g[i] ELSE h[i - Len(p)]]
<1>6. /\ \A i \in 1 .. Len(p) : k[i] = g[i]
      /\ \A i \in 1 .. Len(q) + 1 : k[i + Len(p)] = h[i]
      /\ k \in [1 .. Len(s) + 1 -> SUBSET Objects]
  <2>1. \A i \in 1 .. Len(p) : i \in 1 .. Len(s) + 1 /\ i <= Len(p)
    BY <1>5
  <2>2. \A i \in 1 .. Len(q) + 1 :
          /\ i + Len(p) \in 1 .. Len(s) + 1 /\ ~(i + Len(p) <= Len(p))
          /\ (i + Len(p)) - Len(p) = i
    BY <1>5
  <2>3. \A i \in 1 .. Len(s) + 1 :
          IF i <= Len(p) THEN i \in 1 .. Len(p) + 1 ELSE i - Len(p) \in 1 .. Len(q) + 1
    BY <1>5
  <2>4. k \in [1 .. Len(s) + 1 -> SUBSET Objects]
    BY <2>3, <1>1, <1>0 DEF Balanced
  <2> QED
    BY <2>1, <2>2, <2>4
<1> HIDE DEF k
<1>7. \A i \in 1 .. Len(p) : k[i + 1] = g[i + 1]
  <2> SUFFICES ASSUME NEW i \in 1 .. Len(p) PROVE k[i + 1] = g[i + 1]
    OBVIOUS
  <2>1. CASE i + 1 \in 1 .. Len(p)
    BY <1>6, <2>1
  <2>2. CASE i = Len(p)
    <3>1. k[1 + Len(p)] = h[1]
      BY <1>5, <1>6
    <3>2. 1 + Len(p) = i + 1
      BY <1>5, <2>2
    <3> QED  BY <1>0, <2>2, <3>1, <3>2
  <2> QED  BY <1>5, <2>1, <2>2
<1>8. Balanced(s, allowed, k)
  <2>1. ASSUME NEW i \in 1 .. Len(s)
        PROVE  Keeping(s[i], k[i], k[i + 1], allowed)
    <3>1. CASE i \in 1 .. Len(p) /\ s[i] = p[i]
      <4>1. k[i] = g[i] /\ k[i + 1] = g[i + 1]
        BY <1>6, <1>7, <3>1
      <4> QED  BY <1>1, <3>1, <4>1 DEF Balanced
    <3>2. CASE i - Len(p) \in 1 .. Len(q) /\ s[i] = q[i - Len(p)]
      <4>1. PICK j \in 1 .. Len(q) : j = i - Len(p)
        BY <3>2
      <4>2. i = j + Len(p) /\ i + 1 = (j + 1) + Len(p) /\ j + 1 \in 1 .. Len(q) + 1
            /\ j \in 1 .. Len(q) + 1
        BY <1>5, <4>1
      <4>3. k[i] = h[j] /\ k[i + 1] = h[j + 1]
        BY <1>6, <4>2
      <4>4. s[i] = q[j]
        BY <3>2, <4>1
      <4> QED  BY <1>0, <4>3, <4>4 DEF Balanced
    <3> QED  BY <1>5, <3>1, <3>2
  <2>2. k[Len(s) + 1] \subseteq allowed
    <3>1. Len(q) + 1 \in 1 .. Len(q) + 1 /\ (Len(q) + 1) + Len(p) = Len(s) + 1
      BY <1>5
    <3>2. h[Len(q) + 1] \subseteq allowed
      BY <1>0 DEF Balanced
    <3> QED  BY <1>6, <3>1, <3>2
  <2> QED  BY <1>6, <2>1, <2>2 DEF Balanced
<1>9. k[1] = {}
  <2>1. Len(p) >= 1
    BY <1>3, <1>5
  <2>2. k[1] = g[1]
    BY <1>5, <1>6, <2>1
  <2> QED  BY <1>1, <2>2
<1>10. \A i \in 1 .. Len(s) : SslLocked(s[i])
  BY <1>5 DEF Scripts
<1> QED
  BY <1>4, <1>5, <1>8, <1>9, <1>10 DEF Scripts

\* the scripts of Then
LEMMA ThenIs ==
    ASSUME NEW F, NEW G, NEW r \in Then(F, G)
    PROVE  \E p \in F, q \in G : r = p \o q
BY DEF Then

\* Then of scripts
LEMMA ThenScripts ==
    ASSUME NEW allowed, NEW F, NEW G,
           F \subseteq Scripts(allowed), G \subseteq Scripts(allowed)
    PROVE  Then(F, G) \subseteq Scripts(allowed)
<1> SUFFICES ASSUME NEW r \in Then(F, G) PROVE r \in Scripts(allowed)
  OBVIOUS
<1>1. PICK p \in F, q \in G : r = p \o q
  BY ThenIs
<1>2. p \in Scripts(allowed) /\ q \in Scripts(allowed)
  OBVIOUS
<1> QED
  BY <1>1, <1>2, JoinScripts

\* Then of sequences of steps of one kind
LEMMA ThenSteps ==
    ASSUME NEW S, NEW F, NEW G, F \subseteq Seq(S), G \subseteq Seq(S)
    PROVE  Then(F, G) \subseteq Seq(S)
<1> SUFFICES ASSUME NEW r \in Then(F, G) PROVE r \in Seq(S)
  OBVIOUS
<1>1. PICK p \in F, q \in G : r = p \o q
  BY ThenIs
<1>2. p \in Seq(S) /\ q \in Seq(S)
  OBVIOUS
<1> QED
  BY <1>1, <1>2, JoinFacts

\* Then of plain scripts
LEMMA ThenPlain ==
    ASSUME NEW F, NEW G, F \subseteq Plain, G \subseteq Plain
    PROVE  Then(F, G) \subseteq Plain
<1> SUFFICES ASSUME NEW r \in Then(F, G) PROVE r \in Plain
  OBVIOUS
<1>1. PICK p \in F, q \in G : r = p \o q
  BY ThenIs
<1>2. p \in Seq(PlainSteps) /\ q \in Seq(PlainSteps) /\ p # <<>>
  BY DEF Plain
<1>3. p \o q \in Seq(PlainSteps) /\ p \o q # <<>>
  BY <1>2, JoinFacts
<1> QED
  BY <1>1, <1>3 DEF Plain

-----------------------------------------------------------------------------
(* The steps the tables are made of. *)

\* the five steps that acquire nothing are plain; the step of an SSL operation
LEMMA PlainOnes ==
    /\ Pops \in PlainSteps /\ Keeps \in PlainSteps
    /\ Ignored \in PlainSteps /\ Checks \in PlainSteps /\ Crashes \in PlainSteps
    /\ Step("ssl") \in Steps /\ Step("ssl").onError = "ssl" /\ Step("ssl").gets = {}
    /\ Step("ssl").lacks = {}
    /\ Pops.onError = "pop" /\ Keeps.onError = "keep"
    /\ Ignored.onError = "ignore" /\ Checks.onError = "check"
    /\ Crashes.onError = "crash"
    /\ Pops.gives = {} /\ Keeps.gives = {} /\ Ignored.gives = {} /\ Checks.gives = {}
    /\ Pops.frees = {} /\ Keeps.frees = {} /\ Ignored.frees = {} /\ Checks.frees = {}
    /\ Crashes.gives = {} /\ Crashes.frees = {}
BY DEF Pops, Keeps, Ignored, Checks, Crashes, Step, PlainSteps, Steps, SslLocked

\* an object that a defer statement frees leaves a step plain
LEMMA DeferredFacts ==
    ASSUME NEW s \in PlainSteps, NEW object \in Objects
    PROVE  /\ Deferred(s, object) \in PlainSteps
           /\ Deferred(s, object).onError = s.onError
           /\ Deferred(s, object).gives = s.gives
           /\ Deferred(s, object).frees = s.frees
<1>1. {<<object, "defer">>} \in SUBSET (Objects \X Ways)
  BY DEF Ways
<1>2. PICK d : d = Deferred(s, object)
  OBVIOUS
<1>3. /\ d \in Steps /\ d.onError = s.onError /\ d.pinned = s.pinned
      /\ d.gets = {<<object, "defer">>} /\ d.lacks = s.lacks
      /\ d.gives = s.gives /\ d.frees = s.frees
  BY <1>1, <1>2 DEF Deferred, PlainSteps, Steps
<1>4. d \in PlainSteps
  BY <1>3 DEF PlainSteps, SslLocked
<1> QED
  BY <1>2, <1>3, <1>4

\* what a defer or a finalizer frees leaves a step plain
LEMMA NewSteps ==
    ASSUME NEW s \in PlainSteps
    PROVE  /\ New(s) \in PlainSteps /\ Own(s) \in PlainSteps
           /\ New(s).onError = s.onError /\ Own(s).onError = s.onError
           /\ New(s).gives = s.gives /\ Own(s).gives = s.gives
           /\ New(s).frees = s.frees /\ Own(s).frees = s.frees
<1>1. "tmp" \in Objects
  BY DEF Objects
<1>2. {<<"obj", "finalizer">>} \in SUBSET (Objects \X Ways)
  BY DEF Objects, Ways
<1>3. /\ New(s) \in PlainSteps /\ New(s).onError = s.onError
      /\ New(s).gives = s.gives /\ New(s).frees = s.frees
  BY <1>1, DeferredFacts DEF New
<1>4. /\ Own(s) \in Steps /\ Own(s).onError = s.onError /\ Own(s).pinned = s.pinned
      /\ Own(s).gets = {<<"obj", "finalizer">>} /\ Own(s).lacks = s.lacks
      /\ Own(s).gives = s.gives /\ Own(s).frees = s.frees
  BY <1>2 DEF Own, PlainSteps, Steps
<1>5. Own(s) \in PlainSteps
  BY <1>4 DEF PlainSteps, SslLocked
<1> QED
  BY <1>3, <1>4, <1>5

\* a plain step that acquires object and nothing that knows of it
LEMMA BareFacts ==
    ASSUME NEW s \in PlainSteps, NEW object \in Objects
    PROVE  /\ Bare(s, object) \in Steps /\ SslLocked(Bare(s, object))
           /\ Bare(s, object).onError = s.onError
           /\ Takes(Bare(s, object)) = {object}
           /\ Bare(s, object).gives = s.gives /\ Bare(s, object).frees = s.frees
<1>1. {<<object, "hand">>} \in SUBSET (Objects \X Ways)
  BY DEF Ways
<1>2. PICK b : b = Bare(s, object)
  OBVIOUS
<1>3. /\ b \in Steps /\ b.onError = s.onError /\ b.pinned = s.pinned
      /\ b.gets = {<<object, "hand">>} /\ b.lacks = s.lacks
      /\ b.gives = s.gives /\ b.frees = s.frees
  BY <1>1, <1>2 DEF Bare, PlainSteps, Steps
<1>4. Hands({<<object, "hand">>}) = {object}
  BY DEF Hands
<1>5. SslLocked(b) /\ Takes(b) = {object}
  BY <1>3, <1>4 DEF PlainSteps, SslLocked, Takes
<1> QED
  BY <1>2, <1>3, <1>5

\* a plain step that makes object itself where it is handed none
LEMMA FillsFacts ==
    ASSUME NEW s \in PlainSteps, NEW object \in Objects
    PROVE  /\ Fills(s, object) \in Steps /\ SslLocked(Fills(s, object))
           /\ Fills(s, object).onError = s.onError
           /\ Takes(Fills(s, object)) = {object}
           /\ Fills(s, object).gives = s.gives /\ Fills(s, object).frees = s.frees
<1>1. {object} \in SUBSET Objects
  OBVIOUS
<1>2. PICK b : b = Fills(s, object)
  OBVIOUS
<1>3. /\ b \in Steps /\ b.onError = s.onError /\ b.pinned = s.pinned
      /\ b.gets = s.gets /\ b.lacks = {object}
      /\ b.gives = s.gives /\ b.frees = s.frees
  BY <1>1, <1>2 DEF Fills, PlainSteps, Steps
<1>4. Hands(b.gets) = {}
  BY <1>3, NothingByHand DEF PlainSteps
<1>5. SslLocked(b) /\ Takes(b) = {object}
  BY <1>3, <1>4 DEF PlainSteps, SslLocked, Takes
<1> QED
  BY <1>2, <1>3, <1>5

\* a plain step that makes objects the property of another object
LEMMA GivesFacts ==
    ASSUME NEW s \in PlainSteps, NEW objects, NEW freed,
           objects \subseteq Objects, freed \subseteq Objects
    PROVE  LET r == Gives(s, objects, freed) IN
           /\ r \in Steps /\ SslLocked(r) /\ r.onError = s.onError
           /\ Takes(r) = {} /\ r.gives = objects /\ r.frees = freed
<1>1. PICK r : r = Gives(s, objects, freed)
  OBVIOUS
<1>2. /\ r \in Steps /\ r.onError = s.onError /\ r.pinned = s.pinned
      /\ r.gets = s.gets /\ r.lacks = s.lacks
      /\ r.gives = objects /\ r.frees = freed
  BY <1>1 DEF Gives, PlainSteps, Steps
<1>3. Takes(r) = {}
  BY <1>2, NothingByHand DEF PlainSteps, Takes
<1>4. SslLocked(r)
  BY <1>2 DEF SslLocked, PlainSteps
<1> QED
  BY <1>1, <1>2, <1>3, <1>4

\* a plain step takes nothing
LEMMA PlainTakesNothing ==
    ASSUME NEW s \in PlainSteps
    PROVE  s \in Steps /\ SslLocked(s) /\ Takes(s) = {}
BY NothingByHand DEF PlainSteps, Takes

\* Locked changes the lock of the steps and nothing else
LEMMA OneLocks ==
    ASSUME NEW n \in Nat, NEW steps \in [1 .. n -> Steps]
    PROVE  /\ Locked(steps) \in Seq(Steps)
           /\ Len(Locked(steps)) = n
           /\ \A i \in 1 .. n :
                /\ Locked(steps)[i].onError = steps[i].onError
                /\ Locked(steps)[i].pinned
                /\ Locked(steps)[i].gets = steps[i].gets
                /\ Locked(steps)[i].lacks = steps[i].lacks
                /\ Locked(steps)[i].gives = steps[i].gives
                /\ Locked(steps)[i].frees = steps[i].frees
<1>1. steps \in Seq(Steps) /\ Len(steps) = n /\ DOMAIN steps = 1 .. n
  OBVIOUS
<1>2. Locked(steps) = [i \in 1 .. n |->
            [steps[i] EXCEPT !.pinned = TRUE, !.unlocks = (i = Len(steps))]]
  BY <1>1 DEF Locked
<1>3. ASSUME NEW i \in 1 .. n
      PROVE  LET s == [steps[i] EXCEPT !.pinned = TRUE, !.unlocks = (i = Len(steps))] IN
             /\ s \in Steps /\ s.pinned
             /\ s.onError = steps[i].onError
             /\ s.gets = steps[i].gets /\ s.gives = steps[i].gives
             /\ s.frees = steps[i].frees /\ s.lacks = steps[i].lacks
  <2>1. PICK u \in BOOLEAN : u = (i = Len(steps))
    OBVIOUS
  <2>2. PICK t \in Steps : t = steps[i]
    OBVIOUS
  <2>3. LET s == [t EXCEPT !.pinned = TRUE, !.unlocks = u] IN
        /\ s \in Steps /\ s.pinned
        /\ s.onError = t.onError
        /\ s.gets = t.gets /\ s.gives = t.gives
        /\ s.frees = t.frees /\ s.lacks = t.lacks
    BY DEF Steps
  <2> QED  BY <2>1, <2>2, <2>3
<1>4. Locked(steps) \in [1 .. n -> Steps]
  BY <1>2, <1>3
<1>5. Locked(steps) \in Seq(Steps) /\ Len(Locked(steps)) = n
  BY <1>4
<1> QED
  BY <1>2, <1>3, <1>5, ZenonT(60)

\* a script that locks its thread is plain, and tidy if it reads every error
BareSteps == {s \in Steps : s.lacks = {} /\ \A o \in s.gets : o[2] # "hand"}
ReadSteps == {s \in BareSteps : s.onError \in {"pop", "ssl"}}

\* Locked makes a script plain, and tidy if each error is read
LEMMA LockedPlain ==
    ASSUME NEW steps \in Seq(BareSteps), steps # <<>>
    PROVE  /\ Locked(steps) \in Plain
           /\ steps \in Seq(ReadSteps) => Locked(steps) \in Seq(TidySteps)
<1>1. PICK n \in Nat : n = Len(steps)
  OBVIOUS
<1>2. /\ steps \in [1 .. n -> BareSteps] /\ n # 0
  BY <1>1
<1>3. steps \in [1 .. n -> Steps]
  BY <1>2 DEF BareSteps
<1>4. PICK r : r = Locked(steps)
  OBVIOUS
<1>5. /\ r \in Seq(Steps)
      /\ Len(r) = n
      /\ \A i \in 1 .. n :
           /\ r[i].onError = steps[i].onError
           /\ r[i].pinned
           /\ r[i].gets = steps[i].gets /\ r[i].lacks = steps[i].lacks
  BY <1>3, <1>4, OneLocks
<1>6. \A i \in 1 .. n : r[i] \in PlainSteps
  BY <1>2, <1>5 DEF BareSteps, PlainSteps, SslLocked
<1>7. r \in Seq(PlainSteps) /\ r # <<>>
  BY <1>2, <1>5, <1>6
<1>8. ASSUME steps \in Seq(ReadSteps)
      PROVE  r \in Seq(TidySteps)
  <2>1. \A i \in 1 .. n : steps[i] \in ReadSteps
    BY <1>1, <1>8
  <2>2. \A i \in 1 .. n : r[i] \in TidySteps
    BY <1>5, <2>1 DEF ReadSteps, TidySteps
  <2> QED  BY <1>5, <2>2
<1> QED
  BY <1>4, <1>7, <1>8 DEF Plain

-----------------------------------------------------------------------------
(* The tables. *)

PlainTable(table) ==
    \A f \in DOMAIN table :
        /\ table[f] \subseteq Plain
        /\ f \in Tidy => table[f] \subseteq Seq(TidySteps)
        /\ f # "NewConn"

\* a table of plain scripts is fine
LEMMA PlainTableIsFine ==
    ASSUME NEW table, PlainTable(table)
    PROVE  Fine(table)
BY PlainIsScript DEF PlainTable, Fine, Good

\* the plain steps of the tables
LEMMA StepsUsed ==
    /\ Pops \in PlainSteps /\ Keeps \in PlainSteps
    /\ Ignored \in PlainSteps /\ Checks \in PlainSteps
    /\ New(Pops) \in PlainSteps /\ New(Keeps) \in PlainSteps
    /\ New(Ignored) \in PlainSteps /\ New(New(Pops)) \in PlainSteps
    /\ New(Crashes) \in PlainSteps
    /\ Own(Pops) \in PlainSteps /\ Own(Keeps) \in PlainSteps
    /\ Own(Ignored) \in PlainSteps
    /\ Pops \in ReadSteps /\ New(Pops) \in ReadSteps /\ Own(Pops) \in ReadSteps
    /\ Step("ssl") \in ReadSteps
    /\ PlainSteps \subseteq BareSteps /\ ReadSteps \subseteq BareSteps
<1>1. PlainSteps \subseteq BareSteps /\ ReadSteps \subseteq BareSteps
  BY DEF PlainSteps, BareSteps, ReadSteps
<1>2. Step("ssl") \in ReadSteps
  BY PlainOnes DEF ReadSteps, BareSteps
<1> QED
  BY <1>1, <1>2, PlainOnes, NewSteps DEF ReadSteps

\* scripts of up to four plain steps
LEMMA PlainSequences ==
    ASSUME NEW a \in PlainSteps, NEW b \in PlainSteps, NEW d \in PlainSteps,
           NEW e \in PlainSteps
    PROVE  /\ <<a>> \in Plain /\ <<a, b>> \in Plain /\ <<a, b, d>> \in Plain
           /\ <<a, b, d, e>> \in Plain
BY DEF Plain

\* SignPKCS1v15 and VerifyPKCS1v15
LEMMA SignVerifyIsPlain == PlainTable(SignVerify)
<1>1. /\ <<New(Ignored), Checks>> \in Plain
      /\ <<New(Crashes), Pops, Pops>> \in Plain
      /\ <<New(Crashes), Pops, Pops, Pops>> \in Plain
  BY StepsUsed, PlainSequences
<1> QED
  BY <1>1 DEF PlainTable, SignVerify, Tidy

\* the functions of key.go that hold nothing by hand
LEMMA KeyTablesArePlain ==
    /\ PlainTable(MarshalPKCS8) /\ PlainTable(EncryptDecrypt)
    /\ PlainTable(Marshal) /\ PlainTable(LoadKey) /\ PlainTable(Public)
<1>1. /\ <<New(Keeps), Pops, Checks>> \in Plain
      /\ <<New(Ignored), Pops, Pops, Pops>> \in Plain
      /\ <<New(Keeps), Pops, Pops, Pops>> \in Plain
      /\ <<New(Keeps), Pops>> \in Plain
      /\ <<New(Keeps), Own(Pops)>> \in Plain
      /\ <<New(Keeps), Own(Pops), Pops>> \in Plain
  BY StepsUsed, PlainSequences
<1>2. PlainTable(MarshalPKCS8)
  BY <1>1 DEF PlainTable, MarshalPKCS8, Tidy
<1>3. PlainTable(EncryptDecrypt)
  BY <1>1 DEF PlainTable, EncryptDecrypt, Tidy
<1>4. PlainTable(Marshal)
  BY <1>1 DEF PlainTable, Marshal, Tidy
<1>5. PlainTable(LoadKey)
  BY <1>1 DEF PlainTable, LoadKey, Tidy
<1>6. PlainTable(Public)
  <2>1. Then(Marshal.MarshalPKIXPublicKeyDER, LoadKey.LoadPublicKeyFromDER) \subseteq Plain
    <3>1. Marshal.MarshalPKIXPublicKeyDER \subseteq Plain
      BY <1>1 DEF Marshal
    <3>2. LoadKey.LoadPublicKeyFromDER \subseteq Plain
      BY <1>1 DEF LoadKey
    <3> QED  BY <3>1, <3>2, ThenPlain
  <2> QED  BY <2>1 DEF PlainTable, Public, Tidy
<1> QED
  BY <1>2, <1>3, <1>4, <1>5, <1>6

\* the scripts that hold something by hand
LEMMA ScriptIs ==
    ASSUME NEW s \in Seq(Steps), NEW allowed, NEW h, NEW n \in Nat,
           Len(s) = n, s # <<>>,
           h \in [1 .. n + 1 -> SUBSET Objects], h[1] = {}, h[n + 1] \subseteq allowed,
           \A i \in 1 .. n : SslLocked(s[i]) /\ Keeping(s[i], h[i], h[i + 1], allowed)
    PROVE  s \in Scripts(allowed)
<1>1. Balanced(s, allowed, h)
  BY DEF Balanced
<1> QED
  BY <1>1 DEF Scripts

\* a script that acquires an object by hand and gives it away or frees it
LEMMA TwoSteps ==
    ASSUME NEW s \in Seq(Steps), Len(s) = 2, NEW a, NEW b, NEW object \in Objects,
           s[1] = a, s[2] = b,
           SslLocked(a), a.onError # "ssl",
           Takes(a) = {object}, a.gives = {}, a.frees = {},
           SslLocked(b), b.onError \notin {"ignore", "ssl"},
           Takes(b) = {}, b.gives = {object}, b.frees = {object}
    PROVE  s \in Scripts({})
<1> DEFINE h == <<{}, {object}, {}>>
<1>1. s \in Seq(Steps) /\ Len(s) = 2 /\ s # <<>> /\ s[1] = a /\ s[2] = b
  OBVIOUS
<1>2. h \in [1 .. 2 + 1 -> SUBSET Objects] /\ h[1] = {} /\ h[2] = {object} /\ h[3] = {}
  OBVIOUS
<1> HIDE DEF h
<1>3. ASSUME NEW i \in 1 .. 2
      PROVE  SslLocked(s[i]) /\ Keeping(s[i], h[i], h[i + 1], {})
  <2>1. CASE i = 1
    BY <1>1, <1>2, <2>1 DEF Keeping
  <2>2. CASE i = 2
    BY <1>1, <1>2, <2>2 DEF Keeping
  <2> QED  BY <2>1, <2>2
<1>4. h[2 + 1] = {}
  BY <1>2
<1> QED
  BY <1>1, <1>2, <1>3, <1>4, ScriptIs

\* GenerateRSAKeyWithExponent: only the RSA key can be left (key.go:549-556)
LEMMA RsaScript ==
    <<Bare(Keeps, "rsa"), Bare(Keeps, "key"), Gives(Pops, {"rsa", "key"}, {"key"})>>
        \in Scripts({"rsa"})
<1> DEFINE a == Bare(Keeps, "rsa")
           b == Bare(Keeps, "key")
           d == Gives(Pops, {"rsa", "key"}, {"key"})
           s == <<a, b, d>>
           h == <<{}, {"rsa"}, {"rsa", "key"}, {}>>
<1>0. /\ {"rsa", "key"} \subseteq Objects /\ {"key"} \subseteq Objects
      /\ "rsa" \in Objects /\ "key" \in Objects
  BY DEF Objects
<1>1. /\ a \in Steps /\ SslLocked(a) /\ a.onError = "keep"
      /\ Takes(a) = {"rsa"} /\ a.gives = {} /\ a.frees = {}
  BY <1>0, PlainOnes, BareFacts
<1>2. /\ b \in Steps /\ SslLocked(b) /\ b.onError = "keep"
      /\ Takes(b) = {"key"} /\ b.gives = {} /\ b.frees = {}
  BY <1>0, PlainOnes, BareFacts
<1>3. /\ d \in Steps /\ SslLocked(d) /\ d.onError = "pop"
      /\ Takes(d) = {} /\ d.gives = {"rsa", "key"} /\ d.frees = {"key"}
  BY <1>0, PlainOnes, GivesFacts
<1> HIDE DEF a, b, d
<1>4. /\ s \in Seq(Steps) /\ Len(s) = 3 /\ s # <<>>
      /\ s[1] = a /\ s[2] = b /\ s[3] = d
  BY <1>1, <1>2, <1>3
<1>5. /\ h \in [1 .. 3 + 1 -> SUBSET Objects]
      /\ h[1] = {} /\ h[2] = {"rsa"} /\ h[3] = {"rsa", "key"} /\ h[4] = {}
  BY <1>0
<1> HIDE DEF s, h
<1>6. ASSUME NEW i \in 1 .. 3
      PROVE  SslLocked(s[i]) /\ Keeping(s[i], h[i], h[i + 1], {"rsa"})
  <2>1. CASE i = 1
    BY <1>1, <1>4, <1>5, <2>1 DEF Keeping
  <2>2. CASE i = 2
    BY <1>2, <1>4, <1>5, <2>2 DEF Keeping
  <2>3. CASE i = 3
    BY <1>3, <1>4, <1>5, <2>3 DEF Keeping
  <2> QED  BY <2>1, <2>2, <2>3
<1>7. s \in Scripts({"rsa"})
  <2>1. h[3 + 1] = {}
    BY <1>5
  <2> QED  BY <1>4, <1>5, <1>6, <2>1, ScriptIs
<1> QED
  BY <1>7 DEF s, a, b, d

\* the first part of sm2.Verify
LEMMA SignatureScript ==
    <<New(Crashes), Bare(Ignored, "r"), Bare(Ignored, "s"),
      Gives(Checks, {"r", "s"}, {}), New(Ignored)>> \in Scripts({"r", "s"})
<1> DEFINE m == New(Crashes)
           n == New(Ignored)
           a == Bare(Ignored, "r")
           b == Bare(Ignored, "s")
           d == Gives(Checks, {"r", "s"}, {})
           s == <<m, a, b, d, n>>
           h == <<{}, {}, {"r"}, {"r", "s"}, {}, {}>>
<1>0. /\ {"r", "s"} \subseteq Objects /\ {} \subseteq Objects
      /\ "r" \in Objects /\ "s" \in Objects
  BY DEF Objects
<1>1. /\ n \in Steps /\ SslLocked(n) /\ n.onError = "ignore"
      /\ Takes(n) = {} /\ n.gives = {} /\ n.frees = {}
  <2>1. /\ n \in PlainSteps /\ n.onError = "ignore" /\ n.gives = {} /\ n.frees = {}
    BY PlainOnes, NewSteps
  <2> QED  BY <2>1, PlainTakesNothing
<1>9. /\ m \in Steps /\ SslLocked(m) /\ m.onError = "crash"
      /\ Takes(m) = {} /\ m.gives = {} /\ m.frees = {}
  <2>1. /\ m \in PlainSteps /\ m.onError = "crash" /\ m.gives = {} /\ m.frees = {}
    BY PlainOnes, NewSteps
  <2> QED  BY <2>1, PlainTakesNothing
<1>2. /\ a \in Steps /\ SslLocked(a) /\ a.onError = "ignore"
      /\ Takes(a) = {"r"} /\ a.gives = {} /\ a.frees = {}
  BY <1>0, PlainOnes, BareFacts
<1>3. /\ b \in Steps /\ SslLocked(b) /\ b.onError = "ignore"
      /\ Takes(b) = {"s"} /\ b.gives = {} /\ b.frees = {}
  BY <1>0, PlainOnes, BareFacts
<1>4. /\ d \in Steps /\ SslLocked(d) /\ d.onError = "check"
      /\ Takes(d) = {} /\ d.gives = {"r", "s"} /\ d.frees = {}
  BY <1>0, PlainOnes, GivesFacts
<1> HIDE DEF m, n, a, b, d
<1>5. /\ s \in Seq(Steps) /\ Len(s) = 5 /\ s # <<>>
      /\ s[1] = m /\ s[2] = a /\ s[3] = b /\ s[4] = d /\ s[5] = n
  BY <1>1, <1>2, <1>3, <1>4, <1>9
<1>6. /\ h \in [1 .. 5 + 1 -> SUBSET Objects]
      /\ h[1] = {} /\ h[2] = {} /\ h[3] = {"r"} /\ h[4] = {"r", "s"}
      /\ h[5] = {} /\ h[6] = {}
  BY <1>0
<1> HIDE DEF s, h
<1>7. ASSUME NEW i \in 1 .. 5
      PROVE  SslLocked(s[i]) /\ Keeping(s[i], h[i], h[i + 1], {"r", "s"})
  <2>1. CASE i = 1
    BY <1>9, <1>5, <1>6, <2>1 DEF Keeping
  <2>2. CASE i = 2
    BY <1>2, <1>5, <1>6, <2>2 DEF Keeping
  <2>3. CASE i = 3
    BY <1>3, <1>5, <1>6, <2>3 DEF Keeping
  <2>4. CASE i = 4
    BY <1>4, <1>5, <1>6, <2>4 DEF Keeping
  <2>5. CASE i = 5
    BY <1>1, <1>5, <1>6, <2>5 DEF Keeping
  <2> QED  BY <2>1, <2>2, <2>3, <2>4, <2>5
<1>8. s \in Scripts({"r", "s"})
  <2>1. h[5 + 1] = {}
    BY <1>6
  <2> QED  BY <1>5, <1>6, <1>7, <2>1, ScriptIs
<1> QED
  BY <1>8 DEF s, m, n, a, b, d

\* EngineByID and NewHMAC
LEMMA EngineAndHmacScripts ==
    /\ <<Bare(Keeps, "engine"), Gives(Own(Pops), {"engine"}, {"engine"})>> \in Scripts({})
    /\ <<Bare(Keeps, "hmac"), Gives(Own(Pops), {"hmac"}, {"hmac"})>> \in Scripts({})
<1>1. ASSUME NEW object \in Objects
      PROVE  <<Bare(Keeps, object), Gives(Own(Pops), {object}, {object})>> \in Scripts({})
  <2>1. PICK a : a = Bare(Keeps, object)
    OBVIOUS
  <2>2. PICK b : b = Gives(Own(Pops), {object}, {object})
    OBVIOUS
  <2>3. /\ a \in Steps /\ SslLocked(a) /\ a.onError = "keep"
        /\ Takes(a) = {object} /\ a.gives = {} /\ a.frees = {}
    BY <2>1, PlainOnes, BareFacts
  <2>4. Own(Pops) \in PlainSteps /\ Own(Pops).onError = "pop"
    BY PlainOnes, NewSteps
  <2>5. {object} \subseteq Objects
    OBVIOUS
  <2>6. /\ b \in Steps /\ SslLocked(b) /\ b.onError = "pop"
        /\ Takes(b) = {} /\ b.gives = {object} /\ b.frees = {object}
    BY <2>2, <2>4, <2>5, GivesFacts
  <2>7. PICK s : s = <<a, b>>
    OBVIOUS
  <2>8. s \in Seq(Steps) /\ Len(s) = 2 /\ s[1] = a /\ s[2] = b
    BY <2>3, <2>6, <2>7
  <2>9. s \in Scripts({})
    BY <2>3, <2>6, <2>8, TwoSteps
  <2> QED  BY <2>1, <2>2, <2>7, <2>9
<1>2. "engine" \in Objects /\ "hmac" \in Objects
  BY DEF Objects
<1> QED
  BY <1>1, <1>2

\* LoadCertificateFromPEM gives its BIO back on both paths
LEMMA LoadCertScript ==
    LET s == Locked(<<Bare(Pops, "bio"), Gives(Own(Pops), {"bio"}, {"bio"})>>)
    IN  s \in Scripts({}) /\ s \in Seq(TidySteps)
<1>1. PICK a : a = Bare(Pops, "bio")
  OBVIOUS
<1>2. PICK b : b = Gives(Own(Pops), {"bio"}, {"bio"})
  OBVIOUS
<1>3. "bio" \in Objects /\ {"bio"} \subseteq Objects
  BY DEF Objects
<1>4. /\ a \in Steps /\ SslLocked(a) /\ a.onError = "pop"
      /\ Takes(a) = {"bio"} /\ a.gives = {} /\ a.frees = {}
  BY <1>1, <1>3, PlainOnes, BareFacts
<1>5. Own(Pops) \in PlainSteps /\ Own(Pops).onError = "pop"
  BY PlainOnes, NewSteps
<1>6. /\ b \in Steps /\ SslLocked(b) /\ b.onError = "pop"
      /\ Takes(b) = {} /\ b.gives = {"bio"} /\ b.frees = {"bio"}
  BY <1>2, <1>3, <1>5, GivesFacts
<1>7. /\ <<a, b>> \in [1 .. 2 -> Steps] /\ <<a, b>>[1] = a /\ <<a, b>>[2] = b
      /\ 2 \in Nat
  BY <1>4, <1>6
<1>8. PICK s : s = Locked(<<a, b>>)
  OBVIOUS
<1>9. PICK q : q = <<a, b>>
  OBVIOUS
<1>10. /\ s \in Seq(Steps) /\ Len(s) = 2
       /\ \A i \in 1 .. 2 :
            /\ s[i].onError = q[i].onError
            /\ s[i].pinned
            /\ s[i].gets = q[i].gets /\ s[i].lacks = q[i].lacks
            /\ s[i].gives = q[i].gives
            /\ s[i].frees = q[i].frees
  BY <1>7, <1>8, <1>9, OneLocks
<1>11. PICK x, y : x = s[1] /\ y = s[2]
  OBVIOUS
<1>12. x \in Steps /\ y \in Steps
  <2>1. \A i \in 1 .. 2 : s[i] \in Steps
    BY <1>10, SeqNarrows
  <2> QED  BY <1>11, <2>1
<1>13. /\ x.onError = "pop" /\ x.pinned
       /\ x.gets = a.gets /\ x.lacks = a.lacks /\ x.gives = {} /\ x.frees = {}
  BY <1>4, <1>7, <1>9, <1>10, <1>11
<1>14. /\ y.onError = "pop" /\ y.pinned
       /\ y.gets = b.gets /\ y.lacks = b.lacks /\ y.gives = {"bio"} /\ y.frees = {"bio"}
  BY <1>6, <1>7, <1>9, <1>10, <1>11
<1>15. SslLocked(x) /\ SslLocked(y)
  BY <1>13, <1>14 DEF SslLocked
<1>16. s \in Scripts({})
  <2>1. /\ x.onError # "ssl" /\ Takes(x) = {"bio"} /\ x.gives = {} /\ x.frees = {}
    BY <1>4, <1>13 DEF Takes
  <2>2. /\ y.onError \notin {"ignore", "ssl"}
        /\ Takes(y) = {} /\ y.gives = {"bio"} /\ y.frees = {"bio"}
    BY <1>6, <1>14 DEF Takes
  <2> QED  BY <1>3, <1>10, <1>11, <1>15, <2>1, <2>2, TwoSteps
<1>17. x \in TidySteps /\ y \in TidySteps
  BY <1>12, <1>13, <1>14 DEF TidySteps
<1>18. s \in Seq(TidySteps)
  <2>1. \A i \in 1 .. 2 : s[i] \in TidySteps
    BY <1>11, <1>17
  <2> QED  BY <1>10, <2>1, SeqNarrows
<1> QED
  BY <1>1, <1>2, <1>8, <1>16, <1>18

\* newConn: SSL_new on a locked thread, then the two BIOs
LEMMA NewConnScript ==
    LET s == Locked(<<Bare(Pops, "ssl")>>)
               \o <<Bare(Crashes, "into"), Bare(Crashes, "from"),
                    Gives(Own(Ignored), {"ssl", "into", "from"}, {})>>
    IN  s \in Scripts({}) /\ PopsLocked(s)
<1>1. PICK a : a = Bare(Pops, "ssl")
  OBVIOUS
<1>2. PICK b : b = Bare(Crashes, "into")
  OBVIOUS
<1>3. PICK d : d = Bare(Crashes, "from")
  OBVIOUS
<1>4. PICK e : e = Gives(Own(Ignored), {"ssl", "into", "from"}, {})
  OBVIOUS
<1>5. /\ "ssl" \in Objects /\ "into" \in Objects /\ "from" \in Objects
      /\ {"ssl", "into", "from"} \subseteq Objects /\ {} \subseteq Objects
  BY DEF Objects
<1>6. /\ a \in Steps /\ SslLocked(a) /\ a.onError = "pop"
      /\ Takes(a) = {"ssl"} /\ a.gives = {} /\ a.frees = {}
  BY <1>1, <1>5, PlainOnes, BareFacts
<1>7. /\ b \in Steps /\ SslLocked(b) /\ b.onError = "crash"
      /\ Takes(b) = {"into"} /\ b.gives = {} /\ b.frees = {}
  BY <1>2, <1>5, PlainOnes, BareFacts
<1>8. /\ d \in Steps /\ SslLocked(d) /\ d.onError = "crash"
      /\ Takes(d) = {"from"} /\ d.gives = {} /\ d.frees = {}
  BY <1>3, <1>5, PlainOnes, BareFacts
<1>9. /\ e \in Steps /\ SslLocked(e) /\ e.onError = "ignore"
      /\ Takes(e) = {} /\ e.gives = {"ssl", "into", "from"} /\ e.frees = {}
  <2>1. Own(Ignored) \in PlainSteps /\ Own(Ignored).onError = "ignore"
    BY PlainOnes, NewSteps
  <2> QED  BY <1>4, <1>5, <2>1, GivesFacts
<1>10. PICK p : p = <<a>>
  OBVIOUS
<1>11. PICK l : l = Locked(p)
  OBVIOUS
<1>12. /\ l \in Seq(Steps) /\ Len(l) = 1
       /\ SslLocked(l[1]) /\ l[1].onError = "pop" /\ l[1].pinned
       /\ Takes(l[1]) = {"ssl"} /\ l[1].gives = {} /\ l[1].frees = {}
  <2>1. p \in [1 .. 1 -> Steps] /\ p[1] = a /\ 1 \in Nat
    BY <1>6, <1>10
  <2>2. /\ l \in Seq(Steps) /\ Len(l) = 1
        /\ \A i \in 1 .. 1 :
             /\ l[i].onError = p[i].onError
             /\ l[i].pinned
             /\ l[i].gets = p[i].gets /\ l[i].lacks = p[i].lacks
             /\ l[i].gives = p[i].gives
             /\ l[i].frees = p[i].frees
    BY <1>11, <2>1, OneLocks
  <2>3. l[1].pinned /\ l[1].onError = "pop" /\ l[1].gets = a.gets
        /\ l[1].lacks = a.lacks
        /\ l[1].gives = {} /\ l[1].frees = {}
    BY <1>6, <2>1, <2>2
  <2> QED  BY <1>6, <2>2, <2>3 DEF SslLocked, Takes
<1>13. PICK q : q = <<b, d, e>>
  OBVIOUS
<1>14. q \in Seq(Steps) /\ Len(q) = 3 /\ q[1] = b /\ q[2] = d /\ q[3] = e
  BY <1>7, <1>8, <1>9, <1>13
<1>15. PICK s : s = l \o q
  OBVIOUS
<1>16. /\ s \in Seq(Steps) /\ Len(s) = 4 /\ s # <<>>
       /\ s[1] = l[1] /\ s[2] = b /\ s[3] = d /\ s[4] = e
  <2>1. s \in Seq(Steps) /\ Len(s) = 4 /\ s # <<>>
    <3>1. l \in Seq(Steps) /\ Len(l) = 1 /\ q \in Seq(Steps) /\ Len(q) = 3
      BY <1>12, <1>14
    <3>2. l # <<>>
      <4>1. l \in Seq(Steps) /\ Len(l) = 1
        BY <3>1
      <4>2. Len(l) # 0
        BY <4>1
      <4> QED  BY <4>1, <4>2, LongEnough
    <3>3. s \in Seq(Steps) /\ Len(s) = Len(l) + Len(q) /\ s # <<>>
      BY <1>15, <3>1, <3>2, JoinFacts
    <3> QED  BY <3>1, <3>3
  <2>2. \A i \in 1 .. 4 : \/ i \in 1 .. 1 /\ s[i] = l[i]
                          \/ i - 1 \in 1 .. 3 /\ s[i] = q[i - 1]
    <3>1. \A i \in 1 .. Len(s) :
             \/ i \in 1 .. Len(l) /\ s[i] = l[i]
             \/ i - Len(l) \in 1 .. Len(q) /\ s[i] = q[i - Len(l)]
      <4>1. l \in Seq(Steps) /\ q \in Seq(Steps)
        BY <1>12, <1>14
      <4> QED  BY <1>15, <4>1, JoinFacts
    <3> QED  BY <1>12, <1>14, <2>1, <3>1
  <2>3. s[1] = l[1] /\ s[2] = q[2 - 1] /\ s[3] = q[3 - 1] /\ s[4] = q[4 - 1]
    BY <2>2
  <2> QED  BY <1>14, <2>1, <2>3
<1> DEFINE h == <<{}, {"ssl"}, {"ssl", "into"}, {"ssl", "into", "from"}, {}>>
<1>17. /\ h \in [1 .. 4 + 1 -> SUBSET Objects]
       /\ h[1] = {} /\ h[2] = {"ssl"} /\ h[3] = {"ssl", "into"}
       /\ h[4] = {"ssl", "into", "from"} /\ h[5] = {}
  BY <1>5
<1> HIDE DEF h
<1>18. ASSUME NEW i \in 1 .. 4
       PROVE  SslLocked(s[i]) /\ Keeping(s[i], h[i], h[i + 1], {})
  <2>1. CASE i = 1
    BY <1>12, <1>16, <1>17, <2>1 DEF Keeping
  <2>2. CASE i = 2
    BY <1>7, <1>16, <1>17, <2>2 DEF Keeping
  <2>3. CASE i = 3
    BY <1>8, <1>16, <1>17, <2>3 DEF Keeping
  <2>4. CASE i = 4
    BY <1>9, <1>16, <1>17, <2>4 DEF Keeping
  <2> QED  BY <2>1, <2>2, <2>3, <2>4
<1>19. s \in Scripts({})
  <2>1. h[4 + 1] = {}
    BY <1>17
  <2> QED  BY <1>16, <1>17, <1>18, <2>1, ScriptIs
<1>20. PopsLocked(s)
  <2>1. ASSUME NEW i \in 1 .. 4 PROVE PopLocked(s[i])
    BY <1>7, <1>8, <1>9, <1>12, <1>16 DEF PopLocked
  <2> QED  BY <1>16, <2>1 DEF PopsLocked
<1> QED
  BY <1>1, <1>2, <1>3, <1>4, <1>10, <1>11, <1>13, <1>15, <1>19, <1>20

\* SetSerial: what BN_bin2bn and BN_to_ASN1_INTEGER make themselves is left
\* (cert.go:243-254)
LEMMA SerialScript ==
    <<Deferred(Ignored, "sno"), Deferred(Ignored, "bn"), Fills(Pops, "bn"),
      Fills(Pops, "sno"), Pops>> \in Scripts({"sno", "bn"})
<1> DEFINE a == Deferred(Ignored, "sno")
           b == Deferred(Ignored, "bn")
           d == Fills(Pops, "bn")
           e == Fills(Pops, "sno")
           s == <<a, b, d, e, Pops>>
           h == <<{}, {}, {}, {"bn"}, {"bn", "sno"}, {"bn", "sno"}>>
<1>0. {"bn", "sno"} \subseteq Objects /\ "bn" \in Objects /\ "sno" \in Objects
  BY DEF Objects
<1>1. /\ a \in Steps /\ SslLocked(a) /\ a.onError = "ignore"
      /\ Takes(a) = {} /\ a.gives = {} /\ a.frees = {}
  <2>1. /\ a \in PlainSteps /\ a.onError = "ignore" /\ a.gives = {} /\ a.frees = {}
    BY <1>0, PlainOnes, DeferredFacts
  <2> QED  BY <2>1, PlainTakesNothing
<1>2. /\ b \in Steps /\ SslLocked(b) /\ b.onError = "ignore"
      /\ Takes(b) = {} /\ b.gives = {} /\ b.frees = {}
  <2>1. /\ b \in PlainSteps /\ b.onError = "ignore" /\ b.gives = {} /\ b.frees = {}
    BY <1>0, PlainOnes, DeferredFacts
  <2> QED  BY <2>1, PlainTakesNothing
<1>3. /\ d \in Steps /\ SslLocked(d) /\ d.onError = "pop"
      /\ Takes(d) = {"bn"} /\ d.gives = {} /\ d.frees = {}
  BY <1>0, PlainOnes, FillsFacts
<1>4. /\ e \in Steps /\ SslLocked(e) /\ e.onError = "pop"
      /\ Takes(e) = {"sno"} /\ e.gives = {} /\ e.frees = {}
  BY <1>0, PlainOnes, FillsFacts
<1>5. /\ Pops \in Steps /\ SslLocked(Pops) /\ Pops.onError = "pop"
      /\ Takes(Pops) = {} /\ Pops.gives = {} /\ Pops.frees = {}
  BY PlainOnes, PlainTakesNothing
<1> HIDE DEF a, b, d, e
<1>6. /\ s \in Seq(Steps) /\ Len(s) = 5 /\ s # <<>>
      /\ s[1] = a /\ s[2] = b /\ s[3] = d /\ s[4] = e /\ s[5] = Pops
  BY <1>1, <1>2, <1>3, <1>4, <1>5
<1>7. /\ h \in [1 .. 5 + 1 -> SUBSET Objects]
      /\ h[1] = {} /\ h[2] = {} /\ h[3] = {} /\ h[4] = {"bn"}
      /\ h[5] = {"bn", "sno"} /\ h[6] = {"bn", "sno"}
  BY <1>0
<1> HIDE DEF s, h
<1>8. ASSUME NEW i \in 1 .. 5
      PROVE  SslLocked(s[i]) /\ Keeping(s[i], h[i], h[i + 1], {"sno", "bn"})
  <2>1. CASE i = 1
    BY <1>1, <1>6, <1>7, <2>1 DEF Keeping
  <2>2. CASE i = 2
    BY <1>2, <1>6, <1>7, <2>2 DEF Keeping
  <2>3. CASE i = 3
    BY <1>3, <1>6, <1>7, <2>3 DEF Keeping
  <2>4. CASE i = 4
    BY <1>4, <1>6, <1>7, <2>4 DEF Keeping
  <2>5. CASE i = 5
    BY <1>5, <1>6, <1>7, <2>5 DEF Keeping
  <2> QED  BY <2>1, <2>2, <2>3, <2>4, <2>5
<1>9. h[5 + 1] \subseteq {"sno", "bn"}
  BY <1>7
<1>10. s \in Scripts({"sno", "bn"})
  BY <1>6, <1>7, <1>8, <1>9, ScriptIs
<1> QED
  BY <1>10 DEF s, a, b, d, e

\* the three generators of keys
LEMMA GenerateKeyIsFine == Fine(GenerateKey)
<1>1. GenerateKey.GenerateRSAKeyWithExponent \subseteq Scripts({"rsa"})
  BY RsaScript DEF GenerateKey
<1>2. Allowed("GenerateRSAKeyWithExponent") = {"rsa"}
  BY DEF Allowed, Excepted, Objects
<1>3. GenerateKey.GenerateECKey \subseteq Plain
  <2>1. /\ <<New(Pops), Pops, Pops, Own(Pops), Pops>> \in Plain
        /\ <<New(Pops), Pops, Pops, New(Pops), New(Pops), Pops, Own(Pops)>> \in Plain
    BY StepsUsed DEF Plain
  <2> QED  BY <2>1 DEF GenerateKey
<1>4. GenerateKey.GenerateED25519Key \subseteq Plain
  BY StepsUsed, PlainSequences, ZenonT(60) DEF GenerateKey
<1>5. /\ DOMAIN GenerateKey =
           {"GenerateRSAKeyWithExponent", "GenerateECKey", "GenerateED25519Key"}
      /\ DOMAIN GenerateKey \cap Pinned = {}
  BY DEF GenerateKey, Tidy, Pinned
<1>6. ASSUME NEW f \in DOMAIN GenerateKey, NEW s \in GenerateKey[f]
      PROVE  Good(f, s)
  <2>1. CASE f = "GenerateRSAKeyWithExponent"
    BY <1>1, <1>2, <1>5, <2>1 DEF Good, Pinned
  <2>2. CASE f \in {"GenerateECKey", "GenerateED25519Key"}
    <3>1. s \in Plain
      BY <1>3, <1>4, <2>2
    <3> QED  BY <1>5, <3>1, PlainIsScript DEF Good, Pinned
  <2> QED  BY <1>5, <2>1, <2>2
<1> QED
  BY <1>6 DEF Fine

\* the names and the extensions of cert.go, and hostname.go
LEMMA CertTablesArePlain ==
    PlainTable(Names) /\ PlainTable(Extensions) /\ PlainTable(CheckName)
<1>1. /\ <<Own(Keeps)>> \in Plain /\ <<New(New(Pops))>> \in Plain
      /\ <<New(Pops), New(Pops), New(Pops)>> \in Plain
      /\ <<Checks, New(Pops), Pops>> \in Plain
      /\ <<New(Keeps), Checks>> \in Plain /\ <<Keeps, Checks>> \in Plain
  BY StepsUsed, PlainSequences
<1>2. <<Checks, New(Pops), Pops, Checks, New(Pops), Pops>> \in Plain
  BY StepsUsed DEF Plain
<1>3. PlainTable(Names)
  BY <1>1 DEF PlainTable, Names, Tidy
<1>4. PlainTable(Extensions)
  BY <1>1, <1>2 DEF PlainTable, Extensions, Tidy
<1>5. PlainTable(CheckName)
  BY <1>1 DEF PlainTable, CheckName, Tidy
<1> QED
  BY <1>3, <1>4, <1>5

\* the setters of cert.go: only SetSerial can leave something
LEMMA CertSettersIsFine == Fine(CertSetters)
<1>1. CertSetters.SetSerial \subseteq Scripts({"sno", "bn"})
  BY SerialScript DEF CertSetters
<1>2. Allowed("SetSerial") = {"sno", "bn"}
  BY DEF Allowed, Excepted, Objects
<1>3. <<Pops>> \in Plain /\ <<Checks, Pops>> \in Plain
  BY StepsUsed, PlainSequences
<1>4. /\ \A f \in DOMAIN CertSetters : f # "SetSerial" => CertSetters[f] \subseteq Plain
      /\ DOMAIN CertSetters \cap Pinned = {}
  BY <1>3 DEF CertSetters, Tidy, Pinned
<1>5. ASSUME NEW f \in DOMAIN CertSetters, NEW s \in CertSetters[f]
      PROVE  Good(f, s)
  <2>1. f \notin Tidy /\ f # "NewConn"
    BY <1>4 DEF Pinned
  <2>2. CASE f = "SetSerial"
    BY <1>1, <1>2, <2>1, <2>2 DEF Good
  <2>3. CASE f # "SetSerial"
    BY <1>4, <2>1, <2>3, PlainIsScript DEF Good
  <2> QED  BY <2>2, <2>3
<1> QED
  BY <1>5 DEF Fine

\* NewCertificate is its setters one after the other
LEMMA NewCertificateIsFine == Fine(NewCertificate)
<1>1. PICK allowed : allowed = {"sno", "bn"}
  OBVIOUS
<1>2. CertSetters.SetSerial \subseteq Scripts(allowed)
  BY <1>1, SerialScript DEF CertSetters
<1>3. Names.AddTextEntries \subseteq Scripts(allowed)
  BY CertTablesArePlain, PlainIsScript DEF PlainTable, Names
<1>4. PICK a, b, d : a = {<<Own(Ignored), Pops>>} /\ b = {<<Pops>>} /\ d = {<<Pops, Pops, Pops>>}
  OBVIOUS
<1>5. a \subseteq Scripts(allowed) /\ b \subseteq Scripts(allowed) /\ d \subseteq Scripts(allowed)
  <2>1. /\ <<Own(Ignored), Pops>> \in Plain /\ <<Pops>> \in Plain
        /\ <<Pops, Pops, Pops>> \in Plain
    BY StepsUsed, PlainSequences
  <2> QED  BY <1>4, <2>1, PlainIsScript
<1>6. NewCertificate.NewCertificate \subseteq Scripts(allowed)
  <2>1. /\ Then(a, Names.AddTextEntries) \subseteq Scripts(allowed)
        /\ Then(b, CertSetters.SetSerial) \subseteq Scripts(allowed)
    BY <1>2, <1>3, <1>5, ThenScripts
  <2>2. Then(Then(b, CertSetters.SetSerial), d) \subseteq Scripts(allowed)
    BY <1>5, <2>1, ThenScripts
  <2>3. Then(Then(a, Names.AddTextEntries), Then(Then(b, CertSetters.SetSerial), d))
            \subseteq Scripts(allowed)
    BY <2>1, <2>2, ThenScripts
  <2> QED  BY <1>4, <2>3 DEF NewCertificate
<1>7. Allowed("NewCertificate") = allowed
  BY <1>1 DEF Allowed, Excepted, Objects
<1>8. /\ DOMAIN NewCertificate = {"NewCertificate"}
      /\ "NewCertificate" \notin Tidy /\ "NewCertificate" # "NewConn"
  BY DEF NewCertificate, Tidy
<1> QED
  BY <1>6, <1>7, <1>8 DEF Fine, Good

\* loading and marshalling of certificates
LEMMA LoadMarshalCertIsFine == Fine(LoadMarshalCert)
<1>1. \A s \in LoadMarshalCert.LoadCertificateFromPEM :
         s \in Scripts({}) /\ s \in Seq(TidySteps)
  BY LoadCertScript DEF LoadMarshalCert
<1>2. /\ LoadMarshalCert.MarshalPEM \subseteq Plain
      /\ LoadMarshalCert.PublicKey \subseteq Plain
      /\ LoadMarshalCert.GetSerialNumberHex \subseteq Plain
      /\ LoadMarshalCert.SetVersion \subseteq Plain
  BY StepsUsed, PlainSequences, ZenonT(60) DEF LoadMarshalCert
<1>3. /\ DOMAIN LoadMarshalCert =
           {"LoadCertificateFromPEM", "MarshalPEM", "PublicKey",
            "GetSerialNumberHex", "SetVersion"}
      /\ DOMAIN LoadMarshalCert \cap Tidy = {"LoadCertificateFromPEM"}
      /\ "NewConn" \notin DOMAIN LoadMarshalCert
  BY DEF LoadMarshalCert, Tidy
<1>4. ASSUME NEW f \in DOMAIN LoadMarshalCert, NEW s \in LoadMarshalCert[f]
      PROVE  Good(f, s)
  <2>1. CASE f = "LoadCertificateFromPEM"
    BY <1>1, <1>3, <2>1, MoreAllowed DEF Good
  <2>2. CASE f # "LoadCertificateFromPEM"
    <3>1. s \in Plain /\ f \notin Tidy /\ f # "NewConn"
      BY <1>2, <1>3, <2>2
    <3> QED  BY <3>1, PlainIsScript DEF Good
  <2> QED  BY <2>1, <2>2
<1> QED
  BY <1>4 DEF Fine

\* engine.go and hmac.go
LEMMA EngineAndHmacAreFine == Fine(EngineByID) /\ Fine(Hmac)
<1>1. EngineByID.EngineByID \subseteq Scripts({}) /\ Hmac.NewHMAC \subseteq Scripts({})
  BY EngineAndHmacScripts DEF EngineByID, Hmac
<1>2. Hmac.Write \subseteq Plain /\ Hmac.Reset \subseteq Plain /\ Hmac.Final \subseteq Plain
  BY StepsUsed, PlainSequences DEF Hmac
<1>3. /\ DOMAIN EngineByID = {"EngineByID"}
      /\ DOMAIN Hmac = {"NewHMAC", "Write", "Reset", "Final"}
      /\ DOMAIN EngineByID \cap Tidy = {} /\ DOMAIN Hmac \cap Tidy = {}
      /\ "NewConn" \notin DOMAIN EngineByID /\ "NewConn" \notin DOMAIN Hmac
  BY DEF EngineByID, Hmac, Tidy
<1>4. Fine(EngineByID)
  BY <1>1, <1>3, MoreAllowed DEF Fine, Good
<1>5. ASSUME NEW f \in DOMAIN Hmac, NEW s \in Hmac[f]
      PROVE  Good(f, s)
  <2>1. CASE f = "NewHMAC"
    BY <1>1, <1>3, <2>1, MoreAllowed DEF Good
  <2>2. CASE f # "NewHMAC"
    <3>1. s \in Plain
      BY <1>2, <1>3, <2>2
    <3> QED  BY <1>3, <3>1, PlainIsScript DEF Good
  <2> QED  BY <2>1, <2>2
<1> QED
  BY <1>4, <1>5 DEF Fine

\* dh.go, dhparam.go, ciphers.go, ciphers_gcm.go and sm4.go
LEMMA CipherTablesArePlain ==
    /\ PlainTable(DeriveSharedSecret) /\ PlainTable(LoadDHParameters)
    /\ PlainTable(GetCipher) /\ PlainTable(SetKeyAndIV) /\ PlainTable(SetCtrl)
    /\ PlainTable(NewCipherCtx) /\ PlainTable(UpdateFinal)
    /\ PlainTable(NewGCMCipherCtx) /\ PlainTable(ExtraData)
    /\ PlainTable(Sm4New) /\ PlainTable(Sm4All)
<1>1. /\ <<New(Keeps), Own(Pops)>> \in Plain
      /\ <<Pops>> \in Plain /\ <<New(Keeps)>> \in Plain
      /\ <<Pops, New(Keeps)>> \in Plain /\ <<Checks, Pops>> \in Plain
      /\ <<Own(Keeps), Pops>> \in Plain /\ <<Pops, Pops>> \in Plain
  BY StepsUsed, PlainSequences
<1>2. <<New(Pops), Pops, Pops, Pops, New(Keeps), Pops>> \in Plain
  BY StepsUsed DEF Plain
<1>3. <<Pops, Checks, Pops, Pops, Pops, Pops, Pops>> \in Plain
  BY StepsUsed DEF Plain
<1>4. PlainTable(DeriveSharedSecret)
  BY <1>2 DEF PlainTable, DeriveSharedSecret, Tidy
<1>5. PlainTable(LoadDHParameters)
  BY <1>1 DEF PlainTable, LoadDHParameters, Tidy
<1>6. PlainTable(GetCipher)
  BY <1>1 DEF PlainTable, GetCipher, Tidy
<1>7. PlainTable(SetKeyAndIV)
  BY <1>1 DEF PlainTable, SetKeyAndIV, Tidy
<1>8. PlainTable(SetCtrl)
  BY <1>1 DEF PlainTable, SetCtrl, Tidy
<1>9. NewCipherCtx.NewCipherCtx \subseteq Plain
  <2>1. PICK a : a = {<<Own(Keeps), Pops>>}
    OBVIOUS
  <2>2. a \subseteq Plain
    BY <1>1, <2>1
  <2>3. SetKeyAndIV.SetKeyAndIV \subseteq Plain
    BY <1>1 DEF SetKeyAndIV
  <2>4. Then(a, SetKeyAndIV.SetKeyAndIV) \subseteq Plain
    BY <2>2, <2>3, ThenPlain
  <2> QED  BY <2>1, <2>4 DEF NewCipherCtx
<1>10. PlainTable(NewCipherCtx)
  BY <1>9 DEF PlainTable, NewCipherCtx, Tidy
<1>11. PlainTable(UpdateFinal)
  BY <1>1 DEF PlainTable, UpdateFinal, Tidy
<1>12. PlainTable(NewGCMCipherCtx)
  <2>1. PICK a, n : a = {<<Pops, Pops>>} /\ n = NewCipherCtx.NewCipherCtx
    OBVIOUS
  <2>2. a \subseteq Plain /\ n \subseteq Plain
    BY <1>1, <1>9, <2>1
  <2>3. n \cup Then(n, a) \subseteq Plain
    BY <2>2, ThenPlain
  <2>4. NewGCMCipherCtx.NewGCMCipherCtx \subseteq Plain
    BY <2>1, <2>3 DEF NewGCMCipherCtx
  <2> QED  BY <2>4 DEF PlainTable, NewGCMCipherCtx, Tidy
<1>13. PlainTable(ExtraData)
  BY <1>1 DEF PlainTable, ExtraData, Tidy
<1>14. PlainTable(Sm4New)
  <2>1. PICK a, n, c : /\ a = GetCipher.GetCipherByName
                       /\ n = NewCipherCtx.NewCipherCtx
                       /\ c = SetCtrl.SetCtrl
    OBVIOUS
  <2>2. a \subseteq Plain /\ c \subseteq Plain
    BY <1>1, <2>1 DEF GetCipher, SetCtrl
  <2>3. n \subseteq Plain
    BY <1>9, <2>1
  <2>4. Then(a, n) \subseteq Plain
    BY <2>2, <2>3, ThenPlain
  <2>5. Then(a, n) \cup Then(Then(a, n), c) \subseteq Plain
    BY <2>2, <2>4, ThenPlain
  <2>6. Sm4New.NewSM4Crypter \subseteq Plain
    BY <2>1, <2>5 DEF Sm4New
  <2> QED  BY <2>6 DEF PlainTable, Sm4New, Tidy
<1>15. PlainTable(Sm4All)
  BY <1>3 DEF PlainTable, Sm4All, Tidy
<1> QED
  BY <1>4, <1>5, <1>6, <1>7, <1>8, <1>10, <1>11, <1>12, <1>13, <1>14, <1>15

\* sm2.go: only the two numbers of a signature can be left (sm2.go:59-65)
LEMMA Sm2IsFine == Fine(Sm2)
<1>1. PICK a, b : /\ a = {<<New(Crashes), Bare(Ignored, "r"), Bare(Ignored, "s"),
                            Gives(Checks, {"r", "s"}, {}), New(Ignored)>>}
                  /\ b = {<<New(Keeps)>>}
  OBVIOUS
<1>2. a \subseteq Scripts({"r", "s"}) /\ b \subseteq Plain
  BY <1>1, SignatureScript, StepsUsed, PlainSequences
<1>3. SignVerify.VerifyPKCS1v15 \subseteq Plain /\ SignVerify.SignPKCS1v15 \subseteq Plain
  BY SignVerifyIsPlain DEF PlainTable, SignVerify
<1>4. SignVerify.VerifyPKCS1v15 \subseteq Scripts({"r", "s"})
  BY <1>3, PlainIsScript
<1>5. /\ Then(a, SignVerify.VerifyPKCS1v15) \subseteq Scripts({"r", "s"})
      /\ Then(SignVerify.SignPKCS1v15, b) \subseteq Plain
  BY <1>2, <1>3, <1>4, ThenScripts, ThenPlain
<1>6. Sm2.sm2Verify \subseteq Scripts({"r", "s"}) /\ Sm2.sm2Sign \subseteq Plain
  BY <1>1, <1>5 DEF Sm2
<1>7. Allowed("sm2Verify") = {"r", "s"}
  BY DEF Allowed, Excepted, Objects
<1>8. DOMAIN Sm2 = {"sm2Verify", "sm2Sign"} /\ DOMAIN Sm2 \cap Tidy = {}
      /\ "NewConn" \notin DOMAIN Sm2
  BY DEF Sm2, Tidy
<1>9. ASSUME NEW f \in DOMAIN Sm2, NEW s \in Sm2[f]
      PROVE  Good(f, s)
  <2>1. CASE f = "sm2Verify"
    BY <1>6, <1>7, <1>8, <2>1 DEF Good
  <2>2. CASE f = "sm2Sign"
    <3>1. s \in Plain
      BY <1>6, <2>2
    <3> QED  BY <1>8, <3>1, PlainIsScript DEF Good
  <2> QED  BY <1>8, <2>1, <2>2
<1> QED
  BY <1>9 DEF Fine

\* the scripts of one and two steps that lock the thread
LEMMA LockedSteps ==
    /\ \A a \in BareSteps : Locked(<<a>>) \in Plain
    /\ \A a, b \in BareSteps : Locked(<<a, b>>) \in Plain
    /\ \A a \in ReadSteps : Locked(<<a>>) \in Seq(TidySteps)
    /\ \A a, b \in ReadSteps : Locked(<<a, b>>) \in Seq(TidySteps)
<1>1. ASSUME NEW a \in BareSteps, NEW b \in BareSteps
      PROVE  Locked(<<a>>) \in Plain /\ Locked(<<a, b>>) \in Plain
  <2>1. <<a>> \in Seq(BareSteps) /\ <<a, b>> \in Seq(BareSteps)
    OBVIOUS
  <2> QED  BY <2>1, LockedPlain
<1>2. ASSUME NEW a \in ReadSteps, NEW b \in ReadSteps
      PROVE  Locked(<<a>>) \in Seq(TidySteps) /\ Locked(<<a, b>>) \in Seq(TidySteps)
  <2>1. <<a>> \in Seq(ReadSteps) /\ <<a, b>> \in Seq(ReadSteps)
    OBVIOUS
  <2>2. <<a>> \in Seq(BareSteps) /\ <<a, b>> \in Seq(BareSteps)
    BY StepsUsed
  <2> QED  BY <2>1, <2>2, LockedPlain
<1> QED
  BY <1>1, <1>2

\* the functions of ctx.go and conn.go that hold nothing by hand
LEMMA CtxTablesArePlain ==
    /\ PlainTable(NewCtx) /\ PlainTable(CtxKeys) /\ PlainTable(AddCertificate)
    /\ PlainTable(LoadVerifyLocations) /\ PlainTable(Protocols)
    /\ PlainTable(Sessions) /\ PlainTable(SslOps)
<1>1. /\ Pops \in BareSteps /\ New(Pops) \in BareSteps /\ Own(Pops) \in BareSteps
      /\ New(Keeps) \in BareSteps /\ Checks \in BareSteps /\ Step("ssl") \in BareSteps
      /\ Pops \in ReadSteps /\ New(Pops) \in ReadSteps /\ Own(Pops) \in ReadSteps
      /\ Step("ssl") \in ReadSteps
  BY StepsUsed
<1>2. PICK a, b, c, d, e, k, l, m :
        /\ a = Locked(<<Pops>>) /\ b = Locked(<<New(Pops)>>)
        /\ c = Locked(<<Own(Pops)>>) /\ d = Locked(<<Step("ssl")>>)
        /\ e = Locked(<<New(Pops), Pops>>) /\ k = Locked(<<Pops, Pops>>)
        /\ l = Locked(<<New(Pops), New(Pops)>>)
        /\ m = Locked(<<New(Keeps), Checks>>)
  OBVIOUS
<1>3. /\ a \in Plain /\ b \in Plain /\ c \in Plain /\ d \in Plain
      /\ e \in Plain /\ k \in Plain /\ l \in Plain /\ m \in Plain
  BY <1>1, <1>2, LockedSteps
<1>4. /\ a \in Seq(TidySteps) /\ b \in Seq(TidySteps) /\ c \in Seq(TidySteps)
      /\ d \in Seq(TidySteps) /\ e \in Seq(TidySteps) /\ k \in Seq(TidySteps)
      /\ l \in Seq(TidySteps)
  BY <1>1, <1>2, LockedSteps
<1>5. PlainTable(NewCtx)
  <2>1. NewCtx = [NewCtx |-> {c}]
    BY <1>2 DEF NewCtx
  <2> QED  BY <1>3, <1>4, <2>1 DEF PlainTable
<1>6. PlainTable(CtxKeys)
  <2>1. CtxKeys = [SetEllipticCurve |-> {e}, UseCertificate |-> {a},
                   AddChainCertificate |-> {a}, UsePrivateKey |-> {a}]
    BY <1>2 DEF CtxKeys
  <2> QED  BY <1>3, <1>4, <2>1 DEF PlainTable
<1>7. PlainTable(AddCertificate)
  <2>1. AddCertificate = [SetDHParameters |-> {a}, AddCertificate |-> {a}]
    BY <1>2 DEF AddCertificate
  <2> QED  BY <1>3, <1>4, <2>1 DEF PlainTable
<1>8. PlainTable(LoadVerifyLocations)
  <2>1. PICK r : r = {k, b}
    OBVIOUS
  <2>2. r \subseteq Plain /\ r \subseteq Seq(TidySteps)
    BY <1>3, <1>4, <2>1
  <2>3. LoadVerifyLocations = [LoadVerifyLocations |-> r]
    BY <1>2, <2>1 DEF LoadVerifyLocations
  <2> QED  BY <2>2, <2>3 DEF PlainTable
<1>9. PlainTable(Protocols)
  <2>1. PICK p \in Plain : p = <<New(Pops)>>
    BY StepsUsed, PlainSequences
  <2>2. Protocols = [SetClientALPNProtos |-> {p}, SetSessionID |-> {a},
                     SetCipherList |-> {b}, SetCipherSuites |-> {b}]
    BY <1>2, <2>1 DEF Protocols
  <2>3. "SetClientALPNProtos" \notin Tidy
    BY DEF Tidy
  <2> QED  BY <1>3, <1>4, <2>2, <2>3 DEF PlainTable
<1>10. PlainTable(Sessions)
  <2>1. Sessions = [SetTLSExtHostName |-> {b}, GetSession |-> {m}, setSession |-> {l}]
    BY <1>2 DEF Sessions
  <2>2. "GetSession" \notin Tidy
    BY DEF Tidy
  <2> QED  BY <1>3, <1>4, <2>1, <2>2 DEF PlainTable
<1>11. PlainTable(SslOps)
  BY <1>2, <1>3, <1>4 DEF PlainTable, SslOps
<1> QED
  BY <1>5, <1>6, <1>7, <1>8, <1>9, <1>10, <1>11

\* newConn
LEMMA NewConnIsFine == Fine(NewConn)
<1>1. \A s \in NewConn.NewConn : s \in Scripts({}) /\ PopsLocked(s)
  BY NewConnScript DEF NewConn
<1>2. DOMAIN NewConn = {"NewConn"} /\ "NewConn" \notin Tidy
  BY DEF NewConn, Tidy
<1> QED
  BY <1>1, <1>2, MoreAllowed DEF Fine, Good

\* NewCtxFromFiles and LoadCertificatesFromPEM are made of the functions above
LEMMA FilesAndStoresAreFine == Fine(NewCtxFromFiles) /\ Fine(Stores)
<1>1. PICK n, l, u, k, p, c :
        /\ n = NewCtx.NewCtx /\ l = LoadMarshalCert.LoadCertificateFromPEM
        /\ u = CtxKeys.UseCertificate /\ k = LoadKey.LoadPrivateKeyFromPEM
        /\ p = CtxKeys.UsePrivateKey /\ c = AddCertificate.AddCertificate
  OBVIOUS
<1>2. n \subseteq Plain /\ u \subseteq Plain /\ p \subseteq Plain /\ c \subseteq Plain
  BY <1>1, CtxTablesArePlain DEF PlainTable, NewCtx, CtxKeys, AddCertificate
<1>3. k \subseteq Plain
  BY <1>1, KeyTablesArePlain DEF PlainTable, LoadKey
<1>4. l \subseteq Scripts({}) /\ l \subseteq Seq(TidySteps)
  BY <1>1, LoadCertScript DEF LoadMarshalCert
<1>5. c \subseteq Seq(TidySteps)
  BY <1>1, CtxTablesArePlain DEF PlainTable, AddCertificate, Tidy
<1>6. /\ n \subseteq Scripts({}) /\ u \subseteq Scripts({}) /\ p \subseteq Scripts({})
      /\ c \subseteq Scripts({}) /\ k \subseteq Scripts({})
  BY <1>2, <1>3, PlainIsScript
<1>7. Fine(NewCtxFromFiles)
  <2>1. Then(l, u) \subseteq Scripts({}) /\ Then(k, p) \subseteq Scripts({})
    BY <1>4, <1>6, ThenScripts
  <2>2. Then(n, Then(l, u)) \subseteq Scripts({})
    BY <1>6, <2>1, ThenScripts
  <2>3. Then(Then(n, Then(l, u)), Then(k, p)) \subseteq Scripts({})
    BY <2>1, <2>2, ThenScripts
  <2>4. NewCtxFromFiles.NewCtxFromFiles \subseteq Scripts({})
    BY <1>1, <2>3 DEF NewCtxFromFiles
  <2>5. DOMAIN NewCtxFromFiles = {"NewCtxFromFiles"} /\ "NewCtxFromFiles" \notin Tidy
        /\ "NewCtxFromFiles" # "NewConn"
    BY DEF NewCtxFromFiles, Tidy
  <2> QED  BY <2>4, <2>5, MoreAllowed DEF Fine, Good
<1>8. Fine(Stores)
  <2>1. Then(l, c) \subseteq Scripts({}) /\ Then(l, c) \subseteq Seq(TidySteps)
    BY <1>4, <1>5, <1>6, ThenScripts, ThenSteps
  <2>2. /\ Stores.LoadCertificatesFromPEM \subseteq Scripts({})
        /\ Stores.LoadCertificatesFromPEM \subseteq Seq(TidySteps)
    BY <1>1, <2>1 DEF Stores
  <2>3. Stores.NewCertificateStore \subseteq Scripts({})
    <3>1. <<Own(Pops)>> \in Plain
      BY StepsUsed, PlainSequences
    <3>2. Stores.NewCertificateStore \subseteq Plain
      BY <3>1 DEF Stores
    <3> QED  BY <3>2, PlainIsScript
  <2>4. /\ DOMAIN Stores = {"NewCertificateStore", "LoadCertificatesFromPEM"}
        /\ "NewCertificateStore" \notin Tidy /\ "NewConn" \notin DOMAIN Stores
    BY DEF Stores, Tidy
  <2>5. ASSUME NEW f \in DOMAIN Stores, NEW s \in Stores[f]
        PROVE  Good(f, s)
    <3>1. s \in Scripts({}) /\ (f \in Tidy => s \in Seq(TidySteps))
      <4>1. CASE f = "NewCertificateStore"
        BY <2>3, <2>4, <4>1
      <4>2. CASE f = "LoadCertificatesFromPEM"
        BY <2>2, <4>2
      <4> QED  BY <2>4, <4>1, <4>2
    <3> QED  BY <2>4, <3>1, MoreAllowed DEF Good
  <2> QED  BY <2>5 DEF Fine
<1> QED
  BY <1>7, <1>8

\* every script of every function is good
LEMMA TablesAreFine == \A table \in Tables : Fine(table)
<1>1. /\ Fine(SignVerify) /\ Fine(MarshalPKCS8) /\ Fine(EncryptDecrypt)
      /\ Fine(Marshal) /\ Fine(LoadKey) /\ Fine(Public)
  BY SignVerifyIsPlain, KeyTablesArePlain, PlainTableIsFine
<1>2. /\ Fine(Names) /\ Fine(CertSetters) /\ Fine(Extensions) /\ Fine(CheckName)
      /\ Fine(NewCertificate)
  BY CertTablesArePlain, CertSettersIsFine, NewCertificateIsFine, PlainTableIsFine
<1>3. /\ Fine(DeriveSharedSecret) /\ Fine(LoadDHParameters) /\ Fine(GetCipher)
      /\ Fine(SetKeyAndIV) /\ Fine(SetCtrl) /\ Fine(NewCipherCtx)
      /\ Fine(UpdateFinal) /\ Fine(NewGCMCipherCtx) /\ Fine(ExtraData)
      /\ Fine(Sm4New) /\ Fine(Sm4All)
  BY CipherTablesArePlain, PlainTableIsFine
<1>4. /\ Fine(NewCtx) /\ Fine(CtxKeys) /\ Fine(AddCertificate)
      /\ Fine(LoadVerifyLocations) /\ Fine(Protocols) /\ Fine(Sessions)
      /\ Fine(SslOps)
  BY CtxTablesArePlain, PlainTableIsFine
<1>5. /\ Fine(GenerateKey) /\ Fine(LoadMarshalCert) /\ Fine(EngineByID)
      /\ Fine(Hmac) /\ Fine(Sm2) /\ Fine(NewConn) /\ Fine(NewCtxFromFiles)
      /\ Fine(Stores)
  BY GenerateKeyIsFine, LoadMarshalCertIsFine, EngineAndHmacAreFine, Sm2IsFine,
     NewConnIsFine, FilesAndStoresAreFine
<1> QED
  BY <1>1, <1>2, <1>3, <1>4, <1>5 DEF Tables

-----------------------------------------------------------------------------
(* The calls: what is left of the script of a goroutine accounts for what  *)
(* it holds (Courses), and an error of a function of Tidy is in a queue    *)
(* only between the C call that failed and PopError (Owned).               *)

Types ==
    /\ made \in Seq(Functions) /\ Len(made) <= MaxCalls
    /\ queue \in [Threads -> SUBSET (1 .. Len(made))]
    /\ call \in [Goroutines -> 0 .. Len(made)]
    /\ held \in [Goroutines -> SUBSET (Objects \X Ways)]

Reported ==
    \A r \in reports : r.call \in 1 .. Len(made) /\ r.popped \subseteq 1 .. Len(made)

\* s can be the rest of a script of f
Rest(f, s) ==
    /\ s \in Seq(Steps) /\ s # <<>>
    /\ \A i \in 1 .. Len(s) : SslLocked(s[i])
    /\ f \in Tidy => s \in Seq(TidySteps)
    /\ f \in Pinned => PopsLocked(s)

\* whatever step of s fails, it leaves no more of objects than f may leave
Covers(f, s, objects) ==
    \E h : Balanced(s, Allowed(f), h) /\ Hands(objects) \subseteq h[1]

Courses ==
    \A g \in Goroutines :
        /\ call[g] = 0 => held[g] = {}
        /\ call[g] # 0 =>
             /\ Rest(made[call[g]], script[g])
             /\ failed[g] => Hands(held[g]) \subseteq Allowed(made[call[g]])
             /\ ~failed[g] => Covers(made[call[g]], script[g], held[g])

\* an error of a function of Tidy is about to be read
Owned ==
    \A t \in Threads : \A i \in queue[t] :
        made[i] \in Tidy =>
            \E g \in Goroutines : call[g] = i /\ failed[g] /\ thread[g] = t

\* a failed SSL operation is on a locked thread, and a handshake has failed
\* with an error of its own
SslFailed ==
    \A g \in Goroutines :
        failed[g] /\ Head(script[g]).onError = "ssl" =>
            /\ thread[g] # None
            /\ made[call[g]] = "handshake" => call[g] \in queue[thread[g]]

\* a function of Pinned is on a locked thread when PopError comes
PinnedFailed ==
    \A g \in Goroutines :
        failed[g] /\ made[call[g]] \in Pinned => thread[g] # None

CallInv ==
    /\ IInv /\ Types /\ Reported /\ Courses /\ Owned /\ SslFailed
    /\ PinnedFailed /\ OwnError
    /\ HealthyConnection /\ leaked \subseteq Excepted

\* at first nothing was called
LEMMA InitCallInv == Init => CallInv
<1> SUFFICES ASSUME Init PROVE CallInv
  OBVIOUS
<1>1. IInv
  BY InitIInv
<1>2. Types
  BY CallsAssumption DEF Init, Types
<1>3. Reported /\ OwnError /\ HealthyConnection /\ leaked \subseteq Excepted
  BY DEF Init, Reported, OwnError, HealthyConnection
<1>4. Courses /\ Owned /\ SslFailed /\ PinnedFailed
  BY DEF Init, Courses, Owned, SslFailed, PinnedFailed
<1> QED
  BY <1>1, <1>2, <1>3, <1>4 DEF CallInv

\* the head and the tail of a sequence
LEMMA TailFacts ==
    ASSUME NEW S, NEW s \in Seq(S), s # <<>>
    PROVE  /\ Len(s) \in Nat \ {0} /\ Head(s) = s[1] /\ Head(s) \in S
           /\ Tail(s) \in Seq(S) /\ Len(Tail(s)) = Len(s) - 1
           /\ \A i \in 1 .. Len(s) - 1 : Tail(s)[i] = s[i + 1]
           /\ Tail(s) = <<>> => Len(s) = 1
           /\ Tail(s) # <<>> => Len(s) > 1
<1>1. Len(s) \in Nat \ {0}
  OBVIOUS
<1>2. Head(s) = s[1] /\ Head(s) \in S
  BY <1>1
<1>3. Tail(s) \in Seq(S) /\ Len(Tail(s)) = Len(s) - 1
  BY <1>1
<1>4. \A i \in 1 .. Len(s) - 1 : Tail(s)[i] = s[i + 1]
  BY <1>1
<1>5. (Tail(s) = <<>> => Len(s) = 1) /\ (Tail(s) # <<>> => Len(s) > 1)
  <2>1. PICK t \in Seq(S) : t = Tail(s)
    BY <1>3
  <2>2. /\ t = <<>> => Len(t) = 0
        /\ t # <<>> => Len(t) \in Nat \ {0}
    OBVIOUS
  <2>3. Len(t) = Len(s) - 1
    BY <1>3, <2>1
  <2> QED  BY <1>1, <2>1, <2>2, <2>3
<1> QED
  BY <1>1, <1>2, <1>3, <1>4, <1>5

\* what is left after the first step of a script
LEMMA RestGoesOn ==
    ASSUME NEW f, NEW s, Rest(f, s), NEW h, Balanced(s, Allowed(f), h),
           NEW objects,
           Hands(objects) \subseteq (h[1] \cup Takes(Head(s))) \ Head(s).gives
    PROVE  /\ Tail(s) = <<>> => Hands(objects) \subseteq Allowed(f)
           /\ Tail(s) # <<>> => Rest(f, Tail(s)) /\ Covers(f, Tail(s), objects)
<1>1. PICK n \in Nat \ {0} : n = Len(s)
  BY TailFacts DEF Rest
<1>2. /\ Head(s) = s[1] /\ Tail(s) \in Seq(Steps) /\ Len(Tail(s)) = n - 1
      /\ \A i \in 1 .. n - 1 : Tail(s)[i] = s[i + 1]
      /\ Tail(s) = <<>> => n = 1
      /\ Tail(s) # <<>> => n > 1
  <2>1. s \in Seq(Steps) /\ s # <<>>
    BY DEF Rest
  <2>2. /\ Head(s) = s[1] /\ Tail(s) \in Seq(Steps) /\ Len(Tail(s)) = Len(s) - 1
        /\ \A i \in 1 .. Len(s) - 1 : Tail(s)[i] = s[i + 1]
        /\ Tail(s) = <<>> => Len(s) = 1
        /\ Tail(s) # <<>> => Len(s) > 1
    BY <2>1, TailFacts
  <2> QED  BY <1>1, <2>2
<1>3. /\ h \in [1 .. n + 1 -> SUBSET Objects] /\ h[n + 1] \subseteq Allowed(f)
      /\ \A i \in 1 .. n : Keeping(s[i], h[i], h[i + 1], Allowed(f))
  BY <1>1 DEF Balanced
<1>4. Hands(objects) \subseteq h[2]
  <2>1. Keeping(s[1], h[1], h[1 + 1], Allowed(f))
    BY <1>3
  <2> QED  BY <1>2, <2>1 DEF Keeping
<1>5. ASSUME Tail(s) = <<>>
      PROVE  Hands(objects) \subseteq Allowed(f)
  <2>1. h[2] = h[n + 1]
    BY <1>2, <1>5
  <2> QED  BY <1>3, <1>4, <2>1
<1>6. ASSUME Tail(s) # <<>>
      PROVE  Rest(f, Tail(s))
  <2>1. f \in Tidy => Tail(s) \in Seq(TidySteps)
    BY TailFacts DEF Rest
  <2>2. \A i \in 1 .. n - 1 : i + 1 \in 1 .. n
    OBVIOUS
  <2>3. \A i \in 1 .. n - 1 : SslLocked(Tail(s)[i])
    BY <1>1, <1>2, <2>2 DEF Rest
  <2>4. f \in Pinned => PopsLocked(Tail(s))
    BY <1>1, <1>2, <2>2 DEF Rest, PopsLocked
  <2> QED  BY <1>2, <1>6, <2>1, <2>3, <2>4 DEF Rest
<1>7. ASSUME Tail(s) # <<>>
      PROVE  Covers(f, Tail(s), objects)
  <2> DEFINE k == [i \in 1 .. n |-> h[i + 1]]
  <2>1. \A i \in 1 .. n : i + 1 \in 1 .. n + 1
    OBVIOUS
  <2>2. /\ k \in [1 .. n -> SUBSET Objects]
        /\ \A i \in 1 .. n : k[i] = h[i + 1]
    BY <1>3, <2>1
  <2> HIDE DEF k
  <2>3. ASSUME NEW i \in 1 .. n - 1
        PROVE  Keeping(Tail(s)[i], k[i], k[i + 1], Allowed(f))
    <3>1. PICK j \in 1 .. n : j = i + 1
      OBVIOUS
    <3>2. k[i] = h[j] /\ k[i + 1] = h[j + 1] /\ Tail(s)[i] = s[j]
      BY <1>2, <2>2, <3>1
    <3> QED  BY <1>3, <3>2
  <2>4. k[n] = h[n + 1] /\ k[1] = h[2]
    BY <2>2
  <2>5. Len(Tail(s)) + 1 = n
    BY <1>2
  <2>6. Balanced(Tail(s), Allowed(f), k)
    BY <1>2, <1>3, <2>2, <2>3, <2>4, <2>5 DEF Balanced
  <2> QED  BY <1>4, <2>4, <2>6 DEF Covers
<1> QED
  BY <1>5, <1>6, <1>7

\* what is held by hand of a union and of a difference
LEMMA HandsFacts ==
    ASSUME NEW objects, NEW names, NEW more
    PROVE  /\ Hands(Without(objects, names)) = Hands(objects) \ names
           /\ Hands(objects \cup more) = Hands(objects) \cup Hands(more)
           /\ Without(objects, names) \subseteq objects
BY DEF Hands, Without

\* a step that fails: what its error path does not free may be left
LEMMA ErrorLeaves ==
    ASSUME NEW f, NEW s, Rest(f, s), NEW objects, Covers(f, s, objects)
    PROVE  /\ Head(s).onError \notin {"ignore", "crash"} =>
                Hands(Without(objects, Head(s).frees)) \subseteq Allowed(f)
           /\ Head(s).onError = "ssl" => Hands(objects) \subseteq Allowed(f)
<1>1. PICK h : Balanced(s, Allowed(f), h) /\ Hands(objects) \subseteq h[1]
  BY DEF Covers
<1>2. Len(s) \in Nat \ {0} /\ Head(s) = s[1]
  BY TailFacts DEF Rest
<1>3. Keeping(Head(s), h[1], h[1 + 1], Allowed(f))
  BY <1>1, <1>2 DEF Balanced
<1>4. Hands(Without(objects, Head(s).frees)) = Hands(objects) \ Head(s).frees
  BY HandsFacts
<1> QED
  BY <1>1, <1>3, <1>4 DEF Keeping

\* g returns
LEMMA ReturnLeaves ==
    ASSUME CallInv, NEW g \in Goroutines, NEW objects,
           objects \subseteq Objects \X Ways,
           Hands(objects) \subseteq Allowed(made[call[g]]), Return(g, objects)
    PROVE  /\ held' = [held EXCEPT ![g] = {}] /\ made' = made
           /\ leaked' \subseteq Excepted
<1>1. PICK f : f = made[call[g]]
  OBVIOUS
<1>2. /\ leaked' = leaked \cup {<<f, o[1]>> : o \in {x \in objects : x[2] = "hand"}}
      /\ held' = [held EXCEPT ![g] = {}] /\ made' = made
  BY <1>1 DEF Return
<1>3. ASSUME NEW o \in objects, o[2] = "hand"
      PROVE  <<f, o[1]>> \in Excepted
  <2>1. o = <<o[1], "hand">> /\ o[1] \in Objects
    BY <1>3
  <2>2. o[1] \in Hands(objects)
    BY <1>3, <2>1 DEF Hands
  <2>3. o[1] \in Allowed(f)
    BY <1>1, <2>2
  <2> QED  BY <2>3 DEF Allowed
<1>4. leaked \subseteq Excepted
  BY DEF CallInv
<1> QED
  BY <1>2, <1>3, <1>4

\* what a step of g on thread t that is not its first may do: q, c, s, l and o
\* are the new values of the queue of t, the call, the script, the lock and
\* what g holds
Changes(g, t, q, c, s, l, o) ==
    /\ q \subseteq 1 .. Len(made) /\ c \in {0, call[g]} /\ l \in {t, None}
    /\ o \subseteq Objects \X Ways
    /\ queue' = [queue EXCEPT ![t] = q]
    /\ call' = [call EXCEPT ![g] = c]
    /\ script' = [script EXCEPT ![g] = s]
    /\ thread' = [thread EXCEPT ![g] = l]
    /\ held' = [held EXCEPT ![g] = o]
    /\ made' = made
    /\ leaked' \subseteq Excepted
    /\ c = 0 => o = {}
    /\ c # 0 => Rest(made[c], s)

\* the call goes on, or returns
Continues(g, t, q, c, s, l, o) ==
    /\ failed' = [failed EXCEPT ![g] = FALSE]
    /\ c # 0 => Covers(made[c], s, o)
    /\ \A i \in q : made[i] \notin Tidy

\* the call has failed and PopError comes next
Fails(g, t, q, c, s, l, o) ==
    /\ failed' = [failed EXCEPT ![g] = TRUE]
    /\ Hands(o) \subseteq Allowed(made[c])
    /\ c # 0
    /\ \A i \in q : made[i] \in Tidy => c = i /\ l = t
    /\ Head(s).onError = "ssl" => l = t /\ (made[c] = "handshake" => c \in q)
    /\ made[c] \in Pinned => l = t

\* a step of g that changes its own entries in one of the two ways keeps CallInv
LEMMA OtherCourses ==
    ASSUME CallInv, IInv', NEW g \in Goroutines, NEW t \in MayRunOn(g),
           NEW q, NEW c, NEW s, NEW l, NEW o, Changes(g, t, q, c, s, l, o),
           \/ Continues(g, t, q, c, s, l, o)
           \/ Fails(g, t, q, c, s, l, o),
           Reported', OwnError', HealthyConnection'
    PROVE  CallInv'
<1>1. /\ t \in Threads /\ t # None
      /\ \A h \in Goroutines : h # g => thread[h] # t
      /\ thread[g] # None => t = thread[g]
  <2>1. Shape /\ Exclusive
    BY DEF CallInv, IInv
  <2> QED  BY <2>1, RunsAlone DEF MayRunOn
<1>2. /\ \A u \in Threads : u # t => queue'[u] = queue[u]
      /\ queue'[t] = q
      /\ \A h \in Goroutines : h # g =>
            /\ call'[h] = call[h] /\ script'[h] = script[h]
            /\ failed'[h] = failed[h] /\ thread'[h] = thread[h]
            /\ held'[h] = held[h]
      /\ call'[g] = c /\ script'[g] = s /\ thread'[g] = l /\ held'[g] = o
      /\ made' = made
  BY <1>1 DEF CallInv, IInv, Shape, Types, Changes, Continues, Fails
<1>3. Types'
  <2>1. made' = made /\ made \in Seq(Functions) /\ Len(made) <= MaxCalls
    BY <1>2 DEF CallInv, Types
  <2>2. queue' \in [Threads -> SUBSET (1 .. Len(made))]
    BY DEF Changes, CallInv, Types
  <2>3. call' \in [Goroutines -> 0 .. Len(made)]
    BY DEF Changes, CallInv, Types
  <2>4. held' \in [Goroutines -> SUBSET (Objects \X Ways)]
    BY DEF Changes, CallInv, Types
  <2> QED  BY <2>1, <2>2, <2>3, <2>4 DEF Types
<1>4. Courses'
  <2> SUFFICES ASSUME NEW h \in Goroutines
               PROVE  /\ call'[h] = 0 => held'[h] = {}
                      /\ call'[h] # 0 =>
                           /\ Rest(made'[call'[h]], script'[h])
                           /\ failed'[h] => Hands(held'[h]) \subseteq Allowed(made'[call'[h]])
                           /\ ~failed'[h] => Covers(made'[call'[h]], script'[h], held'[h])
    BY DEF Courses
  <2>1. CASE h # g
    BY <1>2, <2>1 DEF CallInv, Courses
  <2>2. CASE h = g
    <3>1. CASE Continues(g, t, q, c, s, l, o)
      <4>1. ~failed'[g]
        BY <3>1 DEF Continues, CallInv, IInv, Shape
      <4> QED  BY <1>2, <2>2, <3>1, <4>1 DEF Changes, Continues
    <3>2. CASE Fails(g, t, q, c, s, l, o)
      <4>1. failed'[g]
        BY <3>2 DEF Fails, CallInv, IInv, Shape
      <4> QED  BY <1>2, <2>2, <3>2, <4>1 DEF Changes, Fails
    <3> QED  BY <3>1, <3>2
  <2> QED  BY <2>1, <2>2
<1>5. Owned'
  <2> SUFFICES ASSUME NEW u \in Threads, NEW i \in queue'[u], made'[i] \in Tidy
               PROVE  \E h \in Goroutines : call'[h] = i /\ failed'[h] /\ thread'[h] = u
    BY DEF Owned
  <2>1. CASE u # t
    <3>1. i \in queue[u] /\ made[i] \in Tidy
      BY <1>2, <2>1
    <3>2. PICK h \in Goroutines : call[h] = i /\ failed[h] /\ thread[h] = u
      BY <3>1 DEF CallInv, Owned
    <3>3. u # None
      BY CallsAssumption
    <3>4. h # g
      BY <1>1, <2>1, <3>2, <3>3
    <3> QED  BY <1>2, <3>2, <3>4
  <2>2. CASE u = t
    <3>1. i \in q /\ made[i] \in Tidy
      BY <1>2, <2>2
    <3>2. Fails(g, t, q, c, s, l, o)
      BY <3>1 DEF Continues
    <3>3. c = i /\ l = t
      BY <3>1, <3>2 DEF Fails
    <3>4. failed'[g]
      BY <3>2 DEF Fails, CallInv, IInv, Shape
    <3> QED  BY <1>2, <2>2, <3>3, <3>4
  <2> QED  BY <2>1, <2>2
<1>6. SslFailed'
  <2> SUFFICES ASSUME NEW h \in Goroutines, failed'[h], Head(script'[h]).onError = "ssl"
               PROVE  /\ thread'[h] # None
                      /\ made'[call'[h]] = "handshake" => call'[h] \in queue'[thread'[h]]
    BY DEF SslFailed
  <2>1. CASE h # g
    <3>1. /\ thread[h] # None
          /\ made[call[h]] = "handshake" => call[h] \in queue[thread[h]]
      BY <1>2, <2>1 DEF CallInv, SslFailed
    <3>2. thread[h] \in Threads /\ thread[h] # t
      BY <1>1, <2>1, <3>1 DEF CallInv, IInv, Shape
    <3>3. queue'[thread[h]] = queue[thread[h]]
      BY <1>2, <3>2
    <3> QED  BY <1>2, <2>1, <3>1, <3>3
  <2>2. CASE h = g
    <3>1. Fails(g, t, q, c, s, l, o)
      <4>1. ASSUME Continues(g, t, q, c, s, l, o) PROVE FALSE
        <5>1. ~failed'[g]
          BY <4>1 DEF Continues, CallInv, IInv, Shape
        <5> QED  BY <2>2, <5>1
      <4> QED  BY <4>1
    <3>2. Head(s).onError = "ssl"
      BY <1>2, <2>2
    <3>3. l = t /\ (made[c] = "handshake" => c \in q)
      BY <3>1, <3>2 DEF Fails
    <3> QED  BY <1>1, <1>2, <2>2, <3>3
  <2> QED  BY <2>1, <2>2
<1>7. leaked' \subseteq Excepted
  BY DEF Changes
<1>8. PinnedFailed'
  <2> SUFFICES ASSUME NEW h \in Goroutines, failed'[h], made'[call'[h]] \in Pinned
               PROVE  thread'[h] # None
    BY DEF PinnedFailed
  <2>1. CASE h # g
    BY <1>2, <2>1 DEF CallInv, PinnedFailed
  <2>2. CASE h = g
    <3>1. ~Continues(g, t, q, c, s, l, o)
      BY <2>2 DEF Continues, CallInv, IInv, Shape
    <3>2. Fails(g, t, q, c, s, l, o)
      BY <3>1
    <3>3. l = t
      BY <1>2, <2>2, <3>2 DEF Fails
    <3> QED  BY <1>1, <1>2, <2>2, <3>3
  <2> QED  BY <2>1, <2>2
<1> QED
  BY <1>3, <1>4, <1>5, <1>6, <1>7, <1>8 DEF CallInv

\* while g has not failed, no error of a function of Tidy is where it runs
LEMMA NobodyElsesError ==
    ASSUME CallInv, NEW g \in Goroutines, NEW t \in MayRunOn(g), ~failed[g]
    PROVE  \A i \in queue[t] : made[i] \notin Tidy
<1>1. t \in Threads /\ \A h \in Goroutines : h # g => thread[h] # t
  BY RunsAlone DEF CallInv, IInv
<1> QED
  BY <1>1 DEF CallInv, Owned

\* the part of a step that GoOn makes
LEMMA GoOnChanges ==
    ASSUME CallInv, NEW g \in Goroutines, ~failed[g], call[g] # 0,
           NEW t \in Threads, NEW objects, objects \subseteq Objects \X Ways,
           NEW h, Balanced(script[g], Allowed(made[call[g]]), h),
           Hands(objects) \subseteq
               (h[1] \cup Takes(Head(script[g]))) \ Head(script[g]).gives,
           GoOn(g, t, objects)
    PROVE  \E c, s, l, o :
              /\ c \in {0, call[g]} /\ l \in {t, None}
              /\ o \subseteq Objects \X Ways
              /\ call' = [call EXCEPT ![g] = c]
              /\ script' = [script EXCEPT ![g] = s]
              /\ thread' = [thread EXCEPT ![g] = l]
              /\ held' = [held EXCEPT ![g] = o]
              /\ failed' = [failed EXCEPT ![g] = FALSE]
              /\ made' = made
              /\ leaked' \subseteq Excepted
              /\ c = 0 => o = {}
              /\ c # 0 => Rest(made[c], s) /\ Covers(made[c], s, o)
<1>1. PICK f, r : f = made[call[g]] /\ r = script[g]
  OBVIOUS
<1>2. Rest(f, r) /\ Shape
  BY <1>1 DEF CallInv, Courses, IInv
<1>3. /\ Tail(r) = <<>> => Hands(objects) \subseteq Allowed(f)
      /\ Tail(r) # <<>> => Rest(f, Tail(r)) /\ Covers(f, Tail(r), objects)
  BY <1>1, <1>2, RestGoesOn
<1>4. CASE Tail(r) = <<>>
  <2>1. Return(g, objects)
    BY <1>1, <1>4 DEF GoOn
  <2>2. /\ call' = [call EXCEPT ![g] = 0] /\ script' = [script EXCEPT ![g] = <<>>]
        /\ thread' = [thread EXCEPT ![g] = None]
        /\ failed' = [failed EXCEPT ![g] = FALSE]
    BY <2>1 DEF Return
  <2>3. /\ held' = [held EXCEPT ![g] = {}] /\ made' = made
        /\ leaked' \subseteq Excepted
    BY <1>1, <1>3, <1>4, <2>1, ReturnLeaves
  <2>4. {} \subseteq Objects \X Ways
    OBVIOUS
  <2>5. PICK c, s, l, o : c = 0 /\ s = <<>> /\ l = None /\ o = {}
    OBVIOUS
  <2>6. /\ c \in {0, call[g]} /\ l \in {t, None} /\ o \subseteq Objects \X Ways
        /\ call' = [call EXCEPT ![g] = c] /\ script' = [script EXCEPT ![g] = s]
        /\ thread' = [thread EXCEPT ![g] = l] /\ held' = [held EXCEPT ![g] = o]
        /\ c = 0 /\ o = {}
    BY <2>2, <2>3, <2>4, <2>5
  <2> QED  BY <2>2, <2>3, <2>6
<1>5. CASE Tail(r) # <<>>
  <2>1. /\ script' = [script EXCEPT ![g] = Tail(r)]
        /\ held' = [held EXCEPT ![g] = objects]
        /\ thread' = [thread EXCEPT ![g] =
                         IF Head(r).pinned /\ ~Head(r).unlocks THEN t ELSE None]
        /\ made' = made /\ call' = call /\ failed' = failed /\ leaked' = leaked
    BY <1>1, <1>5 DEF GoOn
  <2>2. PICK l \in {t, None} :
          l = IF Head(r).pinned /\ ~Head(r).unlocks THEN t ELSE None
    OBVIOUS
  <2>3. call' = [call EXCEPT ![g] = call[g]] /\ failed' = [failed EXCEPT ![g] = FALSE]
    BY <1>2, <2>1 DEF Shape
  <2>4. Rest(made[call[g]], Tail(r)) /\ Covers(made[call[g]], Tail(r), objects)
    BY <1>1, <1>3, <1>5
  <2>5. leaked' \subseteq Excepted
    BY <2>1 DEF CallInv
  <2>6. thread' = [thread EXCEPT ![g] = l]
    BY <2>1, <2>2
  <2>7. call[g] \in {0, call[g]}
    OBVIOUS
  <2> QED  BY <2>1, <2>3, <2>4, <2>5, <2>6, <2>7
<1> QED
  BY <1>4, <1>5

-----------------------------------------------------------------------------
(* One lemma for each action. *)

\* a call begins with a script of a table, which is good
LEMMA CallCallInv ==
    ASSUME CallInv, NEW g \in Goroutines, Call(g), IInv'
    PROVE  CallInv'
<1>1. PICK table \in Tables : \E f \in DOMAIN table : \E s \in table[f] :
          made' = Append(made, f) /\ script' = [script EXCEPT ![g] = s]
  BY DEF Call
<1>2. PICK f \in DOMAIN table : \E s \in table[f] :
          made' = Append(made, f) /\ script' = [script EXCEPT ![g] = s]
  BY <1>1
<1>3. PICK s \in table[f] :
          made' = Append(made, f) /\ script' = [script EXCEPT ![g] = s]
  BY <1>2
<1>4. Good(f, s)
  BY TablesAreFine DEF Fine
<1>5. f \in Functions
  BY DEF Functions
<1>6. /\ call[g] = 0 /\ Len(made) < MaxCalls
      /\ call' = [call EXCEPT ![g] = Len(made) + 1]
      /\ queue' = queue /\ failed' = failed /\ thread' = thread /\ held' = held
      /\ reports' = reports /\ leaked' = leaked
  BY DEF Call
<1>7. PICK n \in Nat : n = Len(made)
  BY DEF CallInv, Types
<1>8. /\ made' \in Seq(Functions) /\ Len(made') = n + 1 /\ made'[n + 1] = f
      /\ \A i \in 1 .. n : made'[i] = made[i]
      /\ 1 .. n \subseteq 1 .. n + 1
  BY <1>3, <1>5, <1>7 DEF CallInv, Types
<1>9. /\ held[g] = {} /\ ~failed[g] /\ thread[g] = None
  BY <1>6 DEF CallInv, Courses, IInv, Idle
<1>10. Types'
  <2>1. Len(made') <= MaxCalls
    BY <1>6, <1>7, <1>8, CallsAssumption
  <2>2. queue' \in [Threads -> SUBSET (1 .. Len(made'))]
    BY <1>6, <1>7, <1>8 DEF CallInv, Types
  <2>3. call' \in [Goroutines -> 0 .. Len(made')]
    BY <1>6, <1>7, <1>8 DEF CallInv, Types
  <2> QED  BY <1>6, <1>8, <2>1, <2>2, <2>3 DEF CallInv, Types
<1>11. Reported'
  BY <1>6, <1>7, <1>8 DEF CallInv, Reported
<1>12. \A h \in Goroutines : h # g => call'[h] = call[h] /\ script'[h] = script[h]
  BY <1>3, <1>6 DEF CallInv, IInv, Shape
<1>13. call'[g] = n + 1 /\ script'[g] = s
  BY <1>3, <1>6, <1>7 DEF CallInv, IInv, Shape
<1>14. Courses'
  <2> SUFFICES ASSUME NEW h \in Goroutines
               PROVE  /\ call'[h] = 0 => held'[h] = {}
                      /\ call'[h] # 0 =>
                           /\ Rest(made'[call'[h]], script'[h])
                           /\ failed'[h] => Hands(held'[h]) \subseteq Allowed(made'[call'[h]])
                           /\ ~failed'[h] => Covers(made'[call'[h]], script'[h], held'[h])
    BY DEF Courses
  <2>1. CASE h # g
    <3>1. call[h] \in 0 .. n
      BY <1>7 DEF CallInv, Types
    <3>2. call[h] # 0 => made'[call[h]] = made[call[h]]
      BY <1>8, <3>1
    <3> QED  BY <1>6, <1>12, <2>1, <3>2 DEF CallInv, Courses
  <2>2. CASE h = g
    <3>1. Rest(f, s)
      <4>1. s \in Seq(TidySteps) => PopsLocked(s)
        BY SeqNarrows DEF TidySteps, PopLocked, PopsLocked
      <4> QED  BY <1>4, <4>1 DEF Good, Scripts, Rest, Pinned
    <3>2. Covers(f, s, {})
      BY <1>4 DEF Good, Scripts, Covers, Hands
    <3>3. call'[g] # 0 /\ made'[call'[g]] = f
      BY <1>8, <1>13
    <3> QED  BY <1>6, <1>9, <1>13, <2>2, <3>1, <3>2, <3>3
  <2> QED  BY <2>1, <2>2
<1>15. Owned'
  <2> SUFFICES ASSUME NEW u \in Threads, NEW i \in queue'[u], made'[i] \in Tidy
               PROVE  \E h \in Goroutines : call'[h] = i /\ failed'[h] /\ thread'[h] = u
    BY DEF Owned
  <2>1. i \in queue[u] /\ i \in 1 .. n
    BY <1>6, <1>7 DEF CallInv, Types
  <2>2. PICK h \in Goroutines : call[h] = i /\ failed[h] /\ thread[h] = u
    BY <1>8, <2>1 DEF CallInv, Owned
  <2>3. h # g
    BY <1>9, <2>2
  <2> QED  BY <1>6, <1>12, <2>2, <2>3
<1>16. SslFailed'
  <2> SUFFICES ASSUME NEW h \in Goroutines, failed'[h], Head(script'[h]).onError = "ssl"
               PROVE  /\ thread'[h] # None
                      /\ made'[call'[h]] = "handshake" => call'[h] \in queue'[thread'[h]]
    BY DEF SslFailed
  <2>1. h # g /\ failed[h]
    BY <1>6, <1>9
  <2>2. call[h] \in 1 .. n
    <3>1. call[h] # 0
      BY <2>1 DEF CallInv, IInv, Idle
    <3> QED  BY <1>7, <3>1 DEF CallInv, Types
  <2>3. /\ thread[h] # None
        /\ made[call[h]] = "handshake" => call[h] \in queue[thread[h]]
    BY <1>12, <2>1 DEF CallInv, SslFailed
  <2> QED  BY <1>6, <1>8, <1>12, <2>1, <2>2, <2>3
<1>17. HealthyConnection'
  <2> SUFFICES ASSUME NEW r \in reports', r.kind = "ssl", r.call \notin r.popped
               PROVE  /\ made'[r.call] # "handshake"
                      /\ \A i \in r.popped : made'[i] \notin Tidy
    BY DEF HealthyConnection
  <2>1. r \in reports
    BY <1>6
  <2>2. r.call \in 1 .. n /\ r.popped \subseteq 1 .. n
    BY <1>7, <2>1 DEF CallInv, Reported
  <2>3. made[r.call] # "handshake" /\ \A i \in r.popped : made[i] \notin Tidy
    BY <2>1 DEF CallInv, HealthyConnection
  <2> QED  BY <1>8, <2>2, <2>3
<1>18. leaked' \subseteq Excepted
  BY <1>6 DEF CallInv
<1>19. PinnedFailed'
  <2> SUFFICES ASSUME NEW h \in Goroutines, failed'[h], made'[call'[h]] \in Pinned
               PROVE  thread'[h] # None
    BY DEF PinnedFailed
  <2>1. h # g /\ failed[h]
    BY <1>6, <1>9
  <2>2. call[h] \in 1 .. n
    <3>1. call[h] # 0
      BY <2>1 DEF CallInv, IInv, Idle
    <3> QED  BY <1>7, <3>1 DEF CallInv, Types
  <2>3. made[call[h]] \in Pinned
    BY <1>8, <1>12, <2>1, <2>2
  <2> QED  BY <1>6, <2>1, <2>3 DEF CallInv, PinnedFailed
<1>20. OwnError'
  <2> SUFFICES ASSUME NEW r \in reports', made'[r.call] \in Pinned
               PROVE  r.call \in r.popped \/ (r.kind = "ssl" /\ r.popped # {})
    BY DEF OwnError
  <2>1. r \in reports
    BY <1>6
  <2>2. r.call \in 1 .. n
    BY <1>7, <2>1 DEF CallInv, Reported
  <2>3. made[r.call] \in Pinned
    BY <1>8, <2>2
  <2> QED  BY <2>1, <2>3 DEF CallInv, OwnError
<1> QED
  BY <1>10, <1>11, <1>14, <1>15, <1>16, <1>17, <1>18, <1>19, <1>20 DEF CallInv

\* the reports of a step that reports nothing
LEMMA SameReports ==
    ASSUME CallInv, reports' = reports, made' = made
    PROVE  Reported' /\ OwnError' /\ HealthyConnection'
BY DEF CallInv, Reported, OwnError, HealthyConnection

\* the goroutine of a step, its function and what is left of its script
LEMMA Running ==
    ASSUME CallInv, NEW g \in Goroutines, script[g] # <<>>
    PROVE  /\ call[g] \in 1 .. Len(made) /\ call[g] # 0
           /\ Rest(made[call[g]], script[g])
           /\ Head(script[g]) \in Steps /\ SslLocked(Head(script[g]))
           /\ made[call[g]] \in Tidy => Head(script[g]) \in TidySteps
           /\ made[call[g]] \in Pinned => PopLocked(Head(script[g]))
           /\ held[g] \subseteq Objects \X Ways
<1>1. call[g] # 0
  BY DEF CallInv, IInv, Idle
<1>2. call[g] \in 1 .. Len(made) /\ held[g] \subseteq Objects \X Ways
  BY <1>1 DEF CallInv, Types
<1>3. Rest(made[call[g]], script[g])
  BY <1>1 DEF CallInv, Courses
<1>4. PICK s, f : s = script[g] /\ f = made[call[g]]
  OBVIOUS
<1>5. s \in Seq(Steps) /\ s # <<>> /\ \A i \in 1 .. Len(s) : SslLocked(s[i])
  BY <1>3, <1>4 DEF Rest
<1>6. Head(s) \in Steps /\ Head(s) = s[1] /\ Len(s) \in Nat \ {0}
  BY <1>5, TailFacts
<1>7. SslLocked(Head(s))
  BY <1>5, <1>6
<1>8. f \in Tidy => Head(s) \in TidySteps
  <2>1. f \in Tidy => s \in Seq(TidySteps)
    BY <1>3, <1>4 DEF Rest
  <2> QED  BY <1>5, <2>1, TailFacts
<1>9. f \in Pinned => PopLocked(Head(s))
  BY <1>3, <1>4, <1>6 DEF Rest, PopsLocked
<1> QED
  BY <1>1, <1>2, <1>3, <1>4, <1>6, <1>7, <1>8, <1>9

\* an SSL operation finds a part of the queue of its thread
LEMMA FoundFacts ==
    ASSUME CallInv, NEW t \in Threads, NEW f
    PROVE  /\ queue[t] \subseteq 1 .. Len(made)
           /\ Found(f, t) \subseteq queue[t]
           /\ queue = [queue EXCEPT ![t] = queue[t]]
BY DEF CallInv, Types, Found

\* the C call succeeds: the rest of the script covers what is held now
LEMMA SucceedCallInv ==
    ASSUME CallInv, NEW g \in Goroutines, Succeed(g), IInv'
    PROVE  CallInv'
<1>1. script[g] # <<>> /\ ~failed[g] /\ reports' = reports
  BY DEF Succeed
<1>2. PICK t \in MayRunOn(g) :
        /\ GoOn(g, t, Without(Acquired(g, Head(script[g])), Head(script[g]).gives))
        /\ queue' = IF Head(script[g]).onError = "ssl"
                    THEN [queue EXCEPT ![t] = Found(made[call[g]], t)]
                    ELSE queue
  BY DEF Succeed
<1>3. t \in Threads
  BY RunsAlone DEF CallInv, IInv
<1>4. PICK q \in SUBSET queue[t] : queue' = [queue EXCEPT ![t] = q]
  BY <1>2, <1>3, FoundFacts
<1>5. PICK st : st = Head(script[g])
  OBVIOUS
<1>6. /\ call[g] # 0 /\ st \in Steps
      /\ held[g] \subseteq Objects \X Ways
  BY <1>1, <1>5, Running
<1>7. PICK objects : objects = Without(Acquired(g, st), st.gives)
  OBVIOUS
<1>8. PICK h : Balanced(script[g], Allowed(made[call[g]]), h) /\ Hands(held[g]) \subseteq h[1]
  BY <1>1, <1>6 DEF CallInv, Courses, Covers
<1>9. objects \subseteq Objects \X Ways
  <2>1. st.gets \subseteq Objects \X Ways /\ st.lacks \subseteq Objects
    BY <1>6 DEF Steps
  <2>2. \A o \in st.lacks : <<o, "hand">> \in Objects \X Ways
    BY <2>1 DEF Ways
  <2>3. Acquired(g, st) \subseteq Objects \X Ways
    BY <1>6, <2>1, <2>2 DEF Acquired
  <2> QED  BY <1>7, <2>3 DEF Without
<1>10. Hands(objects) \subseteq (h[1] \cup Takes(st)) \ st.gives
  <2>1. Hands(Acquired(g, st)) \subseteq Hands(held[g]) \cup Takes(st)
    BY DEF Acquired, Hands, Takes
  <2>2. Hands(objects) = Hands(Acquired(g, st)) \ st.gives
    BY <1>7, HandsFacts
  <2> QED  BY <1>8, <2>1, <2>2
<1>11. GoOn(g, t, objects)
  BY <1>2, <1>5, <1>7
<1>12. made' = made /\
       \E c, s, l, o :
              /\ c \in {0, call[g]} /\ l \in {t, None}
              /\ o \subseteq Objects \X Ways
              /\ call' = [call EXCEPT ![g] = c]
              /\ script' = [script EXCEPT ![g] = s]
              /\ thread' = [thread EXCEPT ![g] = l]
              /\ held' = [held EXCEPT ![g] = o]
              /\ failed' = [failed EXCEPT ![g] = FALSE]
              /\ made' = made
              /\ leaked' \subseteq Excepted
              /\ c = 0 => o = {}
              /\ c # 0 => Rest(made[c], s) /\ Covers(made[c], s, o)
  BY <1>1, <1>3, <1>5, <1>6, <1>8, <1>9, <1>10, <1>11, GoOnChanges
<1>13. PICK c, s, l, o :
         /\ c \in {0, call[g]} /\ l \in {t, None}
         /\ o \subseteq Objects \X Ways
         /\ call' = [call EXCEPT ![g] = c]
         /\ script' = [script EXCEPT ![g] = s]
         /\ thread' = [thread EXCEPT ![g] = l]
         /\ held' = [held EXCEPT ![g] = o]
         /\ failed' = [failed EXCEPT ![g] = FALSE]
         /\ leaked' \subseteq Excepted
         /\ c = 0 => o = {}
         /\ c # 0 => Rest(made[c], s) /\ Covers(made[c], s, o)
  BY <1>12
<1>14. Changes(g, t, q, c, s, l, o)
  BY <1>3, <1>4, <1>12, <1>13, FoundFacts DEF Changes
<1>15. Continues(g, t, q, c, s, l, o)
  BY <1>1, <1>4, <1>13, NobodyElsesError DEF Continues
<1> QED
  BY <1>1, <1>12, <1>14, <1>15, SameReports, OtherCourses

\* the C call fails: a function of Tidy stays on its thread to read the error
LEMMA FailCallInv ==
    ASSUME CallInv, NEW g \in Goroutines, Fail(g), IInv'
    PROVE  CallInv'
<1>1. script[g] # <<>> /\ ~failed[g] /\ reports' = reports
  BY DEF Fail
<1>2. PICK st, f : st = Head(script[g]) /\ f = made[call[g]]
  OBVIOUS
<1>3. PICK rest, error : /\ rest = Without(held[g], st.frees)
                         /\ error = IF st.onError = "check" THEN {} ELSE {call[g]}
  OBVIOUS
<1>4. PICK t \in MayRunOn(g) :
        LET before == IF st.onError = "ssl" THEN Found(f, t) ELSE queue[t]
        IN  /\ queue' = [queue EXCEPT ![t] = before \cup error]
            /\ \/ st.onError \in {"keep", "check"} /\ Return(g, rest)
               \/ st.onError = "ignore" /\ GoOn(g, t, Without(rest, st.gives))
               \/ /\ st.onError \in {"pop", "ssl"}
                  /\ failed' = [failed EXCEPT ![g] = TRUE]
                  /\ thread' = [thread EXCEPT ![g] = IF st.pinned THEN t ELSE None]
                  /\ held' = [held EXCEPT ![g] = rest]
                  /\ UNCHANGED <<made, call, script, leaked>>
  BY <1>2, <1>3 DEF Fail
<1>5. t \in Threads
  BY RunsAlone DEF CallInv, IInv
<1>6. PICK before \in SUBSET queue[t] :
        before = IF st.onError = "ssl" THEN Found(f, t) ELSE queue[t]
  BY <1>5, FoundFacts
<1>7. PICK q : q = before \cup error
  OBVIOUS
<1>8. queue' = [queue EXCEPT ![t] = q]
  BY <1>4, <1>6, <1>7
<1>9. /\ call[g] # 0 /\ call[g] \in 1 .. Len(made) /\ st \in Steps /\ SslLocked(st)
      /\ Rest(f, script[g]) /\ (f \in Tidy => st \in TidySteps)
      /\ (f \in Pinned => PopLocked(st))
      /\ held[g] \subseteq Objects \X Ways
  BY <1>1, <1>2, Running
<1>10. q \subseteq 1 .. Len(made)
  BY <1>3, <1>5, <1>7, <1>9, FoundFacts
<1>11. \A i \in before : made[i] \notin Tidy
  BY <1>1, NobodyElsesError
<1>12. rest \subseteq Objects \X Ways
  BY <1>3, <1>9 DEF Without
<1>13. Covers(f, script[g], held[g])
  BY <1>1, <1>2, <1>9 DEF CallInv, Courses
<1>14. Shape
  BY DEF CallInv, IInv
<1>15. CASE st.onError \in {"keep", "check"}
  <2>1. Return(g, rest)
    BY <1>4, <1>15
  <2>2. Hands(rest) \subseteq Allowed(f)
    BY <1>2, <1>3, <1>9, <1>13, <1>15, ErrorLeaves
  <2>3. /\ held' = [held EXCEPT ![g] = {}] /\ made' = made /\ leaked' \subseteq Excepted
    BY <1>2, <1>12, <2>1, <2>2, ReturnLeaves
  <2>4. /\ call' = [call EXCEPT ![g] = 0] /\ script' = [script EXCEPT ![g] = <<>>]
        /\ thread' = [thread EXCEPT ![g] = None]
        /\ failed' = [failed EXCEPT ![g] = FALSE]
    BY <2>1 DEF Return
  <2>5. f \notin Tidy
    BY <1>9, <1>15 DEF TidySteps
  <2>6. PICK c, s, l, o : c = 0 /\ s = <<>> /\ l = None /\ o = {}
    OBVIOUS
  <2>7. Changes(g, t, q, c, s, l, o)
    BY <1>8, <1>10, <2>3, <2>4, <2>6 DEF Changes
  <2>8. Continues(g, t, q, c, s, l, o)
    BY <1>2, <1>3, <1>7, <1>11, <2>4, <2>5, <2>6 DEF Continues
  <2> QED  BY <1>1, <2>3, <2>7, <2>8, SameReports, OtherCourses
<1>16. CASE st.onError = "ignore"
  <2>1. PICK objects : objects = Without(rest, st.gives)
    OBVIOUS
  <2>2. GoOn(g, t, objects)
    BY <1>4, <1>16, <2>1
  <2>3. PICK h : Balanced(script[g], Allowed(f), h) /\ Hands(held[g]) \subseteq h[1]
    BY <1>13 DEF Covers
  <2>4. objects \subseteq Objects \X Ways
    BY <1>12, <2>1 DEF Without
  <2>5. Hands(objects) \subseteq (h[1] \cup Takes(st)) \ st.gives
    <3>1. Hands(objects) = (Hands(held[g]) \ st.frees) \ st.gives
      <4>1. Hands(rest) = Hands(held[g]) \ st.frees
        BY <1>3, HandsFacts
      <4>2. Hands(objects) = Hands(rest) \ st.gives
        BY <2>1, HandsFacts
      <4> QED  BY <4>1, <4>2
    <3> QED  BY <2>3, <3>1
  <2>6. made' = made /\
        \E c, s, l, o :
              /\ c \in {0, call[g]} /\ l \in {t, None}
              /\ o \subseteq Objects \X Ways
              /\ call' = [call EXCEPT ![g] = c]
              /\ script' = [script EXCEPT ![g] = s]
              /\ thread' = [thread EXCEPT ![g] = l]
              /\ held' = [held EXCEPT ![g] = o]
              /\ failed' = [failed EXCEPT ![g] = FALSE]
              /\ made' = made
              /\ leaked' \subseteq Excepted
              /\ c = 0 => o = {}
              /\ c # 0 => Rest(made[c], s) /\ Covers(made[c], s, o)
    BY <1>1, <1>2, <1>5, <1>9, <2>2, <2>3, <2>4, <2>5, GoOnChanges
  <2>7. PICK c, s, l, o :
              /\ c \in {0, call[g]} /\ l \in {t, None}
              /\ o \subseteq Objects \X Ways
              /\ call' = [call EXCEPT ![g] = c]
              /\ script' = [script EXCEPT ![g] = s]
              /\ thread' = [thread EXCEPT ![g] = l]
              /\ held' = [held EXCEPT ![g] = o]
              /\ failed' = [failed EXCEPT ![g] = FALSE]
              /\ leaked' \subseteq Excepted
              /\ c = 0 => o = {}
              /\ c # 0 => Rest(made[c], s) /\ Covers(made[c], s, o)
    BY <2>6
  <2>8. f \notin Tidy
    BY <1>9, <1>16 DEF TidySteps
  <2>9. Changes(g, t, q, c, s, l, o)
    BY <1>8, <1>10, <2>6, <2>7 DEF Changes
  <2>10. Continues(g, t, q, c, s, l, o)
    BY <1>2, <1>3, <1>7, <1>11, <2>7, <2>8 DEF Continues
  <2> QED  BY <1>1, <2>6, <2>9, <2>10, SameReports, OtherCourses
<1>17. CASE st.onError \in {"pop", "ssl"}
  <2>1. PICK c, s, o : c = call[g] /\ s = script[g] /\ o = rest
    OBVIOUS
  <2>2. PICK l \in {t, None} : l = IF st.pinned THEN t ELSE None
    OBVIOUS
  <2>3. /\ failed' = [failed EXCEPT ![g] = TRUE]
        /\ thread' = [thread EXCEPT ![g] = l]
        /\ held' = [held EXCEPT ![g] = o]
        /\ made' = made /\ call' = call /\ script' = script /\ leaked' = leaked
    BY <1>4, <1>17, <2>1, <2>2
  <2>4. call' = [call EXCEPT ![g] = c] /\ script' = [script EXCEPT ![g] = s]
    BY <1>14, <2>1, <2>3 DEF Shape
  <2>5. Hands(o) \subseteq Allowed(made[c])
    BY <1>2, <1>3, <1>9, <1>13, <1>17, <2>1, ErrorLeaves
  <2>6. f \in Tidy => l = t
    BY <1>9, <2>2 DEF TidySteps
  <2>7. st.onError = "ssl" => l = t
    BY <1>9, <2>2 DEF SslLocked
  <2>8. c \in q
    BY <1>3, <1>7, <1>17, <2>1
  <2>9. leaked' \subseteq Excepted
    BY <2>3 DEF CallInv
  <2>10. Changes(g, t, q, c, s, l, o)
    BY <1>2, <1>8, <1>9, <1>10, <1>12, <2>1, <2>3, <2>4, <2>9 DEF Changes
  <2>11. \A i \in q : made[i] \in Tidy => c = i /\ l = t
    BY <1>2, <1>3, <1>7, <1>11, <2>1, <2>6
  <2>12. f \in Pinned => l = t
    BY <1>9, <1>17, <2>2, <2>7 DEF PopLocked
  <2>13. Fails(g, t, q, c, s, l, o)
    BY <1>2, <1>9, <2>1, <2>3, <2>5, <2>7, <2>8, <2>11, <2>12 DEF Fails
  <2> QED  BY <1>1, <2>3, <2>10, <2>13, SameReports, OtherCourses
<1> QED
  BY <1>4, <1>15, <1>16, <1>17

\* an operation that only waits fails when it finds an error, which is of no
\* function of Tidy, and a handshake finds none
LEMMA HealthyWaitCallInv ==
    ASSUME CallInv, NEW g \in Goroutines, HealthyWait(g), IInv'
    PROVE  CallInv'
<1>1. /\ script[g] # <<>> /\ ~failed[g] /\ reports' = reports
      /\ Head(script[g]).onError = "ssl"
  BY DEF HealthyWait
<1>2. PICK f : f = made[call[g]]
  OBVIOUS
<1>3. PICK t \in MayRunOn(g) :
        /\ queue' = [queue EXCEPT ![t] = Found(f, t)]
        /\ IF Found(f, t) = {} THEN Return(g, held[g])
           ELSE /\ failed' = [failed EXCEPT ![g] = TRUE]
                /\ thread' = [thread EXCEPT ![g] = t]
                /\ UNCHANGED <<made, call, script, held, leaked>>
  BY <1>2 DEF HealthyWait
<1>4. t \in Threads
  BY RunsAlone DEF CallInv, IInv
<1>5. PICK q : q = Found(f, t)
  OBVIOUS
<1>6. q \subseteq queue[t] /\ q \subseteq 1 .. Len(made)
  BY <1>4, <1>5, FoundFacts
<1>7. \A i \in q : made[i] \notin Tidy
  BY <1>1, <1>6, NobodyElsesError
<1>8. /\ call[g] # 0 /\ Rest(f, script[g])
      /\ held[g] \subseteq Objects \X Ways
  BY <1>1, <1>2, Running
<1>9. Covers(f, script[g], held[g])
  BY <1>1, <1>2, <1>8 DEF CallInv, Courses
<1>10. Hands(held[g]) \subseteq Allowed(f)
  BY <1>1, <1>8, <1>9, ErrorLeaves
<1>11. CASE q = {}
  <2>1. Return(g, held[g])
    BY <1>3, <1>5, <1>11
  <2>2. /\ held' = [held EXCEPT ![g] = {}] /\ made' = made /\ leaked' \subseteq Excepted
    BY <1>2, <1>8, <1>10, <2>1, ReturnLeaves
  <2>3. /\ call' = [call EXCEPT ![g] = 0] /\ script' = [script EXCEPT ![g] = <<>>]
        /\ thread' = [thread EXCEPT ![g] = None]
        /\ failed' = [failed EXCEPT ![g] = FALSE]
    BY <2>1 DEF Return
  <2>4. PICK c, s, l, o : c = 0 /\ s = <<>> /\ l = None /\ o = {}
    OBVIOUS
  <2>5. Changes(g, t, q, c, s, l, o)
    BY <1>3, <1>5, <1>6, <2>2, <2>3, <2>4 DEF Changes
  <2>6. Continues(g, t, q, c, s, l, o)
    BY <1>7, <2>3, <2>4 DEF Continues
  <2> QED  BY <1>1, <2>2, <2>5, <2>6, SameReports, OtherCourses
<1>12. CASE q # {}
  <2>1. PICK c, s, l, o : c = call[g] /\ s = script[g] /\ l = t /\ o = held[g]
    OBVIOUS
  <2>2. /\ failed' = [failed EXCEPT ![g] = TRUE]
        /\ thread' = [thread EXCEPT ![g] = l]
        /\ made' = made /\ call' = call /\ script' = script /\ held' = held
        /\ leaked' = leaked
    BY <1>3, <1>5, <1>12, <2>1
  <2>3. /\ call' = [call EXCEPT ![g] = c] /\ script' = [script EXCEPT ![g] = s]
        /\ held' = [held EXCEPT ![g] = o]
    BY <2>1, <2>2 DEF CallInv, IInv, Shape, Types
  <2>4. f # "handshake"
    BY <1>5, <1>12 DEF Found
  <2>5. leaked' \subseteq Excepted
    BY <2>2 DEF CallInv
  <2>6. Changes(g, t, q, c, s, l, o)
    BY <1>2, <1>3, <1>5, <1>6, <1>8, <2>1, <2>2, <2>3, <2>5 DEF Changes
  <2>7. Fails(g, t, q, c, s, l, o)
    BY <1>2, <1>7, <1>8, <1>10, <2>1, <2>2, <2>4 DEF Fails
  <2> QED  BY <1>1, <2>2, <2>6, <2>7, SameReports, OtherCourses
<1> QED
  BY <1>11, <1>12

\* PopError: what g reads of the functions of Tidy is its own error
LEMMA PopErrorCallInv ==
    ASSUME CallInv, NEW g \in Goroutines, PopError(g), IInv'
    PROVE  CallInv'
<1>1. failed[g] /\ Return(g, held[g])
  BY DEF PopError
<1>2. PICK t \in MayRunOn(g) :
        /\ reports' = reports \cup
              {[call |-> call[g], kind |-> Head(script[g]).onError,
                popped |-> queue[t]]}
        /\ queue' = [queue EXCEPT ![t] = {}]
  BY DEF PopError
<1>3. t \in Threads /\ (thread[g] # None => t = thread[g])
  BY RunsAlone DEF CallInv, IInv, MayRunOn
<1>4. call[g] # 0 /\ call[g] \in 1 .. Len(made)
  <2>1. call[g] # 0
    BY <1>1 DEF CallInv, IInv, Idle
  <2> QED  BY <2>1 DEF CallInv, Types
<1>5. Hands(held[g]) \subseteq Allowed(made[call[g]])
  BY <1>1, <1>4 DEF CallInv, Courses
<1>6. held[g] \subseteq Objects \X Ways
  BY DEF CallInv, Types
<1>7. /\ held' = [held EXCEPT ![g] = {}] /\ made' = made /\ leaked' \subseteq Excepted
  BY <1>1, <1>5, <1>6, ReturnLeaves
<1>8. /\ call' = [call EXCEPT ![g] = 0] /\ script' = [script EXCEPT ![g] = <<>>]
      /\ thread' = [thread EXCEPT ![g] = None]
      /\ failed' = [failed EXCEPT ![g] = FALSE]
  BY <1>1 DEF Return
<1>9. queue[t] \subseteq 1 .. Len(made)
  BY <1>3, FoundFacts
<1>10. OwnError'
  <2> SUFFICES ASSUME NEW r \in reports', made[r.call] \in Pinned
               PROVE  r.call \in r.popped \/ (r.kind = "ssl" /\ r.popped # {})
    BY <1>7 DEF OwnError
  <2>1. CASE r \in reports
    BY <2>1 DEF CallInv, OwnError
  <2>2. CASE r = [call |-> call[g], kind |-> Head(script[g]).onError,
                  popped |-> queue[t]]
    <3>1. r.call = call[g] /\ r.kind = Head(script[g]).onError /\ r.popped = queue[t]
      BY <2>2
    <3>2. thread[g] # None /\ t = thread[g]
      BY <1>1, <1>3, <3>1 DEF CallInv, PinnedFailed
    <3>3. HasError(g)
      BY <1>1, <3>2 DEF CallInv, IInv, Pending
    <3> QED  BY <3>1, <3>2, <3>3 DEF HasError
  <2> QED  BY <1>2, <2>1, <2>2
<1>11. Reported'
  <2> SUFFICES ASSUME NEW r \in reports'
               PROVE  r.call \in 1 .. Len(made) /\ r.popped \subseteq 1 .. Len(made)
    BY <1>7 DEF Reported
  <2>1. CASE r \in reports
    BY <2>1 DEF CallInv, Reported
  <2>2. CASE r = [call |-> call[g], kind |-> Head(script[g]).onError,
                  popped |-> queue[t]]
    BY <1>4, <1>9, <2>2
  <2> QED  BY <1>2, <2>1, <2>2
<1>12. HealthyConnection'
  <2> SUFFICES ASSUME NEW r \in reports', r.kind = "ssl", r.call \notin r.popped
               PROVE  /\ made[r.call] # "handshake"
                      /\ \A i \in r.popped : made[i] \notin Tidy
    BY <1>7 DEF HealthyConnection
  <2>1. CASE r \in reports
    BY <2>1 DEF CallInv, HealthyConnection
  <2>2. CASE r = [call |-> call[g], kind |-> Head(script[g]).onError,
                  popped |-> queue[t]]
    <3>1. /\ r.call = call[g] /\ r.popped = queue[t]
          /\ Head(script[g]).onError = "ssl"
      BY <2>2
    <3>2. /\ thread[g] # None
          /\ made[call[g]] = "handshake" => call[g] \in queue[thread[g]]
      BY <1>1, <3>1 DEF CallInv, SslFailed
    <3>3. t = thread[g]
      BY <1>3, <3>2
    <3>4. ASSUME NEW i \in queue[t], made[i] \in Tidy PROVE FALSE
      <4>1. PICK h \in Goroutines : call[h] = i /\ failed[h] /\ thread[h] = t
        BY <1>3, <3>4 DEF CallInv, Owned
      <4>2. h = g
        BY <3>2, <3>3, <4>1 DEF CallInv, IInv, Exclusive
      <4> QED  BY <3>1, <4>1, <4>2
    <3> QED  BY <3>1, <3>2, <3>3, <3>4
  <2> QED  BY <1>2, <2>1, <2>2
<1>13. PICK q, c, s, l, o : q = {} /\ c = 0 /\ s = <<>> /\ l = None /\ o = {}
  OBVIOUS
<1>14. Changes(g, t, q, c, s, l, o)
  BY <1>2, <1>7, <1>8, <1>13 DEF Changes
<1>15. Continues(g, t, q, c, s, l, o)
  BY <1>8, <1>13 DEF Continues
<1> QED
  BY <1>10, <1>11, <1>12, <1>14, <1>15, OtherCourses

\* every step keeps CallInv
LEMMA NextCallInv == CallInv /\ [Next]_vars => CallInv'
<1> SUFFICES ASSUME CallInv, [Next]_vars PROVE CallInv'
  OBVIOUS
<1>1. IInv'
  BY NextIInv DEF CallInv
<1>2. CASE UNCHANGED callVars
  <2>1. /\ queue' = queue /\ made' = made /\ call' = call /\ script' = script
        /\ failed' = failed /\ thread' = thread /\ held' = held
        /\ reports' = reports /\ leaked' = leaked
    BY <1>2 DEF callVars
  <2>2. Types' /\ Reported'
    BY <2>1 DEF CallInv, Types, Reported
  <2>3. Courses' /\ Owned' /\ SslFailed' /\ PinnedFailed'
    BY <2>1 DEF CallInv, Courses, Owned, SslFailed, PinnedFailed
  <2>4. OwnError' /\ HealthyConnection' /\ leaked' \subseteq Excepted
    BY <2>1 DEF CallInv, OwnError, HealthyConnection
  <2> QED  BY <1>1, <2>2, <2>3, <2>4 DEF CallInv
<1>3. ASSUME NEW g \in Goroutines,
             Call(g) \/ Succeed(g) \/ Fail(g) \/ HealthyWait(g) \/ PopError(g)
      PROVE  CallInv'
  BY <1>1, <1>3, CallCallInv, SucceedCallInv, FailCallInv, HealthyWaitCallInv,
     PopErrorCallInv
<1>4. \/ UNCHANGED callVars
      \/ \E g \in Goroutines :
            Call(g) \/ Succeed(g) \/ Fail(g) \/ HealthyWait(g) \/ PopError(g)
  BY DEF Next, Run, Crash, vars
<1> QED
  BY <1>2, <1>3, <1>4

\* the call that crashed is one that was made
CrashedIn == crashed \in 0 .. Len(made)

LEMMA NextCrashedIn == CallInv /\ CrashedIn /\ [Next]_vars => CrashedIn'
<1> SUFFICES ASSUME CallInv, CrashedIn, [Next]_vars PROVE CrashedIn'
  OBVIOUS
<1>1. made \in Seq(Functions) /\ Len(made) \in Nat
  BY DEF CallInv, Types
<1>2. CASE UNCHANGED vars
  BY <1>2 DEF vars, callVars, CrashedIn
<1>3. ASSUME NEW g \in Goroutines, Crash(g)
      PROVE  CrashedIn'
  <2>1. call[g] \in 0 .. Len(made)
    BY DEF CallInv, Types
  <2> QED  BY <1>3, <2>1 DEF Crash, callVars, CrashedIn
<1>4. ASSUME NEW g \in Goroutines, Call(g), crashed' = crashed
      PROVE  CrashedIn'
  <2>1. PICK f \in Functions : made' = Append(made, f)
    BY <1>4 DEF Call, Functions
  <2>2. Len(made') = Len(made) + 1
    BY <1>1, <2>1
  <2> QED  BY <1>1, <1>4, <2>2 DEF CrashedIn
<1>5. ASSUME NEW g \in Goroutines, crashed' = crashed,
             Succeed(g) \/ Fail(g) \/ HealthyWait(g) \/ PopError(g)
      PROVE  CrashedIn'
  <2>1. made' = made
    BY <1>5 DEF Succeed, Fail, HealthyWait, PopError, GoOn, Return
  <2> QED  BY <1>5, <2>1, SMTT(30) DEF CrashedIn
<1> QED
  BY <1>2, <1>3, <1>4, <1>5 DEF Next, Run

(* The variables have their types; a goroutine in no call holds nothing    *)
(* and is locked to no thread, whatever path its last call returned by.    *)
THEOREM CallsTypes == Spec => []TypeOK
<1>1. CallInv /\ CrashedIn => TypeOK
  <2> SUFFICES ASSUME CallInv, CrashedIn PROVE TypeOK
    OBVIOUS
  <2>1. /\ queue \in [Threads -> SUBSET (1 .. Len(made))] /\ Len(made) <= MaxCalls
        /\ call \in [Goroutines -> 0 .. Len(made)]
    BY DEF CallInv, Types
  <2>2. held \in [Goroutines -> SUBSET (Objects \X {"defer", "finalizer", "hand"})]
    BY DEF CallInv, Types, Ways
  <2>3. \A i \in DOMAIN made : made[i] \in Functions
    BY DEF CallInv, Types
  <2>4. \A r \in reports : r.call \in 1 .. Len(made)
    BY DEF CallInv, Reported
  <2>5. failed \in [Goroutines -> BOOLEAN] /\ thread \in [Goroutines -> Threads \cup {None}]
    BY DEF CallInv, IInv, Shape
  <2>6. \A g \in Goroutines : call[g] = 0 =>
          /\ script[g] = <<>> /\ ~failed[g] /\ held[g] = {} /\ thread[g] = None
    BY DEF CallInv, IInv, Idle, Courses
  <2>7. \A g, h \in Goroutines :
          g # h /\ thread[g] # None => thread[g] # thread[h]
    BY DEF CallInv, IInv, Exclusive
  <2>8. crashed \in 0 .. Len(made)
    BY DEF CrashedIn
  <2> QED  BY <2>1, <2>2, <2>3, <2>4, <2>5, <2>6, <2>7, <2>8 DEF TypeOK
<1>2. Init => CrashedIn
  BY DEF Init, CrashedIn
<1> QED
  BY InitCallInv, NextCallInv, <1>1, <1>2, NextCrashedIn, PTL DEF Spec

(* PopError reports to each function of ctx.go and conn.go, but            *)
(* SetClientALPNProtos, and to LoadCertificateFromPEM the error of its own *)
(* C call, for any number of goroutines, threads and calls.                *)
THEOREM OwnErrorHolds == Spec => []OwnError
<1>1. CallInv => OwnError
  BY DEF CallInv
<1> QED
  BY InitCallInv, NextCallInv, <1>1, PTL DEF Spec

(* A connection that only waits is torn down with somebody else's error by *)
(* no function of Tidy, and a handshake by nobody's, for any number of     *)
(* goroutines, threads and calls.                                          *)
THEOREM HealthyConnectionHolds == Spec => []HealthyConnection
<1>1. CallInv => HealthyConnection
  BY DEF CallInv
<1> QED
  BY InitCallInv, NextCallInv, <1>1, PTL DEF Spec

(* Whichever C call of whichever path of a function fails, what the call   *)
(* had acquired is freed, returned or owned, but for the seven exceptions  *)
(* that NoLeak names: key.go:549-556, sm2.go:59-65 and cert.go:243-254.    *)
THEOREM NothingLeaks == Spec => []NoLeak
<1>1. CallInv => NoLeak
  BY DEF CallInv, NoLeak, Excepted
<1> QED
  BY InitCallInv, NextCallInv, <1>1, PTL DEF Spec
=============================================================================
