------------------------------- MODULE Future -------------------------------
(***************************************************************************)
(* utils/future.go: Future, a value that is set once and that goroutines   *)
(* wait for, built on a sync.Mutex and a sync.Cond.                        *)
(***************************************************************************)
EXTENDS Naturals

CONSTANTS
  Clients,  \* goroutines that call Get, Set and Fired
  Nobody,   \* a free mutex
  None,     \* no value
  MaxCalls  \* bound: calls each goroutine makes

ASSUME FutureAssumption ==
  Nobody \notin Clients /\ None \notin Clients /\ MaxCalls \in Nat

VARIABLES
  mutex,    \* holder of f.mutex
  received, val,
  notify,   \* the goroutines on the notify list of f.cond
  pc,       \* client -> where it is
  op,       \* client -> the method it is in, or was last in
  calls,    \* client -> calls made
  answer,   \* client -> what its last Get answered
  fired     \* client -> some Fired answered true to it

vars == <<mutex, received, val, notify, pc, op, calls, answer, fired>>

Ops == {"Get", "Set", "Fired"}
Pcs == {"idle", "lock", "body", "unlock", "parked"}

Init ==
  /\ mutex = Nobody /\ received = FALSE /\ val = None /\ notify = {}
  /\ pc = [c \in Clients |-> "idle"]
  /\ op = [c \in Clients |-> "Get"]
  /\ calls = [c \in Clients |-> 0]
  /\ answer = [c \in Clients |-> None]
  /\ fired = [c \in Clients |-> FALSE]

Goto(c, p) == pc' = [pc EXCEPT ![c] = p]

Call(c, o) ==
  /\ pc[c] = "idle" /\ calls[c] < MaxCalls
  /\ op' = [op EXCEPT ![c] = o]
  /\ calls' = [calls EXCEPT ![c] = @ + 1]
  /\ Goto(c, "lock")
  /\ UNCHANGED <<mutex, received, val, notify, answer, fired>>

\* f.mutex.Lock, at the start of each method and at the end of cond.Wait.
Lock(c) ==
  /\ pc[c] = "lock" /\ mutex = Nobody
  /\ mutex' = c
  /\ Goto(c, "body")
  /\ UNCHANGED <<received, val, notify, op, calls, answer, fired>>

\* The method returns: its deferred Unlock runs.
Return(c) == mutex' = Nobody /\ Goto(c, "idle")

GetAnswer(c) ==
  /\ pc[c] = "body" /\ op[c] = "Get" /\ received
  /\ answer' = [answer EXCEPT ![c] = val]
  /\ Return(c)
  /\ UNCHANGED <<received, val, notify, op, calls, fired>>

\* cond.Wait joins the notify list before it unlocks the mutex, and then
\* sleeps for as long as it is on the list.
WaitJoin(c) ==
  /\ pc[c] = "body" /\ op[c] = "Get" /\ ~received
  /\ notify' = notify \cup {c}
  /\ Goto(c, "unlock")
  /\ UNCHANGED <<mutex, received, val, op, calls, answer, fired>>

WaitUnlock(c) ==
  /\ pc[c] = "unlock"
  /\ mutex' = Nobody
  /\ Goto(c, "parked")
  /\ UNCHANGED <<received, val, notify, op, calls, answer, fired>>

WaitWake(c) ==
  /\ pc[c] = "parked" /\ c \notin notify
  /\ Goto(c, "lock")
  /\ UNCHANGED <<mutex, received, val, notify, op, calls, answer, fired>>

\* Who stays on the list after Set.  (The slip: Signal instead of Broadcast.)
BadStillAsleep ==
  IF notify = {} THEN {} ELSE notify \ {CHOOSE c \in notify : TRUE}
StillAsleep == {}

\* The test at the head of Set.  (The slip: it is not there.)
BadAlreadySet == FALSE
AlreadySet == received

\* Set stores a value (here its caller's name) unless one is there.
Set(c) ==
  /\ pc[c] = "body" /\ op[c] = "Set"
  /\ IF AlreadySet
     THEN UNCHANGED <<received, val, notify>>
     ELSE received' = TRUE /\ val' = c /\ notify' = StillAsleep
  /\ Return(c)
  /\ UNCHANGED <<op, calls, answer, fired>>

\* What Fired answers.  (The slip: whether somebody is in Set already.)
BadIsFired == \E c \in Clients : pc[c] # "idle" /\ op[c] = "Set"
IsFired == received

Fired(c) ==
  /\ pc[c] = "body" /\ op[c] = "Fired"
  /\ fired' = [fired EXCEPT ![c] = @ \/ IsFired]
  /\ Return(c)
  /\ UNCHANGED <<received, val, notify, op, calls, answer>>

Step(c) ==
  \/ Lock(c) \/ GetAnswer(c) \/ WaitJoin(c) \/ WaitUnlock(c) \/ WaitWake(c)
  \/ Set(c) \/ Fired(c)

\* The run ends when all calls are made, or when nobody is left to call Set.
Done ==
  /\ \A c \in Clients :
       \/ pc[c] = "idle" /\ calls[c] = MaxCalls
       \/ pc[c] = "parked" /\ ~received
  /\ UNCHANGED vars

Next ==
  \/ \E c \in Clients : Step(c) \/ \E o \in Ops : Call(c, o)
  \/ Done

\* The Go scheduler runs every goroutine that can run, and sync.Mutex does
\* not starve a waiter.
Spec == Init /\ [][Next]_vars /\ \A c \in Clients : SF_vars(Step(c))

(***************************************************************************)
(* Properties.                                                             *)
(***************************************************************************)
TypeOK ==
  /\ mutex \in Clients \cup {Nobody} /\ received \in BOOLEAN
  /\ val \in Clients \cup {None} /\ notify \subseteq Clients
  /\ pc \in [Clients -> Pcs] /\ op \in [Clients -> Ops]
  /\ calls \in [Clients -> 0..MaxCalls]
  /\ answer \in [Clients -> Clients \cup {None}]
  /\ fired \in [Clients -> BOOLEAN]

\* No lost wakeup: once the value is there nobody is left on the notify list.
NobodyLeftAsleep == received => notify = {}

\* "If Fired is true, Get won't block" (the comment on Fired): a goroutine
\* that saw Fired answer true never sleeps in a Get.
FiredGetDoesNotBlock ==
  \A c \in Clients : fired[c] => pc[c] \notin {"unlock", "parked"}

\* The future keeps the first value it is given, and every Get answers that
\* value ("If Set has already been called, this is a no-op").
Abstract ==
  INSTANCE AtomicFuture WITH Values <- Clients, value <- val
KeepsFirstValue == Abstract!Spec

\* Every call returns once a value is there.
CallsReturn ==
  \A c \in Clients : (received /\ pc[c] # "idle") ~> (pc[c] = "idle")
=============================================================================
