---------------------------- MODULE FutureProofs ----------------------------
(***************************************************************************)
(* Safety of Future for any number of goroutines and calls.                *)
(***************************************************************************)
EXTENDS Future, TLAPS

\* The mutex is held exactly in the body of a method, and a goroutine that
\* has joined the notify list still holds it.
MutexInv ==
  \A c \in Clients : mutex = c <=> pc[c] \in {"body", "unlock"}

\* There is a value exactly when received says so.
ValueInv == received <=> val # None

\* A goroutine that saw Fired answer true is not asleep, and never will be.
FiredInv ==
  \A c \in Clients :
    fired[c] => received /\ pc[c] \notin {"unlock", "parked"}

IInv == TypeOK /\ MutexInv /\ ValueInv /\ NobodyLeftAsleep /\ FiredInv

LEMMA InitInv == Init => IInv
<1> SUFFICES ASSUME Init PROVE IInv
  OBVIOUS
<1>1. TypeOK
  <2>1. MaxCalls \in Nat
    BY FutureAssumption
  <2>2. calls \in [Clients -> 0..MaxCalls]
    BY <2>1 DEF Init
  <2>3. fired \in [Clients -> BOOLEAN] /\ received \in BOOLEAN
    BY DEF Init
  <2>4. /\ mutex \in Clients \cup {Nobody}
        /\ val \in Clients \cup {None} /\ notify \subseteq Clients
        /\ pc \in [Clients -> Pcs] /\ op \in [Clients -> Ops]
        /\ answer \in [Clients -> Clients \cup {None}]
    BY DEF Init, Pcs, Ops
  <2> QED BY <2>2, <2>3, <2>4 DEF TypeOK
<1>2. MutexInv
  BY FutureAssumption DEF Init, MutexInv
<1>3. ValueInv /\ NobodyLeftAsleep /\ FiredInv
  BY DEF Init, ValueInv, NobodyLeftAsleep, FiredInv
<1> QED BY <1>1, <1>2, <1>3 DEF IInv

LEMMA StepInv ==
  ASSUME IInv, [Next]_vars
  PROVE  IInv'
<1> USE FutureAssumption
<1>1. ASSUME NEW c \in Clients, NEW o \in Ops, Call(c, o)
      PROVE  IInv'
  BY <1>1
  DEF Call, Goto, IInv, TypeOK, MutexInv, ValueInv, NobodyLeftAsleep, FiredInv,
      Pcs
<1>2. ASSUME NEW c \in Clients, Lock(c)
      PROVE  IInv'
  BY <1>2
  DEF Lock, Goto, IInv, TypeOK, MutexInv, ValueInv, NobodyLeftAsleep, FiredInv,
      Pcs
<1>3. ASSUME NEW c \in Clients, GetAnswer(c)
      PROVE  IInv'
  BY <1>3
  DEF GetAnswer, Return, Goto, IInv, TypeOK, MutexInv, ValueInv,
      NobodyLeftAsleep, FiredInv, Pcs
<1>4. ASSUME NEW c \in Clients, WaitJoin(c)
      PROVE  IInv'
  BY <1>4
  DEF WaitJoin, Goto, IInv, TypeOK, MutexInv, ValueInv, NobodyLeftAsleep,
      FiredInv, Pcs
<1>5. ASSUME NEW c \in Clients, WaitUnlock(c)
      PROVE  IInv'
  BY <1>5
  DEF WaitUnlock, Goto, IInv, TypeOK, MutexInv, ValueInv, NobodyLeftAsleep,
      FiredInv, Pcs
<1>6. ASSUME NEW c \in Clients, WaitWake(c)
      PROVE  IInv'
  BY <1>6
  DEF WaitWake, Goto, IInv, TypeOK, MutexInv, ValueInv, NobodyLeftAsleep,
      FiredInv, Pcs
<1>7. ASSUME NEW c \in Clients, Set(c)
      PROVE  IInv'
  BY <1>7
  DEF Set, AlreadySet, StillAsleep, Return, Goto, IInv, TypeOK, MutexInv,
      ValueInv, NobodyLeftAsleep, FiredInv, Pcs
<1>8. ASSUME NEW c \in Clients, Fired(c)
      PROVE  IInv'
  BY <1>8
  DEF Fired, IsFired, Return, Goto, IInv, TypeOK, MutexInv, ValueInv,
      NobodyLeftAsleep, FiredInv, Pcs
<1>9. CASE UNCHANGED vars
  BY <1>9
  DEF vars, IInv, TypeOK, MutexInv, ValueInv, NobodyLeftAsleep, FiredInv
<1> QED
  BY <1>1, <1>2, <1>3, <1>4, <1>5, <1>6, <1>7, <1>8, <1>9 DEF Next, Step, Done

LEMMA Invariance == Init /\ [][Next]_vars => []IInv
<1>1. IInv /\ [Next]_vars => IInv'
  BY StepInv
<1> QED BY <1>1, InitInv, PTL

\* No lost wakeup: Set leaves nobody on the notify list, and nobody joins it
\* after.
THEOREM NoLostWakeup == Spec => []NobodyLeftAsleep
<1>1. IInv => NobodyLeftAsleep
  BY DEF IInv
<1> QED BY <1>1, Invariance, PTL DEF Spec

\* "If Fired is true, Get won't block."
THEOREM FiredIsRight == Spec => []FiredGetDoesNotBlock
<1>1. IInv => FiredGetDoesNotBlock
  BY DEF IInv, FiredInv, FiredGetDoesNotBlock
<1> QED BY <1>1, Invariance, PTL DEF Spec

\* Refinement: the future takes one value, the first, and every Get answers
\* it.
THEOREM ImplementsAtomicFuture == Spec => KeepsFirstValue
<1>1. Init => Abstract!Init
  BY DEF Init, Abstract!Init
<1>2. IInv /\ [Next]_vars => [Abstract!Next]_<<val, answer>>
  <2> SUFFICES ASSUME IInv, [Next]_vars
               PROVE  [Abstract!Next]_<<val, answer>>
    OBVIOUS
  <2>1. ASSUME NEW c \in Clients, GetAnswer(c)
        PROVE  Abstract!Get(c)
    BY <2>1 DEF GetAnswer, Abstract!Get, IInv, ValueInv
  <2>2. ASSUME NEW c \in Clients, Set(c)
        PROVE  Abstract!Set \/ UNCHANGED <<val, answer>>
    BY <2>2 DEF Set, AlreadySet, Abstract!Set, IInv, ValueInv
  <2>3. ASSUME NEW c \in Clients,
               \/ \E o \in Ops : Call(c, o)
               \/ Lock(c) \/ WaitJoin(c) \/ WaitUnlock(c) \/ WaitWake(c)
               \/ Fired(c)
        PROVE  UNCHANGED <<val, answer>>
    BY <2>3 DEF Call, Lock, WaitJoin, WaitUnlock, WaitWake, Fired
  <2>4. UNCHANGED vars => UNCHANGED <<val, answer>>
    BY DEF vars
  <2> QED BY <2>1, <2>2, <2>3, <2>4 DEF Next, Step, Done, Abstract!Next
<1> QED
  BY <1>1, <1>2, Invariance, PTL DEF Spec, KeepsFirstValue, Abstract!Spec
=============================================================================
