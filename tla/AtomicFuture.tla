---------------------------- MODULE AtomicFuture ----------------------------
(***************************************************************************)
(* What a future promises: it takes one value, once, and every Get answers *)
(* that value.                                                             *)
(***************************************************************************)
CONSTANTS Clients, Values, None

VARIABLES
  value,  \* the value, None before it is set
  answer  \* client -> what its last finished Get answered

Init == value = None /\ answer = [c \in Clients |-> None]

Set == value = None /\ value' \in Values /\ UNCHANGED answer

Get(c) ==
  /\ value # None
  /\ answer' = [answer EXCEPT ![c] = value]
  /\ UNCHANGED value

Next == Set \/ \E c \in Clients : Get(c)

Spec == Init /\ [][Next]_<<value, answer>>
=============================================================================
