---------------------------- MODULE ReceiveWindow ---------------------------
(***************************************************************************)
(* What a receiving chain promises, without its data structures: a message *)
(* is handed over at most once, and one that was passed over can still be  *)
(* handed over until it expires.  Messages expire only when a later one is *)
(* handed over, the oldest first.                                          *)
(***************************************************************************)
EXTENDS Integers

CONSTANT MaxCounter

Counters == 0..MaxCounter

VARIABLES
    delivered,  \* messages handed over
    expired     \* messages that can no longer be handed over

vars == <<delivered, expired>>

Init == delivered = {} /\ expired = {}

\* Passed over by c or before, and still waiting.
Waiting(c) == {w \in Counters : w < c} \ (delivered \cup expired)

Deliver(c) ==
    /\ c \notin delivered \cup expired
    /\ delivered' = delivered \cup {c}
    /\ \E old \in SUBSET Waiting(c) :
          /\ \A o \in old, w \in Waiting(c) \ old : o < w
          /\ expired' = expired \cup old

Next == \E c \in Counters : Deliver(c)

Spec == Init /\ [][Next]_vars
=============================================================================
