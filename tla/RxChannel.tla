----------------------------- MODULE RxChannel -----------------------------
(***************************************************************************)
(* What the receive side of a network driver promises: the buffers the NIC *)
(* has filled are handed to the stack or discarded in the order in which   *)
(* they were filled, each of them once.  RxRing implements it.             *)
(*                                                                         *)
(* As in TxChannel, what waits is a set with an order.                     *)
(***************************************************************************)
CONSTANT Skbs

VARIABLES
    filled,   \* buffers the NIC has filled and nobody has taken
    before,   \* <<s, t>>: both are in filled, s was filled before t
    stack     \* buffers the stack holds

vars == <<filled, before, stack>>

Init == filled = {} /\ before = {} /\ stack = {}

Fill(s) ==
    /\ s \notin filled /\ s \notin stack
    /\ filled' = filled \cup {s}
    /\ before' = before \cup (filled \X {s})
    /\ UNCHANGED stack

\* The oldest buffer is taken.
Take(s) ==
    /\ s \in filled
    /\ \A t \in filled : <<t, s>> \notin before
    /\ filled' = filled \ {s}
    /\ before' = before \cap (filled' \X filled')

Deliver(s) == Take(s) /\ stack' = stack \cup {s}

Discard(s) == Take(s) /\ UNCHANGED stack

StackFree(s) ==
    /\ s \in stack
    /\ stack' = stack \ {s}
    /\ UNCHANGED <<filled, before>>

\* A device that goes down forgets what it has received.
Flush ==
    /\ filled' = {} /\ before' = {}
    /\ UNCHANGED stack

Next ==
    \/ \E s \in Skbs : Fill(s) \/ Deliver(s) \/ Discard(s) \/ StackFree(s)
    \/ Flush

Spec == Init /\ [][Next]_vars
=============================================================================
