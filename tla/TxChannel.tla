----------------------------- MODULE TxChannel -----------------------------
(***************************************************************************)
(* What the transmit side of a network driver promises the network stack,  *)
(* whatever its rings look like: a packet handed to ndo_start_xmit is      *)
(* either refused (it stays with the stack), dropped, or accepted; the     *)
(* accepted packets are released exactly once, in the order of their       *)
(* acceptance, except that a device being reset releases the ones it still *)
(* has in any order, and accepts none until it has released them all.      *)
(* TpdRing and AtlTx implement it.                                         *)
(*                                                                         *)
(* The queue is a set with an order and not a sequence, so that the        *)
(* refinement can be proved slot by slot.                                  *)
(***************************************************************************)
CONSTANT Skbs

VARIABLES
    queue,    \* the packets accepted and not yet released
    before,   \* <<s, t>>: both are in the queue, s was accepted before t
    freed,    \* packets the driver has released and the stack not reused
    purging   \* the device is being reset

vars == <<queue, before, freed, purging>>

Init == queue = {} /\ before = {} /\ freed = {} /\ purging = FALSE

Accept(s) ==
    /\ ~purging
    /\ s \notin queue /\ s \notin freed
    /\ queue' = queue \cup {s}
    /\ before' = before \cup (queue \X {s})
    /\ UNCHANGED <<freed, purging>>

Drop(s) ==
    /\ s \notin queue /\ s \notin freed
    /\ freed' = freed \cup {s}
    /\ UNCHANGED <<queue, before, purging>>

\* A packet leaves the queue and is the stack's to reuse.
Dequeue(s) ==
    /\ s \in queue
    /\ queue' = queue \ {s}
    /\ before' = before \cap (queue' \X queue')
    /\ freed' = freed \cup {s}
    /\ UNCHANGED purging

Oldest(s) == \A t \in queue : <<t, s>> \notin before

Release(s) == Oldest(s) /\ Dequeue(s)

Purge(s) == purging /\ Dequeue(s)

Reuse(s) ==
    /\ s \in freed
    /\ freed' = freed \ {s}
    /\ UNCHANGED <<queue, before, purging>>

Reset ==
    /\ purging => queue = {}
    /\ purging' = ~purging
    /\ UNCHANGED <<queue, before, freed>>

Next ==
    \/ \E s \in Skbs : Accept(s) \/ Drop(s) \/ Release(s) \/ Reuse(s) \/ Purge(s)
    \/ Reset

Spec == Init /\ [][Next]_vars

(***************************************************************************)
(* Properties                                                              *)
(***************************************************************************)

\* The order of acceptance is a strict total order of the queue, and a packet
\* in it has not been released: that is what makes Release a FIFO's.
Fifo ==
    /\ before \subseteq queue \X queue
    /\ \A s, t \in queue : s # t => (<<s, t>> \in before <=> <<t, s>> \notin before)
    /\ \A s \in queue : <<s, s>> \notin before
    /\ \A s, t, u \in queue : <<s, t>> \in before /\ <<t, u>> \in before => <<s, u>> \in before
    /\ queue \cap freed = {}

=============================================================================
