-------------------------- MODULE TxChannelProofs --------------------------
(***************************************************************************)
(* The channel TpdRing and AtlTx implement is a FIFO, whatever the set of  *)
(* packets.                                                                *)
(***************************************************************************)
EXTENDS TxChannel, TLAPS

\* Adding a packet behind all the others keeps the order strict and total.
LEMMA AcceptFifo ==
    ASSUME Fifo, NEW s \in Skbs, Accept(s)
    PROVE  Fifo'
<1>1. /\ s \notin queue /\ s \notin freed /\ freed' = freed
      /\ queue' = queue \cup {s} /\ before' = before \cup (queue \X {s})
  BY DEF Accept
<1>2. \A t \in queue', u \in queue' :
        <<t, u>> \in before' <=> <<t, u>> \in before \/ (t \in queue /\ u = s)
  BY <1>1
<1>3. \A t, u : <<t, u>> \in before => t \in queue /\ u \in queue
  BY DEF Fifo
<1>4. before' \subseteq queue' \X queue'
  BY <1>1 DEF Fifo
<1>5. \A t, u \in queue' : t # u => (<<t, u>> \in before' <=> <<u, t>> \notin before')
  <2> SUFFICES ASSUME NEW t \in queue', NEW u \in queue', t # u
               PROVE  <<t, u>> \in before' <=> <<u, t>> \notin before'
    OBVIOUS
  <2>1. CASE t = s \/ u = s
    BY <1>1, <1>2, <1>3, <2>1
  <2>2. CASE t # s /\ u # s
    BY <1>1, <1>2, <2>2 DEF Fifo
  <2> QED BY <2>1, <2>2
<1>6. \A t \in queue' : <<t, t>> \notin before'
  BY <1>1, <1>2, <1>3 DEF Fifo
<1>7. \A t, u, v \in queue' : <<t, u>> \in before' /\ <<u, v>> \in before' => <<t, v>> \in before'
  <2> SUFFICES ASSUME NEW t \in queue', NEW u \in queue', NEW v \in queue',
                      <<t, u>> \in before', <<u, v>> \in before'
               PROVE  <<t, v>> \in before'
    OBVIOUS
  <2>1. t \in queue /\ u \in queue
    BY <1>1, <1>2, <1>3
  <2>2. CASE v = s
    BY <1>2, <2>1, <2>2
  <2>3. CASE v # s
    BY <1>1, <1>2, <2>1, <2>3 DEF Fifo
  <2> QED BY <2>2, <2>3
<1>8. queue' \cap freed' = {}
  BY <1>1 DEF Fifo
<1> QED BY <1>4, <1>5, <1>6, <1>7, <1>8 DEF Fifo

\* Taking any packet out keeps the order of the others.
LEMMA DequeueFifo ==
    ASSUME Fifo, NEW s \in Skbs, Dequeue(s)
    PROVE  Fifo'
<1>1. /\ queue' = queue \ {s} /\ before' = before \cap (queue' \X queue')
      /\ freed' = freed \cup {s}
  BY DEF Dequeue
<1>2. \A t \in queue', u \in queue' : <<t, u>> \in before' <=> <<t, u>> \in before
  BY <1>1
<1>3. before' \subseteq queue' \X queue'
  BY <1>1
<1>4. queue' \cap freed' = {} /\ queue' \subseteq queue
  BY <1>1 DEF Fifo
<1> QED BY <1>2, <1>3, <1>4 DEF Fifo

LEMMA OtherFifo ==
    ASSUME Fifo, UNCHANGED <<queue, before>>, queue \cap freed' = {}
    PROVE  Fifo'
<1>1. queue' = queue /\ before' = before
  OBVIOUS
<1>2. queue' \cap freed' = {}
  BY <1>1
<1> QED BY <1>1, <1>2 DEF Fifo

LEMMA NextFifo ==
    ASSUME Fifo, [Next]_vars
    PROVE  Fifo'
<1>1. ASSUME NEW s \in Skbs, Accept(s)
      PROVE  Fifo'
  BY <1>1, AcceptFifo
<1>2. ASSUME NEW s \in Skbs, Release(s) \/ Purge(s)
      PROVE  Fifo'
  BY <1>2, DequeueFifo DEF Release, Purge
<1>3. ASSUME NEW s \in Skbs, Drop(s) \/ Reuse(s)
      PROVE  Fifo'
  <2>1. UNCHANGED <<queue, before>> /\ queue \cap freed' = {}
    BY <1>3 DEF Drop, Reuse, Fifo
  <2> QED BY <2>1, OtherFifo
<1>4. CASE Reset \/ UNCHANGED vars
  BY <1>4 DEF Reset, vars, Fifo
<1> QED BY <1>1, <1>2, <1>3, <1>4 DEF Next

\* The packets accepted and not yet released are in one strict total order, that
\* of their acceptance, and none of them has been released.
THEOREM ChannelIsFifo == Spec => []Fifo
<1>1. Init => Fifo
  BY DEF Init, Fifo
<1>2. Fifo /\ [Next]_vars => Fifo'
  BY NextFifo
<1> QED BY <1>1, <1>2, PTL DEF Spec

=============================================================================
