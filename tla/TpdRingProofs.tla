--------------------------- MODULE TpdRingProofs ---------------------------
(***************************************************************************)
(* Proofs about TpdRing, for every ring size, set of packets and of CPUs.  *)
(***************************************************************************)
EXTENDS TpdRing, TLAPS

USE CountAssumption, ShapeAssumption, NoneAssumption, MaxIntWorkAssumption

(***************************************************************************)
(* Ring arithmetic.                                                        *)
(***************************************************************************)

LEMMA SuccType == \A i \in Slots : Succ(i) \in Slots
BY DEF Slots, Succ

LEMMA DistIs == \A a, b \in Slots : Dist(a, b) = IF a <= b THEN b - a ELSE b - a + Count
BY DEF Slots, Dist

LEMMA DistType == \A a, b \in Slots : Dist(a, b) \in 0 .. Count - 1
BY DEF Slots, Dist

LEMMA DistZero == \A a, b \in Slots : Dist(a, b) = 0 <=> a = b
BY DEF Slots, Dist

\* Equal distances from one point are one slot.
LEMMA DistInjective == \A a, b, c \in Slots : Dist(a, b) = Dist(a, c) => b = c
BY DEF Slots, Dist

\* A step of the far end lengthens the distance, unless it would close the ring.
LEMMA DistSuccFar ==
    \A a, b \in Slots : Dist(a, b) + 1 < Count => Dist(a, Succ(b)) = Dist(a, b) + 1
BY DEF Slots, Dist, Succ

\* A step of the near end shortens it.
LEMMA DistSuccNear ==
    \A a, b \in Slots : a # b => Dist(Succ(a), b) = Dist(a, b) - 1
BY DEF Slots, Dist, Succ

\* atl1c_tpd_avail keeps one slot back.
LEMMA AvailIsRoom ==
    next_to_clean \in Slots /\ next_to_use \in Slots =>
        Avail = Count - 1 - Dist(next_to_clean, next_to_use)
BY DEF Slots, Dist, Avail

\* atl1c_cal_tpd_req asks for what atl1c_tso_csum and atl1c_tx_map take.
LEMMA ReqCoversPieces ==
    \A s \in Skbs :
        /\ Pieces(s) \in Nat /\ TpdReq(s) \in Nat
        /\ 1 <= Pieces(s) /\ Pieces(s) <= TpdReq(s)
        /\ Shape[s].gso = "tcp6" => Pieces(s) + 1 <= TpdReq(s)
<1>1. TAKE s \in Skbs
<1>2. Shape[s].frags \in Nat
  BY DEF Shapes
<1> QED BY <1>2 DEF Pieces, TpdReq, Lso

(***************************************************************************)
(* IInv is inductive.                                                      *)
(***************************************************************************)

LEMMA InitIInv == Init => IInv
<1> SUFFICES ASSUME Init PROVE IInv
  OBVIOUS
<1> USE DEF Init
<1>1. 0 \in Slots
  BY DEF Slots
<1>2. TypeOK
  <2>1. buffer_info \in [Slots -> Buffers]
    BY DEF Buffers, NoBuffer, FreshBuffer
  <2>2. desc \in [Slots -> Descs]
    BY DEF Descs, ZeroDesc
  <2>3. intr \in [pc : {"idle", "status", "read", "clean", "publish"},
                   work : 0 .. MaxIntWork, idx : Slots, hw : Slots]
    BY <1>1 DEF IntrIdle
  <2> QED BY <1>1, <2>1, <2>2, <2>3 DEF TypeOK
<1>3. LockInv
  BY DEF LockInv, Locked
<1>4. ProducerInv
  BY DEF ProducerInv, LockInv
<1>5. ConsumerInv
  BY DEF ConsumerInv, IntrIdle
<1>6. RingOrder
  BY <1>1, DistType DEF RingOrder
<1> QED BY <1>2, <1>3, <1>4, <1>5, <1>6 DEF IInv

LEMMA EnterStep ==
    ASSUME IInv, NEW c \in Cpus, NEW s \in Skbs, XmitEnter(c, s)
    PROVE  IInv'
<1> USE DEF IInv, XmitEnter, ringVars, hwVars, netVars, Goto
<1>1. TypeOK'
  BY DEF TypeOK
<1>2. LockInv'
  BY DEF LockInv, Locked, TypeOK
<1>3. ProducerInv'
  BY DEF ProducerInv, LockInv, Locked, TypeOK, Need
<1>4. ConsumerInv'
  BY DEF ConsumerInv
<1>5. RingOrder'
  BY DEF RingOrder
<1> QED BY <1>1, <1>2, <1>3, <1>4, <1>5

\* What the steps of a CPU in the ring share: it holds the lock, it alone.
LEMMA Alone ==
    ASSUME TypeOK, LockInv, NEW c \in Cpus, pc[c] \in Locked
    PROVE  /\ tx_lock = c
           /\ skb[c] \in Skbs
           /\ \A d \in Cpus : d # c => pc[d] \notin Locked /\ tx_lock # d
BY DEF LockInv, Locked

LEMMA Distances ==
    ASSUME TypeOK
    PROVE  /\ Dist(next_to_clean, next_to_use) \in 0 .. Count - 1
           /\ Dist(next_to_clean, pidx) \in 0 .. Count - 1
           /\ Dist(next_to_clean, cidx) \in 0 .. Count - 1
           /\ \A c \in Cpus : Dist(next_to_clean, first[c]) \in 0 .. Count - 1
BY DistType DEF TypeOK

LEMMA CleanBufferType == \A b \in Buffers : CleanBuffer(b) \in Buffers
BY DEF CleanBuffer, Buffers, NoBuffer

LEMMA ZeroDescType == ZeroDesc \in Descs
BY DEF ZeroDesc, Descs

LEMMA DescType ==
    \A k \in {"zero", "ext", "data"}, e \in BOOLEAN : [kind |-> k, eop |-> e] \in Descs
BY DEF Descs

LEMMA ZeroSlot == 0 \in Slots
BY CountAssumption DEF Slots

LEMMA LockStep ==
    ASSUME IInv, NEW c \in Cpus, XmitLock(c)
    PROVE  IInv'
<1> USE DEF IInv, XmitLock, ringVars, hwVars, netVars, Goto, Leave
<1>1. TypeOK'
  BY ZeroSlot DEF TypeOK
<1>2. LockInv'
  BY DEF LockInv, Locked, TypeOK
<1>3. ProducerInv'
  BY Distances DEF ProducerInv, LockInv, Locked, TypeOK, Need
<1>4. ConsumerInv'
  BY DEF ConsumerInv
<1>5. RingOrder'
  BY DEF RingOrder
<1> QED BY <1>1, <1>2, <1>3, <1>4, <1>5

LEMMA StopStep ==
    ASSUME IInv, NEW c \in Cpus, XmitStop(c)
    PROVE  IInv'
<1> USE DEF IInv, XmitStop, ringVars, hwVars, netVars, Goto, Leave, Return
<1>1. TypeOK'
  BY ZeroSlot DEF TypeOK
<1>2. LockInv'
  BY DEF LockInv, Locked, TypeOK
<1>3. ProducerInv'
  BY DEF ProducerInv, LockInv, Locked, TypeOK, Need
<1>4. ConsumerInv'
  BY DEF ConsumerInv
<1>5. RingOrder'
  BY DEF RingOrder
<1> QED BY <1>1, <1>2, <1>3, <1>4, <1>5

LEMMA AvailStep ==
    ASSUME IInv, NEW c \in Cpus, XmitAvail(c)
    PROVE  IInv'
<1> USE DEF IInv, XmitAvail, ringVars, hwVars, netVars, Goto
<1>a. /\ tx_lock = c /\ skb[c] \in Skbs
      /\ \A d \in Cpus : d # c => pc[d] \notin Locked /\ tx_lock # d
  BY Alone DEF Locked
<1>b. next_to_use \in Slots /\ next_to_clean \in Slots /\ Succ(next_to_use) \in Slots
  BY SuccType DEF TypeOK
\* If there is room, the free space covers all the packet will take.
<1>c. Avail >= TpdReq(skb[c]) =>
        /\ Dist(next_to_clean, next_to_use) + TpdReq(skb[c]) < Count
        /\ Dist(next_to_clean, Succ(next_to_use)) = Dist(next_to_clean, next_to_use) + 1
  BY <1>a, <1>b, AvailIsRoom, ReqCoversPieces, DistSuccFar, Distances
<1>1. TypeOK'
  <2>1. desc' \in [Slots -> Descs] /\ next_to_use' \in Slots
    BY <1>b, ZeroDescType DEF GetTpd, TypeOK
  <2>2. first' \in [Cpus -> Slots]
    BY <1>b DEF TypeOK
  <2> QED BY <2>1, <2>2 DEF TypeOK
<1>2. LockInv'
  BY DEF LockInv, Locked, TypeOK
<1>3. ProducerInv'
  <2>1. CASE Avail < TpdReq(skb[c])
    <3>1. UNCHANGED <<next_to_use, first>> /\ pc' = [pc EXCEPT ![c] = "stop"]
      BY <2>1, <1>a, <1>b, AvailIsRoom, ReqCoversPieces, Distances
    <3> QED BY <3>1, <1>a, Distances DEF ProducerInv, Locked, TypeOK, Need
  <2>2. CASE Avail >= TpdReq(skb[c])
    <3>1. /\ next_to_use' = Succ(next_to_use)
          /\ first' = [first EXCEPT ![c] = next_to_use]
          /\ pc' = [pc EXCEPT ![c] = "offload"]
      BY <2>2, <1>a, <1>b, AvailIsRoom, ReqCoversPieces, Distances DEF GetTpd
    <3>2. SUFFICES ASSUME NEW d \in Cpus
                   PROVE  ProducerInv!(d)'
      BY DEF ProducerInv
    <3>3. CASE d # c
      BY <3>1, <3>3, <1>a DEF ProducerInv, Locked, TypeOK
    <3>4. CASE d = c
      <4>1. Need(c)' = TpdReq(skb[c]) - 1
        BY <3>1 DEF Need, TypeOK
      <4> QED BY <3>1, <3>4, <4>1, <1>a, <1>b, <1>c, <2>2, Distances, ReqCoversPieces
              DEF RingOrder, TypeOK
    <3> QED BY <3>3, <3>4
  <2> QED BY <2>1, <2>2, <1>a, <1>b, AvailIsRoom, ReqCoversPieces, Distances
<1>4. ConsumerInv'
  BY DEF ConsumerInv
<1>5. RingOrder'
  BY <1>c, Distances DEF RingOrder, GetTpd
<1> QED BY <1>1, <1>2, <1>3, <1>4, <1>5

LEMMA OffloadFailStep ==
    ASSUME IInv, NEW c \in Cpus, XmitOffloadFail(c)
    PROVE  IInv'
<1> USE DEF IInv, XmitOffloadFail, ringVars, hwVars, netVars, Goto, Leave, Return
<1>a. /\ tx_lock = c /\ skb[c] \in Skbs
      /\ \A d \in Cpus : d # c => pc[d] \notin Locked /\ tx_lock # d
  BY Alone DEF Locked
<1>b. next_to_use \in Slots /\ next_to_clean \in Slots /\ Succ(next_to_use) \in Slots
  BY SuccType DEF TypeOK
\* The IPv6 path may have taken the second descriptor: there was room for it.
<1>c. Shape[skb[c]].gso = "tcp6" =>
        Dist(next_to_clean, Succ(next_to_use)) = Dist(next_to_clean, next_to_use) + 1
  <2>1. Need(c) = TpdReq(skb[c]) - 1
    BY DEF Need
  <2> QED BY <2>1, <1>a, <1>b, ReqCoversPieces, DistSuccFar, Distances DEF ProducerInv
<1>d. \/ UNCHANGED <<desc, next_to_use>>
      \/ Shape[skb[c]].gso = "tcp6" /\ GetTpd
  OBVIOUS
<1>1. TypeOK'
  <2>1. desc' \in [Slots -> Descs] /\ next_to_use' \in Slots
    BY <1>b, <1>d, ZeroDescType DEF GetTpd, TypeOK
  <2>2. pc' \in [Cpus -> {"idle", "lock", "avail", "stop", "offload", "map", "rollback", "queue"}]
    BY DEF TypeOK
  <2>3. owner' \in [Skbs -> {"stack", "driver", "ring", "freed"}]
    BY DEF TypeOK
  <2> QED BY ZeroSlot, <2>1, <2>2, <2>3 DEF TypeOK
<1>2. LockInv'
  BY DEF LockInv, Locked, TypeOK
<1>3. ProducerInv'
  BY <1>a DEF ProducerInv, LockInv, Locked, TypeOK, Need
<1>4. ConsumerInv'
  BY DEF ConsumerInv
<1>5. RingOrder'
  BY <1>c, <1>d, Distances DEF RingOrder, GetTpd
<1> QED BY <1>1, <1>2, <1>3, <1>4, <1>5

LEMMA OffloadStep ==
    ASSUME IInv, NEW c \in Cpus, XmitOffload(c)
    PROVE  IInv'
<1> USE DEF IInv, XmitOffload, ringVars, hwVars, netVars, Goto
<1>a. /\ tx_lock = c /\ skb[c] \in Skbs
      /\ \A d \in Cpus : d # c => pc[d] \notin Locked /\ tx_lock # d
  BY Alone DEF Locked
<1>b. /\ next_to_use \in Slots /\ next_to_clean \in Slots /\ Succ(next_to_use) \in Slots
      /\ first[c] \in Slots
  BY SuccType DEF TypeOK
<1>n. Dist(next_to_clean, next_to_use) + TpdReq(skb[c]) - 1 < Count
  <2>1. Need(c) = TpdReq(skb[c]) - 1
    BY DEF Need
  <2> QED BY <2>1, <1>a, <1>b, ReqCoversPieces, Distances DEF ProducerInv
<1>c. Shape[skb[c]].gso = "tcp6" =>
        Dist(next_to_clean, Succ(next_to_use)) = Dist(next_to_clean, next_to_use) + 1
  BY <1>n, <1>a, <1>b, ReqCoversPieces, DistSuccFar, Distances
<1>l. /\ left' = [left EXCEPT ![c] = Pieces(skb[c])]
      /\ pc' = [pc EXCEPT ![c] = "map"]
  OBVIOUS
<1>1. TypeOK'
  <2>1. desc' \in [Slots -> Descs]
    <3>1. [kind |-> "ext", eop |-> FALSE] \in Descs
      BY DescType
    <3> QED BY <3>1, <1>b, ZeroDescType DEF TypeOK
  <2>2. next_to_use' \in Slots /\ first' \in [Cpus -> Slots]
    BY <1>b DEF TypeOK
  <2>3. left' \in [Cpus -> Nat]
    BY <1>a, ReqCoversPieces DEF TypeOK
  <2> QED BY <2>1, <2>2, <2>3 DEF TypeOK
<1>2. LockInv'
  BY DEF LockInv, Locked, TypeOK
<1>3. ProducerInv'
  <2>1. SUFFICES ASSUME NEW d \in Cpus
                 PROVE  ProducerInv!(d)'
    BY DEF ProducerInv
  <2>2. CASE d # c
    BY <2>2, <1>a, <1>l DEF ProducerInv, Locked, TypeOK
  <2>3. CASE d = c
    <3>1. Need(c)' = Pieces(skb[c]) - 1
      BY <1>l, <1>a, ReqCoversPieces DEF Need, TypeOK
    <3>2. CASE Shape[skb[c]].gso = "tcp6"
      <4>1. /\ next_to_use' = Succ(next_to_use)
            /\ first'[c] = next_to_use
            /\ pc'[c] = "map" /\ left'[c] = Pieces(skb[c])
            /\ UNCHANGED <<next_to_clean, pidx, skb>>
        BY <3>2, <1>b DEF TypeOK
      <4>2. Dist(next_to_clean, next_to_use)' + Need(c)' < Count
        BY <4>1, <3>1, <3>2, <1>a, <1>b, <1>c, <1>n, ReqCoversPieces, Distances
      <4>3. /\ Dist(next_to_clean, pidx)' <= Dist(next_to_clean, first[c])'
            /\ Dist(next_to_clean, first[c])' < Dist(next_to_clean, next_to_use)'
        BY <4>1, <3>2, <1>c, Distances DEF RingOrder
      <4> QED BY <4>1, <4>2, <4>3, <2>3, <1>a, ReqCoversPieces
    <3>3. CASE Shape[skb[c]].gso # "tcp6"
      <4>1. UNCHANGED <<next_to_use, first>>
        BY <3>3
      <4>2. pc'[c] = "map" /\ left'[c] = Pieces(skb[c]) /\ UNCHANGED <<next_to_clean, pidx, skb>>
        BY DEF TypeOK
      <4>3. Dist(next_to_clean, next_to_use)' + Need(c)' < Count
        BY <4>1, <4>2, <3>1, <1>a, <1>b, <1>n, ReqCoversPieces, Distances
      <4> QED BY <4>1, <4>2, <4>3, <2>3, <1>a, ReqCoversPieces DEF ProducerInv
    <3> QED BY <3>2, <3>3
  <2> QED BY <2>2, <2>3
<1>4. ConsumerInv'
  BY DEF ConsumerInv
<1>5. RingOrder'
  BY <1>c, Distances DEF RingOrder
<1> QED BY <1>1, <1>2, <1>3, <1>4, <1>5

\* Where a piece goes, and that there is room for it.
LEMMA MapRoom ==
    ASSUME IInv, NEW c \in Cpus, pc[c] = "map"
    PROVE  /\ MapSlot(c) \in Slots
           /\ left[c] \in 1 .. Pieces(skb[c])
           /\ MapSlot(c) = first[c] <=> left[c] = Pieces(skb[c])
           /\ MapSlot(c) # first[c] =>
                /\ MapSlot(c) = next_to_use
                /\ Dist(next_to_clean, next_to_use) + left[c] < Count
                /\ Dist(next_to_clean, Succ(next_to_use)) = Dist(next_to_clean, next_to_use) + 1
           /\ MapSlot(c) = first[c] => Dist(next_to_clean, next_to_use) + left[c] - 1 < Count
<1> USE DEF IInv
<1>1. tx_lock = c /\ skb[c] \in Skbs
  BY Alone DEF Locked
<1>2. next_to_use \in Slots /\ next_to_clean \in Slots /\ first[c] \in Slots
  BY DEF TypeOK
<1>3. left[c] \in 1 .. Pieces(skb[c]) /\ Pieces(skb[c]) \in Nat
  BY <1>1, ReqCoversPieces DEF ProducerInv
<1>4. first[c] # next_to_use
  BY <1>2, Distances DEF ProducerInv
<1>5. Need(c) = IF left[c] = Pieces(skb[c]) THEN left[c] - 1 ELSE left[c]
  BY DEF Need
<1>6. Dist(next_to_clean, next_to_use) + Need(c) < Count
  BY <1>1 DEF ProducerInv
<1> QED BY <1>2, <1>3, <1>4, <1>5, <1>6, Distances, DistSuccFar DEF MapSlot

LEMMA MapStep ==
    ASSUME IInv, NEW c \in Cpus, XmitMap(c)
    PROVE  IInv'
<1> USE DEF IInv, XmitMap, ringVars, hwVars, netVars, Goto
<1>a. /\ tx_lock = c /\ skb[c] \in Skbs
      /\ \A d \in Cpus : d # c => pc[d] \notin Locked /\ tx_lock # d
  BY Alone DEF Locked
<1>b. /\ next_to_use \in Slots /\ next_to_clean \in Slots /\ Succ(next_to_use) \in Slots
      /\ first[c] \in Slots /\ left[c] \in Nat /\ Pieces(skb[c]) \in Nat
  BY <1>a, SuccType, ReqCoversPieces DEF TypeOK
<1>c. /\ next_to_use' = IF MapSlot(c) = first[c] THEN next_to_use ELSE Succ(next_to_use)
      /\ pc' = [pc EXCEPT ![c] = IF left[c] = 1 THEN "queue" ELSE "map"]
      /\ left' = [left EXCEPT ![c] = left[c] - 1]
      /\ UNCHANGED <<next_to_clean, hwVars, netVars, tx_lock, skb, first, intr>>
  OBVIOUS
<1>1. TypeOK'
  <2>1. desc' \in [Slots -> Descs]
    <3>1. [kind |-> "data", eop |-> left[c] = 1] \in Descs
      BY DescType
    <3> QED BY <3>1, MapRoom DEF TypeOK
  <2>2. buffer_info' \in [Slots -> Buffers]
    <3> DEFINE t == IF left[c] = 1 THEN skb[c] ELSE buffer_info[MapSlot(c)].skb
               b == [free |-> FALSE, dma |-> TRUE, skb |-> t]
    <3>1. t \in Skbs \cup {None}
      BY <1>a, MapRoom DEF TypeOK, Buffers
    <3>2. b \in Buffers
      BY <3>1 DEF Buffers
    <3>3. buffer_info' = [buffer_info EXCEPT ![MapSlot(c)] = b]
      BY MapRoom DEF TypeOK
    <3>4. MapSlot(c) \in Slots /\ buffer_info \in [Slots -> Buffers]
      BY MapRoom DEF TypeOK
    <3> HIDE DEF b, XmitMap
    <3> QED BY <3>2, <3>3, <3>4
  <2>3. next_to_use' \in Slots /\ left' \in [Cpus -> Nat]
    BY <1>b, <1>c, MapRoom DEF TypeOK
  <2>4. pc' \in [Cpus -> {"idle", "lock", "avail", "stop", "offload", "map", "rollback", "queue"}]
    BY <1>c DEF TypeOK
  <2>5. owner' \in [Skbs -> {"stack", "driver", "ring", "freed"}]
    BY <1>a DEF TypeOK
  <2> QED BY <2>1, <2>2, <2>3, <2>4, <2>5, <1>c DEF TypeOK
<1>2. LockInv'
  BY <1>c DEF LockInv, Locked, TypeOK
<1>3. ProducerInv'
  <2>1. SUFFICES ASSUME NEW d \in Cpus
                 PROVE  ProducerInv!(d)'
    BY DEF ProducerInv
  <2>2. CASE d # c
    BY <2>2, <1>a, <1>c DEF ProducerInv, Locked, TypeOK
  <2>3. CASE d = c
    <3>1. pc'[c] = (IF left[c] = 1 THEN "queue" ELSE "map") /\ left'[c] = left[c] - 1
      BY <1>c DEF TypeOK
    <3>2. Need(c)' = left[c] - 1
      BY <3>1, <1>b, <1>c, MapRoom DEF Need
    <3>3. Dist(next_to_clean, next_to_use)' + Need(c)' < Count
      BY <3>2, <1>b, <1>c, MapRoom, Distances
    <3>4. /\ Dist(next_to_clean, pidx)' <= Dist(next_to_clean, first[c])'
          /\ Dist(next_to_clean, first[c])' < Dist(next_to_clean, next_to_use)'
      BY <1>b, <1>c, MapRoom, Distances DEF ProducerInv
    <3>5. pc'[c] = "map" => left'[c] \in 1 .. Pieces(skb[c])' /\ left'[c] # Pieces(skb[c])'
      BY <3>1, <1>b, <1>c, MapRoom DEF Pieces, Lso
    <3> QED BY <2>3, <3>1, <3>3, <3>4, <3>5
  <2> QED BY <2>2, <2>3
<1>4. ConsumerInv'
  BY DEF ConsumerInv
<1>5. RingOrder'
  BY <1>b, <1>c, MapRoom, Distances DEF RingOrder
<1> QED BY <1>1, <1>2, <1>3, <1>4, <1>5

LEMMA MapFailStep ==
    ASSUME IInv, NEW c \in Cpus, XmitMapFail(c)
    PROVE  IInv'
<1> USE DEF IInv, XmitMapFail, ringVars, hwVars, netVars, Goto
<1>a. /\ tx_lock = c /\ skb[c] \in Skbs
      /\ \A d \in Cpus : d # c => pc[d] \notin Locked /\ tx_lock # d
  BY Alone DEF Locked
<1>b. /\ next_to_use \in Slots /\ next_to_clean \in Slots /\ Succ(next_to_use) \in Slots
      /\ first[c] \in Slots
  BY SuccType DEF TypeOK
<1>c. /\ next_to_use' = IF MapSlot(c) = first[c] THEN next_to_use ELSE Succ(next_to_use)
      /\ pc' = [pc EXCEPT ![c] = "rollback"]
      /\ UNCHANGED <<next_to_clean, hwVars, netVars, tx_lock, skb, first, left, intr, owner>>
  OBVIOUS
<1>1. TypeOK'
  <2>1. desc' \in [Slots -> Descs]
    BY DescType, MapRoom DEF TypeOK
  <2>2. buffer_info' \in [Slots -> Buffers]
    <3>1. buffer_info[MapSlot(c)] \in Buffers
      BY MapRoom DEF TypeOK
    <3>2. [buffer_info[MapSlot(c)] EXCEPT !.dma = FALSE] \in Buffers
      BY <3>1 DEF Buffers
    <3> QED BY <3>2, MapRoom DEF TypeOK
  <2>3. next_to_use' \in Slots
    BY <1>b, <1>c
  <2>4. pc' \in [Cpus -> {"idle", "lock", "avail", "stop", "offload", "map", "rollback", "queue"}]
    BY <1>c DEF TypeOK
  <2> QED BY <2>1, <2>2, <2>3, <2>4, <1>c DEF TypeOK
<1>2. LockInv'
  BY <1>c DEF LockInv, Locked, TypeOK
<1>3. ProducerInv'
  <2>1. SUFFICES ASSUME NEW d \in Cpus
                 PROVE  ProducerInv!(d)'
    BY DEF ProducerInv
  <2>2. CASE d # c
    BY <2>2, <1>a, <1>c DEF ProducerInv, Locked, TypeOK
  <2>3. CASE d = c
    <3>1. pc'[c] = "rollback"
      BY <1>c DEF TypeOK
    <3>2. Need(c)' = 0
      BY <3>1 DEF Need
    <3>3. Dist(next_to_clean, next_to_use)' < Count
      BY <1>b, <1>c, MapRoom, Distances
    <3>4. /\ Dist(next_to_clean, pidx)' <= Dist(next_to_clean, first[c])'
          /\ Dist(next_to_clean, first[c])' < Dist(next_to_clean, next_to_use)'
      BY <1>b, <1>c, MapRoom, Distances DEF ProducerInv
    <3>5. Dist(next_to_clean, next_to_use)' \in Nat
      BY <1>b, <1>c, DistType
    <3> QED BY <2>3, <3>1, <3>2, <3>3, <3>4, <3>5
  <2> QED BY <2>2, <2>3
<1>4. ConsumerInv'
  BY DEF ConsumerInv
<1>5. RingOrder'
  BY <1>b, <1>c, MapRoom, Distances DEF RingOrder
<1> QED BY <1>1, <1>2, <1>3, <1>4, <1>5

LEMMA RollbackStep ==
    ASSUME IInv, NEW c \in Cpus, XmitRollback(c)
    PROVE  IInv'
<1> USE DEF IInv, XmitRollback, ringVars, hwVars, netVars, Goto, Leave, Return
<1>a. /\ tx_lock = c /\ skb[c] \in Skbs
      /\ \A d \in Cpus : d # c => pc[d] \notin Locked /\ tx_lock # d
  BY Alone DEF Locked
<1>1. TypeOK'
  <2>1. desc' \in [Slots -> Descs]
    BY ZeroDescType DEF TypeOK
  <2>2. buffer_info' \in [Slots -> Buffers]
    BY CleanBufferType DEF TypeOK
  <2>3. next_to_use' \in Slots
    BY DEF TypeOK
  <2>4. pc' \in [Cpus -> {"idle", "lock", "avail", "stop", "offload", "map", "rollback", "queue"}]
    BY DEF TypeOK
  <2>5. owner' \in [Skbs -> {"stack", "driver", "ring", "freed"}]
    BY <1>a DEF TypeOK
  <2> QED BY ZeroSlot, <2>1, <2>2, <2>3, <2>4, <2>5 DEF TypeOK
<1>2. LockInv'
  BY DEF LockInv, Locked, TypeOK
<1>3. ProducerInv'
  BY <1>a DEF ProducerInv, LockInv, Locked, TypeOK, Need
<1>4. ConsumerInv'
  BY DEF ConsumerInv
<1>5. RingOrder'
  BY DEF RingOrder, ProducerInv
<1> QED BY <1>1, <1>2, <1>3, <1>4, <1>5

LEMMA QueueStep ==
    ASSUME IInv, NEW c \in Cpus, XmitQueue(c)
    PROVE  IInv'
<1> USE DEF IInv, XmitQueue, ringVars, hwVars, netVars, Goto, Leave
<1>a. /\ tx_lock = c /\ skb[c] \in Skbs
      /\ \A d \in Cpus : d # c => pc[d] \notin Locked /\ tx_lock # d
  BY Alone DEF Locked
<1>1. TypeOK'
  BY ZeroSlot DEF TypeOK
<1>2. LockInv'
  BY DEF LockInv, Locked, TypeOK
<1>3. ProducerInv'
  BY <1>a DEF ProducerInv, LockInv, Locked, TypeOK, Need
<1>4. ConsumerInv'
  BY DEF ConsumerInv
<1>5. RingOrder'
  BY Distances DEF RingOrder
<1> QED BY <1>1, <1>2, <1>3, <1>4, <1>5

LEMMA IntrStatusStep ==
    ASSUME IInv, IntrStatus
    PROVE  IInv'
<1> USE DEF IInv, IntrStatus, ringVars, hwVars, netVars, xmitVars
<1>1. TypeOK'
  <2>1. intr' \in [pc : {"idle", "status", "read", "clean", "publish"},
                    work : 0 .. MaxIntWork, idx : Slots, hw : Slots]
    <3>1. CASE isr_tx
      <4> DEFINE w == IF intr.pc = "idle" THEN MaxIntWork ELSE intr.work
      <4>1. w \in 0 .. MaxIntWork
        BY DEF TypeOK
      <4>2. intr' = [intr EXCEPT !.pc = "read", !.work = w]
        BY <3>1
      <4> HIDE DEF IntrStatus, w
      <4> QED BY <4>1, <4>2 DEF TypeOK
    <3>2. CASE ~isr_tx
      BY <3>2 DEF TypeOK, IntrIdle, Slots
    <3> QED BY <3>1, <3>2
  <2>2. isr_tx' \in BOOLEAN
    BY DEF TypeOK
  <2> QED BY <2>1, <2>2 DEF TypeOK
<1>2. LockInv'
  BY DEF LockInv, Locked
<1>3. ProducerInv'
  BY DEF ProducerInv, Need
<1>4. ConsumerInv'
  <2>1. intr'.pc \in {"read", "idle"}
    <3>1. CASE isr_tx
      BY <3>1 DEF TypeOK
    <3>2. CASE ~isr_tx
      BY <3>2 DEF IntrIdle
    <3> QED BY <3>1, <3>2
  <2>2. intr'.pc \notin {"clean", "publish"}
    BY <2>1
  <2> HIDE DEF IntrStatus
  <2> QED BY <2>2 DEF ConsumerInv
<1>5. RingOrder'
  BY DEF RingOrder
<1> QED BY <1>1, <1>2, <1>3, <1>4, <1>5

LEMMA IntrReadStep ==
    ASSUME IInv, IntrRead
    PROVE  IInv'
<1> USE DEF IInv, IntrRead, ringVars, hwVars, netVars, xmitVars
<1>1. TypeOK'
  BY DEF TypeOK
<1>2. LockInv'
  BY DEF LockInv, Locked
<1>3. ProducerInv'
  BY DEF ProducerInv, Need
<1>4. ConsumerInv'
  <2>1. intr'.pc = "clean" /\ intr'.idx = next_to_clean /\ intr'.hw = cidx
    BY DEF TypeOK
  <2> QED BY <2>1, Distances DEF ConsumerInv
<1>5. RingOrder'
  BY DEF RingOrder
<1> QED BY <1>1, <1>2, <1>3, <1>4, <1>5

LEMMA IntrCleanStep ==
    ASSUME IInv, IntrClean
    PROVE  IInv'
<1> USE DEF IInv, IntrClean, ringVars, hwVars, netVars, xmitVars
<1>1. TypeOK'
  <2>1. intr' \in [pc : {"idle", "status", "read", "clean", "publish"},
                    work : 0 .. MaxIntWork, idx : Slots, hw : Slots]
    BY SuccType DEF TypeOK
  <2>2. buffer_info' \in [Slots -> Buffers]
    BY CleanBufferType DEF TypeOK
  <2>3. owner' \in [Skbs -> {"stack", "driver", "ring", "freed"}]
    BY DEF TypeOK, Released
  <2> QED BY <2>1, <2>2, <2>3 DEF TypeOK
<1>2. LockInv'
  BY DEF LockInv, Locked
<1>3. ProducerInv'
  BY DEF ProducerInv, Need
<1>4. ConsumerInv'
  <2>1. intr'.pc = "publish" /\ intr'.idx = Succ(intr.idx) /\ intr'.hw = intr.hw
    BY DEF TypeOK
  <2> QED BY <2>1 DEF ConsumerInv
<1>5. RingOrder'
  BY DEF RingOrder
<1> QED BY <1>1, <1>2, <1>3, <1>4, <1>5

\* next_to_clean moves one slot on, so every distance from it shrinks by one;
\* none of them is 0 because CIDX was ahead.
LEMMA IntrPublishStep ==
    ASSUME IInv, IntrPublish
    PROVE  IInv'
<1> USE DEF IInv, IntrPublish, ringVars, hwVars, netVars, xmitVars
<1>a. /\ next_to_clean \in Slots /\ next_to_use \in Slots /\ pidx \in Slots /\ cidx \in Slots
      /\ intr.hw \in Slots /\ intr.idx \in Slots /\ \A c \in Cpus : first[c] \in Slots
  BY DEF TypeOK
<1>b. next_to_clean' = Succ(next_to_clean)
  BY DEF ConsumerInv
<1>c. 1 <= Dist(next_to_clean, intr.hw) /\ Dist(next_to_clean, intr.hw) <= Dist(next_to_clean, cidx)
  BY <1>a, DistType, DistZero DEF ConsumerInv
<1>d. \A i \in Slots : Dist(next_to_clean, cidx) <= Dist(next_to_clean, i)
                            => Dist(next_to_clean', i) = Dist(next_to_clean, i) - 1
  BY <1>a, <1>b, <1>c, DistType, DistZero, DistSuccNear
<1>e. /\ Dist(next_to_clean', cidx) = Dist(next_to_clean, cidx) - 1
      /\ Dist(next_to_clean', pidx) = Dist(next_to_clean, pidx) - 1
      /\ Dist(next_to_clean', next_to_use) = Dist(next_to_clean, next_to_use) - 1
  BY <1>a, <1>d, Distances DEF RingOrder
<1>f. Dist(next_to_clean', intr.hw) = Dist(next_to_clean, intr.hw) - 1
  BY <1>a, <1>b, <1>c, DistZero, DistSuccNear
<1>1. TypeOK'
  BY <1>a DEF TypeOK
<1>2. LockInv'
  BY DEF LockInv, Locked
<1>3. ProducerInv'
  <2>1. SUFFICES ASSUME NEW c \in Cpus
                 PROVE  ProducerInv!(c)'
    BY DEF ProducerInv
  <2>2. Need(c)' = Need(c)
    BY DEF Need
  <2>3. tx_lock = c => Dist(next_to_clean, next_to_use)' + Need(c)' < Count
    <3>1. tx_lock = c => Need(c) \in Nat
      BY Alone, ReqCoversPieces DEF ProducerInv, Need, Locked, LockInv, TypeOK
    <3> QED BY <2>2, <3>1, <1>e, Distances DEF ProducerInv
  <2>4. pc[c] \in {"offload", "map", "rollback"} =>
          Dist(next_to_clean', first[c]) = Dist(next_to_clean, first[c]) - 1
    BY <1>a, <1>d, Distances DEF ProducerInv, RingOrder
  <2> QED BY <2>3, <2>4, <1>e, Distances DEF ProducerInv
<1>4. ConsumerInv'
  <2>1. intr'.pc = "clean" /\ intr'.idx = intr.idx /\ intr'.hw = intr.hw
    BY DEF TypeOK
  <2> QED BY <2>1, <1>c, <1>e, <1>f, <1>a, Distances, DistType DEF ConsumerInv
<1>5. RingOrder'
  BY <1>e, Distances DEF RingOrder
<1> QED BY <1>1, <1>2, <1>3, <1>4, <1>5

LEMMA IntrWakeStep ==
    ASSUME IInv, IntrWake
    PROVE  IInv'
<1> USE DEF IInv, IntrWake, ringVars, hwVars, netVars, xmitVars
<1>1. TypeOK'
  <2>1. intr' \in [pc : {"idle", "status", "read", "clean", "publish"},
                    work : 0 .. MaxIntWork, idx : Slots, hw : Slots]
    <3>1. CASE intr.work > 1
      <4>1. intr.work - 1 \in 0 .. MaxIntWork
        BY <3>1 DEF TypeOK
      <4>2. intr' = [intr EXCEPT !.pc = "status", !.work = intr.work - 1]
        BY <3>1
      <4> HIDE DEF IntrWake
      <4> QED BY <4>1, <4>2 DEF TypeOK
    <3>2. CASE ~(intr.work > 1)
      BY <3>2 DEF TypeOK, IntrIdle, Slots
    <3> QED BY <3>1, <3>2
  <2>2. queue_stopped' \in BOOLEAN
    BY DEF TypeOK
  <2> QED BY <2>1, <2>2 DEF TypeOK
<1>2. LockInv'
  BY DEF LockInv, Locked
<1>3. ProducerInv'
  BY DEF ProducerInv, Need
<1>4. ConsumerInv'
  BY DEF ConsumerInv, TypeOK, IntrIdle
<1>5. RingOrder'
  BY DEF RingOrder
<1> QED BY <1>1, <1>2, <1>3, <1>4, <1>5

LEMMA HwStep ==
    ASSUME IInv, HwTransmit
    PROVE  IInv'
<1> USE DEF IInv, HwTransmit, ringVars, hwVars, netVars, xmitVars
<1>a. next_to_clean \in Slots /\ cidx \in Slots /\ pidx \in Slots /\ Succ(cidx) \in Slots
  BY SuccType DEF TypeOK
<1>b. Dist(next_to_clean, cidx) < Dist(next_to_clean, pidx)
  BY <1>a, DistInjective, DistType DEF RingOrder
<1>c. Dist(next_to_clean, cidx') = Dist(next_to_clean, cidx) + 1
  BY <1>a, <1>b, DistSuccFar, DistType
<1>1. TypeOK'
  <2>1. isr_tx' \in BOOLEAN
    BY <1>a DEF TypeOK, Descs
  <2> QED BY <2>1, <1>a DEF TypeOK
<1>2. LockInv'
  BY DEF LockInv, Locked
<1>3. ProducerInv'
  BY DEF ProducerInv, Need
<1>4. ConsumerInv'
  <2>1. intr.hw \in Slots
    BY DEF TypeOK
  <2> QED BY <1>a, <1>c, <2>1, DistType DEF ConsumerInv
<1>5. RingOrder'
  BY <1>a, <1>b, <1>c, DistType DEF RingOrder
<1> QED BY <1>1, <1>2, <1>3, <1>4, <1>5

LEMMA ReuseStep ==
    ASSUME IInv, NEW s \in Skbs, Reuse(s)
    PROVE  IInv'
<1> USE DEF IInv, Reuse, ringVars, hwVars, netVars, xmitVars
<1>1. TypeOK'
  BY DEF TypeOK
<1>2. LockInv'
  BY DEF LockInv, Locked
<1>3. ProducerInv'
  BY DEF ProducerInv, Need
<1>4. ConsumerInv'
  BY DEF ConsumerInv
<1>5. RingOrder'
  BY DEF RingOrder
<1> QED BY <1>1, <1>2, <1>3, <1>4, <1>5

LEMMA NextStep ==
    ASSUME IInv, [Next]_vars
    PROVE  IInv'
<1>1. ASSUME NEW c \in Cpus, Xmit(c)
      PROVE  IInv'
  BY <1>1, EnterStep, LockStep, AvailStep, StopStep, OffloadFailStep, OffloadStep,
     MapStep, MapFailStep, RollbackStep, QueueStep DEF Xmit
<1>2. CASE Intr
  BY <1>2, IntrStatusStep, IntrReadStep, IntrCleanStep, IntrPublishStep, IntrWakeStep DEF Intr
<1>3. CASE HwTransmit
  BY <1>3, HwStep
<1>4. ASSUME NEW s \in Skbs, Reuse(s)
      PROVE  IInv'
  BY <1>4, ReuseStep
<1>5. CASE UNCHANGED vars
  BY <1>5 DEF IInv, vars, ringVars, hwVars, netVars, xmitVars, TypeOK, LockInv, Locked,
              ProducerInv, Need, ConsumerInv, RingOrder
<1> QED BY <1>1, <1>2, <1>3, <1>4, <1>5 DEF Next

(***************************************************************************)
(* Theorems                                                                *)
(***************************************************************************)

\* The inductive invariant: the room a producer has made sure of, the place of
\* its first descriptor and the handler's snapshot of CIDX keep the order of
\* the four ring indices, for every ring size, set of CPUs and mix of packets.
THEOREM Inductive == Spec => []IInv
<1>1. Init => IInv
  BY InitIInv
<1>2. IInv /\ [Next]_vars => IInv'
  BY NextStep
<1> QED BY <1>1, <1>2, PTL DEF Spec

\* Every index atl1c_xmit_frame and atl1c_clean_tx_irq use to address the ring is
\* a slot of it, and every buffer and descriptor has one of its few shapes.
THEOREM TypeCorrect == Spec => []TypeOK
<1>1. IInv => TypeOK
  BY DEF IInv
<1> QED BY <1>1, Inductive, PTL

\* next_to_clean, CIDX, PIDX and next_to_use never overtake one another, with
\* the producer under tx_lock and the interrupt handler under no lock.
THEOREM RingOrdered == Spec => []RingOrder
<1>1. IInv => RingOrder
  BY DEF IInv
<1> QED BY <1>1, Inductive, PTL

\* What the NIC owns lies, counted from next_to_clean, between CIDX and PIDX.
LEMMA UnderHw ==
    ASSUME IInv, NEW i \in Slots, InRange(cidx, pidx, i)
    PROVE  /\ Dist(next_to_clean, cidx) <= Dist(next_to_clean, i)
           /\ Dist(next_to_clean, i) < Dist(next_to_clean, pidx)
BY DEF IInv, TypeOK, RingOrder, InRange, Dist, Slots

\* A CPU inside the ring writes only from PIDX on.
LEMMA ProducerAbovePidx ==
    ASSUME IInv, NEW c \in Cpus, tx_lock = c
    PROVE  /\ Dist(next_to_clean, pidx) <= Dist(next_to_clean, next_to_use)
           /\ pc[c] \in {"offload", "map", "rollback"} =>
                 Dist(next_to_clean, pidx) <= Dist(next_to_clean, first[c])
BY DEF IInv, RingOrder, ProducerInv

NoTouchStep ==
    \A i \in Slots :
        InRange(cidx, pidx, i) /\ InRange(cidx', pidx', i) =>
            desc'[i] = desc[i] /\ buffer_info'[i] = buffer_info[i]

LEMMA XmitNoTouch ==
    ASSUME IInv, NEW c \in Cpus, Xmit(c)
    PROVE  NoTouchStep
<1> SUFFICES ASSUME NEW i \in Slots, InRange(cidx, pidx, i)
             PROVE  desc'[i] = desc[i] /\ buffer_info'[i] = buffer_info[i]
  BY DEF NoTouchStep
<1>a. Dist(next_to_clean, i) < Dist(next_to_clean, pidx)
  BY UnderHw
<1>b. /\ next_to_clean \in Slots /\ next_to_use \in Slots /\ pidx \in Slots /\ first[c] \in Slots
      /\ desc \in [Slots -> Descs] /\ buffer_info \in [Slots -> Buffers]
  BY DEF IInv, TypeOK
<1>c. pc[c] \in Locked => i # next_to_use
  BY <1>a, <1>b, ProducerAbovePidx, DistType DEF IInv, LockInv
<1>d. pc[c] \in {"offload", "map", "rollback"} =>
        i # first[c] /\ Dist(next_to_clean, i) < Dist(next_to_clean, first[c])
  BY <1>a, <1>b, ProducerAbovePidx, DistType DEF IInv, LockInv, Locked
<1>1. CASE \/ \E s \in Skbs : XmitEnter(c, s)
           \/ XmitLock(c) \/ XmitStop(c) \/ XmitQueue(c)
  BY <1>1 DEF XmitEnter, XmitLock, XmitStop, XmitQueue, ringVars
<1>2. CASE XmitAvail(c)
  BY <1>2, <1>b, <1>c DEF XmitAvail, GetTpd, Locked
<1>3. CASE XmitOffloadFail(c)
  BY <1>3, <1>b, <1>c DEF XmitOffloadFail, GetTpd, Locked
<1>4. CASE XmitOffload(c)
  BY <1>4, <1>b, <1>c, <1>d DEF XmitOffload, Locked
<1>5. CASE XmitMap(c) \/ XmitMapFail(c)
  <2>1. pc[c] = "map" /\ i # MapSlot(c)
    BY <1>5, <1>c, <1>d DEF XmitMap, XmitMapFail, MapSlot, Locked
  <2> QED BY <1>5, <1>b, <2>1 DEF XmitMap, XmitMapFail
<1>6. CASE XmitRollback(c)
  <2>1. ~InRange(first[c], next_to_use, i)
    <3>1. Dist(next_to_clean, first[c]) < Dist(next_to_clean, next_to_use)
      BY <1>6 DEF XmitRollback, IInv, ProducerInv
    <3>2. Dist(next_to_clean, i) < Dist(next_to_clean, first[c])
      BY <1>6, <1>d DEF XmitRollback
    <3> DEFINE f == first[c]
    <3>3. f \in Slots /\ next_to_clean \in Slots /\ next_to_use \in Slots
      BY <1>b
    <3> HIDE DEF f
    <3>4. /\ Dist(next_to_clean, f) = IF next_to_clean <= f THEN f - next_to_clean
                                      ELSE f - next_to_clean + Count
          /\ Dist(next_to_clean, i) = IF next_to_clean <= i THEN i - next_to_clean
                                      ELSE i - next_to_clean + Count
          /\ Dist(next_to_clean, next_to_use) =
               IF next_to_clean <= next_to_use THEN next_to_use - next_to_clean
               ELSE next_to_use - next_to_clean + Count
      BY <3>3, DistIs
    <3>5. /\ Dist(f, next_to_use) = IF f <= next_to_use THEN next_to_use - f
                                    ELSE next_to_use - f + Count
          /\ Dist(f, i) = IF f <= i THEN i - f ELSE i - f + Count
      BY <3>3, DistIs
    <3>6. /\ Dist(next_to_clean, f) < Dist(next_to_clean, next_to_use)
          /\ Dist(next_to_clean, i) < Dist(next_to_clean, f)
      BY <3>1, <3>2 DEF f
    <3>7. ~(Dist(f, i) < Dist(f, next_to_use))
      BY <3>3, <3>4, <3>5, <3>6 DEF Slots
    <3> QED BY <3>7 DEF InRange, f
  <2> QED BY <1>6, <2>1 DEF XmitRollback
<1> QED BY <1>1, <1>2, <1>3, <1>4, <1>5, <1>6 DEF Xmit

LEMMA IntrNoTouch ==
    ASSUME IInv, Intr
    PROVE  NoTouchStep
<1>1. CASE IntrClean
  <2>1. SUFFICES ASSUME NEW i \in Slots, InRange(cidx, pidx, i)
                 PROVE  i # intr.idx
    BY <1>1 DEF IntrClean, NoTouchStep, IInv, TypeOK
  <2>2. next_to_clean # cidx
    BY <1>1 DEF IntrClean, IInv, TypeOK, ConsumerInv, Dist, Slots
  <2>3. Dist(next_to_clean, cidx) > 0
    BY <2>2, DistType, DistZero DEF IInv, TypeOK
  <2>4. Dist(next_to_clean, i) > 0
    BY <2>1, <2>3, UnderHw, DistType DEF IInv, TypeOK
  <2>5. intr.idx = next_to_clean
    BY <1>1 DEF IntrClean, IInv, ConsumerInv
  <2> QED BY <2>4, <2>5 DEF Dist, Slots
<1>2. CASE IntrStatus \/ IntrRead \/ IntrPublish \/ IntrWake
  BY <1>2 DEF IntrStatus, IntrRead, IntrPublish, IntrWake, NoTouchStep, ringVars
<1> QED BY <1>1, <1>2 DEF Intr

\* Neither atl1c_xmit_frame, nor atl1c_tx_rollback, nor atl1c_clean_tx_irq ever
\* writes a descriptor the NIC owns or unmaps its buffer.
THEOREM NothingTouchedUnderHw == Spec => NoTouchUnderHw
<1>1. ASSUME IInv, Next
      PROVE  NoTouchStep
  BY <1>1, XmitNoTouch, IntrNoTouch
     DEF Next, NoTouchStep, HwTransmit, Reuse, ringVars
<1>2. IInv /\ [Next]_vars => [NoTouchStep]_vars
  BY <1>1
<1>3. [][NoTouchStep]_vars <=> NoTouchUnderHw
  BY DEF NoTouchStep, NoTouchUnderHw
<1> QED BY <1>2, <1>3, Inductive, PTL DEF Spec

(***************************************************************************)
(* What the transmit ring holds: ContentIInv is inductive; from it follow  *)
(* who owns a packet, what the NIC reads, and that the ring is a FIFO      *)
(* channel of packets.                                                     *)
(***************************************************************************)

(***************************************************************************)
(* Ranges of the ring, measured from one slot.                             *)
(***************************************************************************)

LEMMA DistFrom ==
    \A a, b, i \in Slots :
        /\ Dist(a, b) <= Dist(a, i) => Dist(b, i) = Dist(a, i) - Dist(a, b)
        /\ Dist(a, b) > Dist(a, i) => Dist(b, i) = Count + Dist(a, i) - Dist(a, b)
BY DEF Slots, Dist

\* A slot is in [b, c) iff it is no nearer to a than b and nearer than c.
LEMMA RangeFrom ==
    \A a, b, c, i \in Slots : Dist(a, b) <= Dist(a, c) =>
        (InRange(b, c, i) <=> Dist(a, b) <= Dist(a, i) /\ Dist(a, i) < Dist(a, c))
<1> TAKE a, b, c, i \in Slots
<1>1. /\ Dist(a, b) \in 0 .. Count - 1 /\ Dist(a, c) \in 0 .. Count - 1
      /\ Dist(a, i) \in 0 .. Count - 1
  BY DistType
<1>2. Dist(a, b) <= Dist(a, c) => Dist(b, c) = Dist(a, c) - Dist(a, b)
  BY DistFrom
<1>3. /\ Dist(a, b) <= Dist(a, i) => Dist(b, i) = Dist(a, i) - Dist(a, b)
      /\ Dist(a, b) > Dist(a, i) => Dist(b, i) = Count + Dist(a, i) - Dist(a, b)
  BY DistFrom
<1> QED BY <1>1, <1>2, <1>3 DEF InRange

\* What is added to a range when its far end takes a step.
LEMMA RangeSucc ==
    \A a, b, i \in Slots : Dist(a, b) + 1 < Count =>
        (InRange(a, Succ(b), i) <=> InRange(a, b, i) \/ i = b)
BY DistSuccFar, DistType, DistInjective, SuccType DEF InRange

(***************************************************************************)
(* What a step has to leave alone for the parts of ContentIInv to hold.    *)
(***************************************************************************)

Parts == SlotInv /\ RingInv /\ DriverInv /\ PublishInv /\ MappedInv

\* No slot changes, no packet enters or leaves the ring.
LEMMA SlotFrame ==
    ASSUME SlotInv, RingInv,
           UNCHANGED <<buffer_info, next_to_clean, pidx>>,
           \A s \in Skbs : owner'[s] = "ring" <=> owner[s] = "ring",
           \A i \in Slots : InRange(next_to_clean, next_to_use, i) =>
                                InRange(next_to_clean, next_to_use', i),
           \A c \in Cpus : pc[c] = "queue" => pc'[c] = "queue",
           buffer_info \in [Slots -> Buffers]
    PROVE  SlotInv' /\ RingInv'
<1>1. ASSUME NEW i \in Slots
      PROVE  SlotInv!(i)'
  <2>1. buffer_info[i].skb \in Skbs \cup {None}
    BY DEF Buffers
  <2>2. SlotInv!(i)
    BY DEF SlotInv
  <2>3. CASE buffer_info[i].skb # None
    <3>1. owner'[buffer_info[i].skb] = "ring"
      BY <2>1, <2>2, <2>3
    <3>2. InRange(next_to_clean, next_to_use', i)
      BY <2>2, <2>3
    <3>3. InRange(next_to_clean, pidx, i) \/ \E c \in Cpus : pc'[c] = "queue"
      BY <2>2, <2>3
    <3> QED BY <2>2, <2>3, <3>1, <3>2, <3>3
  <2>4. CASE buffer_info[i].skb = None
    BY <2>4
  <2> QED BY <2>3, <2>4
<1>2. SlotInv'
  BY <1>1 DEF SlotInv
<1>3. RingInv'
  BY DEF RingInv
<1> QED BY <1>2, <1>3

\* One CPU moves on with its packet, or is through with it.
LEMMA DriverFrame ==
    ASSUME DriverInv, LockInv, NEW c \in Cpus,
           pc[c] \in Carrying,
           \A d \in Cpus : d # c => pc'[d] = pc[d] /\ skb'[d] = skb[d],
           \A s \in Skbs : s # skb[c] /\ owner[s] = "driver" => owner'[s] = "driver",
           pc'[c] \in Carrying => skb'[c] = skb[c] /\ owner'[skb[c]] = "driver"
    PROVE  DriverInv'
<1> SUFFICES ASSUME NEW d \in Cpus, pc'[d] \in Carrying
             PROVE  /\ owner'[skb'[d]] = "driver"
                    /\ \A e \in Cpus : pc'[e] \in Carrying /\ skb'[e] = skb'[d] => e = d
  BY DEF DriverInv
<1>1. \A e \in Cpus : pc'[e] \in Carrying => pc[e] \in Carrying /\ skb'[e] = skb[e]
  OBVIOUS
<1>2. skb[d] \in Skbs /\ owner[skb[d]] = "driver"
  BY <1>1 DEF DriverInv, LockInv, Carrying
<1>3. d # c => skb[d] # skb[c]
  BY <1>1 DEF DriverInv
<1>4. owner'[skb'[d]] = "driver"
  BY <1>1, <1>2, <1>3
<1> QED BY <1>1, <1>4 DEF DriverInv

\* No CPU moves.
LEMMA DriverStill ==
    ASSUME DriverInv, LockInv, UNCHANGED <<pc, skb>>,
           \A s \in Skbs : owner[s] = "driver" => owner'[s] = "driver"
    PROVE  DriverInv'
BY DEF DriverInv, LockInv, Carrying

\* What is yet to be consumed was so before and has not been touched.
LEMMA MappedFrame ==
    ASSUME MappedInv,
           \A i \in Slots : InRange(cidx', next_to_use', i) /\ desc'[i].kind = "data" =>
               /\ InRange(cidx, next_to_use, i)
               /\ desc'[i] = desc[i] /\ buffer_info'[i] = buffer_info[i],
           \A c \in Cpus : pc[c] = "rollback" =>
               /\ pc'[c] = "rollback"
               /\ \A i \in Slots : InRange(first[c], next_to_use, i) =>
                                       InRange(first'[c], next_to_use', i)
    PROVE  MappedInv'
<1> SUFFICES ASSUME NEW i \in Slots, InRange(cidx', next_to_use', i), desc'[i].kind = "data"
             PROVE  \/ \E c \in Cpus : pc'[c] = "rollback" /\ InRange(first'[c], next_to_use', i)
                    \/ /\ buffer_info'[i].dma /\ ~buffer_info'[i].free
                       /\ desc'[i].eop => buffer_info'[i].skb # None
  BY DEF MappedInv
<1>1. \/ \E c \in Cpus : pc[c] = "rollback" /\ InRange(first[c], next_to_use, i)
      \/ /\ buffer_info[i].dma /\ ~buffer_info[i].free
         /\ desc[i].eop => buffer_info[i].skb # None
  BY DEF MappedInv
<1>2. desc'[i] = desc[i] /\ buffer_info'[i] = buffer_info[i]
  OBVIOUS
<1> QED BY <1>1, <1>2

(***************************************************************************)
(* The parts are kept by each step.                                        *)
(***************************************************************************)

\* The indices, and the ranges of the ring measured from next_to_clean.
LEMMA Ranges ==
    ASSUME IInv
    PROVE  /\ next_to_clean \in Slots /\ next_to_use \in Slots /\ pidx \in Slots /\ cidx \in Slots
           /\ \A c \in Cpus : first[c] \in Slots
           /\ buffer_info \in [Slots -> Buffers] /\ desc \in [Slots -> Descs]
           /\ \A i \in Slots :
                /\ Dist(next_to_clean, i) \in Nat
                /\ InRange(next_to_clean, next_to_use, i) <=>
                     Dist(next_to_clean, i) < Dist(next_to_clean, next_to_use)
                /\ InRange(next_to_clean, pidx, i) <=>
                     Dist(next_to_clean, i) < Dist(next_to_clean, pidx)
                /\ InRange(cidx, next_to_use, i) <=>
                     /\ Dist(next_to_clean, cidx) <= Dist(next_to_clean, i)
                     /\ Dist(next_to_clean, i) < Dist(next_to_clean, next_to_use)
           /\ \A c \in Cpus : pc[c] \in {"offload", "map", "rollback"} =>
                \A i \in Slots :
                    InRange(first[c], next_to_use, i) <=>
                      /\ Dist(next_to_clean, first[c]) <= Dist(next_to_clean, i)
                      /\ Dist(next_to_clean, i) < Dist(next_to_clean, next_to_use)
<1>1. /\ next_to_clean \in Slots /\ next_to_use \in Slots /\ pidx \in Slots /\ cidx \in Slots
      /\ \A c \in Cpus : first[c] \in Slots
      /\ buffer_info \in [Slots -> Buffers] /\ desc \in [Slots -> Descs]
  BY DEF IInv, TypeOK
<1>2. \A i \in Slots : Dist(next_to_clean, i) \in Nat
  BY <1>1, DistType
<1>3. Dist(next_to_clean, cidx) <= Dist(next_to_clean, next_to_use)
  BY Distances DEF IInv, RingOrder
<1>4. \A c \in Cpus : pc[c] \in {"offload", "map", "rollback"} =>
        Dist(next_to_clean, first[c]) <= Dist(next_to_clean, next_to_use)
  BY Distances DEF IInv, ProducerInv
<1> QED BY <1>1, <1>2, <1>3, <1>4, RangeFrom DEF InRange

\* What a CPU at work in the ring knows: nobody else is, and every packet in it
\* is below PIDX.
LEMMA InsideRing ==
    ASSUME IInv, SlotInv, NEW c \in Cpus, pc[c] \in Locked \ {"queue"}
    PROVE  \A i \in Slots : buffer_info[i].skb # None => InRange(next_to_clean, pidx, i)
<1>1. \A d \in Cpus : pc[d] # "queue"
  BY Alone DEF IInv, Locked
<1> QED BY <1>1 DEF SlotInv

\* A slot taken with atl1c_get_tpd is the only one new to what the NIC will read.
LEMMA Taken ==
    ASSUME IInv, GetTpd, Dist(next_to_clean, next_to_use) + 1 < Count
    PROVE  /\ \A i \in Slots : InRange(next_to_clean, next_to_use, i) =>
                                   InRange(next_to_clean, next_to_use', i)
           /\ \A i \in Slots : InRange(cidx, next_to_use', i) /\ desc'[i].kind = "data" =>
                                   InRange(cidx, next_to_use, i) /\ desc'[i] = desc[i]
<1> USE DEF GetTpd
<1>1. Dist(cidx, next_to_use) + 1 < Count
  BY Ranges, DistFrom, Distances DEF IInv, RingOrder
<1>2. \A i \in Slots : i # next_to_use => desc'[i] = desc[i]
  BY Ranges
<1>3. desc'[next_to_use].kind # "data"
  BY Ranges DEF ZeroDesc
<1> QED BY <1>1, <1>2, <1>3, Ranges, RangeSucc

LEMMA EnterParts ==
    ASSUME IInv, Parts, NEW c \in Cpus, NEW s \in Skbs, XmitEnter(c, s)
    PROVE  Parts'
<1> USE DEF Parts, XmitEnter, ringVars, hwVars, netVars, Goto
<1>1. pc \in [Cpus -> {"idle", "lock", "avail", "stop", "offload", "map", "rollback", "queue"}]
      /\ skb \in [Cpus -> Skbs \cup {None}] /\ owner \in [Skbs -> {"stack", "driver", "ring", "freed"}]
  BY DEF IInv, TypeOK
<1>2. SlotInv' /\ RingInv'
  BY <1>1, SlotFrame, Ranges
<1>3. DriverInv'
  <2>1. CASE at_down
    BY <1>1, <2>1, DriverStill DEF IInv
  <2>2. CASE ~at_down
    <3>1. \A d \in Cpus : pc[d] \in Carrying => skb[d] \in Skbs /\ skb[d] # s
      BY DEF DriverInv, IInv, LockInv, Carrying
    <3> QED BY <1>1, <2>2, <3>1 DEF DriverInv, Carrying
  <2> QED BY <2>1, <2>2
<1>4. PublishInv'
  BY DEF PublishInv
<1>5. MappedInv'
  BY <1>1, MappedFrame
<1> QED BY <1>2, <1>3, <1>4, <1>5

LEMMA LockParts ==
    ASSUME IInv, Parts, NEW c \in Cpus, XmitLock(c)
    PROVE  Parts'
<1> USE DEF Parts, XmitLock, ringVars, hwVars, netVars, Goto, Leave
<1>1. pc \in [Cpus -> {"idle", "lock", "avail", "stop", "offload", "map", "rollback", "queue"}]
      /\ skb \in [Cpus -> Skbs \cup {None}] /\ owner \in [Skbs -> {"stack", "driver", "ring", "freed"}]
      /\ first \in [Cpus -> Slots]
  BY DEF IInv, TypeOK
<1>2. skb[c] \in Skbs /\ owner[skb[c]] = "driver"
  BY DEF IInv, LockInv, DriverInv, Carrying
<1>3. SlotInv' /\ RingInv'
  BY <1>1, <1>2, SlotFrame, Ranges
<1>4. DriverInv'
  BY <1>1, <1>2, DriverFrame DEF IInv, Carrying
<1>5. PublishInv'
  BY DEF PublishInv
<1>6. MappedInv'
  BY <1>1, MappedFrame
<1> QED BY <1>3, <1>4, <1>5, <1>6

LEMMA StopParts ==
    ASSUME IInv, Parts, NEW c \in Cpus, XmitStop(c)
    PROVE  Parts'
<1> USE DEF Parts, XmitStop, ringVars, hwVars, netVars, Goto, Leave, Return
<1>1. pc \in [Cpus -> {"idle", "lock", "avail", "stop", "offload", "map", "rollback", "queue"}]
      /\ skb \in [Cpus -> Skbs \cup {None}] /\ owner \in [Skbs -> {"stack", "driver", "ring", "freed"}]
      /\ first \in [Cpus -> Slots]
  BY DEF IInv, TypeOK
<1>2. skb[c] \in Skbs /\ owner[skb[c]] = "driver"
  BY DEF IInv, LockInv, DriverInv, Carrying
<1>3. SlotInv' /\ RingInv'
  BY <1>1, <1>2, SlotFrame, Ranges
<1>4. DriverInv'
  BY <1>1, <1>2, DriverFrame DEF IInv, Carrying
<1>5. PublishInv'
  BY DEF PublishInv
<1>6. MappedInv'
  BY <1>1, MappedFrame
<1> QED BY <1>3, <1>4, <1>5, <1>6

\* A descriptor is taken, and is zero.
LEMMA AvailParts ==
    ASSUME IInv, Parts, NEW c \in Cpus, XmitAvail(c)
    PROVE  Parts'
<1> USE DEF Parts, XmitAvail, ringVars, hwVars, netVars, Goto
<1>1. pc \in [Cpus -> {"idle", "lock", "avail", "stop", "offload", "map", "rollback", "queue"}]
      /\ skb \in [Cpus -> Skbs \cup {None}] /\ owner \in [Skbs -> {"stack", "driver", "ring", "freed"}]
      /\ first \in [Cpus -> Slots]
  BY DEF IInv, TypeOK
<1>2. skb[c] \in Skbs /\ owner[skb[c]] = "driver"
  BY DEF IInv, LockInv, DriverInv, Carrying
<1>3. \A d \in Cpus : pc[d] # "rollback" /\ pc[d] # "queue"
  BY Alone DEF IInv, Locked
<1>4. \/ UNCHANGED <<next_to_use, desc>>
      \/ /\ GetTpd
         /\ Dist(next_to_clean, next_to_use) + 1 < Count
  <2>1. CASE Avail >= TpdReq(skb[c])
    BY <1>2, <2>1, Ranges, AvailIsRoom, ReqCoversPieces, Distances DEF IInv
  <2> QED BY <2>1
<1>5. SlotInv' /\ RingInv'
  <2>1. \A i \in Slots : InRange(next_to_clean, next_to_use, i) =>
                             InRange(next_to_clean, next_to_use', i)
    BY <1>4, Taken
  <2> QED BY <1>1, <1>2, <1>3, <2>1, SlotFrame, Ranges
<1>6. DriverInv'
  BY <1>1, <1>2, DriverFrame DEF IInv, Carrying
<1>7. PublishInv'
  BY DEF PublishInv
<1>8. MappedInv'
  BY <1>3, <1>4, Taken, MappedFrame
<1> QED BY <1>5, <1>6, <1>7, <1>8

LEMMA OffloadFailParts ==
    ASSUME IInv, Parts, NEW c \in Cpus, XmitOffloadFail(c)
    PROVE  Parts'
<1> USE DEF Parts, XmitOffloadFail, ringVars, hwVars, netVars, Goto, Leave, Return
<1>1. pc \in [Cpus -> {"idle", "lock", "avail", "stop", "offload", "map", "rollback", "queue"}]
      /\ skb \in [Cpus -> Skbs \cup {None}] /\ owner \in [Skbs -> {"stack", "driver", "ring", "freed"}]
      /\ first \in [Cpus -> Slots]
  BY DEF IInv, TypeOK
<1>2. skb[c] \in Skbs /\ owner[skb[c]] = "driver"
  BY DEF IInv, LockInv, DriverInv, Carrying
<1>3. \A d \in Cpus : pc[d] # "rollback" /\ pc[d] # "queue"
  BY Alone DEF IInv, Locked
<1>4. \/ UNCHANGED <<next_to_use, desc>>
      \/ /\ GetTpd
         /\ Dist(next_to_clean, next_to_use) + 1 < Count
  <2>1. CASE Shape[skb[c]].gso = "tcp6"
    <3>1. Need(c) = TpdReq(skb[c]) - 1 /\ tx_lock = c
      BY Alone DEF Need, IInv, Locked
    <3> QED BY <2>1, <3>1, <1>2, ReqCoversPieces, Distances DEF IInv, ProducerInv
  <2> QED BY <2>1
<1>5. SlotInv' /\ RingInv'
  <2>1. \A i \in Slots : InRange(next_to_clean, next_to_use, i) =>
                             InRange(next_to_clean, next_to_use', i)
    BY <1>4, Taken
  <2>2. UNCHANGED <<next_to_clean, buffer_info, pidx>>
    OBVIOUS
  <2>3. owner' = [owner EXCEPT ![skb[c]] = "freed"] /\ pc' = [pc EXCEPT ![c] = "idle"]
    OBVIOUS
  <2> HIDE DEF XmitOffloadFail
  <2> QED BY <1>1, <1>2, <1>3, <2>1, <2>2, <2>3, SlotFrame, Ranges
<1>6. DriverInv'
  <2>1. owner' = [owner EXCEPT ![skb[c]] = "freed"] /\ pc' = [pc EXCEPT ![c] = "idle"]
        /\ skb' = [skb EXCEPT ![c] = None] /\ pc[c] = "offload"
    OBVIOUS
  <2> HIDE DEF XmitOffloadFail
  <2> QED BY <1>1, <1>2, <2>1, DriverFrame DEF IInv, Carrying
<1>7. PublishInv'
  BY DEF PublishInv
<1>8. MappedInv'
  BY <1>3, <1>4, Taken, MappedFrame
<1> QED BY <1>5, <1>6, <1>7, <1>8

LEMMA OffloadParts ==
    ASSUME IInv, Parts, NEW c \in Cpus, XmitOffload(c)
    PROVE  Parts'
<1> USE DEF Parts
<1>1. pc \in [Cpus -> {"idle", "lock", "avail", "stop", "offload", "map", "rollback", "queue"}]
      /\ skb \in [Cpus -> Skbs \cup {None}] /\ owner \in [Skbs -> {"stack", "driver", "ring", "freed"}]
      /\ first \in [Cpus -> Slots]
  BY DEF IInv, TypeOK
<1>2. /\ pc[c] = "offload" /\ pc' = [pc EXCEPT ![c] = "map"]
      /\ UNCHANGED <<next_to_clean, buffer_info, pidx, cidx, skb, intr, owner>>
  BY DEF XmitOffload, Goto, hwVars
<1>3. skb[c] \in Skbs /\ owner[skb[c]] = "driver"
  BY <1>2 DEF IInv, LockInv, DriverInv, Carrying
<1>4. \A d \in Cpus : pc[d] # "rollback" /\ pc[d] # "queue"
  BY <1>2, Alone DEF IInv, Locked
<1>5. Shape[skb[c]].gso = "tcp6" => Dist(next_to_clean, next_to_use) + 1 < Count
  <2>1. CASE Shape[skb[c]].gso = "tcp6"
    <3>1. Need(c) = TpdReq(skb[c]) - 1 /\ tx_lock = c
      BY <1>2, Alone DEF Need, IInv, Locked
    <3> QED BY <2>1, <3>1, <1>3, ReqCoversPieces, Distances DEF IInv, ProducerInv
  <2> QED BY <2>1
<1>6. \A i \in Slots : InRange(next_to_clean, next_to_use, i) =>
                           InRange(next_to_clean, next_to_use', i)
  BY <1>5, Ranges, RangeSucc DEF XmitOffload
<1>7. SlotInv' /\ RingInv'
  BY <1>1, <1>2, <1>4, <1>6, SlotFrame, Ranges
<1>8. DriverInv'
  BY <1>1, <1>2, <1>3, DriverFrame DEF IInv, Carrying
<1>9. PublishInv'
  BY <1>2 DEF PublishInv
<1>10. MappedInv'
  <2>1. \A i \in Slots : InRange(cidx', next_to_use', i) /\ desc'[i].kind = "data" =>
           InRange(cidx, next_to_use, i) /\ desc'[i] = desc[i]
    <3>1. CASE Shape[skb[c]].gso = "tcp6"
      <4>1. /\ desc' = [desc EXCEPT ![first[c]] = [kind |-> "ext", eop |-> FALSE],
                                    ![next_to_use] = ZeroDesc]
            /\ next_to_use' = Succ(next_to_use)
        BY <3>1 DEF XmitOffload
      <4>2. Dist(cidx, next_to_use) + 1 < Count
        BY <1>5, <3>1, Ranges, DistFrom, Distances DEF IInv, RingOrder
      <4>3. \A i \in Slots : i # next_to_use /\ i # first[c] => desc'[i] = desc[i]
        BY <4>1, Ranges
      <4>4. desc'[next_to_use].kind # "data" /\ desc'[first[c]].kind # "data"
        BY <4>1, Ranges DEF ZeroDesc
      <4> QED BY <1>2, <4>1, <4>2, <4>3, <4>4, Ranges, RangeSucc
    <3>2. CASE Shape[skb[c]].gso # "tcp6"
      BY <3>2, <1>2 DEF XmitOffload
    <3> QED BY <3>1, <3>2
  <2> QED BY <2>1, <1>2, <1>4, MappedFrame
<1> QED BY <1>7, <1>8, <1>9, <1>10

\* The slot a piece goes to: taken by this CPU, at or above PIDX, and empty.
LEMMA MapEmpty ==
    ASSUME IInv, SlotInv, NEW c \in Cpus, pc[c] = "map"
    PROVE  /\ MapSlot(c) \in Slots
           /\ buffer_info[MapSlot(c)].skb = None
           /\ ~InRange(next_to_clean, pidx, MapSlot(c))
           /\ Dist(next_to_clean, first[c]) <= Dist(next_to_clean, MapSlot(c))
<1>1. MapSlot(c) \in Slots /\ MapSlot(c) \in {first[c], next_to_use}
  BY MapRoom DEF MapSlot
<1>2. /\ Dist(next_to_clean, pidx) <= Dist(next_to_clean, first[c])
      /\ Dist(next_to_clean, first[c]) < Dist(next_to_clean, next_to_use)
  BY DEF IInv, ProducerInv
<1>3. ~InRange(next_to_clean, pidx, MapSlot(c))
  BY <1>1, <1>2, Ranges, Distances DEF IInv
<1>4. buffer_info[MapSlot(c)].skb = None
  BY <1>1, <1>3, InsideRing DEF Locked
<1> QED BY <1>1, <1>2, <1>3, <1>4, Ranges, Distances DEF IInv

\* What next_to_use covers after a piece: as before, and the slot of the piece.
LEMMA MapTaken ==
    ASSUME IInv, NEW c \in Cpus, pc[c] = "map",
           next_to_use' = IF MapSlot(c) = first[c] THEN next_to_use ELSE Succ(next_to_use)
    PROVE  \A i \in Slots :
             /\ InRange(next_to_clean, next_to_use', i) <=>
                  InRange(next_to_clean, next_to_use, i) \/ i = MapSlot(c)
             /\ InRange(cidx, next_to_use', i) <=>
                  InRange(cidx, next_to_use, i) \/ i = MapSlot(c)
             /\ InRange(first[c], next_to_use', i) <=>
                  InRange(first[c], next_to_use, i) \/ i = MapSlot(c)
<1>1. CASE MapSlot(c) = first[c]
  <2>1. /\ Dist(next_to_clean, pidx) <= Dist(next_to_clean, first[c])
        /\ Dist(next_to_clean, first[c]) < Dist(next_to_clean, next_to_use)
    BY DEF IInv, ProducerInv
  <2>2. Dist(next_to_clean, cidx) <= Dist(next_to_clean, first[c])
    BY <2>1, Distances DEF IInv, RingOrder
  <2> QED BY <1>1, <2>1, <2>2, Ranges
<1>2. CASE MapSlot(c) # first[c]
  <2>1. /\ MapSlot(c) = next_to_use
        /\ Dist(next_to_clean, next_to_use) + 1 < Count
    BY <1>2, MapRoom, Distances, DistType, Ranges, SuccType DEF IInv
  <2>2. /\ Dist(cidx, next_to_use) + 1 < Count
        /\ Dist(first[c], next_to_use) + 1 < Count
    BY <2>1, Ranges, DistFrom, Distances DEF IInv, RingOrder, ProducerInv
  <2> QED BY <1>2, <2>1, <2>2, Ranges, RangeSucc
<1> QED BY <1>1, <1>2

\* A piece changes its slot alone; the last one puts a packet there that no slot
\* held before.
LEMMA MapWrites ==
    ASSUME IInv, SlotInv, DriverInv, NEW c \in Cpus, XmitMap(c),
           NEW s, s = skb[c], NEW k, k = MapSlot(c)
    PROVE  /\ k \in Slots /\ buffer_info[k].skb = None
           /\ s \in Skbs /\ owner[s] = "driver" /\ s # None
           /\ \A i \in Slots : buffer_info[i].skb # s
           /\ desc'[k].kind = "data" /\ desc'[k].eop = (left[c] = 1)
           /\ ~buffer_info'[k].free /\ buffer_info'[k].dma
           /\ buffer_info'[k].skb = IF left[c] = 1 THEN s ELSE None
           /\ \A i \in Slots : i # k => desc'[i] = desc[i] /\ buffer_info'[i] = buffer_info[i]
<1>1. s \in Skbs /\ owner[s] = "driver"
  BY DEF XmitMap, IInv, LockInv, DriverInv, Carrying
<1>2. k \in Slots /\ buffer_info[k].skb = None
  BY MapEmpty DEF XmitMap
<1>3. /\ desc'[k].kind = "data" /\ desc'[k].eop = (left[c] = 1)
      /\ ~buffer_info'[k].free /\ buffer_info'[k].dma
      /\ buffer_info'[k].skb = IF left[c] = 1 THEN s ELSE None
      /\ \A i \in Slots : i # k => desc'[i] = desc[i] /\ buffer_info'[i] = buffer_info[i]
  BY <1>2, Ranges DEF XmitMap
<1>4. \A i \in Slots : buffer_info[i].skb # s
  BY <1>1 DEF SlotInv
<1> QED BY <1>1, <1>2, <1>3, <1>4

LEMMA MapParts ==
    ASSUME IInv, Parts, NEW c \in Cpus, XmitMap(c)
    PROVE  Parts'
<1> USE DEF Parts
<1> DEFINE s == skb[c]
           k == MapSlot(c)
           last == left[c] = 1
<1>1. /\ pc \in [Cpus -> {"idle", "lock", "avail", "stop", "offload", "map", "rollback", "queue"}]
      /\ skb \in [Cpus -> Skbs \cup {None}] /\ owner \in [Skbs -> {"stack", "driver", "ring", "freed"}]
  BY DEF IInv, TypeOK
<1>2. /\ pc[c] = "map" /\ pc' = [pc EXCEPT ![c] = IF last THEN "queue" ELSE "map"]
      /\ owner' = [owner EXCEPT ![s] = IF last THEN "ring" ELSE @]
      /\ next_to_use' = IF k = first[c] THEN next_to_use ELSE Succ(next_to_use)
      /\ UNCHANGED <<next_to_clean, pidx, cidx, skb, first, intr>>
  BY DEF XmitMap, Goto, hwVars
<1>3. s \in Skbs /\ owner[s] = "driver"
  BY MapWrites
<1>4. \A d \in Cpus : pc[d] # "rollback" /\ pc[d] # "queue"
  BY <1>2, Alone DEF IInv, Locked
<1>5. k \in Slots /\ buffer_info[k].skb = None
  BY MapWrites
<1>6. /\ desc'[k].kind = "data" /\ desc'[k].eop = last
      /\ ~buffer_info'[k].free /\ buffer_info'[k].dma
      /\ buffer_info'[k].skb = IF last THEN s ELSE None
      /\ \A i \in Slots : i # k => desc'[i] = desc[i] /\ buffer_info'[i] = buffer_info[i]
  BY MapWrites
<1>7. \A i \in Slots :
        /\ InRange(next_to_clean, next_to_use', i) <=> InRange(next_to_clean, next_to_use, i) \/ i = k
        /\ InRange(cidx, next_to_use', i) <=> InRange(cidx, next_to_use, i) \/ i = k
  BY <1>2, MapTaken
<1>8. s # None /\ \A i \in Slots : buffer_info[i].skb # s
  BY MapWrites
<1> HIDE DEF s, k, last
<1>9. SlotInv'
  <2>1. ASSUME NEW i \in Slots, i # k
        PROVE  SlotInv!(i)'
    <3>1. SlotInv!(i) /\ buffer_info[i].skb \in Skbs \cup {None}
      BY Ranges DEF SlotInv, Buffers
    <3>2. buffer_info'[i] = buffer_info[i]
      BY <1>6, <2>1
    <3>3. CASE buffer_info[i].skb # None
      <4>1. owner'[buffer_info[i].skb] = "ring"
        BY <1>1, <1>2, <1>3, <3>1, <3>3
      <4>2. InRange(next_to_clean, next_to_use', i) /\ InRange(next_to_clean, pidx, i)
        BY <1>4, <1>7, <3>1, <3>3
      <4>3. \A j \in Slots : buffer_info'[j].skb = buffer_info[i].skb => j = i
        BY <1>5, <1>6, <1>8, <3>1, <3>3
      <4> QED BY <1>2, <3>1, <3>2, <4>1, <4>2, <4>3
    <3>4. CASE buffer_info[i].skb = None
      BY <3>1, <3>2, <3>4
    <3> QED BY <3>3, <3>4
  <2>2. ASSUME NEW i \in Slots, i = k
        PROVE  SlotInv!(i)'
    <3>1. CASE last
      <4>1. owner'[s] = "ring" /\ pc'[c] = "queue"
        BY <1>1, <1>2, <1>3, <3>1
      <4>2. \A j \in Slots : buffer_info'[j].skb = s => j = k
        BY <1>6, <1>8
      <4> QED BY <2>2, <1>2, <1>5, <1>6, <1>7, <3>1, <4>1, <4>2
    <3>2. CASE ~last
      BY <2>2, <1>6, <3>2
    <3> QED BY <3>1, <3>2
  <2> QED BY <2>1, <2>2 DEF SlotInv
<1>10. RingInv'
  <2> SUFFICES ASSUME NEW t \in Skbs, owner'[t] = "ring"
               PROVE  \E i \in Slots : buffer_info'[i].skb = t
    BY DEF RingInv
  <2>1. CASE owner[t] = "ring"
    <3>1. PICK i \in Slots : buffer_info[i].skb = t
      BY <2>1 DEF RingInv
    <3>2. i # k
      BY <1>5, <3>1
    <3> QED BY <1>6, <3>1, <3>2
  <2>2. CASE owner[t] # "ring"
    <3>1. last /\ t = s
      BY <1>1, <1>2, <1>3, <2>2
    <3> QED BY <1>5, <1>6, <3>1
  <2> QED BY <2>1, <2>2
<1>11. DriverInv'
  BY <1>1, <1>2, <1>3, DriverFrame DEF IInv, Carrying, s
<1>12. PublishInv'
  <2>1. intr.pc = "publish" => k # next_to_clean
    <3>1. intr.pc = "publish" => Dist(next_to_clean, pidx) > 0
      BY Distances, Ranges, DistZero, DistType DEF IInv, ConsumerInv, RingOrder, TypeOK
    <3>2. Dist(next_to_clean, k) >= Dist(next_to_clean, pidx)
      BY <1>2, <1>5, MapEmpty, Ranges, Distances DEF k, IInv
    <3> QED BY <3>1, <3>2, Ranges, Distances, DistZero DEF IInv
  <2> QED BY <1>2, <1>6, <2>1, Ranges DEF PublishInv
<1>13. MappedInv'
  <2> SUFFICES ASSUME NEW i \in Slots, InRange(cidx, next_to_use', i), desc'[i].kind = "data"
               PROVE  /\ buffer_info'[i].dma /\ ~buffer_info'[i].free
                      /\ desc'[i].eop => buffer_info'[i].skb # None
    BY <1>2 DEF MappedInv
  <2>1. CASE i = k
    BY <1>6, <1>8, <2>1
  <2>2. CASE i # k
    BY <1>4, <1>6, <1>7, <2>2 DEF MappedInv
  <2> QED BY <2>1, <2>2
<1> QED BY <1>9, <1>10, <1>11, <1>12, <1>13

LEMMA MapFailParts ==
    ASSUME IInv, Parts, NEW c \in Cpus, XmitMapFail(c)
    PROVE  Parts'
<1> USE DEF Parts
<1> DEFINE k == MapSlot(c)
<1>1. /\ pc \in [Cpus -> {"idle", "lock", "avail", "stop", "offload", "map", "rollback", "queue"}]
      /\ skb \in [Cpus -> Skbs \cup {None}] /\ owner \in [Skbs -> {"stack", "driver", "ring", "freed"}]
  BY DEF IInv, TypeOK
<1>2. /\ pc[c] = "map" /\ pc' = [pc EXCEPT ![c] = "rollback"]
      /\ next_to_use' = IF k = first[c] THEN next_to_use ELSE Succ(next_to_use)
      /\ UNCHANGED <<next_to_clean, pidx, cidx, skb, first, intr, owner>>
  BY DEF XmitMapFail, Goto, hwVars
<1>3. skb[c] \in Skbs /\ owner[skb[c]] = "driver"
  BY <1>2 DEF IInv, LockInv, DriverInv, Carrying
<1>4. \A d \in Cpus : pc[d] # "rollback" /\ pc[d] # "queue"
  BY <1>2, Alone DEF IInv, Locked
<1>5. k \in Slots /\ buffer_info[k].skb = None
  BY <1>2, MapEmpty
<1>6. /\ \A i \in Slots : buffer_info'[i].skb = buffer_info[i].skb
                          /\ buffer_info'[i].free = buffer_info[i].free
      /\ \A i \in Slots : i # k => desc'[i] = desc[i] /\ buffer_info'[i] = buffer_info[i]
  BY <1>5, Ranges DEF XmitMapFail, Buffers
<1>7. \A i \in Slots :
        /\ InRange(next_to_clean, next_to_use', i) <=> InRange(next_to_clean, next_to_use, i) \/ i = k
        /\ InRange(cidx, next_to_use', i) <=> InRange(cidx, next_to_use, i) \/ i = k
        /\ InRange(first[c], next_to_use', i) <=> InRange(first[c], next_to_use, i) \/ i = k
  BY <1>2, MapTaken
<1> HIDE DEF k
<1>9. SlotInv'
  <2>1. ASSUME NEW i \in Slots
        PROVE  SlotInv!(i)'
    <3>1. SlotInv!(i)
      BY DEF SlotInv
    <3> QED BY <1>2, <1>4, <1>6, <1>7, <3>1
  <2> QED BY <2>1 DEF SlotInv
<1>10. RingInv'
  BY <1>2, <1>6 DEF RingInv
<1>11. DriverInv'
  BY <1>1, <1>2, <1>3, DriverFrame DEF IInv, Carrying
<1>12. PublishInv'
  BY <1>2, <1>6, Ranges DEF PublishInv
<1>13. MappedInv'
  <2> SUFFICES ASSUME NEW i \in Slots, InRange(cidx, next_to_use', i), desc'[i].kind = "data", i # k
               PROVE  /\ buffer_info'[i].dma /\ ~buffer_info'[i].free
                      /\ desc'[i].eop => buffer_info'[i].skb # None
    BY <1>1, <1>2, <1>7 DEF MappedInv
  <2> QED BY <1>4, <1>6, <1>7 DEF MappedInv
<1> QED BY <1>9, <1>10, <1>11, <1>12, <1>13

\* The slots given back held no packet, and below them nothing changes.
LEMMA RollbackWrites ==
    ASSUME IInv, SlotInv, NEW c \in Cpus, XmitRollback(c)
    PROVE  \A i \in Slots :
             /\ buffer_info[i].skb # None =>
                   InRange(next_to_clean, pidx, i) /\ ~InRange(first[c], next_to_use, i)
             /\ buffer_info'[i].skb = buffer_info[i].skb
             /\ buffer_info[i].free => buffer_info'[i].free
             /\ ~InRange(first[c], next_to_use, i) =>
                   desc'[i] = desc[i] /\ buffer_info'[i] = buffer_info[i]
<1>1. pc[c] = "rollback"
  BY DEF XmitRollback
<1>2. /\ Dist(next_to_clean, pidx) <= Dist(next_to_clean, first[c])
      /\ Dist(next_to_clean, first[c]) < Dist(next_to_clean, next_to_use)
  BY <1>1 DEF IInv, ProducerInv
<1>3. \A i \in Slots : buffer_info[i].skb # None =>
        InRange(next_to_clean, pidx, i) /\ ~InRange(first[c], next_to_use, i)
  BY <1>1, <1>2, InsideRing, Ranges, Distances DEF Locked, IInv
<1> QED BY <1>3, Ranges DEF XmitRollback, CleanBuffer, NoBuffer

LEMMA RollbackParts ==
    ASSUME IInv, Parts, NEW c \in Cpus, XmitRollback(c)
    PROVE  Parts'
<1> USE DEF Parts
<1>1. /\ pc \in [Cpus -> {"idle", "lock", "avail", "stop", "offload", "map", "rollback", "queue"}]
      /\ skb \in [Cpus -> Skbs \cup {None}] /\ owner \in [Skbs -> {"stack", "driver", "ring", "freed"}]
  BY DEF IInv, TypeOK
<1>2. /\ pc[c] = "rollback" /\ pc' = [pc EXCEPT ![c] = "idle"]
      /\ owner' = [owner EXCEPT ![skb[c]] = "freed"]
      /\ skb' = [skb EXCEPT ![c] = None]
      /\ next_to_use' = first[c]
      /\ UNCHANGED <<next_to_clean, pidx, cidx, intr>>
  BY DEF XmitRollback, Goto, hwVars, Return, Leave
<1>3. skb[c] \in Skbs /\ owner[skb[c]] = "driver"
  BY <1>2 DEF IInv, LockInv, DriverInv, Carrying
<1>4. \A d \in Cpus : (pc[d] = "rollback" => d = c) /\ pc[d] # "queue"
  BY <1>2, Alone DEF IInv, Locked
<1>5. /\ Dist(next_to_clean, pidx) <= Dist(next_to_clean, first[c])
      /\ Dist(next_to_clean, first[c]) < Dist(next_to_clean, next_to_use)
  BY <1>2 DEF IInv, ProducerInv
<1>6. \A i \in Slots : buffer_info[i].skb # None =>
        InRange(next_to_clean, pidx, i) /\ ~InRange(first[c], next_to_use, i)
  BY RollbackWrites
<1>7. \A i \in Slots :
        /\ buffer_info'[i].skb = buffer_info[i].skb
        /\ buffer_info[i].free => buffer_info'[i].free
        /\ ~InRange(first[c], next_to_use, i) =>
              desc'[i] = desc[i] /\ buffer_info'[i] = buffer_info[i]
  BY RollbackWrites
<1>8. \A i \in Slots :
        /\ InRange(next_to_clean, pidx, i) => InRange(next_to_clean, first[c], i)
        /\ InRange(cidx, first[c], i) =>
              InRange(cidx, next_to_use, i) /\ ~InRange(first[c], next_to_use, i)
  <2>1. Dist(next_to_clean, cidx) <= Dist(next_to_clean, first[c])
    BY <1>5, Distances DEF IInv, RingOrder
  <2> QED BY <1>2, <1>5, <2>1, Ranges, RangeFrom, Distances DEF IInv, InRange
<1>9. SlotInv'
  <2>1. ASSUME NEW i \in Slots
        PROVE  SlotInv!(i)'
    <3>1. SlotInv!(i) /\ buffer_info[i].skb \in Skbs \cup {None}
      BY Ranges DEF SlotInv, Buffers
    <3>2. CASE buffer_info[i].skb # None
      <4>1. owner'[buffer_info[i].skb] = "ring"
        BY <1>1, <1>2, <1>3, <3>1, <3>2
      <4>2. buffer_info'[i] = buffer_info[i]
        BY <1>6, <1>7, <3>2
      <4> QED BY <1>2, <1>6, <1>7, <1>8, <3>1, <3>2, <4>1, <4>2
    <3>3. CASE buffer_info[i].skb = None
      BY <3>1, <3>3, <1>7
    <3> QED BY <3>2, <3>3
  <2> QED BY <2>1 DEF SlotInv
<1>10. RingInv'
  BY <1>1, <1>2, <1>3, <1>7 DEF RingInv
<1>11. DriverInv'
  BY <1>1, <1>2, <1>3, DriverFrame DEF IInv, Carrying
<1>12. PublishInv'
  BY <1>2, <1>7, Ranges DEF PublishInv
<1>13. MappedInv'
  <2> SUFFICES ASSUME NEW i \in Slots, InRange(cidx, first[c], i), desc'[i].kind = "data"
               PROVE  /\ buffer_info'[i].dma /\ ~buffer_info'[i].free
                      /\ desc'[i].eop => buffer_info'[i].skb # None
    BY <1>2 DEF MappedInv
  <2> QED BY <1>4, <1>7, <1>8 DEF MappedInv
<1> QED BY <1>9, <1>10, <1>11, <1>12, <1>13

LEMMA QueueParts ==
    ASSUME IInv, Parts, NEW c \in Cpus, XmitQueue(c)
    PROVE  Parts'
<1> USE DEF Parts
<1>1. /\ pc \in [Cpus -> {"idle", "lock", "avail", "stop", "offload", "map", "rollback", "queue"}]
      /\ skb \in [Cpus -> Skbs \cup {None}] /\ first \in [Cpus -> Slots]
  BY DEF IInv, TypeOK
<1>2. /\ pc[c] = "queue" /\ pc' = [pc EXCEPT ![c] = "idle"]
      /\ skb' = [skb EXCEPT ![c] = None]
      /\ first' = [first EXCEPT ![c] = 0]
      /\ pidx' = next_to_use
      /\ UNCHANGED <<next_to_clean, next_to_use, buffer_info, desc, cidx, intr, owner>>
  BY DEF XmitQueue, Goto, Leave, ringVars
<1>3. SlotInv'
  BY <1>2 DEF SlotInv
<1>4. RingInv'
  BY <1>2 DEF RingInv
<1>5. DriverInv'
  BY <1>1, <1>2 DEF DriverInv, Carrying
<1>6. PublishInv'
  BY <1>2 DEF PublishInv
<1>7. MappedInv'
  BY <1>1, <1>2, MappedFrame
<1> QED BY <1>3, <1>4, <1>5, <1>6, <1>7

\* The handler's steps that write neither the ring nor a packet, and the NIC's.
LEMMA StillParts ==
    ASSUME IInv, Parts,
           UNCHANGED <<ringVars, pidx, cidx, pc, skb, first, owner>>,
           intr'.pc = "publish" => intr.pc = "publish"
    PROVE  Parts'
<1> USE DEF Parts, ringVars
<1>1. SlotInv' /\ RingInv'
  BY SlotFrame, Ranges
<1>2. DriverInv'
  BY DriverStill DEF IInv
<1>3. PublishInv'
  BY DEF PublishInv
<1>4. MappedInv'
  BY MappedFrame
<1> QED BY <1>1, <1>2, <1>3, <1>4

LEMMA IntrStillParts ==
    ASSUME IInv, Parts, IntrStatus \/ IntrRead \/ IntrWake
    PROVE  Parts'
<1>1. UNCHANGED <<ringVars, pidx, cidx, pc, skb, first, owner>>
  BY DEF IntrStatus, IntrRead, IntrWake, hwVars, xmitVars
<1>2. intr'.pc # "publish"
  <2>1. CASE IntrStatus
    <3>1. CASE isr_tx
      BY <2>1, <3>1 DEF IntrStatus, IInv, TypeOK
    <3>2. CASE ~isr_tx
      BY <2>1, <3>2 DEF IntrStatus, IntrIdle
    <3> QED BY <3>1, <3>2
  <2>2. CASE IntrRead
    BY <2>2 DEF IntrRead, IInv, TypeOK
  <2>3. CASE IntrWake
    BY <2>3 DEF IntrWake, IntrIdle, IInv, TypeOK
  <2> QED BY <2>1, <2>2, <2>3
<1> QED BY <1>1, <1>2, StillParts

\* The slot at next_to_clean is emptied and its packet, the ring's until now,
\* released.
LEMMA CleanWrites ==
    ASSUME IInv, SlotInv, IntrClean, NEW n, n = next_to_clean
    PROVE  /\ n \in Slots
           /\ UNCHANGED <<next_to_use, next_to_clean, desc, pidx, cidx, pc, skb, first>>
           /\ \A i \in Slots : i # n => buffer_info'[i] = buffer_info[i]
           /\ buffer_info'[n].skb = None
           /\ \A s \in Skbs : owner'[s] = IF buffer_info[n].skb = s THEN "freed" ELSE owner[s]
<1>1. /\ intr.idx = n /\ n \in Slots
      /\ UNCHANGED <<next_to_use, next_to_clean, desc, pidx, cidx, pc, skb, first>>
  BY Ranges DEF IntrClean, IInv, ConsumerInv, hwVars, xmitVars
<1>2. \A i \in Slots : i # n => buffer_info'[i] = buffer_info[i]
  BY <1>1, Ranges DEF IntrClean
<1>3. buffer_info'[n].skb = None
  <2>1. buffer_info'[n] = CleanBuffer(buffer_info[n])
    BY <1>1, Ranges DEF IntrClean
  <2>2. buffer_info[n].free => buffer_info[n].skb = None
    BY <1>1 DEF SlotInv
  <2> QED BY <2>1, <2>2 DEF CleanBuffer, NoBuffer
<1>4. \A s \in Skbs : owner'[s] = IF buffer_info[n].skb = s THEN "freed" ELSE owner[s]
  <2>1. owner' = Released({n})
    BY <1>1 DEF IntrClean
  <2>2. \A s \in Skbs : buffer_info[n].skb = s => ~buffer_info[n].free
    BY <1>1 DEF SlotInv
  <2> QED BY <2>1, <2>2 DEF Released
<1> QED BY <1>1, <1>2, <1>3, <1>4

LEMMA IntrCleanParts ==
    ASSUME IInv, Parts, IntrClean
    PROVE  Parts'
<1> USE DEF Parts
<1> DEFINE n == next_to_clean
<1>1. /\ n \in Slots
      /\ UNCHANGED <<next_to_use, next_to_clean, desc, pidx, cidx, pc, skb, first>>
  BY CleanWrites
<1>2. \A i \in Slots : i # n => buffer_info'[i] = buffer_info[i]
  BY CleanWrites
<1>3. buffer_info'[n].skb = None
  BY <1>1, CleanWrites
<1>4. \A s \in Skbs : owner'[s] = IF buffer_info[n].skb = s THEN "freed" ELSE owner[s]
  BY CleanWrites
<1>5. SlotInv'
  <2>1. ASSUME NEW i \in Slots
        PROVE  SlotInv!(i)'
    <3>1. SlotInv!(i) /\ buffer_info[i].skb \in Skbs \cup {None}
      BY Ranges DEF SlotInv, Buffers
    <3>2. CASE i = n
      BY <1>3, <3>2
    <3>3. CASE i # n /\ buffer_info[i].skb # None
      <4>1. owner'[buffer_info[i].skb] = "ring"
        <5>1. buffer_info[n].skb # buffer_info[i].skb
          BY <1>1, <3>1, <3>3
        <5> QED BY <1>4, <3>1, <3>3, <5>1
      <4>2. \A j \in Slots : buffer_info'[j].skb = buffer_info[i].skb => j = i
        BY <1>2, <1>3, <3>1, <3>3
      <4> QED BY <1>1, <1>2, <3>1, <3>3, <4>1, <4>2
    <3>4. CASE i # n /\ buffer_info[i].skb = None
      BY <1>2, <3>1, <3>4
    <3> QED BY <3>2, <3>3, <3>4
  <2> QED BY <2>1 DEF SlotInv
<1>6. RingInv'
  <2> SUFFICES ASSUME NEW s \in Skbs, owner'[s] = "ring"
               PROVE  \E i \in Slots : buffer_info'[i].skb = s
    BY DEF RingInv
  <2>1. owner[s] = "ring" /\ buffer_info[n].skb # s
    BY <1>4
  <2> QED BY <1>1, <1>2, <2>1 DEF RingInv
<1>7. DriverInv'
  <2>1. \A s \in Skbs : owner[s] = "driver" => owner'[s] = "driver"
    BY <1>1, <1>4 DEF SlotInv
  <2> QED BY <1>1, <2>1, DriverStill DEF IInv
<1>8. PublishInv'
  BY <1>1, <1>3 DEF PublishInv
<1>9. MappedInv'
  <2>1. Dist(n, cidx) > 0
    BY <1>1, Distances, Ranges, DistZero, DistType DEF IntrClean, IInv, ConsumerInv, TypeOK
  <2>2. \A i \in Slots : InRange(cidx, next_to_use, i) => i # n
    BY <1>1, <2>1, Ranges, Distances, DistZero DEF IInv
  <2> QED BY <1>1, <1>2, <2>2, MappedFrame
<1> QED BY <1>5, <1>6, <1>7, <1>8, <1>9

\* next_to_clean steps over a slot that is already empty.
LEMMA IntrPublishParts ==
    ASSUME IInv, Parts, IntrPublish
    PROVE  Parts'
<1> USE DEF Parts
<1>1. /\ intr.pc = "publish" /\ next_to_clean' = Succ(next_to_clean)
      /\ UNCHANGED <<next_to_use, buffer_info, desc, pidx, cidx, pc, skb, first, owner>>
  BY DEF IntrPublish, IInv, ConsumerInv, hwVars, xmitVars
<1>2. next_to_use # next_to_clean /\ pidx # next_to_clean
  BY <1>1, Distances, Ranges, DistZero, DistType DEF IInv, ConsumerInv, RingOrder, TypeOK
<1>3. \A i \in Slots : i # next_to_clean =>
        /\ InRange(next_to_clean, next_to_use, i) => InRange(next_to_clean', next_to_use, i)
        /\ InRange(next_to_clean, pidx, i) => InRange(next_to_clean', pidx, i)
  BY <1>1, <1>2, Ranges, DistSuccNear, DistType, SuccType DEF InRange
<1>4. \A i \in Slots : buffer_info[i].skb # None => i # next_to_clean
  BY <1>1 DEF PublishInv
<1>5. SlotInv'
  <2>1. ASSUME NEW i \in Slots
        PROVE  SlotInv!(i)'
    <3>1. SlotInv!(i)
      BY DEF SlotInv
    <3> QED BY <1>1, <1>3, <1>4, <3>1
  <2> QED BY <2>1 DEF SlotInv
<1>6. RingInv'
  BY <1>1 DEF RingInv
<1>7. DriverInv'
  BY <1>1, DriverStill DEF IInv
<1>8. PublishInv'
  BY DEF PublishInv, IntrPublish, IInv, TypeOK
<1>9. MappedInv'
  BY <1>1, MappedFrame
<1> QED BY <1>5, <1>6, <1>7, <1>8, <1>9

LEMMA HwParts ==
    ASSUME IInv, Parts, HwTransmit
    PROVE  Parts'
<1> USE DEF Parts
<1>1. /\ cidx # pidx /\ cidx' = Succ(cidx)
      /\ UNCHANGED <<next_to_clean, next_to_use, buffer_info, desc, pidx, pc, skb, first, owner, intr>>
  BY DEF HwTransmit, ringVars, xmitVars
<1>2. cidx # next_to_use
  BY <1>1, Ranges, Distances, DistInjective, DistZero DEF IInv, RingOrder
<1>3. \A i \in Slots : InRange(cidx', next_to_use, i) => InRange(cidx, next_to_use, i)
  <2>1. \A i \in Slots : i # cidx => Dist(cidx', i) = Dist(cidx, i) - 1
    BY <1>1, Ranges, DistSuccNear
  <2>2. Dist(cidx, cidx) = 0 /\ Dist(cidx, next_to_use) > 0
    BY <1>2, Ranges, DistZero, DistType
  <2> QED BY <1>2, <2>1, <2>2, Ranges, DistType DEF InRange
<1>4. SlotInv' /\ RingInv'
  BY <1>1, SlotFrame, Ranges
<1>5. DriverInv'
  BY <1>1, DriverStill DEF IInv
<1>6. PublishInv'
  BY <1>1 DEF PublishInv
<1>7. MappedInv'
  BY <1>1, <1>3, MappedFrame
<1> QED BY <1>4, <1>5, <1>6, <1>7

LEMMA ReuseParts ==
    ASSUME IInv, Parts, NEW s \in Skbs, Reuse(s)
    PROVE  Parts'
<1> USE DEF Parts
<1>1. /\ owner[s] = "freed" /\ owner' = [owner EXCEPT ![s] = "stack"]
      /\ owner \in [Skbs -> {"stack", "driver", "ring", "freed"}]
      /\ UNCHANGED <<next_to_clean, next_to_use, buffer_info, desc, pidx, cidx, pc, skb, first, intr>>
  BY DEF Reuse, ringVars, hwVars, xmitVars, IInv, TypeOK
<1>2. SlotInv' /\ RingInv'
  BY <1>1, SlotFrame, Ranges
<1>3. DriverInv'
  BY <1>1, DriverStill DEF IInv
<1>4. PublishInv'
  BY <1>1 DEF PublishInv
<1>5. MappedInv'
  BY <1>1, MappedFrame
<1> QED BY <1>2, <1>3, <1>4, <1>5

LEMMA InitParts == Init => Parts
<1> SUFFICES ASSUME Init PROVE Parts
  OBVIOUS
<1>1. \A i \in Slots : buffer_info[i].skb = None /\ desc[i].kind = "zero"
  BY DEF Init, NoBuffer, FreshBuffer, ZeroDesc
<1>2. SlotInv /\ PublishInv /\ MappedInv
  BY <1>1, ZeroSlot DEF Init, SlotInv, PublishInv, MappedInv
<1>3. RingInv /\ DriverInv
  BY DEF Init, RingInv, DriverInv, Carrying
<1> QED BY <1>2, <1>3 DEF Parts

LEMMA NextParts ==
    ASSUME IInv, Parts, [Next]_vars
    PROVE  Parts'
<1>1. ASSUME NEW c \in Cpus, Xmit(c)
      PROVE  Parts'
  BY <1>1, EnterParts, LockParts, AvailParts, StopParts, OffloadFailParts, OffloadParts,
     MapParts, MapFailParts, RollbackParts, QueueParts DEF Xmit
<1>2. CASE Intr
  BY <1>2, IntrStillParts, IntrCleanParts, IntrPublishParts DEF Intr
<1>3. CASE HwTransmit
  BY <1>3, HwParts
<1>4. ASSUME NEW s \in Skbs, Reuse(s)
      PROVE  Parts'
  BY <1>4, ReuseParts
<1>5. CASE UNCHANGED vars
  BY <1>5, StillParts DEF vars, hwVars, xmitVars
<1> QED BY <1>1, <1>2, <1>3, <1>4, <1>5 DEF Next

(***************************************************************************)
(* Theorems                                                                *)
(***************************************************************************)

\* IInv with what the slots hold is inductive: which packet lies in which slot,
\* who carries the packets not yet in one, and what the descriptors the NIC has
\* still to read point at.
THEOREM ContentInductive == Spec => []ContentIInv
<1>1. Init => IInv /\ Parts
  BY InitIInv, InitParts
<1>2. IInv /\ Parts /\ [Next]_vars => IInv' /\ Parts'
  BY NextStep, NextParts
<1>3. IInv /\ Parts <=> ContentIInv
  BY DEF ContentIInv, Parts
<1> QED BY <1>1, <1>2, <1>3, PTL DEF Spec

\* A packet is the ring's exactly while one slot in [next_to_clean, next_to_use)
\* holds it: atl1c_clean_tx_irq frees it once, and no failure path does.
THEOREM OwnershipIsExact == Spec => []SkbOwnership
<1>1. ContentIInv => SkbOwnership
  BY DEF ContentIInv, SlotInv, RingInv, SkbOwnership
<1> QED BY <1>1, ContentInductive, PTL

\* Every data descriptor between CIDX and PIDX has a mapped buffer behind it,
\* and the last one of a packet has the packet, through the roll-backs of
\* atl1c_tx_map's failures and the cleaning behind the NIC.
THEOREM NicSeesMapped == Spec => []HwSeesMapped
<1>1. ASSUME ContentIInv
      PROVE  HwSeesMapped
  <2> SUFFICES ASSUME NEW i \in Slots, InRange(cidx, pidx, i), desc[i].kind = "data"
               PROVE  /\ buffer_info[i].dma /\ ~buffer_info[i].free
                      /\ desc[i].eop => buffer_info[i].skb # None
    BY DEF HwSeesMapped
  <2>1. InRange(cidx, next_to_use, i) /\ Dist(next_to_clean, i) < Dist(next_to_clean, pidx)
    BY <1>1, UnderHw, Ranges, Distances DEF ContentIInv, IInv, RingOrder
  <2>2. \A c \in Cpus : pc[c] = "rollback" => ~InRange(first[c], next_to_use, i)
    BY <1>1, <2>1, Ranges, Distances DEF ContentIInv, IInv, ProducerInv
  <2> QED BY <1>1, <2>1, <2>2 DEF ContentIInv, MappedInv
<1> QED BY <1>1, ContentInductive, PTL

(***************************************************************************)
(* The ring implements TxChannel: each step is one of the channel or a     *)
(* stutter.                                                                *)
(***************************************************************************)

InFreed == {s \in Skbs : owner[s] = "freed"}

\* Only which slots hold which packets, seen from next_to_clean, makes the order.
LEMMA BeforeFrame ==
    ASSUME UNCHANGED next_to_clean,
           \A i \in Slots : buffer_info'[i].skb = buffer_info[i].skb
    PROVE  Before' = Before
BY DEF Before, Holds, Slots

\* A step that neither fills nor empties a slot: at most it drops a packet it was
\* carrying, or gives a released one back.
LEMMA Stutter ==
    ASSUME Before' = Before,
           \A s \in Skbs : owner'[s] = "ring" <=> owner[s] = "ring",
           \A s \in Skbs : owner'[s] = "freed" <=> owner[s] = "freed"
    PROVE  UNCHANGED <<InRing, Before, InFreed>>
BY DEF InRing, InFreed

LEMMA DropMaps ==
    ASSUME Before' = Before, NEW s \in Skbs, owner[s] \notin {"ring", "freed"},
           owner \in [Skbs -> {"stack", "driver", "ring", "freed"}],
           owner' = [owner EXCEPT ![s] = "freed"]
    PROVE  Channel!Drop(s)
<1>1. s \notin InRing /\ s \notin InFreed
  BY DEF InRing, InFreed
<1>2. InFreed' = InFreed \cup {s} /\ InRing' = InRing
  BY DEF InRing, InFreed
<1> QED BY <1>1, <1>2 DEF Channel!Drop, InFreed

LEMMA AcceptMaps ==
    ASSUME ContentIInv, NEW c \in Cpus, XmitMap(c), left[c] = 1
    PROVE  Channel!Accept(skb[c])
<1> DEFINE s == skb[c]
           k == MapSlot(c)
<1>1. /\ k \in Slots /\ buffer_info[k].skb = None
      /\ s \in Skbs /\ owner[s] = "driver" /\ s # None
      /\ \A i \in Slots : buffer_info[i].skb # s
      /\ buffer_info'[k].skb = s
      /\ \A i \in Slots : i # k => buffer_info'[i] = buffer_info[i]
  BY MapWrites DEF ContentIInv
<1>2. /\ next_to_clean' = next_to_clean
      /\ owner' = [owner EXCEPT ![s] = "ring"]
      /\ owner \in [Skbs -> {"stack", "driver", "ring", "freed"}]
      /\ pc[c] = "map"
  BY DEF XmitMap, ContentIInv, IInv, TypeOK
<1>3. InRing' = InRing \cup {s} /\ InFreed' = InFreed /\ s \notin InRing /\ s \notin InFreed
  BY <1>1, <1>2 DEF InRing, InFreed
\* All that the ring holds lies below PIDX, the new packet does not.
<1>4. \A i \in Slots : buffer_info[i].skb # None =>
        Dist(next_to_clean, i) < Dist(next_to_clean, k)
  <2>1. ~InRange(next_to_clean, pidx, k)
    BY <1>2, MapEmpty DEF ContentIInv
  <2>2. \A i \in Slots : buffer_info[i].skb # None => InRange(next_to_clean, pidx, i)
    BY <1>2, InsideRing DEF ContentIInv, Locked
  <2> QED BY <1>1, <2>1, <2>2, Ranges, Distances DEF ContentIInv, IInv
<1> HIDE DEF s, k
<1>5. ASSUME NEW t \in Skbs, NEW u \in Skbs
      PROVE  <<t, u>> \in Before' <=> <<t, u>> \in Before \/ (t \in InRing /\ u = s)
  <2>1. <<t, u>> \in Before' <=>
          \E i, j \in Slots : /\ buffer_info'[i].skb = t /\ buffer_info'[j].skb = u
                              /\ Dist(next_to_clean, i) < Dist(next_to_clean, j)
    BY <1>2, <1>5 DEF Before, Holds, Slots
  <2>2. <<t, u>> \in Before <=>
          \E i, j \in Slots : /\ buffer_info[i].skb = t /\ buffer_info[j].skb = u
                              /\ Dist(next_to_clean, i) < Dist(next_to_clean, j)
    BY <1>5 DEF Before, Holds
  <2>3. \A i \in Slots : Dist(next_to_clean, i) \in Nat
    BY Ranges DEF ContentIInv
  <2>4. ASSUME t \in InRing, u = s
        PROVE  <<t, u>> \in Before'
    <3>1. PICK i \in Slots : buffer_info[i].skb = t
      BY <2>4 DEF InRing, ContentIInv, RingInv
    <3>2. i # k /\ Dist(next_to_clean, i) < Dist(next_to_clean, k)
      BY <3>1, <1>1, <1>4, <1>5
    <3> QED BY <2>1, <2>4, <3>1, <3>2, <1>1
  <2>5. ASSUME <<t, u>> \in Before
        PROVE  <<t, u>> \in Before'
    <3>1. PICK i, j \in Slots : /\ buffer_info[i].skb = t /\ buffer_info[j].skb = u
                                /\ Dist(next_to_clean, i) < Dist(next_to_clean, j)
      BY <2>2, <2>5
    <3>2. i # k /\ j # k
      BY <3>1, <1>1, <1>5
    <3> QED BY <2>1, <3>1, <3>2, <1>1
  <2>6. ASSUME <<t, u>> \in Before'
        PROVE  <<t, u>> \in Before \/ (t \in InRing /\ u = s)
    <3>1. PICK i, j \in Slots : /\ buffer_info'[i].skb = t /\ buffer_info'[j].skb = u
                                /\ Dist(next_to_clean, i) < Dist(next_to_clean, j)
      BY <2>1, <2>6
    <3>2. CASE i = k
      <4>1. buffer_info[j].skb # None => FALSE
        BY <3>1, <3>2, <1>4, <2>3, <1>1
      <4>2. j # k
        BY <3>1, <3>2, <2>3, <1>1
      <4> QED BY <3>1, <4>1, <4>2, <1>1, <1>5
    <3>3. CASE i # k /\ j = k
      <4>1. buffer_info[i].skb = t /\ t # None
        BY <3>1, <3>3, <1>1, <1>5
      <4> QED BY <3>1, <3>3, <4>1, <1>1 DEF ContentIInv, SlotInv, InRing
    <3>4. CASE i # k /\ j # k
      BY <3>1, <3>4, <1>1, <2>2
    <3> QED BY <3>2, <3>3, <3>4
  <2> QED BY <2>4, <2>5, <2>6
<1>6. Before' = Before \cup (InRing \X {s})
  <2>1. Before \subseteq Skbs \X Skbs /\ Before' \subseteq Skbs \X Skbs
        /\ InRing \X {s} \subseteq Skbs \X Skbs
    BY <1>1 DEF Before, InRing
  <2> QED BY <2>1, <1>1, <1>5
<1> QED BY <1>3, <1>6 DEF Channel!Accept, InFreed, s

\* The packet of the slot at next_to_clean is the oldest: nothing is nearer.
LEMMA ReleaseMaps ==
    ASSUME ContentIInv, IntrClean, buffer_info[next_to_clean].skb # None
    PROVE  \E s \in Skbs : Channel!Release(s)
<1> DEFINE n == next_to_clean
           s == buffer_info[n].skb
<1>1. /\ n \in Slots /\ n' = n
      /\ \A i \in Slots : i # n => buffer_info'[i] = buffer_info[i]
      /\ buffer_info'[n].skb = None
      /\ \A t \in Skbs : owner'[t] = IF buffer_info[n].skb = t THEN "freed" ELSE owner[t]
  BY CleanWrites DEF ContentIInv
<1>2. /\ s \in Skbs /\ s # None /\ owner[s] = "ring"
      /\ \A i \in Slots : buffer_info[i].skb = s => i = n
  BY <1>1, Ranges DEF ContentIInv, SlotInv, Buffers
<1> HIDE DEF s
<1>3. /\ s \in InRing
      /\ InRing' = InRing \ {s}
      /\ InFreed' = InFreed \cup {s}
  BY <1>1, <1>2 DEF InRing, InFreed, s
<1>4. \A i \in Slots : Dist(n, i) \in Nat /\ Dist(n, n) = 0
  BY <1>1, Ranges, DistZero DEF ContentIInv
<1>5. Channel!Oldest(s)
  <2>1. ASSUME NEW t \in InRing
        PROVE  <<t, s>> \notin Before
    BY <1>2, <1>4 DEF Before, Holds, InRing
  <2> QED BY <2>1 DEF Channel!Oldest
<1>6. Before' = Before \cap (InRing' \X InRing')
  <2>1. ASSUME NEW t \in Skbs, NEW u \in Skbs
        PROVE  <<t, u>> \in Before' <=> <<t, u>> \in Before /\ t \in InRing' /\ u \in InRing'
    <3>1. <<t, u>> \in Before' <=>
            \E i, j \in Slots : /\ buffer_info'[i].skb = t /\ buffer_info'[j].skb = u
                                /\ Dist(n, i) < Dist(n, j)
      BY <1>1, <2>1 DEF Before, Holds, Slots
    <3>2. <<t, u>> \in Before <=>
            \E i, j \in Slots : /\ buffer_info[i].skb = t /\ buffer_info[j].skb = u
                                /\ Dist(n, i) < Dist(n, j)
      BY <2>1 DEF Before, Holds
    <3>3. \A i \in Slots, x \in Skbs : buffer_info'[i].skb = x <=> buffer_info[i].skb = x /\ x # s
      BY <1>1, <1>2 DEF s
    <3>4. \A i \in Slots, x \in Skbs : buffer_info[i].skb = x => x \in InRing
      BY DEF ContentIInv, SlotInv, InRing
    <3> QED BY <3>1, <3>2, <3>3, <3>4, <2>1, <1>3
  <2>2. Before \subseteq Skbs \X Skbs /\ Before' \subseteq Skbs \X Skbs
    BY DEF Before
  <2> HIDE DEF n
  <2> QED BY <2>1, <2>2
<1> QED BY <1>2, <1>3, <1>5, <1>6 DEF Channel!Release, Channel!Dequeue, InFreed

\* next_to_clean stepping over an emptied slot brings every packet one nearer.
LEMMA PublishKeepsOrder ==
    ASSUME ContentIInv, IntrPublish
    PROVE  Before' = Before
<1> DEFINE n == next_to_clean
<1>1. /\ intr.pc = "publish" /\ n \in Slots /\ n' = Succ(n) /\ UNCHANGED buffer_info
  BY Ranges DEF IntrPublish, ContentIInv, IInv, ConsumerInv
<1>2. \A i \in Slots : i # n => Dist(n', i) = Dist(n, i) - 1
  BY <1>1, DistSuccNear
<1>3. \A i \in Slots : Dist(n, i) \in Nat
  BY Ranges DEF ContentIInv
<1>4. \A i \in Slots : buffer_info[i].skb # None => i # n
  BY <1>1 DEF ContentIInv, PublishInv
<1>5. \A i, j \in Slots : buffer_info[i].skb # None /\ buffer_info[j].skb # None =>
        (Dist(n', i) < Dist(n', j) <=> Dist(n, i) < Dist(n, j))
  BY <1>2, <1>3, <1>4
<1>6. ASSUME NEW t \in Skbs, NEW u \in Skbs
      PROVE  <<t, u>> \in Before' <=> <<t, u>> \in Before
  <2>1. <<t, u>> \in Before' <=>
          \E i, j \in Slots : /\ buffer_info[i].skb = t /\ buffer_info[j].skb = u
                              /\ Dist(n', i) < Dist(n', j)
    BY <1>1, <1>6 DEF Before, Holds, Slots
  <2>2. <<t, u>> \in Before <=>
          \E i, j \in Slots : /\ buffer_info[i].skb = t /\ buffer_info[j].skb = u
                              /\ Dist(n, i) < Dist(n, j)
    BY <1>6 DEF Before, Holds
  <2> QED BY <2>1, <2>2, <1>5
<1>7. Before \subseteq Skbs \X Skbs /\ Before' \subseteq Skbs \X Skbs
  BY DEF Before
<1> HIDE DEF n
<1> QED BY <1>6, <1>7

ChannelStep == [Channel!Next]_<<InRing, Before, InFreed>>

LEMMA XmitMaps ==
    ASSUME ContentIInv, NEW c \in Cpus, Xmit(c)
    PROVE  ChannelStep
<1>1. /\ owner \in [Skbs -> {"stack", "driver", "ring", "freed"}]
      /\ buffer_info \in [Slots -> Buffers]
  BY DEF ContentIInv, IInv, TypeOK
<1>2. pc[c] \in Carrying => skb[c] \in Skbs /\ owner[skb[c]] = "driver"
  BY DEF ContentIInv, IInv, LockInv, DriverInv, Carrying
<1>3. ASSUME NEW s \in Skbs, XmitEnter(c, s)
      PROVE  ChannelStep
  <2>1. Before' = Before
    BY <1>3, BeforeFrame DEF XmitEnter, ringVars
  <2>2. CASE at_down
    BY <1>1, <1>3, <2>1, <2>2, DropMaps DEF XmitEnter, ChannelStep, Channel!Next
  <2>3. CASE ~at_down
    BY <1>1, <1>3, <2>1, <2>3, Stutter DEF XmitEnter, ChannelStep
  <2> QED BY <2>2, <2>3
<1>4. CASE XmitLock(c) \/ XmitAvail(c) \/ XmitStop(c) \/ XmitOffload(c) \/ XmitQueue(c)
  <2>1. Before' = Before
    BY <1>4, BeforeFrame DEF XmitLock, XmitAvail, XmitStop, XmitOffload, XmitQueue, ringVars
  <2>2. \/ UNCHANGED owner
        \/ pc[c] \in Carrying /\ owner' = [owner EXCEPT ![skb[c]] = "stack"]
    BY <1>4 DEF XmitLock, XmitAvail, XmitStop, XmitOffload, XmitQueue, Return, Carrying
  <2> QED BY <1>1, <1>2, <2>1, <2>2, Stutter DEF ChannelStep
<1>5. CASE XmitOffloadFail(c)
  <2>1. Before' = Before
    BY <1>5, BeforeFrame DEF XmitOffloadFail
  <2>2. pc[c] \in Carrying /\ owner' = [owner EXCEPT ![skb[c]] = "freed"]
    BY <1>5 DEF XmitOffloadFail, Return, Carrying
  <2> QED BY <1>1, <1>2, <2>1, <2>2, DropMaps DEF ChannelStep, Channel!Next
<1>6. CASE XmitMap(c)
  <2>1. pc[c] \in Carrying /\ owner' = [owner EXCEPT ![skb[c]] = IF left[c] = 1 THEN "ring" ELSE @]
    BY <1>6 DEF XmitMap, Carrying
  <2>2. CASE left[c] = 1
    BY <1>2, <1>6, <2>1, <2>2, AcceptMaps DEF ChannelStep, Channel!Next
  <2>3. CASE left[c] # 1
    <3>1. \A i \in Slots : buffer_info'[i].skb = buffer_info[i].skb
      BY <1>6, <2>3, MapWrites DEF ContentIInv
    <3>2. Before' = Before
      BY <1>6, <3>1, BeforeFrame DEF XmitMap
    <3>3. \A s \in Skbs : owner'[s] = owner[s]
      BY <1>1, <1>2, <2>1, <2>3
    <3> QED BY <3>2, <3>3, Stutter DEF ChannelStep
  <2> QED BY <2>2, <2>3
<1>7. CASE XmitMapFail(c)
  <2>1. \A i \in Slots : buffer_info'[i].skb = buffer_info[i].skb
    BY <1>1, <1>7, MapRoom DEF XmitMapFail, ContentIInv, Buffers
  <2> QED BY <1>7, <2>1, BeforeFrame, Stutter DEF XmitMapFail, ChannelStep
<1>8. CASE XmitRollback(c)
  <2>1. Before' = Before
    BY <1>8, RollbackWrites, BeforeFrame DEF XmitRollback, ContentIInv
  <2>2. pc[c] \in Carrying /\ owner' = [owner EXCEPT ![skb[c]] = "freed"]
    BY <1>8 DEF XmitRollback, Return, Carrying
  <2> QED BY <1>1, <1>2, <2>1, <2>2, DropMaps DEF ChannelStep, Channel!Next
<1> QED BY <1>3, <1>4, <1>5, <1>6, <1>7, <1>8 DEF Xmit

LEMMA IntrMaps ==
    ASSUME ContentIInv, Intr
    PROVE  ChannelStep
<1>1. CASE IntrStatus \/ IntrRead \/ IntrWake
  BY <1>1, BeforeFrame, Stutter DEF IntrStatus, IntrRead, IntrWake, ringVars, ChannelStep
<1>2. CASE IntrPublish
  BY <1>2, PublishKeepsOrder, Stutter DEF IntrPublish, ChannelStep
<1>3. CASE IntrClean
  <2>1. CASE buffer_info[next_to_clean].skb # None
    BY <1>3, <2>1, ReleaseMaps DEF ChannelStep, Channel!Next
  <2>2. CASE buffer_info[next_to_clean].skb = None
    <3>1. \A i \in Slots : buffer_info'[i].skb = buffer_info[i].skb
      BY <1>3, <2>2, CleanWrites DEF ContentIInv
    <3>2. \A s \in Skbs : owner'[s] = owner[s]
      BY <1>3, <2>2, CleanWrites DEF ContentIInv
    <3> QED BY <1>3, <3>1, <3>2, BeforeFrame, Stutter DEF IntrClean, ChannelStep
  <2> QED BY <2>1, <2>2
<1> QED BY <1>1, <1>2, <1>3 DEF Intr

LEMMA ReuseMaps ==
    ASSUME ContentIInv, NEW s \in Skbs, Reuse(s)
    PROVE  ChannelStep
<1>1. Before' = Before
  BY BeforeFrame DEF Reuse, ringVars
<1>2. owner[s] = "freed" /\ owner' = [owner EXCEPT ![s] = "stack"]
      /\ owner \in [Skbs -> {"stack", "driver", "ring", "freed"}]
  BY DEF Reuse, ContentIInv, IInv, TypeOK
<1>3. s \in InFreed /\ InFreed' = InFreed \ {s} /\ InRing' = InRing
  BY <1>2 DEF InRing, InFreed
<1> QED BY <1>1, <1>3 DEF ChannelStep, Channel!Next, Channel!Reuse, InFreed

LEMMA NextMaps ==
    ASSUME ContentIInv, Next
    PROVE  ChannelStep
<1>1. CASE HwTransmit
  BY <1>1, BeforeFrame, Stutter DEF HwTransmit, ringVars, ChannelStep
<1> QED BY <1>1, XmitMaps, IntrMaps, ReuseMaps DEF Next

\* The descriptor ring, with its producer under tx_lock and its consumer under no
\* lock, is a FIFO channel of packets: accepted by the last piece of atl1c_tx_map,
\* released in that order and once by atl1c_clean_tx_irq, dropped by the failures.
THEOREM RingIsFifo == Spec => TxFifo
<1>1. Init => Channel!Init
  <2> SUFFICES ASSUME Init PROVE Channel!Init
    OBVIOUS
  <2>1. InRing = {} /\ InFreed = {}
    BY DEF Init, InRing, InFreed
  <2>2. Before = {}
    BY DEF Init, Before, Holds, NoBuffer, FreshBuffer
  <2> QED BY <2>1, <2>2 DEF Channel!Init, InFreed
<1>2. ContentIInv /\ [Next]_vars => [Channel!Next]_Channel!vars
  <2>1. ContentIInv /\ Next => ChannelStep
    BY NextMaps
  <2>2. ASSUME UNCHANGED vars
        PROVE  UNCHANGED <<InRing, Before, InFreed>>
    BY <2>2, BeforeFrame, Stutter DEF vars, ringVars
  <2> QED BY <2>1, <2>2 DEF ChannelStep, Channel!vars, InFreed
<1> QED BY <1>1, <1>2, ContentInductive, PTL DEF Spec, TxFifo, Channel!Spec

=============================================================================
