---------------------------- MODULE RxRingProofs ----------------------------
(***************************************************************************)
(* Proofs about RxRing, for every ring size, memory, budget and kind of    *)
(* frame.                                                                  *)
(***************************************************************************)
EXTENDS RxRing, SequenceTheorems, TLAPS

USE RxCountAssumption, RxBudgetAssumption, RxKindsAssumption, RxNoneAssumption

(***************************************************************************)
(* The inductive invariant                                                 *)
(***************************************************************************)

\* The NIC may still fill the buffer of slot i.
InHw(i) == Dist(hw_rfd, i) < Dist(hw_rfd, prod)

IsFree(i) == buffer_info[i].free

\* What holds whatever waits for the poll when a reset begins: both rings of the
\* NIC move together, a frame delivered counts for the budget and for the refill,
\* and the slot at next_to_use is left free.
BaseInv ==
    /\ prod = next_to_use /\ hw_rrd = hw_rfd
    /\ napi.count = napi.done
    /\ ~up => next_to_use = 0 /\ napi.pc = "idle"
    /\ IsFree(next_to_use)
    /\ \A i \in Slots : rrd[i].num = IF rrd[i].kind = "multi" THEN 2 ELSE 1

\* A busy slot has a buffer of its own, which is the ring's.
BufInv ==
    /\ \A i \in Slots : IF IsFree(i) THEN buffer_info[i].skb = None
                        ELSE buffer_info[i].skb \in Skbs /\ owner[buffer_info[i].skb] = "ring"
    /\ \A i, j \in Slots : ~IsFree(i) /\ buffer_info[i].skb = buffer_info[j].skb => i = j

\* What the NIC may still fill is busy and not reported; what is reported is
\* busy, and its return descriptor has the index of its buffer.
MarkInv ==
    /\ \A i \in Slots : InHw(i) => ~IsFree(i) /\ ~rrd[i].updated
    /\ \A i \in Slots : rrd[i].updated => rrd[i].rfd = i /\ ~IsFree(i)

IInv == TypeOK /\ BaseInv /\ BufInv

(***************************************************************************)
(* Ring arithmetic                                                         *)
(***************************************************************************)

LEMMA PlusIs ==
    \A i \in Slots, n \in 0 .. Count : Plus(i, n) = IF i + n < Count THEN i + n ELSE i + n - Count
BY DEF Slots, Plus

LEMMA PlusType == \A i \in Slots, n \in 0 .. Count : Plus(i, n) \in Slots
BY PlusIs DEF Slots

LEMMA DistIs == \A a, b \in Slots : Dist(a, b) = IF a <= b THEN b - a ELSE b - a + Count
BY DEF Slots, Dist

LEMMA DistType == \A a, b \in Slots : Dist(a, b) \in 0 .. Count - 1
BY DistIs DEF Slots

LEMMA DistZero == \A a, b \in Slots : Dist(a, b) = 0 <=> a = b
BY DistIs DEF Slots

LEMMA DistInjective == \A a, b, c \in Slots : Dist(a, b) = Dist(a, c) => b = c
BY DistIs DEF Slots

LEMMA PlusDist == \A a, b \in Slots : Plus(a, Dist(a, b)) = b
<1> TAKE a, b \in Slots
<1>1. Dist(a, b) \in 0 .. Count /\ Dist(a, b) = IF a <= b THEN b - a ELSE b - a + Count
  BY DistIs, DistType DEF Slots
<1>2. Plus(a, Dist(a, b)) = IF a + Dist(a, b) < Count THEN a + Dist(a, b) ELSE a + Dist(a, b) - Count
  BY <1>1, PlusIs
<1> QED BY <1>1, <1>2 DEF Slots

\* The far end of a distance takes n steps, or the near one does.
LEMMA DistFar ==
    \A a, b \in Slots, n \in 0 .. Count - 1 :
        Dist(a, b) + n < Count => Dist(a, Plus(b, n)) = Dist(a, b) + n
<1> TAKE a, b \in Slots, n \in 0 .. Count - 1
<1>1. Dist(a, b) = IF a <= b THEN b - a ELSE b - a + Count
  BY DistIs
<1>2. Plus(b, n) \in Slots /\ Plus(b, n) = IF b + n < Count THEN b + n ELSE b + n - Count
  BY PlusIs, PlusType
<1>3. Dist(a, Plus(b, n)) = IF a <= Plus(b, n) THEN Plus(b, n) - a ELSE Plus(b, n) - a + Count
  BY <1>2, DistIs
<1> QED BY <1>1, <1>2, <1>3 DEF Slots

LEMMA DistNear ==
    \A a, i \in Slots, n \in 0 .. Count - 1 :
        Dist(Plus(a, n), i) = IF n <= Dist(a, i) THEN Dist(a, i) - n ELSE Dist(a, i) - n + Count
<1> TAKE a, i \in Slots, n \in 0 .. Count - 1
<1>1. Dist(a, i) = IF a <= i THEN i - a ELSE i - a + Count
  BY DistIs
<1>2. Plus(a, n) \in Slots /\ Plus(a, n) = IF a + n < Count THEN a + n ELSE a + n - Count
  BY PlusIs, PlusType
<1>3. Dist(Plus(a, n), i) = IF Plus(a, n) <= i THEN i - Plus(a, n) ELSE i - Plus(a, n) + Count
  BY <1>2, DistIs
<1> QED BY <1>1, <1>2, <1>3 DEF Slots

LEMMA DistSelf == \A a \in Slots, n \in 0 .. Count - 1 : Dist(a, Plus(a, n)) = n
<1> TAKE a \in Slots, n \in 0 .. Count - 1
<1>1. Dist(a, a) = 0
  BY DistZero
<1> QED BY <1>1, DistFar

LEMMA PlusOne == \A i \in Slots : Plus(i, 1) \in Slots /\ Plus(i, 1) # i /\ Dist(i, Plus(i, 1)) = 1
<1> TAKE i \in Slots
<1>1. Plus(i, 1) \in Slots
  BY PlusType
<1>2. Dist(i, i) = 0 /\ Dist(i, Plus(i, 1)) = 1
  BY DistZero, DistSelf
<1> QED BY <1>1, <1>2

LEMMA ZeroSlot == 0 \in Slots
BY DEF Slots

(***************************************************************************)
(* atl1c_alloc_rx_buffer                                                   *)
(***************************************************************************)

\* A filling, skb by skb.
LEMMA FillsParts ==
    ASSUME NEW use \in Slots, NEW q \in Fills(use, buffer_info, owner)
    PROVE  /\ Len(q) \in 0 .. Count - 1 /\ DOMAIN q = 1 .. Len(q)
           /\ \A k \in 1 .. Len(q) : q[k] \in Skbs /\ owner[q[k]] = "pool"
           /\ \A j, k \in 1 .. Len(q) : q[j] = q[k] => j = k
           /\ \A k \in 1 .. Len(q) : IsFree(Plus(use, k))
<1> DEFINE pool == {s \in Skbs : owner[s] = "pool"}
<1>1. PICK n \in 0 .. Count - 1 : q \in [1 .. n -> pool]
  BY DEF Fills
<1>2. /\ \A j, k \in DOMAIN q : q[j] = q[k] => j = k
      /\ \A k \in DOMAIN q : IsFree(Plus(use, k))
  BY DEF Fills, IsFree
<1>3. Len(q) = n
  <2>1. q \in Seq(pool)
    BY <1>1, SeqDef
  <2> QED BY <1>1, <2>1, LenProperties
<1> QED BY <1>1, <1>2, <1>3

\* The slots of a filling were free, and so is the slot after them; the others
\* keep what they have.
LEMMA AllocSlots ==
    ASSUME TypeOK, NEW q, AllocRxBuffer(next_to_use, buffer_info, owner, q),
           IsFree(next_to_use)
    PROVE  /\ Len(q) \in 0 .. Count - 1
           /\ next_to_use' = Plus(next_to_use, Len(q)) /\ next_to_use' \in Slots
           /\ \A i \in Slots : Dist(next_to_use, i) <= Len(q) => IsFree(i)
           /\ \A i \in Slots : Dist(next_to_use, i) < Len(q) =>
                /\ ~buffer_info'[i].free
                /\ buffer_info'[i].skb = q[Dist(next_to_use, i) + 1]
                /\ buffer_info'[i].skb \in Skbs
                /\ owner[buffer_info'[i].skb] = "pool" /\ owner'[buffer_info'[i].skb] = "ring"
           /\ \A i \in Slots : Dist(next_to_use, i) >= Len(q) => buffer_info'[i] = buffer_info[i]
           /\ \A i, j \in Slots : /\ Dist(next_to_use, i) < Len(q) /\ Dist(next_to_use, j) < Len(q)
                                  /\ buffer_info'[i].skb = buffer_info'[j].skb
                                  => i = j
           /\ \A s \in Skbs : owner'[s] = owner[s]
                \/ \E i \in Slots : Dist(next_to_use, i) < Len(q) /\ buffer_info'[i].skb = s
           /\ \A s \in Skbs : owner[s] = "ring" => owner'[s] = "ring"
           /\ IsFree(next_to_use)' /\ (prod = next_to_use => prod' = next_to_use')
<1> DEFINE u == next_to_use
<1> DEFINE n == Len(q)
<1>1. /\ q \in Fills(u, buffer_info, owner) /\ u \in Slots
      /\ buffer_info' = Filled(u, buffer_info, q)
      /\ owner' = [s \in Skbs |-> IF \E k \in DOMAIN q : q[k] = s THEN "ring" ELSE owner[s]]
      /\ next_to_use' = Plus(u, n)
      /\ prod' = IF n > 0 THEN Plus(u, n) ELSE prod
  BY DEF AllocRxBuffer, TypeOK
<1>2. /\ n \in 0 .. Count - 1 /\ DOMAIN q = 1 .. n
      /\ \A k \in 1 .. n : q[k] \in Skbs /\ owner[q[k]] = "pool"
      /\ \A j, k \in 1 .. n : q[j] = q[k] => j = k
      /\ \A k \in 1 .. n : IsFree(Plus(u, k))
  BY <1>1, FillsParts
<1> HIDE DEF u, n
<1>u. u = next_to_use /\ n = Len(q)
  BY DEF u, n
<1>3. \A i \in Slots : buffer_info'[i] = IF Dist(u, i) < n THEN Busy(q[Dist(u, i) + 1]) ELSE buffer_info[i]
  BY <1>1, <1>u DEF Filled
<1>4. \A i \in Slots : Dist(u, i) < n => Dist(u, i) + 1 \in 1 .. n
  BY <1>1, <1>2, DistType
<1>5. \A i \in Slots : Dist(u, i) < n =>
        /\ ~buffer_info'[i].free /\ buffer_info'[i].skb = q[Dist(u, i) + 1]
        /\ buffer_info'[i].skb \in Skbs
        /\ owner[buffer_info'[i].skb] = "pool" /\ owner'[buffer_info'[i].skb] = "ring"
  <2> SUFFICES ASSUME NEW i \in Slots, Dist(u, i) < n
               PROVE  /\ ~buffer_info'[i].free /\ buffer_info'[i].skb = q[Dist(u, i) + 1]
                      /\ buffer_info'[i].skb \in Skbs
                      /\ owner[buffer_info'[i].skb] = "pool" /\ owner'[buffer_info'[i].skb] = "ring"
    OBVIOUS
  <2>1. /\ Dist(u, i) + 1 \in DOMAIN q /\ q[Dist(u, i) + 1] \in Skbs
        /\ owner[q[Dist(u, i) + 1]] = "pool"
    BY <1>2, <1>4
  <2>2. buffer_info'[i] = [free |-> FALSE, skb |-> q[Dist(u, i) + 1]]
    BY <1>3 DEF Busy
  <2>3. owner'[q[Dist(u, i) + 1]] = "ring"
    BY <1>1, <2>1
  <2> QED BY <2>1, <2>2, <2>3
<1>6. \A i \in Slots : Dist(u, i) <= n => IsFree(i)
  <2> SUFFICES ASSUME NEW i \in Slots, Dist(u, i) <= n PROVE IsFree(i)
    OBVIOUS
  <2>1. CASE Dist(u, i) = 0
    BY <1>1, <1>u, <2>1, DistZero
  <2>2. CASE Dist(u, i) # 0
    BY <1>1, <1>2, <2>2, DistType, PlusDist
  <2> QED BY <2>1, <2>2
<1>7. \A i, j \in Slots : /\ Dist(u, i) < n /\ Dist(u, j) < n
                          /\ buffer_info'[i].skb = buffer_info'[j].skb
                          => i = j
  BY <1>1, <1>2, <1>4, <1>5, DistType, DistInjective
<1>8. \A s \in Skbs : owner'[s] = owner[s] \/ \E i \in Slots : Dist(u, i) < n /\ buffer_info'[i].skb = s
  <2> SUFFICES ASSUME NEW s \in Skbs, owner'[s] # owner[s]
               PROVE  \E i \in Slots : Dist(u, i) < n /\ buffer_info'[i].skb = s
    OBVIOUS
  <2>1. PICK k \in 1 .. n : q[k] = s
    BY <1>1, <1>2
  <2>2. Plus(u, k - 1) \in Slots /\ Dist(u, Plus(u, k - 1)) = k - 1
    BY <1>1, <1>2, <1>u, PlusType, DistSelf
  <2> QED BY <1>5, <2>1, <2>2, <1>2
<1>9. \A s \in Skbs : owner[s] = "ring" => owner'[s] = "ring"
  BY <1>1
<1>10. Plus(u, n) \in Slots /\ Dist(u, Plus(u, n)) = n
  BY <1>1, <1>2, <1>u, PlusType, DistSelf
<1>11. IsFree(next_to_use)'
  BY <1>1, <1>2, <1>3, <1>6, <1>10, <1>u DEF IsFree
<1>12. \A i \in Slots : Dist(u, i) >= n => buffer_info'[i] = buffer_info[i]
  BY <1>1, <1>2, <1>3, DistType
<1>13. prod = next_to_use => prod' = next_to_use'
  BY <1>1, <1>2, <1>u, PlusDist, DistZero
<1> QED BY <1>1, <1>2, <1>5, <1>6, <1>7, <1>8, <1>9, <1>10, <1>11, <1>12, <1>13, <1>u

(***************************************************************************)
(* The invariant in parts                                                  *)
(***************************************************************************)

Rrds == [updated : BOOLEAN, kind : {"good", "error", "multi"}, rfd : Slots, num : 1 .. 2]

RingsOK ==
    /\ next_to_use \in Slots /\ next_to_clean \in Slots /\ prod \in Slots
    /\ hw_rfd \in Slots /\ hw_rrd \in Slots

BuffersOK == buffer_info \in [Slots -> [free : BOOLEAN, skb : Skbs \cup {None}]]

RrdsOK == rrd \in [Slots -> Rrds]

NapiOK ==
    napi \in [pc : {"idle", "start", "poll", "refill"}, done : 0 .. Budget, count : 0 .. Budget]

FlagsOK ==
    /\ isr_rx \in BOOLEAN /\ rx_unmasked \in BOOLEAN
    /\ carrier \in BOOLEAN /\ flaps \in 0 .. MaxFlaps /\ up \in BOOLEAN

OwnersOK == owner \in [Skbs -> {"pool", "ring", "stack", "lost"}]

LEMMA TypeParts == TypeOK <=> RingsOK /\ BuffersOK /\ RrdsOK /\ NapiOK /\ FlagsOK /\ OwnersOK
BY DEF TypeOK, RingsOK, BuffersOK, RrdsOK, Rrds, NapiOK, FlagsOK, OwnersOK

LEMMA TypePartsNext ==
    RingsOK' /\ BuffersOK' /\ RrdsOK' /\ NapiOK' /\ FlagsOK' /\ OwnersOK' => TypeOK'
BY DEF TypeOK, RingsOK, BuffersOK, RrdsOK, Rrds, NapiOK, FlagsOK, OwnersOK

\* The parts about the poll.
LEMMA NapiRest ==
    ASSUME IInv
    PROVE  /\ napi.pc \in {"idle", "start", "poll", "refill"}
           /\ napi.done \in 0 .. Budget /\ napi.count = napi.done
           /\ napi = [pc |-> napi.pc, done |-> napi.done, count |-> napi.done]
<1>1. NapiOK /\ napi.count = napi.done
  BY TypeParts DEF IInv, BaseInv
<1> QED BY <1>1 DEF NapiOK

LEMMA IdleIsOK ==
    /\ [pc |-> "idle", done |-> 0, count |-> 0] \in
         [pc : {"idle", "start", "poll", "refill"}, done : 0 .. Budget, count : 0 .. Budget]
    /\ [pc |-> "start", done |-> 0, count |-> 0] \in
         [pc : {"idle", "start", "poll", "refill"}, done : 0 .. Budget, count : 0 .. Budget]
<1>1. 0 \in 0 .. Budget
  OBVIOUS
<1> QED BY <1>1

\* A step that leaves the buffers and their owners alone leaves BufInv alone.
LEMMA BuffersRest ==
    ASSUME BufInv, buffer_info' = buffer_info, owner' = owner
    PROVE  BufInv'
BY DEF BufInv, IsFree

LEMMA MarksRest ==
    ASSUME MarkInv, buffer_info' = buffer_info, rrd' = rrd, hw_rfd' = hw_rfd, prod' = prod
    PROVE  MarkInv'
BY DEF MarkInv, IsFree, InHw

LEMMA RrdCleared ==
    ASSUME NEW r \in Rrds
    PROVE  LET x == [r EXCEPT !.updated = FALSE]
           IN  /\ x \in Rrds /\ ~x.updated /\ x.kind = r.kind /\ x.num = r.num
BY DEF Rrds

\* What is reported is of a known kind, and num goes with the kind.
LEMMA RrdAt ==
    ASSUME IInv, NEW i \in Slots
    PROVE  /\ rrd[i] \in Rrds
           /\ rrd[i].num \in 1 .. 2 /\ rrd[i].rfd \in Slots /\ rrd[i].updated \in BOOLEAN
           /\ rrd[i].kind \in {"good", "error", "multi"}
           /\ rrd[i].num = IF rrd[i].kind = "multi" THEN 2 ELSE 1
<1>1. RrdsOK /\ rrd[i].num = IF rrd[i].kind = "multi" THEN 2 ELSE 1
  BY TypeParts DEF IInv, BaseInv
<1>2. rrd[i] \in Rrds
  BY <1>1 DEF RrdsOK
<1> QED BY <1>1, <1>2 DEF Rrds

(***************************************************************************)
(* The steps that move neither buffers nor descriptors                     *)
(***************************************************************************)

LEMMA QuietStep ==
    ASSUME IInv, UNCHANGED <<rfdVars, rrdVars, hw_rfd, hw_rrd, up, owner>>,
           NapiOK', FlagsOK', napi'.count = napi'.done,
           ~up => napi'.pc = "idle"
    PROVE  IInv' /\ (MarkInv => MarkInv')
<1>1. /\ next_to_use' = next_to_use /\ buffer_info' = buffer_info /\ prod' = prod
      /\ next_to_clean' = next_to_clean /\ rrd' = rrd
      /\ hw_rfd' = hw_rfd /\ hw_rrd' = hw_rrd /\ up' = up /\ owner' = owner
  BY DEF rfdVars, rrdVars
<1>2. RingsOK' /\ BuffersOK' /\ RrdsOK' /\ OwnersOK'
  BY <1>1, TypeParts DEF IInv, RingsOK, BuffersOK, RrdsOK, OwnersOK
<1>3. TypeOK'
  BY <1>2, TypePartsNext
<1>4. BaseInv'
  BY <1>1 DEF IInv, BaseInv, IsFree
<1>5. BufInv'
  BY <1>1, BuffersRest DEF IInv
<1>6. MarkInv => MarkInv'
  BY <1>1, MarksRest
<1> QED BY <1>3, <1>4, <1>5, <1>6 DEF IInv

LEMMA IntrRxStep ==
    ASSUME IInv, IntrRx
    PROVE  IInv' /\ (MarkInv => MarkInv')
<1>1. /\ up /\ isr_rx' = FALSE
      /\ UNCHANGED <<rfdVars, rrdVars, hw_rfd, hw_rrd, up, owner>>
      /\ carrier' = carrier /\ flaps' = flaps /\ up' = up
      /\ \/ napi' = [pc |-> "start", done |-> 0, count |-> 0] /\ rx_unmasked' = FALSE
         \/ napi' = napi /\ rx_unmasked' = rx_unmasked
  BY DEF IntrRx, NapiIdle, netVars
<1>2. NapiOK' /\ napi'.count = napi'.done
  BY <1>1, IdleIsOK, TypeParts DEF IInv, BaseInv, NapiOK
<1>3. FlagsOK'
  BY <1>1, TypeParts DEF IInv, FlagsOK
<1> QED BY <1>1, <1>2, <1>3, QuietStep

LEMMA PollStartStep ==
    ASSUME IInv, PollStart
    PROVE  IInv' /\ (MarkInv => MarkInv')
<1>1. /\ napi.pc = "start" /\ isr_rx' = isr_rx
      /\ UNCHANGED <<rfdVars, rrdVars, hw_rfd, hw_rrd, up, owner>>
      /\ carrier' = carrier /\ flaps' = flaps /\ up' = up
      /\ \/ napi' = [napi EXCEPT !.pc = "poll"] /\ rx_unmasked' = rx_unmasked
         \/ napi' = [pc |-> "idle", done |-> 0, count |-> 0] /\ rx_unmasked' = TRUE
  BY DEF PollStart, Complete, NapiIdle, netVars, hwVars
<1>2. up
  BY <1>1 DEF IInv, BaseInv
<1>3. NapiOK' /\ napi'.count = napi'.done
  BY <1>1, IdleIsOK, TypeParts DEF IInv, BaseInv, NapiOK
<1>4. FlagsOK'
  BY <1>1, TypeParts DEF IInv, FlagsOK
<1> QED BY <1>1, <1>2, <1>3, <1>4, QuietStep

LEMMA PollStopStep ==
    ASSUME IInv, PollStop
    PROVE  IInv' /\ (MarkInv => MarkInv')
<1>1. /\ napi.pc = "poll" /\ isr_rx' = isr_rx
      /\ UNCHANGED <<rfdVars, rrdVars, hw_rfd, hw_rrd, up, owner>>
      /\ carrier' = carrier /\ flaps' = flaps /\ up' = up
      /\ napi' = [napi EXCEPT !.pc = "refill"] /\ rx_unmasked' = rx_unmasked
  BY DEF PollStop, netVars, hwVars
<1>2. up
  BY <1>1 DEF IInv, BaseInv
<1>3. NapiOK' /\ napi'.count = napi'.done
  BY <1>1, TypeParts DEF IInv, BaseInv, NapiOK
<1>4. FlagsOK'
  BY <1>1, TypeParts DEF IInv, FlagsOK
<1> QED BY <1>1, <1>2, <1>3, <1>4, QuietStep

LEMMA CarrierChangeStep ==
    ASSUME IInv, CarrierChange
    PROVE  IInv' /\ (MarkInv => MarkInv')
<1>1. /\ flaps < MaxFlaps /\ flaps' = flaps + 1 /\ carrier' = ~carrier
      /\ UNCHANGED <<rfdVars, rrdVars, hw_rfd, hw_rrd, up, owner>>
      /\ isr_rx' = isr_rx /\ up' = up /\ rx_unmasked' = rx_unmasked /\ napi' = napi
  BY DEF CarrierChange, hwVars
<1>2. NapiOK' /\ napi'.count = napi'.done /\ (~up => napi'.pc = "idle")
  BY <1>1, TypeParts DEF IInv, BaseInv, NapiOK
<1>3. FlagsOK'
  BY <1>1, TypeParts DEF IInv, FlagsOK
<1> QED BY <1>1, <1>2, <1>3, QuietStep

\* The stack's buffers are not the ring's.
LEMMA StackFreeStep ==
    ASSUME IInv, NEW s \in Skbs, StackFree(s)
    PROVE  IInv' /\ (MarkInv => MarkInv')
<1>1. /\ owner[s] = "stack" /\ owner' = [owner EXCEPT ![s] = "pool"]
      /\ next_to_use' = next_to_use /\ buffer_info' = buffer_info /\ prod' = prod
      /\ next_to_clean' = next_to_clean /\ rrd' = rrd
      /\ hw_rfd' = hw_rfd /\ hw_rrd' = hw_rrd /\ isr_rx' = isr_rx
      /\ rx_unmasked' = rx_unmasked /\ napi' = napi
      /\ carrier' = carrier /\ flaps' = flaps /\ up' = up
  BY DEF StackFree, rfdVars, rrdVars, hwVars, netVars
<1>2. RingsOK' /\ BuffersOK' /\ RrdsOK' /\ NapiOK' /\ FlagsOK' /\ OwnersOK'
  BY <1>1, TypeParts DEF IInv, RingsOK, BuffersOK, RrdsOK, NapiOK, FlagsOK, OwnersOK
<1>3. TypeOK'
  BY <1>2, TypePartsNext
<1>4. BaseInv'
  BY <1>1 DEF IInv, BaseInv, IsFree
<1>5. \A x \in Skbs : owner[x] = "ring" => owner'[x] = "ring"
  BY <1>1, TypeParts DEF IInv, OwnersOK
<1>6. BufInv'
  BY <1>1, <1>5 DEF IInv, BufInv, IsFree
<1>7. MarkInv => MarkInv'
  BY <1>1, MarksRest
<1> QED BY <1>3, <1>4, <1>6, <1>7 DEF IInv

(***************************************************************************)
(* The steps of the poll that clean                                        *)
(***************************************************************************)

\* atl1c_clean_rrd: the descriptors cleaned are not updated, the others are as
\* they were.
LEMMA CleanRrdParts ==
    ASSUME IInv, CleanRrd(rrd[next_to_clean].num)
    PROVE  /\ RrdsOK' /\ next_to_clean' \in Slots
           /\ \A i \in Slots : rrd'[i].num = IF rrd'[i].kind = "multi" THEN 2 ELSE 1
           /\ ~rrd'[next_to_clean].updated
           /\ \A i \in Slots : rrd'[i].updated => rrd'[i] = rrd[i] /\ rrd[i].updated
<1> DEFINE c == next_to_clean
<1> DEFINE n == rrd[next_to_clean].num
<1>1. c \in Slots /\ n \in 1 .. 2
  BY RrdAt, TypeParts DEF IInv, RingsOK
<1>2. /\ rrd' = [i \in Slots |-> IF Dist(c, i) < n THEN [rrd[i] EXCEPT !.updated = FALSE] ELSE rrd[i]]
      /\ next_to_clean' = Plus(c, n)
  BY DEF CleanRrd
<1> HIDE DEF c, n
<1>c. c = next_to_clean
  BY DEF c
<1>3. next_to_clean' \in Slots
  BY <1>1, <1>2, PlusType
<1>4. \A i \in Slots : /\ rrd'[i] \in Rrds
                       /\ rrd'[i].num = IF rrd'[i].kind = "multi" THEN 2 ELSE 1
                       /\ rrd'[i].updated => rrd'[i] = rrd[i] /\ rrd[i].updated
                       /\ Dist(c, i) < n => ~rrd'[i].updated
  <2> TAKE i \in Slots
  <2>1. rrd[i] \in Rrds /\ rrd[i].num = IF rrd[i].kind = "multi" THEN 2 ELSE 1
    BY RrdAt
  <2>2. CASE Dist(c, i) < n
    <3>1. rrd'[i] = [rrd[i] EXCEPT !.updated = FALSE]
      BY <1>2, <2>2
    <3> QED BY <2>1, <3>1, RrdCleared
  <2>3. CASE ~(Dist(c, i) < n)
    <3>1. rrd'[i] = rrd[i]
      BY <1>2, <2>3
    <3> QED BY <2>1, <2>3, <3>1
  <2> QED BY <2>2, <2>3
<1>5. RrdsOK'
  BY <1>2, <1>4 DEF RrdsOK
<1>6. Dist(c, c) < n
  BY <1>1, DistZero
<1> QED BY <1>1, <1>3, <1>4, <1>5, <1>6, <1>c

\* atl1c_clean_rfd for a frame of one buffer frees its slot and no other.
LEMMA CleanRfdParts ==
    ASSUME IInv, NEW f \in Slots, CleanRfd(f, 1)
    PROVE  /\ BuffersOK' /\ buffer_info'[f] = [free |-> TRUE, skb |-> None]
           /\ \A i \in Slots : i # f => buffer_info'[i] = buffer_info[i]
           /\ IsFree(next_to_use) => buffer_info'[next_to_use].free
<1>1. /\ BuffersOK /\ next_to_use \in Slots
  BY TypeParts DEF IInv, RingsOK
<1>2. buffer_info' = [i \in Slots |-> IF Dist(f, i) < 1 THEN [free |-> TRUE, skb |-> None]
                                                      ELSE buffer_info[i]]
  BY DEF CleanRfd, Free
<1>3. \A i \in Slots : Dist(f, i) < 1 <=> i = f
  BY DistZero, DistType
<1>4. buffer_info' = [i \in Slots |-> IF i = f THEN [free |-> TRUE, skb |-> None]
                                              ELSE buffer_info[i]]
  BY <1>2, <1>3
<1>5. BuffersOK'
  BY <1>1, <1>4 DEF BuffersOK
<1> QED BY <1>1, <1>4, <1>5 DEF IsFree

\* The buffers after a slot is freed, when only its skb may have left the ring.
LEMMA BufferFreed ==
    ASSUME BufInv, NEW f \in Slots, buffer_info'[f] = [free |-> TRUE, skb |-> None],
           \A i \in Slots : i # f => buffer_info'[i] = buffer_info[i],
           \A s \in Skbs : s # buffer_info[f].skb => owner'[s] = owner[s]
    PROVE  BufInv'
<1>1. \A i \in Slots : ~IsFree(i)' => i # f /\ ~IsFree(i) /\ buffer_info'[i] = buffer_info[i]
  BY DEF IsFree
<1>2. \A i \in Slots : IF IsFree(i)' THEN buffer_info'[i].skb = None
                       ELSE buffer_info'[i].skb \in Skbs /\ owner'[buffer_info'[i].skb] = "ring"
  <2> TAKE i \in Slots
  <2>1. CASE IsFree(i)'
    BY <2>1 DEF BufInv, IsFree
  <2>2. CASE ~IsFree(i)'
    <3>1. i # f /\ ~IsFree(i) /\ buffer_info'[i] = buffer_info[i]
      BY <1>1, <2>2
    <3>2. buffer_info[i].skb # buffer_info[f].skb
      BY <3>1 DEF BufInv
    <3> QED BY <2>2, <3>1, <3>2 DEF BufInv
  <2> QED BY <2>1, <2>2
<1>3. \A i, j \in Slots : ~IsFree(i)' /\ buffer_info'[i].skb = buffer_info'[j].skb => i = j
  <2> SUFFICES ASSUME NEW i \in Slots, NEW j \in Slots,
                      ~IsFree(i)', buffer_info'[i].skb = buffer_info'[j].skb
               PROVE  i = j
    OBVIOUS
  <2>1. i # f /\ ~IsFree(i) /\ buffer_info'[i] = buffer_info[i] /\ buffer_info[i].skb \in Skbs
    BY <1>1 DEF BufInv
  <2>2. j # f
    BY <2>1
  <2> QED BY <2>1, <2>2 DEF BufInv
<1> QED BY <1>2, <1>3 DEF BufInv

\* What is cleaned was reported in the slot of its own buffer.
LEMMA MarkFreed ==
    ASSUME IInv, MarkInv, rrd[next_to_clean].updated, prod' = prod, hw_rfd' = hw_rfd,
           ~rrd'[next_to_clean].updated,
           \A i \in Slots : rrd'[i].updated => rrd'[i] = rrd[i] /\ rrd[i].updated,
           \A i \in Slots : i # rrd[next_to_clean].rfd => buffer_info'[i] = buffer_info[i]
    PROVE  MarkInv'
<1>1. next_to_clean \in Slots
  BY TypeParts DEF IInv, RingsOK
<1>2. rrd[next_to_clean].rfd = next_to_clean /\ ~InHw(next_to_clean)
  BY <1>1 DEF MarkInv
<1>3. \A i \in Slots : InHw(i)' <=> InHw(i)
  BY DEF InHw
<1>4. \A i \in Slots : i # next_to_clean => (IsFree(i)' <=> IsFree(i))
  BY <1>2 DEF IsFree
<1>5. \A i \in Slots : InHw(i)' => ~IsFree(i)' /\ ~rrd'[i].updated
  BY <1>2, <1>3, <1>4 DEF MarkInv
<1>6. \A i \in Slots : rrd'[i].updated => rrd'[i].rfd = i /\ ~IsFree(i)'
  BY <1>4 DEF MarkInv
<1> QED BY <1>5, <1>6 DEF MarkInv

LEMMA PollGoodStep ==
    ASSUME IInv, PollGood
    PROVE  IInv' /\ (MarkInv => MarkInv')
<1> DEFINE c == next_to_clean
<1> DEFINE f == rrd[next_to_clean].rfd
<1> DEFINE b == buffer_info[f].skb
<1>1. /\ napi.pc = "poll" /\ napi.done < Budget
      /\ rrd[c].updated /\ rrd[c].kind = "good"
      /\ CleanRrd(rrd[next_to_clean].num) /\ CleanRfd(f, rrd[c].num)
      /\ owner' = [owner EXCEPT ![b] = "stack"]
      /\ napi' = [napi EXCEPT !.done = @ + 1, !.count = @ + 1]
      /\ next_to_use' = next_to_use /\ prod' = prod
      /\ hw_rfd' = hw_rfd /\ hw_rrd' = hw_rrd /\ isr_rx' = isr_rx
      /\ rx_unmasked' = rx_unmasked /\ carrier' = carrier /\ flaps' = flaps /\ up' = up
  BY DEF PollGood, Valid, hwVars, netVars
<1>2. /\ RingsOK /\ NapiOK /\ FlagsOK /\ OwnersOK /\ c \in Slots
  BY TypeParts DEF IInv, RingsOK
<1>3. rrd[c].num = 1 /\ f \in Slots
  BY <1>1, <1>2, RrdAt
<1>4. /\ RrdsOK' /\ next_to_clean' \in Slots
      /\ \A i \in Slots : rrd'[i].num = IF rrd'[i].kind = "multi" THEN 2 ELSE 1
      /\ ~rrd'[c].updated
      /\ \A i \in Slots : rrd'[i].updated => rrd'[i] = rrd[i] /\ rrd[i].updated
  BY <1>1, CleanRrdParts
<1>5. /\ BuffersOK' /\ buffer_info'[f] = [free |-> TRUE, skb |-> None]
      /\ \A i \in Slots : i # f => buffer_info'[i] = buffer_info[i]
      /\ IsFree(next_to_use) => buffer_info'[next_to_use].free
  BY <1>1, <1>3, CleanRfdParts
<1>6. RingsOK' /\ FlagsOK' /\ OwnersOK'
  BY <1>1, <1>2, <1>4 DEF RingsOK, FlagsOK, OwnersOK
<1>7. NapiOK' /\ napi'.count = napi'.done
  <2>1. /\ napi \in [pc : {"idle", "start", "poll", "refill"}, done : 0 .. Budget,
                     count : 0 .. Budget]
        /\ napi.count = napi.done
    BY <1>2 DEF NapiOK, IInv, BaseInv
  <2>2. napi.done + 1 \in 0 .. Budget
    BY <1>1, <2>1
  <2>3. napi' = [pc |-> napi.pc, done |-> napi.done + 1, count |-> napi.done + 1]
    BY <1>1, <2>1
  <2> QED BY <2>1, <2>2, <2>3 DEF NapiOK
<1>8. TypeOK'
  BY <1>4, <1>5, <1>6, <1>7, TypePartsNext
<1>9. BaseInv'
  <2>1. up
    BY <1>1 DEF IInv, BaseInv
  <2> QED BY <1>1, <1>4, <1>5, <1>7, <2>1 DEF IInv, BaseInv, IsFree
<1>10. BufInv'
  <2>1. \A s \in Skbs : s # b => owner'[s] = owner[s]
    BY <1>1, <1>2 DEF OwnersOK
  <2> QED BY <1>3, <1>5, <2>1, BufferFreed DEF IInv
<1>11. MarkInv => MarkInv'
  BY <1>1, <1>4, <1>5, MarkFreed
<1> QED BY <1>8, <1>9, <1>10, <1>11 DEF IInv

LEMMA PollErrorStep ==
    ASSUME IInv, PollError
    PROVE  IInv' /\ (MarkInv => MarkInv')
<1> DEFINE c == next_to_clean
<1> DEFINE f == rrd[next_to_clean].rfd
<1> DEFINE b == buffer_info[f].skb
<1>1. /\ napi.pc = "poll" /\ rrd[c].updated /\ rrd[c].kind = "error"
      /\ CleanRrd(rrd[next_to_clean].num) /\ CleanRfd(f, rrd[c].num)
      /\ owner' = [owner EXCEPT ![b] = "lost"] /\ napi' = napi
      /\ next_to_use' = next_to_use /\ prod' = prod
      /\ hw_rfd' = hw_rfd /\ hw_rrd' = hw_rrd /\ isr_rx' = isr_rx
      /\ rx_unmasked' = rx_unmasked /\ carrier' = carrier /\ flaps' = flaps /\ up' = up
  BY DEF PollError, Valid, hwVars, netVars
<1>2. /\ RingsOK /\ NapiOK /\ FlagsOK /\ OwnersOK /\ c \in Slots
  BY TypeParts DEF IInv, RingsOK
<1>3. rrd[c].num = 1 /\ f \in Slots
  BY <1>1, <1>2, RrdAt
<1>4. /\ RrdsOK' /\ next_to_clean' \in Slots
      /\ \A i \in Slots : rrd'[i].num = IF rrd'[i].kind = "multi" THEN 2 ELSE 1
      /\ ~rrd'[c].updated
      /\ \A i \in Slots : rrd'[i].updated => rrd'[i] = rrd[i] /\ rrd[i].updated
  BY <1>1, CleanRrdParts
<1>5. /\ BuffersOK' /\ buffer_info'[f] = [free |-> TRUE, skb |-> None]
      /\ \A i \in Slots : i # f => buffer_info'[i] = buffer_info[i]
      /\ IsFree(next_to_use) => buffer_info'[next_to_use].free
  BY <1>1, <1>3, CleanRfdParts
<1>6. RingsOK' /\ FlagsOK' /\ OwnersOK' /\ NapiOK'
  BY <1>1, <1>2, <1>4 DEF RingsOK, FlagsOK, OwnersOK, NapiOK
<1>7. TypeOK'
  BY <1>4, <1>5, <1>6, TypePartsNext
<1>8. BaseInv'
  BY <1>1, <1>4, <1>5 DEF IInv, BaseInv, IsFree
<1>9. BufInv'
  <2>1. \A s \in Skbs : s # b => owner'[s] = owner[s]
    BY <1>1, <1>2 DEF OwnersOK
  <2> QED BY <1>3, <1>5, <2>1, BufferFreed DEF IInv
<1>10. MarkInv => MarkInv'
  BY <1>1, <1>4, <1>5, MarkFreed
<1> QED BY <1>7, <1>8, <1>9, <1>10 DEF IInv

LEMMA PollMultiStep ==
    ASSUME IInv, PollMulti
    PROVE  IInv' /\ (MarkInv => MarkInv')
<1> DEFINE c == next_to_clean
<1>1. /\ napi.pc = "poll" /\ rrd[c].updated
      /\ CleanRrd(rrd[next_to_clean].num)
      /\ napi' = [napi EXCEPT !.pc = "refill"]
      /\ next_to_use' = next_to_use /\ buffer_info' = buffer_info /\ prod' = prod
      /\ hw_rfd' = hw_rfd /\ hw_rrd' = hw_rrd /\ isr_rx' = isr_rx
      /\ rx_unmasked' = rx_unmasked /\ carrier' = carrier /\ flaps' = flaps /\ up' = up
      /\ owner' = owner
  BY DEF PollMulti, Valid, rfdVars, hwVars, netVars
<1>2. /\ RingsOK /\ BuffersOK /\ NapiOK /\ FlagsOK /\ OwnersOK /\ c \in Slots
  BY TypeParts DEF IInv, RingsOK
<1>3. /\ RrdsOK' /\ next_to_clean' \in Slots
      /\ \A i \in Slots : rrd'[i].num = IF rrd'[i].kind = "multi" THEN 2 ELSE 1
      /\ ~rrd'[c].updated
      /\ \A i \in Slots : rrd'[i].updated => rrd'[i] = rrd[i] /\ rrd[i].updated
  BY <1>1, CleanRrdParts
<1>4. RingsOK' /\ BuffersOK' /\ FlagsOK' /\ OwnersOK'
  BY <1>1, <1>2, <1>3 DEF RingsOK, BuffersOK, FlagsOK, OwnersOK
<1>5. NapiOK' /\ napi'.count = napi'.done
  BY <1>1, <1>2 DEF NapiOK, IInv, BaseInv
<1>6. TypeOK'
  BY <1>3, <1>4, <1>5, TypePartsNext
<1>7. BaseInv'
  <2>1. up
    BY <1>1 DEF IInv, BaseInv
  <2> QED BY <1>1, <1>3, <1>5, <2>1 DEF IInv, BaseInv, IsFree
<1>8. BufInv'
  BY <1>1, BuffersRest DEF IInv
<1>9. MarkInv => MarkInv'
  BY <1>1, <1>3, MarkFreed
<1> QED BY <1>6, <1>7, <1>8, <1>9 DEF IInv

(***************************************************************************)
(* The steps that fill the ring                                            *)
(***************************************************************************)

LEMMA AllocTypes ==
    ASSUME TypeOK, NEW q, AllocRxBuffer(next_to_use, buffer_info, owner, q)
    PROVE  BuffersOK' /\ OwnersOK'
<1>1. /\ BuffersOK /\ OwnersOK /\ next_to_use \in Slots
      /\ q \in Fills(next_to_use, buffer_info, owner)
      /\ buffer_info' = Filled(next_to_use, buffer_info, q)
      /\ owner' = [s \in Skbs |-> IF \E k \in DOMAIN q : q[k] = s THEN "ring" ELSE owner[s]]
  BY TypeParts DEF AllocRxBuffer, RingsOK
<1>2. Len(q) \in 0 .. Count - 1 /\ \A k \in 1 .. Len(q) : q[k] \in Skbs
  BY <1>1, FillsParts
<1>3. \A i \in Slots : Dist(next_to_use, i) < Len(q) => q[Dist(next_to_use, i) + 1] \in Skbs
  BY <1>1, <1>2, DistType
<1>4. \A s \in Skbs : Busy(s) \in [free : BOOLEAN, skb : Skbs \cup {None}]
  BY DEF Busy
<1>5. BuffersOK'
  BY <1>1, <1>3, <1>4 DEF BuffersOK, Filled
<1>6. OwnersOK'
  BY <1>1 DEF OwnersOK
<1> QED BY <1>5, <1>6

\* The slots filled were free, the skbs were in the pool.
LEMMA AllocBuf ==
    ASSUME TypeOK, BufInv, IsFree(next_to_use), NEW q,
           AllocRxBuffer(next_to_use, buffer_info, owner, q)
    PROVE  BufInv'
<1> DEFINE New(i) == Dist(next_to_use, i) < Len(q)
<1>0. /\ Len(q) \in 0 .. Count - 1 /\ next_to_use \in Slots
      /\ OwnersOK
  BY AllocSlots, TypeParts DEF RingsOK
<1>1. \A i \in Slots : New(i) =>
        /\ ~buffer_info'[i].free /\ buffer_info'[i].skb \in Skbs
        /\ owner[buffer_info'[i].skb] = "pool" /\ owner'[buffer_info'[i].skb] = "ring"
  BY AllocSlots
<1>2. \A i \in Slots : ~New(i) => buffer_info'[i] = buffer_info[i]
  BY <1>0, AllocSlots, DistType
<1>3. \A i, j \in Slots : New(i) /\ New(j) /\ buffer_info'[i].skb = buffer_info'[j].skb => i = j
  BY AllocSlots
<1>4. \A s \in Skbs : owner[s] = "ring" => owner'[s] = "ring"
  BY AllocSlots
<1>5. \A i \in Slots : ~New(i) => \/ buffer_info'[i].free /\ buffer_info'[i].skb = None
                                  \/ /\ ~buffer_info'[i].free /\ buffer_info'[i].skb \in Skbs
                                     /\ owner[buffer_info'[i].skb] = "ring"
  BY <1>2 DEF BufInv, IsFree
<1> HIDE DEF New
<1>6. \A i \in Slots : IF IsFree(i)' THEN buffer_info'[i].skb = None
                       ELSE buffer_info'[i].skb \in Skbs /\ owner'[buffer_info'[i].skb] = "ring"
  BY <1>1, <1>4, <1>5 DEF IsFree
<1>7. \A i, j \in Slots : ~IsFree(i)' /\ buffer_info'[i].skb = buffer_info'[j].skb => i = j
  <2> SUFFICES ASSUME NEW i \in Slots, NEW j \in Slots,
                      ~IsFree(i)', buffer_info'[i].skb = buffer_info'[j].skb
               PROVE  i = j
    OBVIOUS
  <2>1. CASE New(i)
    <3>1. New(j)
      BY <1>1, <1>5, <2>1
    <3> QED BY <1>3, <2>1, <3>1
  <2>2. CASE ~New(i)
    <3>1. /\ buffer_info'[i] = buffer_info[i] /\ ~IsFree(i)
          /\ buffer_info'[i].skb \in Skbs /\ owner[buffer_info'[i].skb] = "ring"
      BY <1>2, <1>5, <2>2 DEF IsFree
    <3>2. ~New(j)
      BY <1>1, <3>1
    <3> QED BY <1>2, <3>1, <3>2 DEF BufInv
  <2> QED BY <2>1, <2>2
<1> QED BY <1>6, <1>7 DEF BufInv

\* The NIC may not fill a slot that was filled just now and reported before: it
\* was free until now.
LEMMA AllocMark ==
    ASSUME TypeOK, MarkInv, IsFree(next_to_use), prod = next_to_use, NEW q,
           AllocRxBuffer(next_to_use, buffer_info, owner, q),
           hw_rfd' = hw_rfd, rrd' = rrd
    PROVE  MarkInv'
<1> DEFINE u == next_to_use
<1> DEFINE h == hw_rfd
<1> DEFINE n == Len(q)
<1>1. /\ n \in 0 .. Count - 1 /\ u \in Slots /\ h \in Slots
      /\ prod = u /\ prod' = Plus(u, n) /\ Plus(u, n) \in Slots
  BY AllocSlots, TypeParts DEF RingsOK
<1>2. \A i \in Slots : Dist(u, i) <= n => IsFree(i)
  BY AllocSlots
<1>3. \A i \in Slots : Dist(u, i) < n => ~buffer_info'[i].free
  BY AllocSlots
<1>4. \A i \in Slots : Dist(u, i) >= n => buffer_info'[i] = buffer_info[i]
  BY AllocSlots
<1> HIDE DEF n, u
<1>5. Dist(h, u) + n < Count
  <2>1. CASE h = u
    BY <1>1, <2>1, DistZero
  <2>2. CASE h # u
    <3>1. Dist(h, h) = 0 /\ Dist(h, u) # 0 /\ Dist(h, u) \in 0 .. Count - 1
      BY <1>1, <2>2, DistZero, DistType
    <3>2. ~IsFree(h)
      BY <1>1, <3>1 DEF MarkInv, InHw
    <3>3. ~(Dist(u, h) <= n)
      BY <1>1, <1>2, <3>2
    <3>4. Dist(u, h) = Count - Dist(h, u)
      BY <1>1, <2>2, DistIs DEF Slots
    <3> QED BY <1>1, <3>1, <3>3, <3>4
  <2> QED BY <2>1, <2>2
<1>6. Dist(h, prod') = Dist(h, u) + n /\ Dist(h, u) \in 0 .. Count - 1
  BY <1>1, <1>5, DistFar, DistType
<1>7. \A i \in Slots : ~IsFree(i) => ~IsFree(i)'
  BY <1>1, <1>2, <1>3, <1>4, DistType DEF IsFree
<1>8. \A i \in Slots : InHw(i)' => ~IsFree(i)' /\ ~rrd'[i].updated
  <2> SUFFICES ASSUME NEW i \in Slots, InHw(i)'
               PROVE  ~IsFree(i)' /\ ~rrd'[i].updated
    OBVIOUS
  <2>1. Dist(h, i) < Dist(h, u) + n /\ Dist(h, i) \in 0 .. Count - 1
    BY <1>1, <1>6, DistType DEF InHw
  <2>2. CASE Dist(h, i) < Dist(h, u)
    <3>1. ~IsFree(i) /\ ~rrd[i].updated
      BY <1>1, <2>2 DEF MarkInv, InHw
    <3> QED BY <1>7, <3>1
  <2>3. CASE ~(Dist(h, i) < Dist(h, u))
    <3>1. Dist(u, i) < n /\ Dist(u, i) \in 0 .. Count - 1
      <4>1. Dist(Plus(h, Dist(h, u)), i) = Dist(h, i) - Dist(h, u)
        BY <1>1, <1>6, <2>1, <2>3, DistNear
      <4> QED BY <1>1, <1>6, <2>1, <2>3, <4>1, PlusDist
    <3>2. IsFree(i) /\ ~IsFree(i)'
      BY <1>1, <1>2, <1>3, <3>1 DEF IsFree
    <3> QED BY <3>2 DEF MarkInv
  <2> QED BY <2>2, <2>3
<1>9. \A i \in Slots : rrd'[i].updated => rrd'[i].rfd = i /\ ~IsFree(i)'
  BY <1>7 DEF MarkInv
<1> QED BY <1>8, <1>9 DEF MarkInv

LEMMA PollRefillStep ==
    ASSUME IInv, PollRefill
    PROVE  IInv' /\ (MarkInv => MarkInv')
<1>1. /\ napi.pc = "refill"
      /\ \/ \E q : AllocRxBuffer(next_to_use, buffer_info, owner, q)
         \/ next_to_use' = next_to_use /\ buffer_info' = buffer_info /\ prod' = prod /\ owner' = owner
      /\ \/ napi' = [pc |-> "idle", done |-> 0, count |-> 0] /\ rx_unmasked' = TRUE
         \/ napi' = [pc |-> "start", done |-> 0, count |-> 0] /\ rx_unmasked' = rx_unmasked
      /\ next_to_clean' = next_to_clean /\ rrd' = rrd
      /\ hw_rfd' = hw_rfd /\ hw_rrd' = hw_rrd /\ isr_rx' = isr_rx
      /\ carrier' = carrier /\ flaps' = flaps /\ up' = up
  BY DEF PollRefill, Complete, NapiIdle, rfdVars, rrdVars, hwVars, netVars
<1>2. /\ TypeOK /\ RingsOK /\ BuffersOK /\ RrdsOK /\ FlagsOK /\ OwnersOK
      /\ BufInv /\ IsFree(next_to_use) /\ prod = next_to_use /\ up
  BY <1>1, TypeParts DEF IInv, BaseInv
<1>3. RrdsOK' /\ FlagsOK' /\ NapiOK' /\ napi'.count = napi'.done
  <2>1. RrdsOK'
    BY <1>1, <1>2 DEF RrdsOK
  <2>2. FlagsOK'
    BY <1>1, <1>2 DEF FlagsOK
  <2>3. NapiOK' /\ napi'.count = napi'.done
    BY <1>1, IdleIsOK DEF NapiOK
  <2> QED BY <2>1, <2>2, <2>3
<1>4. /\ RingsOK' /\ BuffersOK' /\ OwnersOK' /\ prod' = next_to_use' /\ IsFree(next_to_use)'
      /\ BufInv' /\ (MarkInv => MarkInv')
  <2>1. ASSUME NEW q, AllocRxBuffer(next_to_use, buffer_info, owner, q)
        PROVE  /\ RingsOK' /\ BuffersOK' /\ OwnersOK' /\ prod' = next_to_use' /\ IsFree(next_to_use)'
               /\ BufInv' /\ (MarkInv => MarkInv')
    <3>1. next_to_use' \in Slots /\ prod' = next_to_use' /\ IsFree(next_to_use)'
      BY <1>2, <2>1, AllocSlots
    <3>2. RingsOK'
      BY <1>1, <1>2, <3>1 DEF RingsOK
    <3> QED BY <1>1, <1>2, <2>1, <3>1, <3>2, AllocTypes, AllocBuf, AllocMark
  <2>2. ASSUME next_to_use' = next_to_use, buffer_info' = buffer_info, prod' = prod, owner' = owner
        PROVE  /\ RingsOK' /\ BuffersOK' /\ OwnersOK' /\ prod' = next_to_use' /\ IsFree(next_to_use)'
               /\ BufInv' /\ (MarkInv => MarkInv')
    <3>1. RingsOK' /\ BuffersOK' /\ OwnersOK' /\ prod' = next_to_use' /\ IsFree(next_to_use)'
      BY <1>1, <1>2, <2>2 DEF RingsOK, BuffersOK, OwnersOK, IsFree
    <3> QED BY <1>1, <1>2, <2>2, <3>1, BuffersRest, MarksRest
  <2> QED BY <1>1, <2>1, <2>2
<1>5. TypeOK'
  BY <1>3, <1>4, TypePartsNext
<1>6. BaseInv'
  BY <1>1, <1>2, <1>3, <1>4 DEF IInv, BaseInv
<1> QED BY <1>4, <1>5, <1>6 DEF IInv

LEMMA UpStep ==
    ASSUME IInv, Up
    PROVE  IInv' /\ (MarkInv => MarkInv')
<1>1. /\ ~up /\ next_to_use = 0 /\ napi.pc = "idle"
      /\ next_to_clean' = next_to_clean /\ rrd' = rrd
      /\ hw_rfd' = hw_rfd /\ hw_rrd' = hw_rrd /\ isr_rx' = isr_rx
      /\ rx_unmasked' = rx_unmasked /\ napi' = napi /\ carrier' = carrier /\ flaps' = flaps
  BY DEF Up, rrdVars, hwVars, IInv, BaseInv
<1>2. PICK q : AllocRxBuffer(next_to_use, buffer_info, owner, q) /\ up' = (Len(q) > 0)
  BY <1>1 DEF Up
<1>3. /\ TypeOK /\ RingsOK /\ BuffersOK /\ RrdsOK /\ NapiOK /\ FlagsOK /\ OwnersOK
      /\ BufInv /\ IsFree(next_to_use) /\ prod = next_to_use
  BY TypeParts DEF IInv, BaseInv
<1>4. /\ next_to_use' \in Slots /\ prod' = next_to_use' /\ IsFree(next_to_use)'
      /\ Len(q) \in 0 .. Count - 1 /\ next_to_use' = Plus(next_to_use, Len(q))
  BY <1>2, <1>3, AllocSlots
<1>5. BuffersOK' /\ OwnersOK' /\ BufInv' /\ (MarkInv => MarkInv')
  BY <1>1, <1>2, <1>3, AllocTypes, AllocBuf, AllocMark
<1>6. RingsOK' /\ RrdsOK' /\ NapiOK' /\ FlagsOK'
  BY <1>1, <1>2, <1>3, <1>4 DEF RingsOK, RrdsOK, NapiOK, FlagsOK
<1>7. TypeOK'
  BY <1>5, <1>6, TypePartsNext
<1>8. ~up' => next_to_use' = 0
  <2>1. Plus(0, 0) = 0
    BY ZeroSlot, PlusIs
  <2>2. ASSUME ~up' PROVE Len(q) = 0
    <3>1. ~(Len(q) > 0)
      BY <1>2, <2>2
    <3> QED BY <1>4, <3>1
  <2> QED BY <1>1, <1>4, <2>1, <2>2
<1>9. BaseInv'
  BY <1>1, <1>4, <1>8 DEF IInv, BaseInv
<1> QED BY <1>5, <1>7, <1>9 DEF IInv

(***************************************************************************)
(* Going down, and the NIC                                                 *)
(***************************************************************************)

LEMMA DownStep ==
    ASSUME IInv, NEW reset \in BOOLEAN, Down(reset)
    PROVE  IInv' /\ (Drained /\ MarkInv => MarkInv')
<1>1. /\ napi.pc = "idle" /\ up' = FALSE
      /\ reset /\ Drained => \A i \in Slots : ~rrd[i].updated
      /\ buffer_info' = [i \in Slots |-> [free |-> TRUE, skb |-> None]]
      /\ \A s \in Skbs : owner'[s] \in {"pool", owner[s]}
      /\ next_to_use' = 0 /\ next_to_clean' = 0
      /\ rrd' = IF reset THEN rrd ELSE [i \in Slots |-> NoRrd]
      /\ prod' = 0 /\ hw_rfd' = 0 /\ hw_rrd' = 0 /\ isr_rx' = FALSE
      /\ rx_unmasked' = rx_unmasked /\ napi' = napi /\ carrier' = carrier /\ flaps' = flaps
  BY DEF Down, CleanRxRing, Free
<1>2. owner' = [s \in Skbs |-> IF \E i \in Slots : ~buffer_info[i].free /\ buffer_info[i].skb = s
                               THEN "pool" ELSE owner[s]]
  BY DEF Down, CleanRxRing
<1>3. RrdsOK /\ NapiOK /\ FlagsOK /\ OwnersOK
  BY TypeParts DEF IInv
<1>4. NoRrd \in Rrds /\ NoRrd.num = 1 /\ NoRrd.kind = "good" /\ ~NoRrd.updated
  BY ZeroSlot DEF NoRrd, Rrds
<1>5. RingsOK' /\ BuffersOK' /\ NapiOK' /\ FlagsOK'
  BY <1>1, <1>3, ZeroSlot DEF RingsOK, BuffersOK, NapiOK, FlagsOK
<1>6. RrdsOK'
  BY <1>1, <1>3, <1>4 DEF RrdsOK
<1>7. OwnersOK'
  BY <1>2, <1>3 DEF OwnersOK
<1>8. TypeOK'
  BY <1>5, <1>6, <1>7, TypePartsNext
<1>9. \A i \in Slots : rrd'[i].num = IF rrd'[i].kind = "multi" THEN 2 ELSE 1
  BY <1>1, <1>4 DEF IInv, BaseInv
<1>10. \A i \in Slots : IsFree(i)' /\ buffer_info'[i].skb = None
  BY <1>1 DEF IsFree
<1>11. BaseInv'
  BY <1>1, <1>9, <1>10, ZeroSlot DEF IInv, BaseInv
<1>12. BufInv'
  BY <1>10 DEF BufInv
<1>13. ASSUME Drained PROVE MarkInv'
  <2>1. \A i \in Slots : ~rrd'[i].updated
    BY <1>1, <1>4, <1>13
  <2>2. \A i \in Slots : ~InHw(i)'
    BY <1>1, ZeroSlot, DistZero, DistType DEF InHw
  <2> QED BY <2>1, <2>2 DEF MarkInv
<1> QED BY <1>8, <1>11, <1>12, <1>13 DEF IInv

LEMMA HwReceiveStep ==
    ASSUME IInv, NEW kind \in Kinds, HwReceive(kind)
    PROVE  IInv' /\ (MarkInv => MarkInv')
<1> DEFINE h == hw_rfd
<1> DEFINE num == IF kind = "multi" THEN 2 ELSE 1
<1> DEFINE r == [updated |-> TRUE, kind |-> kind, rfd |-> hw_rfd, num |-> num]
<1>1. /\ up /\ Dist(h, prod) >= num
      /\ rrd' = [rrd EXCEPT ![h] = r]
      /\ hw_rrd' = Plus(h, num) /\ hw_rfd' = Plus(h, num) /\ isr_rx' = TRUE
      /\ next_to_use' = next_to_use /\ buffer_info' = buffer_info /\ prod' = prod
      /\ next_to_clean' = next_to_clean /\ rx_unmasked' = rx_unmasked /\ napi' = napi
      /\ carrier' = carrier /\ flaps' = flaps /\ up' = up /\ owner' = owner
  BY DEF HwReceive, rfdVars, netVars, IInv, BaseInv
<1>2. num \in 1 .. 2 /\ num \in 0 .. Count - 1
  OBVIOUS
<1>3. r \in Rrds /\ r.updated /\ r.num = (IF r.kind = "multi" THEN 2 ELSE 1) /\ r.rfd = h
  BY <1>2, TypeParts DEF Rrds, IInv, RingsOK
<1>4. RingsOK /\ BuffersOK /\ RrdsOK /\ NapiOK /\ FlagsOK /\ OwnersOK /\ h \in Slots /\ prod \in Slots
  BY TypeParts DEF IInv, RingsOK
<1> HIDE DEF num, r
<1>5. Plus(h, num) \in Slots
  BY <1>2, <1>4, PlusType
<1>6. RingsOK' /\ BuffersOK' /\ NapiOK' /\ FlagsOK' /\ OwnersOK'
  BY <1>1, <1>4, <1>5 DEF RingsOK, BuffersOK, NapiOK, FlagsOK, OwnersOK
<1>7. /\ RrdsOK' /\ rrd'[h] = r
      /\ \A i \in Slots : i # h => rrd'[i] = rrd[i]
  BY <1>1, <1>3, <1>4 DEF RrdsOK
<1>8. TypeOK'
  BY <1>6, <1>7, TypePartsNext
<1>9. \A i \in Slots : rrd'[i].num = IF rrd'[i].kind = "multi" THEN 2 ELSE 1
  BY <1>3, <1>7 DEF IInv, BaseInv
<1>10. BaseInv'
  BY <1>1, <1>9 DEF IInv, BaseInv, IsFree
<1>11. BufInv'
  BY <1>1, BuffersRest DEF IInv
<1>12. ASSUME MarkInv PROVE MarkInv'
  <2>1. Dist(Plus(h, num), prod) = Dist(h, prod) - num /\ Dist(h, prod) \in 0 .. Count - 1
    BY <1>1, <1>2, <1>4, DistNear, DistType
  <2>2. \A i \in Slots : InHw(i)' => InHw(i) /\ i # h
    <3> TAKE i \in Slots
    <3>1. /\ Dist(Plus(h, num), i) = IF num <= Dist(h, i) THEN Dist(h, i) - num
                                     ELSE Dist(h, i) - num + Count
          /\ Dist(h, i) \in 0 .. Count - 1 /\ (i = h => Dist(h, i) = 0)
      BY <1>2, <1>4, DistNear, DistType, DistZero
    <3> QED BY <1>1, <1>2, <2>1, <3>1 DEF InHw
  <2>3. \A i \in Slots : IsFree(i)' <=> IsFree(i)
    BY <1>1 DEF IsFree
  <2>4. ~IsFree(h)
    <3>1. Dist(h, h) = 0
      BY <1>4, DistZero
    <3> QED BY <1>1, <1>2, <1>4, <1>12, <2>1, <3>1 DEF MarkInv, InHw
  <2>5. \A i \in Slots : InHw(i)' => ~IsFree(i)' /\ ~rrd'[i].updated
    BY <1>7, <1>12, <2>2, <2>3 DEF MarkInv
  <2>6. \A i \in Slots : rrd'[i].updated => rrd'[i].rfd = i /\ ~IsFree(i)'
    BY <1>3, <1>7, <1>12, <2>3, <2>4 DEF MarkInv
  <2> QED BY <2>5, <2>6 DEF MarkInv
<1> QED BY <1>8, <1>10, <1>11, <1>12 DEF IInv

(***************************************************************************)
(* The theorems                                                            *)
(***************************************************************************)

LEMMA InitIInv == Init => IInv /\ MarkInv
<1> SUFFICES ASSUME Init PROVE IInv /\ MarkInv
  OBVIOUS
<1>1. /\ next_to_use = 0 /\ next_to_clean = 0 /\ prod = 0 /\ hw_rfd = 0 /\ hw_rrd = 0
      /\ buffer_info = [i \in Slots |-> [free |-> TRUE, skb |-> None]]
      /\ rrd = [i \in Slots |-> NoRrd]
      /\ isr_rx = FALSE /\ rx_unmasked = TRUE
      /\ napi = [pc |-> "idle", done |-> 0, count |-> 0]
      /\ carrier = TRUE /\ flaps = 0 /\ up = FALSE
      /\ owner = [s \in Skbs |-> "pool"]
  BY DEF Init, Free, NapiIdle
<1>2. NoRrd \in Rrds /\ NoRrd.num = 1 /\ NoRrd.kind = "good" /\ ~NoRrd.updated
  BY ZeroSlot DEF NoRrd, Rrds
<1>3. RingsOK /\ BuffersOK /\ FlagsOK /\ OwnersOK
  <2>1. RingsOK /\ BuffersOK /\ OwnersOK
    BY <1>1, ZeroSlot DEF RingsOK, BuffersOK, OwnersOK
  <2>2. isr_rx \in BOOLEAN /\ rx_unmasked \in BOOLEAN /\ carrier \in BOOLEAN /\ up \in BOOLEAN
    BY <1>1
  <2>3. flaps \in 0 .. MaxFlaps
    BY <1>1
  <2> QED BY <2>1, <2>2, <2>3 DEF FlagsOK
<1>4. RrdsOK /\ NapiOK
  BY <1>1, <1>2, IdleIsOK DEF RrdsOK, NapiOK
<1>5. \A i \in Slots : IsFree(i) /\ buffer_info[i].skb = None
  BY <1>1 DEF IsFree
<1>6. BaseInv
  BY <1>1, <1>2, <1>5, ZeroSlot DEF BaseInv
<1>7. BufInv
  BY <1>5 DEF BufInv
<1>8. MarkInv
  <2>1. \A i \in Slots : ~InHw(i)
    BY <1>1, ZeroSlot, DistZero, DistType DEF InHw
  <2> QED BY <1>1, <1>2, <2>1 DEF MarkInv
<1> QED BY <1>3, <1>4, <1>6, <1>7, <1>8, TypeParts DEF IInv

LEMMA NextStep ==
    ASSUME IInv, [Next]_vars
    PROVE  IInv' /\ (Drained /\ MarkInv => MarkInv')
<1>1. CASE IntrRx
  BY <1>1, IntrRxStep
<1>2. CASE Poll
  BY <1>2, PollStartStep, PollGoodStep, PollErrorStep, PollMultiStep, PollStopStep,
     PollRefillStep DEF Poll
<1>3. CASE \E reset \in BOOLEAN : Down(reset)
  BY <1>3, DownStep
<1>4. CASE Up
  BY <1>4, UpStep
<1>5. CASE CarrierChange
  BY <1>5, CarrierChangeStep
<1>6. CASE \E kind \in Kinds : HwReceive(kind)
  BY <1>6, HwReceiveStep
<1>7. CASE \E s \in Skbs : StackFree(s)
  BY <1>7, StackFreeStep
<1>8. CASE UNCHANGED vars
  <2>1. /\ UNCHANGED <<rfdVars, rrdVars, hw_rfd, hw_rrd, up, owner>>
        /\ isr_rx' = isr_rx /\ up' = up /\ rx_unmasked' = rx_unmasked /\ napi' = napi
        /\ carrier' = carrier /\ flaps' = flaps
    BY <1>8 DEF vars, hwVars, netVars
  <2>2. NapiOK' /\ FlagsOK' /\ napi'.count = napi'.done /\ (~up => napi'.pc = "idle")
    BY <2>1, TypeParts DEF IInv, BaseInv, NapiOK, FlagsOK
  <2> QED BY <2>1, <2>2, QuietStep
<1> QED BY <1>1, <1>2, <1>3, <1>4, <1>5, <1>6, <1>7, <1>8 DEF Next

\* Whatever is reported, fails, or waits for the poll when a reset begins, the
\* indices, flags and owners keep their types, and a busy slot of the RFD ring has
\* a buffer of its own (atl1c_alloc_rx_buffer, atl1c_clean_rfd).
THEOREM RxInductive == Spec => []IInv
<1>1. Init => IInv
  BY InitIInv
<1>2. IInv /\ [Next]_vars => IInv'
  BY NextStep
<1> QED BY <1>1, <1>2, PTL DEF Spec

\* If no frame waits for the poll when a reset begins, what the NIC may fill and
\* what it has reported are different slots, all of them busy.
THEOREM MarksInductive == ASSUME Drained PROVE Spec => [](IInv /\ MarkInv)
<1>1. Init => IInv /\ MarkInv
  BY InitIInv
<1>2. IInv /\ MarkInv /\ [Next]_vars => IInv' /\ MarkInv'
  BY NextStep
<1> QED BY <1>1, <1>2, PTL DEF Spec

\* The NIC only fills buffers that are there and that nobody else has, however
\* allocations fail and polls, errors, resets and refills interleave
\* (atl1c_alloc_rx_buffer, atl1c_clean_rfd).
THEOREM NicFillsBuffers == ASSUME Drained PROVE Spec => []HwFillsBuffers
<1>1. IInv /\ MarkInv => HwFillsBuffers
  BY DEF IInv, BufInv, MarkInv, InHw, IsFree, HwFillsBuffers
<1> QED BY <1>1, MarksInductive, PTL

\* The RRD ring cannot overflow although atl1c_clean_rx_irq never compares its
\* index with the NIC's: a buffer to fill means a return descriptor cleaned.
THEOREM ReturnRingHasRoom == ASSUME Drained PROVE Spec => []RrdHasRoom
<1>1. IInv /\ MarkInv => RrdHasRoom
  <2> SUFFICES ASSUME IInv, MarkInv, hw_rfd # prod PROVE ~rrd[hw_rrd].updated
    BY DEF RrdHasRoom
  <2>1. hw_rfd \in Slots /\ prod \in Slots /\ hw_rrd = hw_rfd
    BY TypeParts DEF IInv, BaseInv, RingsOK
  <2>2. InHw(hw_rfd)
    BY <2>1, DistZero, DistType DEF InHw
  <2> QED BY <2>1, <2>2 DEF MarkInv
<1> QED BY <1>1, MarksInductive, PTL

\* The return descriptor atl1c_clean_rx_irq cleans stands for a buffer the NIC has
\* filled, never for one it may still write to.
THEOREM CleansWhatWasFilled == ASSUME Drained PROVE Spec => []CleanedWasFilled
<1>1. IInv /\ MarkInv => CleanedWasFilled
  <2> SUFFICES ASSUME IInv, MarkInv, rrd[next_to_clean].updated
               PROVE  ~InHw(rrd[next_to_clean].rfd)
    BY DEF CleanedWasFilled, Valid, InHw
  <2>1. next_to_clean \in Slots
    BY TypeParts DEF IInv, RingsOK
  <2> QED BY <2>1 DEF MarkInv
<1> QED BY <1>1, MarksInductive, PTL

(***************************************************************************)
(* No buffer is lost                                                       *)
(***************************************************************************)

\* Every skb of the ring is in a busy slot, and a ring that is down has none.
KeepInv ==
    /\ \A s \in Skbs : owner[s] = "ring" => \E i \in Slots : ~IsFree(i) /\ buffer_info[i].skb = s
    /\ ~up => \A i \in Slots : IsFree(i)

\* A step that leaves the slots alone and gives the ring nothing.
LEMMA KeepRest ==
    ASSUME KeepInv, buffer_info' = buffer_info, up' = up,
           \A s \in Skbs : owner'[s] = "ring" => owner[s] = "ring"
    PROVE  KeepInv'
BY DEF KeepInv, IsFree

\* The slot that the poll frees is the one of the buffer that leaves the ring.
LEMMA KeepPoll ==
    ASSUME IInv, KeepInv, PollGood \/ PollError
    PROVE  KeepInv'
<1> DEFINE f == rrd[next_to_clean].rfd
<1> DEFINE b == buffer_info[f].skb
<1>1. next_to_clean \in Slots /\ OwnersOK
  BY TypeParts DEF IInv, RingsOK
<1>2. /\ rrd[next_to_clean].kind \in {"good", "error"} /\ up' = up
      /\ CleanRfd(f, rrd[next_to_clean].num)
      /\ \E to \in {"stack", "lost"} : owner' = [owner EXCEPT ![b] = to]
  BY DEF PollGood, PollError, Valid, netVars
<1>3. rrd[next_to_clean].num = 1 /\ f \in Slots
  BY <1>1, <1>2, RrdAt
<1>4. /\ buffer_info'[f] = [free |-> TRUE, skb |-> None]
      /\ \A i \in Slots : i # f => buffer_info'[i] = buffer_info[i]
  BY <1>2, <1>3, CleanRfdParts
<1>5. \A s \in Skbs : owner'[s] = "ring" => s # b /\ owner[s] = "ring"
  BY <1>1, <1>2 DEF OwnersOK
<1>6. \A s \in Skbs : owner'[s] = "ring" =>
        \E i \in Slots : ~IsFree(i)' /\ buffer_info'[i].skb = s
  <2> SUFFICES ASSUME NEW s \in Skbs, owner'[s] = "ring"
               PROVE  \E i \in Slots : ~IsFree(i)' /\ buffer_info'[i].skb = s
    OBVIOUS
  <2>1. PICK i \in Slots : ~IsFree(i) /\ buffer_info[i].skb = s
    BY <1>5 DEF KeepInv
  <2>2. i # f
    BY <1>5, <2>1
  <2> QED BY <1>4, <2>1, <2>2 DEF IsFree
<1>7. ~up' => \A i \in Slots : IsFree(i)'
  BY <1>2, <1>4 DEF KeepInv, IsFree
<1> QED BY <1>6, <1>7 DEF KeepInv

\* Filling the ring keeps the buffers it has.
LEMMA KeepAlloc ==
    ASSUME IInv, KeepInv, NEW q, AllocRxBuffer(next_to_use, buffer_info, owner, q)
    PROVE  \A s \in Skbs : owner'[s] = "ring" =>
                \E i \in Slots : ~IsFree(i)' /\ buffer_info'[i].skb = s
<1>0. TypeOK /\ IsFree(next_to_use) /\ next_to_use \in Slots
  BY TypeParts DEF IInv, BaseInv, RingsOK
<1>1. Len(q) \in 0 .. Count - 1
  BY <1>0, AllocSlots
<1>2. /\ \A i \in Slots : Dist(next_to_use, i) <= Len(q) => IsFree(i)
      /\ \A i \in Slots : Dist(next_to_use, i) < Len(q) => ~buffer_info'[i].free
      /\ \A i \in Slots : Dist(next_to_use, i) >= Len(q) => buffer_info'[i] = buffer_info[i]
      /\ \A s \in Skbs : owner'[s] = owner[s]
            \/ \E i \in Slots : Dist(next_to_use, i) < Len(q) /\ buffer_info'[i].skb = s
  BY <1>0, AllocSlots
<1> SUFFICES ASSUME NEW s \in Skbs, owner'[s] = "ring"
             PROVE  \E i \in Slots : ~IsFree(i)' /\ buffer_info'[i].skb = s
  OBVIOUS
<1>3. CASE owner[s] = "ring"
  <2>1. PICK i \in Slots : ~IsFree(i) /\ buffer_info[i].skb = s
    BY <1>3 DEF KeepInv
  <2>2. Dist(next_to_use, i) >= Len(q)
    BY <1>0, <1>1, <1>2, <2>1, DistType
  <2> QED BY <1>2, <2>1, <2>2 DEF IsFree
<1>4. CASE owner[s] # "ring"
  BY <1>2, <1>4 DEF IsFree
<1> QED BY <1>3, <1>4

LEMMA KeepStep ==
    ASSUME IInv, KeepInv, [Next]_vars
    PROVE  KeepInv'
<1> DEFINE Same == \A s \in Skbs : owner'[s] = "ring" => owner[s] = "ring"
<1>0. OwnersOK
  BY TypeParts DEF IInv
<1>1. CASE PollGood \/ PollError
  BY <1>1, KeepPoll
<1>2. CASE PollRefill
  <2>1. up' = up /\ napi.pc = "refill"
    BY <1>2 DEF PollRefill, netVars
  <2>2. up
    BY <2>1 DEF IInv, BaseInv
  <2>3. CASE napi.count > 0
    <3>1. PICK q : AllocRxBuffer(next_to_use, buffer_info, owner, q)
      BY <1>2, <2>3 DEF PollRefill
    <3>2. \A s \in Skbs : owner'[s] = "ring" =>
            \E i \in Slots : ~IsFree(i)' /\ buffer_info'[i].skb = s
      BY <3>1, KeepAlloc
    <3> QED BY <2>1, <2>2, <3>2 DEF KeepInv
  <2>4. CASE ~(napi.count > 0)
    <3>1. buffer_info' = buffer_info /\ owner' = owner
      BY <1>2, <2>4 DEF PollRefill, rfdVars
    <3> QED BY <2>1, <3>1, KeepRest
  <2> QED BY <2>3, <2>4
<1>3. CASE \E reset \in BOOLEAN : Down(reset)
  <2>1. /\ buffer_info' = [i \in Slots |-> [free |-> TRUE, skb |-> None]]
        /\ owner' = [s \in Skbs |-> IF \E i \in Slots : ~buffer_info[i].free /\ buffer_info[i].skb = s
                                    THEN "pool" ELSE owner[s]]
    BY <1>3 DEF Down, CleanRxRing, Free
  <2>2. \A s \in Skbs : owner'[s] # "ring"
    BY <2>1 DEF KeepInv, IsFree
  <2>3. \A i \in Slots : IsFree(i)'
    BY <2>1 DEF IsFree
  <2> QED BY <2>2, <2>3 DEF KeepInv
<1>4. CASE Up
  <2>1. ~up /\ next_to_use = 0
    BY <1>4 DEF Up, IInv, BaseInv
  <2>2. PICK q : AllocRxBuffer(next_to_use, buffer_info, owner, q) /\ up' = (Len(q) > 0)
    BY <1>4, <2>1 DEF Up
  <2>3. \A s \in Skbs : owner'[s] = "ring" =>
          \E i \in Slots : ~IsFree(i)' /\ buffer_info'[i].skb = s
    BY <2>2, KeepAlloc
  <2>4. ASSUME ~up' PROVE \A i \in Slots : IsFree(i)'
    <3>1. ~(Len(q) > 0)
      BY <2>2, <2>4
    <3>2. TypeOK /\ IsFree(next_to_use) /\ next_to_use \in Slots
      BY TypeParts DEF IInv, BaseInv, RingsOK
    <3>3. /\ Len(q) \in 0 .. Count - 1
          /\ \A i \in Slots : Dist(next_to_use, i) >= Len(q) => buffer_info'[i] = buffer_info[i]
      BY <2>2, <3>2, AllocSlots
    <3>4. \A i \in Slots : buffer_info'[i] = buffer_info[i]
      BY <3>1, <3>2, <3>3, DistType
    <3> QED BY <2>1, <3>4 DEF KeepInv, IsFree
  <2> QED BY <2>3, <2>4 DEF KeepInv
<1>5. CASE \E s \in Skbs : StackFree(s)
  <2>1. PICK s \in Skbs : StackFree(s)
    BY <1>5
  <2>2. /\ owner' = [owner EXCEPT ![s] = "pool"]
        /\ up' = up /\ buffer_info' = buffer_info
    BY <2>1 DEF StackFree, rfdVars, netVars
  <2>3. Same
    BY <1>0, <2>2 DEF OwnersOK
  <2> QED BY <2>2, <2>3, KeepRest
<1>6. CASE \/ IntrRx \/ PollStart \/ PollMulti \/ PollStop \/ CarrierChange \/ UNCHANGED vars
           \/ \E kind \in Kinds : HwReceive(kind)
  <2>1. up' = up /\ buffer_info' = buffer_info /\ owner' = owner
    BY <1>6 DEF IntrRx, PollStart, PollMulti, PollStop, CarrierChange, HwReceive, vars, rfdVars,
                netVars
  <2> QED BY <2>1, KeepRest
<1> QED BY <1>1, <1>2, <1>3, <1>4, <1>5, <1>6 DEF Next, Poll

\* "Free rx-reservation skbs" (atl1c_main.c:885): after every reset and close the
\* driver has no buffer left, whatever frames, failures and resets there were; the
\* buffers of frames with an error are the only ones that are lost.
THEOREM OnlyErrorsLeak == Spec => []CleanFreesAll
<1>1. Init => IInv /\ KeepInv
  <2>1. Init => KeepInv
    BY DEF Init, KeepInv, IsFree, Free
  <2> QED BY <2>1, InitIInv
<1>2. IInv /\ KeepInv /\ [Next]_vars => IInv' /\ KeepInv'
  BY NextStep, KeepStep
<1>3. IInv /\ KeepInv => CleanFreesAll
  BY DEF KeepInv, CleanFreesAll
<1> QED BY <1>1, <1>2, <1>3, PTL DEF Spec

(***************************************************************************)
(* The order of the frames                                                 *)
(***************************************************************************)

\* The NIC has been at slot i since the poll has.
Between(i) == Dist(next_to_clean, i) < Dist(next_to_clean, hw_rfd)

\* What lies between the poll and the NIC is busy, every descriptor that waits
\* lies there with all its buffers, and no two descriptors overlap.
OrderInv ==
    /\ \A i \in Slots : Between(i) => ~IsFree(i)
    /\ \A i \in Slots : rrd[i].updated =>
            Dist(next_to_clean, i) + rrd[i].num <= Dist(next_to_clean, hw_rfd)
    /\ \A i \in Slots : rrd[i].updated /\ rrd[i].kind = "multi" => ~rrd[Plus(i, 1)].updated

LEMMA OrderRest ==
    ASSUME OrderInv, rrd' = rrd, next_to_clean' = next_to_clean, hw_rfd' = hw_rfd,
           \A i \in Slots : ~IsFree(i) => ~IsFree(i)'
    PROVE  OrderInv'
BY DEF OrderInv, Between

\* atl1c_clean_rrd, seen from the next slot to clean: the frame there is the only
\* one that no longer waits.
LEMMA CleanRange ==
    ASSUME IInv, OrderInv, rrd[next_to_clean].updated, CleanRrd(rrd[next_to_clean].num)
    PROVE  /\ next_to_clean \in Slots /\ rrd[next_to_clean].num \in 1 .. 2
           /\ rrd[next_to_clean].num <= Dist(next_to_clean, hw_rfd)
           /\ \A i \in Slots : rrd'[i].updated =>
                /\ rrd[i].updated /\ rrd'[i] = rrd[i] /\ i # next_to_clean
                /\ rrd[next_to_clean].num <= Dist(next_to_clean, i)
           /\ \A i \in Slots : rrd[i].updated /\ i # next_to_clean => rrd'[i].updated
           /\ \A i \in Slots : Dist(next_to_clean', i) =
                IF rrd[next_to_clean].num <= Dist(next_to_clean, i)
                THEN Dist(next_to_clean, i) - rrd[next_to_clean].num
                ELSE Dist(next_to_clean, i) - rrd[next_to_clean].num + Count
<1> DEFINE c == next_to_clean
<1> DEFINE n == rrd[next_to_clean].num
<1>1. c \in Slots /\ n \in 1 .. 2 /\ n \in 0 .. Count - 1
  BY RrdAt, TypeParts DEF IInv, RingsOK
<1>2. n = IF rrd[c].kind = "multi" THEN 2 ELSE 1
  BY <1>1, RrdAt
<1>3. Dist(c, c) + n <= Dist(c, hw_rfd)
  BY <1>1 DEF OrderInv
<1>4. rrd[c].kind = "multi" => ~rrd[Plus(c, 1)].updated
  BY <1>1 DEF OrderInv
<1>5. /\ rrd' = [i \in Slots |-> IF Dist(c, i) < n THEN [rrd[i] EXCEPT !.updated = FALSE] ELSE rrd[i]]
      /\ next_to_clean' = Plus(c, n)
  BY DEF CleanRrd
<1> HIDE DEF c, n
<1>6. n <= Dist(c, hw_rfd)
  BY <1>1, <1>3, DistZero
<1>7. \A i \in Slots : Dist(c, i) < n => ~rrd'[i].updated
  <2> TAKE i \in Slots
  <2> HAVE Dist(c, i) < n
  <2>1. rrd[i] \in Rrds /\ rrd'[i] = [rrd[i] EXCEPT !.updated = FALSE]
    BY <1>5, RrdAt
  <2> QED BY <2>1, RrdCleared
<1>8. \A i \in Slots : ~(Dist(c, i) < n) => rrd'[i] = rrd[i]
  BY <1>5
<1>9. \A i \in Slots : rrd'[i].updated => rrd[i].updated /\ rrd'[i] = rrd[i] /\ i # c /\ n <= Dist(c, i)
  BY <1>1, <1>7, <1>8, DistZero, DistType
<1>10. \A i \in Slots : rrd[i].updated /\ i # c => rrd'[i].updated
  <2> SUFFICES ASSUME NEW i \in Slots, rrd[i].updated, i # c PROVE rrd'[i].updated
    OBVIOUS
  <2>1. Dist(c, i) # 0 /\ Dist(c, i) \in 0 .. Count - 1 /\ Plus(c, Dist(c, i)) = i
    BY <1>1, DistZero, DistType, PlusDist
  <2>2. ~(Dist(c, i) < n)
    <3>1. CASE n = 1
      BY <2>1, <3>1
    <3>2. CASE n = 2
      BY <1>2, <1>4, <2>1, <3>2
    <3> QED BY <1>1, <3>1, <3>2
  <2> QED BY <1>8, <2>2
<1>11. \A i \in Slots : Dist(next_to_clean', i) = IF n <= Dist(c, i) THEN Dist(c, i) - n
                                                  ELSE Dist(c, i) - n + Count
  BY <1>1, <1>5, DistNear
<1> QED BY <1>1, <1>6, <1>9, <1>10, <1>11 DEF c, n

LEMMA OrderClean ==
    ASSUME IInv, OrderInv, rrd[next_to_clean].updated, CleanRrd(rrd[next_to_clean].num),
           hw_rfd' = hw_rfd,
           \A i \in Slots : rrd[next_to_clean].num <= Dist(next_to_clean, i) =>
                buffer_info'[i] = buffer_info[i]
    PROVE  OrderInv'
<1> DEFINE c == next_to_clean
<1> DEFINE n == rrd[next_to_clean].num
<1> DEFINE d == next_to_clean'
<1>1. /\ c \in Slots /\ n \in 1 .. 2 /\ n <= Dist(c, hw_rfd) /\ hw_rfd \in Slots
      /\ \A i \in Slots : rrd'[i].updated =>
            rrd[i].updated /\ rrd'[i] = rrd[i] /\ i # c /\ n <= Dist(c, i)
      /\ \A i \in Slots : Dist(d, i) = IF n <= Dist(c, i) THEN Dist(c, i) - n
                                       ELSE Dist(c, i) - n + Count
  BY CleanRange, TypeParts DEF IInv, RingsOK
<1>2. /\ \A i \in Slots : Dist(c, i) < Dist(c, hw_rfd) => ~IsFree(i)
      /\ \A i \in Slots : rrd[i].updated => Dist(c, i) + rrd[i].num <= Dist(c, hw_rfd)
      /\ \A i \in Slots : rrd[i].updated /\ rrd[i].kind = "multi" => ~rrd[Plus(i, 1)].updated
      /\ \A i \in Slots : n <= Dist(c, i) => buffer_info'[i] = buffer_info[i]
      /\ \A i \in Slots : rrd[i].num \in 1 .. 2
  BY RrdAt DEF OrderInv, Between
<1> HIDE DEF c, n, d
<1>3. Dist(d, hw_rfd) = Dist(c, hw_rfd) - n /\ Dist(c, hw_rfd) \in 0 .. Count - 1
  BY <1>1, DistType
<1>4. \A i \in Slots : Dist(c, i) \in 0 .. Count - 1
  BY <1>1, DistType
<1>5. \A i \in Slots : Dist(d, i) < Dist(d, hw_rfd) => n <= Dist(c, i) /\ Dist(c, i) < Dist(c, hw_rfd)
  BY <1>1, <1>3, <1>4
<1>6. \A i \in Slots : Dist(d, i) < Dist(d, hw_rfd) => ~IsFree(i)'
  BY <1>2, <1>5 DEF IsFree
<1>7. \A i \in Slots : rrd'[i].updated => Dist(d, i) + rrd'[i].num <= Dist(d, hw_rfd)
  BY <1>1, <1>2, <1>3, <1>4
<1>8. \A i \in Slots : rrd'[i].updated /\ rrd'[i].kind = "multi" => ~rrd'[Plus(i, 1)].updated
  <2> SUFFICES ASSUME NEW i \in Slots, rrd'[i].updated, rrd'[i].kind = "multi"
               PROVE  ~rrd'[Plus(i, 1)].updated
    OBVIOUS
  <2>1. Plus(i, 1) \in Slots /\ ~rrd[Plus(i, 1)].updated
    BY <1>1, <1>2, PlusOne
  <2> QED BY <1>1, <2>1
<1> QED BY <1>6, <1>7, <1>8 DEF OrderInv, Between, d

\* The NIC does not catch up with the poll: the slot at prod is free.
LEMMA OrderReceive ==
    ASSUME IInv, MarkInv, OrderInv, NEW kind \in Kinds, HwReceive(kind)
    PROVE  OrderInv'
<1> DEFINE c == next_to_clean
<1> DEFINE h == hw_rfd
<1> DEFINE num == IF kind = "multi" THEN 2 ELSE 1
<1> DEFINE r == [updated |-> TRUE, kind |-> kind, rfd |-> hw_rfd, num |-> num]
<1>1. /\ Dist(h, prod) >= num
      /\ rrd' = [rrd EXCEPT ![h] = r]
      /\ hw_rfd' = Plus(h, num)
      /\ buffer_info' = buffer_info /\ next_to_clean' = c
  BY DEF HwReceive, rfdVars, IInv, BaseInv
<1>2. num \in 1 .. 2 /\ num \in 0 .. Count - 1 /\ (kind = "multi" => num = 2)
      /\ r.updated /\ r.num = num /\ r.kind = kind
  OBVIOUS
<1>3. c \in Slots /\ h \in Slots /\ prod \in Slots /\ RrdsOK /\ IsFree(prod)
  BY TypeParts DEF IInv, RingsOK, BaseInv
<1>4. /\ \A i \in Slots : Dist(h, i) < Dist(h, prod) => ~IsFree(i) /\ ~rrd[i].updated
      /\ \A i \in Slots : Dist(c, i) < Dist(c, h) => ~IsFree(i)
      /\ \A i \in Slots : rrd[i].updated => Dist(c, i) + rrd[i].num <= Dist(c, h)
      /\ \A i \in Slots : rrd[i].updated /\ rrd[i].kind = "multi" => ~rrd[Plus(i, 1)].updated
      /\ \A i \in Slots : rrd[i].num = IF rrd[i].kind = "multi" THEN 2 ELSE 1
  BY DEF MarkInv, InHw, OrderInv, Between, IInv, BaseInv
<1> HIDE DEF c, h, num, r
<1>5. /\ rrd'[h] = r
      /\ \A i \in Slots : i # h => rrd'[i] = rrd[i]
  BY <1>1, <1>3 DEF RrdsOK
<1>6. Dist(c, h) + Dist(h, prod) < Count
  <2> SUFFICES ASSUME Dist(c, h) + Dist(h, prod) >= Count PROVE FALSE
    BY <1>3, DistType
  <2>1. /\ Dist(c, h) \in 0 .. Count - 1 /\ Dist(h, prod) \in 0 .. Count - 1
        /\ Dist(c, prod) \in 0 .. Count - 1
    BY <1>3, DistType
  <2>2. Dist(c, prod) < Dist(c, h)
    <3>1. /\ Dist(c, h) = IF c <= h THEN h - c ELSE h - c + Count
          /\ Dist(h, prod) = IF h <= prod THEN prod - h ELSE prod - h + Count
          /\ Dist(c, prod) = IF c <= prod THEN prod - c ELSE prod - c + Count
      BY <1>3, DistIs
    <3> QED BY <1>3, <3>1 DEF Slots
  <2> QED BY <1>3, <1>4, <2>2
<1>7. /\ Dist(c, Plus(h, num)) = Dist(c, h) + num
      /\ Dist(c, h) \in 0 .. Count - 1 /\ Dist(h, prod) \in 0 .. Count - 1
  BY <1>1, <1>2, <1>3, <1>6, DistFar, DistType
<1>8. \A i \in Slots : Dist(c, i) < Dist(c, h) + num => ~IsFree(i)
  <2> SUFFICES ASSUME NEW i \in Slots, Dist(c, i) < Dist(c, h) + num, Dist(c, i) >= Dist(c, h)
               PROVE  ~IsFree(i)
    BY <1>3, <1>4, <1>7, DistType
  <2>1. Dist(c, i) \in 0 .. Count - 1
    BY <1>3, DistType
  <2>2. Dist(Plus(c, Dist(c, h)), i) = Dist(c, i) - Dist(c, h)
    BY <1>3, <1>7, <2>1, DistNear
  <2>3. Dist(h, i) = Dist(c, i) - Dist(c, h)
    BY <1>3, <2>2, PlusDist
  <2> QED BY <1>1, <1>2, <1>4, <1>7, <2>1, <2>3
<1>9. \A i \in Slots : rrd'[i].updated => Dist(c, i) + rrd'[i].num <= Dist(c, h) + num
  <2> TAKE i \in Slots
  <2>1. CASE i = h
    BY <1>2, <1>5, <1>7, <2>1
  <2>2. CASE i # h
    <3>1. Dist(c, i) \in 0 .. Count - 1 /\ rrd[i].num \in 1 .. 2
      BY <1>3, DistType, RrdAt
    <3> QED BY <1>2, <1>4, <1>5, <1>7, <2>2, <3>1
  <2> QED BY <2>1, <2>2
<1>10. \A i \in Slots : rrd'[i].updated /\ rrd'[i].kind = "multi" => ~rrd'[Plus(i, 1)].updated
  <2> SUFFICES ASSUME NEW i \in Slots, rrd'[i].updated, rrd'[i].kind = "multi"
               PROVE  ~rrd'[Plus(i, 1)].updated
    OBVIOUS
  <2>0. Plus(i, 1) \in Slots /\ Plus(i, 1) # i /\ Dist(i, Plus(i, 1)) = 1
    BY PlusOne
  <2>1. CASE i = h
    <3>1. num = 2 /\ Dist(h, Plus(i, 1)) = 1
      BY <1>2, <1>5, <2>0, <2>1
    <3>2. ~rrd[Plus(i, 1)].updated
      BY <1>1, <1>4, <1>7, <2>0, <3>1
    <3> QED BY <1>5, <2>0, <2>1, <3>2
  <2>2. CASE i # h
    <3>1. /\ rrd[i].updated /\ rrd[i].kind = "multi" /\ ~rrd[Plus(i, 1)].updated
          /\ Dist(c, i) + 2 <= Dist(c, h) /\ Dist(c, i) \in 0 .. Count - 1
      BY <1>3, <1>4, <1>5, <2>2, DistType
    <3>2. Dist(c, Plus(i, 1)) = Dist(c, i) + 1
      BY <1>3, <1>7, <3>1, DistFar
    <3>3. Plus(i, 1) # h
      BY <1>7, <3>1, <3>2
    <3> QED BY <1>5, <2>0, <3>1, <3>3
  <2> QED BY <2>1, <2>2
<1>11. \A i \in Slots : IsFree(i)' <=> IsFree(i)
  BY <1>1 DEF IsFree
<1> QED BY <1>1, <1>7, <1>8, <1>9, <1>10, <1>11 DEF OrderInv, Between

\* The slots of an allocation were free.
LEMMA AllocKeepsBusy ==
    ASSUME IInv, NEW q, AllocRxBuffer(next_to_use, buffer_info, owner, q)
    PROVE  \A i \in Slots : ~IsFree(i) => ~IsFree(i)' /\ buffer_info'[i] = buffer_info[i]
<1>1. TypeOK /\ IsFree(next_to_use) /\ next_to_use \in Slots
  BY TypeParts DEF IInv, BaseInv, RingsOK
<1>2. /\ Len(q) \in 0 .. Count - 1
      /\ \A i \in Slots : Dist(next_to_use, i) <= Len(q) => IsFree(i)
      /\ \A i \in Slots : Dist(next_to_use, i) >= Len(q) => buffer_info'[i] = buffer_info[i]
  BY <1>1, AllocSlots
<1> QED BY <1>1, <1>2, DistType DEF IsFree

\* The poll cleans the frame at next_to_clean, and which buffers it frees.
LEMMA PollWrites ==
    ASSUME IInv, MarkInv, PollGood \/ PollError \/ PollMulti
    PROVE  /\ next_to_clean \in Slots /\ rrd[next_to_clean].updated
           /\ CleanRrd(rrd[next_to_clean].num)
           /\ hw_rfd' = hw_rfd
           /\ \A i \in Slots : i # next_to_clean => buffer_info'[i] = buffer_info[i]
           /\ PollGood => owner' = [owner EXCEPT ![buffer_info[next_to_clean].skb] = "stack"]
           /\ PollError => owner' = [owner EXCEPT ![buffer_info[next_to_clean].skb] = "lost"]
           /\ PollMulti => owner' = owner
<1>1. next_to_clean \in Slots
  BY TypeParts DEF IInv, RingsOK
<1>2. /\ rrd[next_to_clean].updated /\ CleanRrd(rrd[next_to_clean].num)
      /\ hw_rfd' = hw_rfd
  BY DEF PollGood, PollError, PollMulti, Valid, hwVars
<1>3. rrd[next_to_clean].rfd = next_to_clean
  BY <1>1, <1>2 DEF MarkInv
<1>4. /\ PollGood => owner' = [owner EXCEPT ![buffer_info[next_to_clean].skb] = "stack"]
      /\ PollError => owner' = [owner EXCEPT ![buffer_info[next_to_clean].skb] = "lost"]
      /\ PollMulti => owner' = owner
  BY <1>3 DEF PollGood, PollError, PollMulti
<1>5. \A i \in Slots : i # next_to_clean => buffer_info'[i] = buffer_info[i]
  <2>1. CASE PollGood \/ PollError
    <3>1. /\ CleanRfd(next_to_clean, rrd[next_to_clean].num)
          /\ rrd[next_to_clean].kind \in {"good", "error"}
      BY <1>3, <2>1 DEF PollGood, PollError
    <3>2. rrd[next_to_clean].num = 1
      BY <1>1, <3>1, RrdAt
    <3> QED BY <1>1, <3>1, <3>2, CleanRfdParts
  <2>2. CASE PollMulti
    BY <2>2 DEF PollMulti, rfdVars
  <2> QED BY <2>1, <2>2
<1> QED BY <1>1, <1>2, <1>4, <1>5

LEMMA OrderStep ==
    ASSUME Drained, IInv, MarkInv, OrderInv, [Next]_vars
    PROVE  OrderInv'
<1>1. CASE PollGood \/ PollError \/ PollMulti
  <2>1. /\ next_to_clean \in Slots /\ rrd[next_to_clean].updated
        /\ CleanRrd(rrd[next_to_clean].num) /\ hw_rfd' = hw_rfd
        /\ \A i \in Slots : i # next_to_clean => buffer_info'[i] = buffer_info[i]
    BY <1>1, PollWrites
  <2>2. Dist(next_to_clean, next_to_clean) = 0 /\ rrd[next_to_clean].num \in 1 .. 2
    BY <2>1, DistZero, RrdAt
  <2>3. \A i \in Slots : rrd[next_to_clean].num <= Dist(next_to_clean, i) =>
            buffer_info'[i] = buffer_info[i]
    BY <2>1, <2>2
  <2> QED BY <2>1, <2>3, OrderClean
<1>2. CASE PollRefill
  <2>1. rrd' = rrd /\ next_to_clean' = next_to_clean /\ hw_rfd' = hw_rfd
    BY <1>2 DEF PollRefill, rrdVars, hwVars
  <2>2. \A i \in Slots : ~IsFree(i) => ~IsFree(i)'
    <3>1. CASE napi.count > 0
      BY <1>2, <3>1, AllocKeepsBusy DEF PollRefill
    <3>2. CASE ~(napi.count > 0)
      <4>1. buffer_info' = buffer_info
        BY <1>2, <3>2 DEF PollRefill, rfdVars
      <4> QED BY <4>1 DEF IsFree
    <3> QED BY <3>1, <3>2
  <2> QED BY <2>1, <2>2, OrderRest
<1>3. CASE Up
  <2>1. /\ rrd' = rrd /\ next_to_clean' = next_to_clean /\ hw_rfd' = hw_rfd
        /\ next_to_use = 0
    BY <1>3 DEF Up, rrdVars, hwVars, IInv, BaseInv
  <2>2. \E q : AllocRxBuffer(next_to_use, buffer_info, owner, q)
    BY <1>3, <2>1 DEF Up
  <2>3. \A i \in Slots : ~IsFree(i) => ~IsFree(i)'
    BY <2>2, AllocKeepsBusy
  <2> QED BY <2>1, <2>3, OrderRest
<1>4. CASE \E reset \in BOOLEAN : Down(reset)
  <2>1. PICK reset \in BOOLEAN : Down(reset)
    BY <1>4
  <2>2. /\ reset => \A i \in Slots : ~rrd[i].updated
        /\ rrd' = IF reset THEN rrd ELSE [i \in Slots |-> NoRrd]
        /\ next_to_clean' = 0 /\ hw_rfd' = 0 /\ ~NoRrd.updated
    BY <2>1 DEF Down, NoRrd
  <2>3. \A i \in Slots : ~rrd'[i].updated
    BY <2>2
  <2>4. \A i \in Slots : ~Between(i)'
    BY <2>2, ZeroSlot, DistZero, DistType DEF Between
  <2> QED BY <2>3, <2>4 DEF OrderInv
<1>5. CASE \E kind \in Kinds : HwReceive(kind)
  BY <1>5, OrderReceive
<1>6. CASE \/ IntrRx \/ PollStart \/ PollStop \/ CarrierChange \/ UNCHANGED vars
           \/ \E s \in Skbs : StackFree(s)
  <2>1. /\ rrd' = rrd /\ next_to_clean' = next_to_clean /\ hw_rfd' = hw_rfd
        /\ buffer_info' = buffer_info
    BY <1>6 DEF IntrRx, PollStart, PollStop, CarrierChange, StackFree, vars, rfdVars, rrdVars, hwVars
  <2> QED BY <2>1, OrderRest DEF IsFree
<1> QED BY <1>1, <1>2, <1>3, <1>4, <1>5, <1>6 DEF Next, Poll

\* Under the same hypothesis the frames that wait lie in the ring in the order of
\* their arrival, without gaps or overlaps.
THEOREM OrderInductive == ASSUME Drained PROVE Spec => [](IInv /\ MarkInv /\ OrderInv)
<1>1. Init => IInv /\ MarkInv /\ OrderInv
  <2> SUFFICES ASSUME Init PROVE OrderInv
    BY InitIInv
  <2>1. \A i \in Slots : ~rrd[i].updated
    BY DEF Init, NoRrd
  <2>2. \A i \in Slots : ~Between(i)
    BY ZeroSlot, DistZero, DistType DEF Init, Between
  <2> QED BY <2>1, <2>2 DEF OrderInv
<1>2. IInv /\ MarkInv /\ OrderInv /\ [Next]_vars => IInv' /\ MarkInv' /\ OrderInv'
  BY NextStep, OrderStep
<1> QED BY <1>1, <1>2, PTL DEF Spec

(***************************************************************************)
(* RxRing implements RxChannel                                             *)
(***************************************************************************)

Stack == {s \in Skbs : owner[s] = "stack"}

\* Every frame that waits has a buffer of its own.
LEMMA HeldFacts ==
    ASSUME IInv, MarkInv
    PROVE  /\ \A i \in Waiting : i \in Slots /\ Held(i) = buffer_info[i].skb /\ ~IsFree(i)
           /\ \A i \in Waiting : Held(i) \in Skbs /\ owner[Held(i)] = "ring"
           /\ \A i, j \in Waiting : Held(i) = Held(j) => i = j
<1>1. \A i \in Waiting : i \in Slots /\ Held(i) = buffer_info[i].skb /\ ~IsFree(i)
  BY DEF MarkInv, Waiting, Held
<1>2. \A i \in Waiting : Held(i) \in Skbs /\ owner[Held(i)] = "ring"
  BY <1>1 DEF IInv, BufInv
<1>3. \A i, j \in Waiting : Held(i) = Held(j) => i = j
  BY <1>1 DEF IInv, BufInv
<1> QED BY <1>1, <1>2, <1>3

\* Before, pair by pair.
LEMMA BeforeIs ==
    /\ Before \subseteq Reported \X Reported
    /\ \A s, t : <<s, t>> \in Before <=>
            \E i, j \in Waiting : /\ Dist(next_to_clean, i) < Dist(next_to_clean, j)
                                  /\ s = Held(i) /\ t = Held(j)
<1>1. /\ \A p \in InTurn : /\ p[1] \in Waiting /\ p[2] \in Waiting
                         /\ Dist(next_to_clean, p[1]) < Dist(next_to_clean, p[2])
      /\ \A i, j \in Waiting : Dist(next_to_clean, i) < Dist(next_to_clean, j) =>
            <<i, j>> \in InTurn /\ <<i, j>>[1] = i /\ <<i, j>>[2] = j
  BY DEF InTurn
<1>2. \A z : z \in Before <=> \E p \in InTurn : z = <<Held(p[1]), Held(p[2])>>
  BY DEF Before
<1>3. \A z : z \in Before <=>
        \E i, j \in Waiting : /\ Dist(next_to_clean, i) < Dist(next_to_clean, j)
                              /\ z = <<Held(i), Held(j)>>
  <2> TAKE z
  <2>1. ASSUME z \in Before
        PROVE  \E i, j \in Waiting : /\ Dist(next_to_clean, i) < Dist(next_to_clean, j)
                                       /\ z = <<Held(i), Held(j)>>
    <3>1. PICK p \in InTurn : z = <<Held(p[1]), Held(p[2])>>
      BY <1>2, <2>1
    <3> QED BY <1>1, <3>1
  <2>2. ASSUME NEW i \in Waiting, NEW j \in Waiting,
               Dist(next_to_clean, i) < Dist(next_to_clean, j),
               z = <<Held(i), Held(j)>>
        PROVE  z \in Before
    <3>1. PICK p : p = <<i, j>>
      OBVIOUS
    <3>2. p \in InTurn /\ p[1] = i /\ p[2] = j
      BY <1>1, <2>2, <3>1
    <3>3. z = <<Held(p[1]), Held(p[2])>>
      BY <2>2, <3>2
    <3> QED BY <1>2, <3>2, <3>3
  <2> QED BY <2>1, <2>2
<1>4. \A i \in Waiting : Held(i) \in Reported
  BY DEF Reported
<1> QED BY <1>3, <1>4

LEMMA BeforeIsNext ==
    /\ Before' \subseteq Reported' \X Reported'
    /\ \A s, t : <<s, t>> \in Before' <=>
            \E i, j \in Waiting' : /\ Dist(next_to_clean', i) < Dist(next_to_clean', j)
                                   /\ s = Held(i)' /\ t = Held(j)'
<1>1. /\ \A p \in InTurn' : /\ p[1] \in Waiting' /\ p[2] \in Waiting'
                         /\ Dist(next_to_clean', p[1]) < Dist(next_to_clean', p[2])
      /\ \A i, j \in Waiting' : Dist(next_to_clean', i) < Dist(next_to_clean', j) =>
            <<i, j>> \in InTurn' /\ <<i, j>>[1] = i /\ <<i, j>>[2] = j
  BY DEF InTurn
<1>2. \A z : z \in Before' <=> \E p \in InTurn' : z = <<Held(p[1])', Held(p[2])'>>
  BY DEF Before
<1>3. \A z : z \in Before' <=>
        \E i, j \in Waiting' : /\ Dist(next_to_clean', i) < Dist(next_to_clean', j)
                               /\ z = <<Held(i)', Held(j)'>>
  <2> TAKE z
  <2>1. ASSUME z \in Before'
        PROVE  \E i, j \in Waiting' : /\ Dist(next_to_clean', i) < Dist(next_to_clean', j)
                                       /\ z = <<Held(i)', Held(j)'>>
    <3>1. PICK p \in InTurn' : z = <<Held(p[1])', Held(p[2])'>>
      BY <1>2, <2>1
    <3> QED BY <1>1, <3>1
  <2>2. ASSUME NEW i \in Waiting', NEW j \in Waiting',
               Dist(next_to_clean', i) < Dist(next_to_clean', j),
               z = <<Held(i)', Held(j)'>>
        PROVE  z \in Before'
    <3>1. PICK p : p = <<i, j>>
      OBVIOUS
    <3>2. p \in InTurn' /\ p[1] = i /\ p[2] = j
      BY <1>1, <2>2, <3>1
    <3>3. z = <<Held(p[1])', Held(p[2])'>>
      BY <2>2, <3>2
    <3> QED BY <1>2, <3>2, <3>3
  <2> QED BY <2>1, <2>2
<1>4. \A i \in Waiting' : Held(i)' \in Reported'
  BY DEF Reported
<1> QED BY <1>3, <1>4

\* A step that leaves what waits alone leaves the channel's frames alone.
LEMMA FramesRest ==
    ASSUME IInv, MarkInv, rrd' = rrd, next_to_clean' = next_to_clean,
           \A i \in Slots : ~IsFree(i) => buffer_info'[i] = buffer_info[i]
    PROVE  Reported' = Reported /\ Before' = Before
<1>1. Waiting' = Waiting
  BY DEF Waiting
<1>2. \A i \in Waiting : i \in Slots /\ rrd[i].rfd = i /\ ~IsFree(i)
  BY DEF MarkInv, Waiting
<1>3. \A i \in Waiting : Held(i)' = Held(i)
  BY <1>2 DEF Held
<1>4. Reported' = Reported
  BY <1>1, <1>3 DEF Reported
<1>5. InTurn' = InTurn /\ \A p \in InTurn : p[1] \in Waiting /\ p[2] \in Waiting
  BY <1>1 DEF InTurn
<1>6. Before' = Before
  BY <1>3, <1>5 DEF Before
<1> QED BY <1>4, <1>6

\* The poll takes the oldest frame.
LEMMA TakeMaps ==
    ASSUME IInv, MarkInv, OrderInv, PollGood \/ PollError \/ PollMulti,
           NEW s, s = buffer_info[next_to_clean].skb
    PROVE  s \in Skbs /\ owner[s] = "ring" /\ Channel!Take(s)
<1> DEFINE c == next_to_clean
<1> DEFINE n == rrd[next_to_clean].num
<1> DEFINE d == next_to_clean'
<1>1. /\ c \in Slots /\ rrd[c].updated /\ CleanRrd(rrd[next_to_clean].num)
      /\ \A i \in Slots : i # c => buffer_info'[i] = buffer_info[i]
  BY PollWrites
<1>2. /\ n \in 1 .. 2
      /\ \A i \in Slots : rrd'[i].updated =>
            rrd[i].updated /\ rrd'[i] = rrd[i] /\ i # c /\ n <= Dist(c, i)
      /\ \A i \in Slots : rrd[i].updated /\ i # c => rrd'[i].updated
      /\ \A i \in Slots : n <= Dist(c, i) => Dist(d, i) = Dist(c, i) - n
  BY <1>1, CleanRange
<1>3. c \in Waiting /\ s = Held(c) /\ s \in Skbs /\ owner[s] = "ring"
  BY <1>1, HeldFacts DEF Waiting
<1>4. Waiting' = Waiting \ {c}
  BY <1>2 DEF Waiting
<1>5. \A i \in Waiting' : i \in Waiting /\ i \in Slots /\ i # c /\ Held(i)' = Held(i)
  BY <1>1, <1>2, <1>4 DEF Held, MarkInv, Waiting
<1>6. \A i, j \in Waiting' : Dist(d, i) < Dist(d, j) <=> Dist(c, i) < Dist(c, j)
  <2> TAKE i, j \in Waiting'
  <2>1. /\ i \in Slots /\ j \in Slots /\ n <= Dist(c, i) /\ n <= Dist(c, j)
    BY <1>2 DEF Waiting
  <2>2. Dist(c, i) \in 0 .. Count - 1 /\ Dist(c, j) \in 0 .. Count - 1
    BY <1>1, <2>1, DistType
  <2> QED BY <1>2, <2>1, <2>2
<1> HIDE DEF c, d, n
<1>7. \A i \in Waiting : i # c <=> Held(i) # s
  BY <1>3, HeldFacts DEF c
<1>8. Reported' = Reported \ {s}
  BY <1>4, <1>5, <1>7 DEF Reported
<1>9. s \in Reported
  BY <1>3 DEF Reported, c
<1>10. \A t \in Reported : <<t, s>> \notin Before
  <2> SUFFICES ASSUME NEW i \in Waiting, NEW j \in Waiting,
                      Dist(c, i) < Dist(c, j), s = Held(j)
               PROVE  FALSE
    BY BeforeIs DEF c
  <2>1. j = c
    BY <1>7
  <2>2. Dist(c, j) = 0 /\ Dist(c, i) \in 0 .. Count - 1
    BY <1>1, <2>1, DistZero, DistType, HeldFacts
  <2> QED BY <2>2
<1>11. \A x, y : <<x, y>> \in Before' <=> <<x, y>> \in Before /\ x \in Reported' /\ y \in Reported'
  <2> TAKE x, y
  <2>1. ASSUME <<x, y>> \in Before'
        PROVE  <<x, y>> \in Before /\ x \in Reported' /\ y \in Reported'
    <3>1. PICK i \in Waiting', j \in Waiting' :
            Dist(d, i) < Dist(d, j) /\ x = Held(i)' /\ y = Held(j)'
      BY <2>1, BeforeIsNext DEF d
    <3>2. /\ i \in Waiting /\ j \in Waiting /\ x = Held(i) /\ y = Held(j)
          /\ Dist(c, i) < Dist(c, j)
      BY <1>5, <1>6, <3>1
    <3>3. <<x, y>> \in Before
      BY <3>2, BeforeIs DEF c
    <3> QED BY <3>1, <3>3 DEF Reported
  <2>2. ASSUME <<x, y>> \in Before, x \in Reported', y \in Reported'
        PROVE  <<x, y>> \in Before'
    <3>1. PICK i \in Waiting, j \in Waiting :
            Dist(c, i) < Dist(c, j) /\ x = Held(i) /\ y = Held(j)
      BY <2>2, BeforeIs DEF c
    <3>2. i \in Waiting' /\ j \in Waiting'
      BY <1>4, <1>7, <1>8, <2>2, <3>1
    <3>3. x = Held(i)' /\ y = Held(j)' /\ Dist(d, i) < Dist(d, j)
      BY <1>5, <1>6, <3>1, <3>2
    <3> QED BY <3>2, <3>3, BeforeIsNext DEF d
  <2> QED BY <2>1, <2>2
<1>12. Before' = Before \cap (Reported' \X Reported')
  BY <1>11, BeforeIs, BeforeIsNext
<1> QED BY <1>3, <1>8, <1>9, <1>10, <1>12 DEF Channel!Take

\* What the NIC fills is younger than what waits.
LEMMA FillMaps ==
    ASSUME IInv, MarkInv, OrderInv, NEW kind \in Kinds, HwReceive(kind)
    PROVE  \E s \in Skbs : Channel!Fill(s)
<1> DEFINE c == next_to_clean
<1>h. PICK h \in Slots : h = hw_rfd
  BY TypeParts DEF IInv, RingsOK
<1>s. PICK s : s = buffer_info[h].skb
  OBVIOUS
<1>1. /\ rrd'[h].updated /\ rrd'[h].rfd = h
      /\ \A i \in Slots : i # h => rrd'[i] = rrd[i]
      /\ buffer_info' = buffer_info /\ owner' = owner /\ next_to_clean' = c
      /\ h \in Slots /\ c \in Slots
  <2>1. /\ \E n : rrd' = [rrd EXCEPT ![h] = [updated |-> TRUE, kind |-> kind, rfd |-> h, num |-> n]]
        /\ buffer_info' = buffer_info /\ owner' = owner /\ next_to_clean' = c
    BY <1>h DEF HwReceive, rfdVars, IInv, BaseInv
  <2>2. RrdsOK /\ h \in Slots /\ c \in Slots
    BY TypeParts DEF IInv, RingsOK
  <2> QED BY <2>1, <2>2 DEF RrdsOK
<1>2. InHw(h)
  <2>1. prod \in Slots /\ Dist(h, prod) >= 1
    <3>1. Dist(h, prod) >= IF kind = "multi" THEN 2 ELSE 1
      BY <1>h DEF HwReceive
    <3>2. prod \in Slots
      BY TypeParts DEF IInv, RingsOK
    <3>3. Dist(h, prod) \in 0 .. Count - 1
      BY <1>1, <3>2, DistType
    <3> QED BY <3>1, <3>2, <3>3
  <2>2. Dist(h, h) = 0
    BY <1>1, DistZero
  <2>3. Dist(h, prod) \in 0 .. Count - 1
    BY <1>1, <2>1, DistType
  <2> QED BY <1>h, <2>1, <2>2, <2>3 DEF InHw
<1>3. ~IsFree(h) /\ ~rrd[h].updated
  BY <1>1, <1>2 DEF MarkInv
<1>4. s \in Skbs /\ owner[s] = "ring"
  BY <1>1, <1>3, <1>s DEF IInv, BufInv
<1>5. Waiting' = Waiting \cup {h} /\ h \notin Waiting
  BY <1>1, <1>3 DEF Waiting
<1>6. \A i \in Waiting : i # h /\ i \in Slots /\ Held(i)' = Held(i) /\ Held(i) # s
  BY <1>1, <1>3, <1>5, <1>s, HeldFacts DEF Held, Waiting, IInv, BufInv
<1>7. Held(h)' = s
  BY <1>1, <1>s DEF Held
<1>8. \A i \in Waiting : Dist(c, i) < Dist(c, h)
  <2> TAKE i \in Waiting
  <2>1. Dist(c, i) + rrd[i].num <= Dist(c, h) /\ i \in Slots
    BY <1>h DEF Waiting, OrderInv
  <2>2. rrd[i].num \in 1 .. 2 /\ Dist(c, i) \in 0 .. Count - 1 /\ Dist(c, h) \in 0 .. Count - 1
    BY <1>1, <2>1, RrdAt, DistType
  <2> QED BY <2>1, <2>2
<1> HIDE DEF c
<1>9. Reported' = Reported \cup {s} /\ s \notin Reported
  BY <1>5, <1>6, <1>7 DEF Reported
<1>10. \A x, y : <<x, y>> \in Before' <=> <<x, y>> \in Before \/ (x \in Reported /\ y = s)
  <2> TAKE x, y
  <2>1. ASSUME <<x, y>> \in Before'
        PROVE  <<x, y>> \in Before \/ (x \in Reported /\ y = s)
    <3>1. PICK i \in Waiting', j \in Waiting' :
            Dist(c, i) < Dist(c, j) /\ x = Held(i)' /\ y = Held(j)'
      BY <1>1, <2>1, BeforeIsNext
    <3>2. i # h
      <4>1. Dist(c, i) \in 0 .. Count - 1 /\ Dist(c, j) \in 0 .. Count - 1
        BY <1>1, <1>5, <1>6, <3>1, DistType
      <4> QED BY <1>5, <1>8, <3>1, <4>1
    <3>3. i \in Waiting /\ x = Held(i)
      BY <1>5, <1>6, <3>1, <3>2
    <3>4. CASE j = h
      BY <1>7, <3>1, <3>3, <3>4 DEF Reported
    <3>5. CASE j # h
      BY <1>5, <1>6, <3>1, <3>3, <3>5, BeforeIs DEF c
    <3> QED BY <3>4, <3>5
  <2>2. ASSUME <<x, y>> \in Before
        PROVE  <<x, y>> \in Before'
    <3>1. PICK i \in Waiting, j \in Waiting :
            Dist(c, i) < Dist(c, j) /\ x = Held(i) /\ y = Held(j)
      BY <2>2, BeforeIs DEF c
    <3>2. i \in Waiting' /\ j \in Waiting' /\ x = Held(i)' /\ y = Held(j)'
      BY <1>5, <1>6, <3>1
    <3> QED BY <1>1, <3>1, <3>2, BeforeIsNext
  <2>3. ASSUME x \in Reported, y = s
        PROVE  <<x, y>> \in Before'
    <3>1. PICK i \in Waiting : x = Held(i)
      BY <2>3 DEF Reported
    <3>2. i \in Waiting' /\ h \in Waiting' /\ x = Held(i)' /\ y = Held(h)'
      BY <1>5, <1>6, <1>7, <2>3, <3>1
    <3> QED BY <1>1, <1>8, <3>1, <3>2, BeforeIsNext
  <2> QED BY <2>1, <2>2, <2>3
<1>11. Before' = Before \cup (Reported \X {s})
  BY <1>9, <1>10, BeforeIs, BeforeIsNext
<1>12. s \notin Stack /\ Stack' = Stack
  BY <1>1, <1>4 DEF Stack
<1> QED BY <1>4, <1>9, <1>11, <1>12 DEF Channel!Fill, Stack

ChannelStep == [Channel!Next]_<<Reported, Before, Stack>>

\* Filling the ring gives the stack nothing and takes nothing from it.
LEMMA AllocMaps ==
    ASSUME IInv, MarkInv, NEW q, AllocRxBuffer(next_to_use, buffer_info, owner, q),
           rrd' = rrd, next_to_clean' = next_to_clean
    PROVE  UNCHANGED <<Reported, Before, Stack>>
<1>1. TypeOK /\ IsFree(next_to_use)
  BY DEF IInv, BaseInv
<1>2. \A s \in Skbs : owner'[s] = owner[s] \/ (owner[s] = "pool" /\ owner'[s] = "ring")
  BY <1>1, AllocSlots
<1>3. Stack' = Stack
  BY <1>2 DEF Stack
<1>4. \A i \in Slots : ~IsFree(i) => buffer_info'[i] = buffer_info[i]
  BY AllocKeepsBusy
<1> QED BY <1>3, <1>4, FramesRest

LEMMA StepMaps ==
    ASSUME Drained, IInv, MarkInv, OrderInv, [Next]_vars
    PROVE  ChannelStep
<1>0. OwnersOK
  BY TypeParts DEF IInv
<1>1. CASE PollGood
  <2>s. PICK s : s = buffer_info[next_to_clean].skb
    OBVIOUS
  <2>1. s \in Skbs /\ Channel!Take(s)
    BY <1>1, <2>s, TakeMaps
  <2>2. owner' = [owner EXCEPT ![s] = "stack"]
    BY <1>1, <2>s, PollWrites
  <2>4. Stack' = Stack \cup {s}
    BY <1>0, <2>1, <2>2 DEF Stack, OwnersOK
  <2>5. Channel!Deliver(s)
    BY <2>1, <2>4 DEF Channel!Deliver, Stack
  <2> QED BY <2>1, <2>5 DEF ChannelStep, Channel!Next
<1>2. CASE ~PollGood /\ (PollError \/ PollMulti)
  <2>s. PICK s : s = buffer_info[next_to_clean].skb
    OBVIOUS
  <2>1. s \in Skbs /\ owner[s] = "ring" /\ Channel!Take(s)
    BY <1>2, <2>s, TakeMaps
  <2>2. owner' = owner \/ owner' = [owner EXCEPT ![s] = "lost"]
    BY <1>2, <2>s, PollWrites
  <2>4. Stack' = Stack
    BY <1>0, <2>1, <2>2 DEF Stack, OwnersOK
  <2>5. Channel!Discard(s)
    BY <2>1, <2>4 DEF Channel!Discard, Stack
  <2> QED BY <2>1, <2>5 DEF ChannelStep, Channel!Next
<1>3. CASE PollRefill
  <2>1. rrd' = rrd /\ next_to_clean' = next_to_clean
    BY <1>3 DEF PollRefill, rrdVars
  <2>2. CASE napi.count > 0
    BY <1>3, <2>1, <2>2, AllocMaps DEF PollRefill, ChannelStep
  <2>3. CASE ~(napi.count > 0)
    <3>1. buffer_info' = buffer_info /\ owner' = owner
      BY <1>3, <2>3 DEF PollRefill, rfdVars
    <3>2. Stack' = Stack
      BY <3>1 DEF Stack
    <3> QED BY <2>1, <3>1, <3>2, FramesRest DEF ChannelStep
  <2> QED BY <2>2, <2>3
<1>4. CASE Up
  <2>1. rrd' = rrd /\ next_to_clean' = next_to_clean /\ next_to_use = 0
    BY <1>4 DEF Up, rrdVars, IInv, BaseInv
  <2>2. \E q : AllocRxBuffer(next_to_use, buffer_info, owner, q)
    BY <1>4, <2>1 DEF Up
  <2> QED BY <2>1, <2>2, AllocMaps DEF ChannelStep
<1>5. CASE \E reset \in BOOLEAN : Down(reset)
  <2>1. PICK reset \in BOOLEAN : Down(reset)
    BY <1>5
  <2>2. /\ reset => \A i \in Slots : ~rrd[i].updated
        /\ rrd' = IF reset THEN rrd ELSE [i \in Slots |-> NoRrd]
        /\ ~NoRrd.updated
        /\ owner' = [s \in Skbs |-> IF \E i \in Slots : ~buffer_info[i].free /\ buffer_info[i].skb = s
                                    THEN "pool" ELSE owner[s]]
    BY <2>1 DEF Down, CleanRxRing, NoRrd
  <2>3. Waiting' = {}
    BY <2>2 DEF Waiting
  <2>4. Reported' = {} /\ Before' = {}
    BY <2>3, BeforeIsNext DEF Reported
  <2>5. \A s \in Skbs : owner'[s] = "stack" <=> owner[s] = "stack"
    BY <2>2 DEF IInv, BufInv, IsFree
  <2>6. Stack' = Stack
    BY <2>5 DEF Stack
  <2> QED BY <2>4, <2>6 DEF ChannelStep, Channel!Next, Channel!Flush, Stack
<1>6. CASE \E kind \in Kinds : HwReceive(kind)
  BY <1>6, FillMaps DEF ChannelStep, Channel!Next
<1>7. CASE \E s \in Skbs : StackFree(s)
  <2>1. PICK s \in Skbs : StackFree(s)
    BY <1>7
  <2>2. /\ owner[s] = "stack" /\ owner' = [owner EXCEPT ![s] = "pool"]
        /\ rrd' = rrd /\ next_to_clean' = next_to_clean /\ buffer_info' = buffer_info
    BY <2>1 DEF StackFree, rfdVars, rrdVars
  <2>3. s \in Stack /\ Stack' = Stack \ {s}
    BY <1>0, <2>2 DEF Stack, OwnersOK
  <2>4. Reported' = Reported /\ Before' = Before
    BY <2>2, FramesRest
  <2>5. Channel!StackFree(s)
    BY <2>3, <2>4 DEF Channel!StackFree, Stack
  <2> QED BY <2>5 DEF ChannelStep, Channel!Next
<1>8. CASE IntrRx \/ PollStart \/ PollStop \/ CarrierChange \/ UNCHANGED vars
  <2>1. /\ rrd' = rrd /\ next_to_clean' = next_to_clean
        /\ buffer_info' = buffer_info /\ owner' = owner
    BY <1>8 DEF IntrRx, PollStart, PollStop, CarrierChange, vars, rfdVars, rrdVars
  <2>2. Stack' = Stack
    BY <2>1 DEF Stack
  <2> QED BY <2>1, <2>2, FramesRest DEF ChannelStep
<1> QED BY <1>1, <1>2, <1>3, <1>4, <1>5, <1>6, <1>7, <1>8 DEF Next, Poll

\* The receive rings implement the channel: frames reach the stack in the order of
\* their arrival, each in its own buffer and once, whatever refills, failures,
\* errors, polls and resets happen in between (atl1c_clean_rx_irq).
THEOREM RxRingIsFifo == ASSUME Drained PROVE Spec => RxFifo
<1>1. Init => Channel!Init
  <2> SUFFICES ASSUME Init PROVE Channel!Init
    OBVIOUS
  <2>1. Waiting = {} /\ Stack = {}
    BY DEF Init, Waiting, NoRrd, Stack
  <2>2. Reported = {} /\ Before = {}
    BY <2>1, BeforeIs DEF Reported
  <2> QED BY <2>1, <2>2 DEF Channel!Init, Stack
<1>2. IInv /\ MarkInv /\ OrderInv /\ [Next]_vars => [Channel!Next]_Channel!vars
  BY StepMaps DEF ChannelStep, Channel!vars, Stack
<1> QED BY <1>1, <1>2, OrderInductive, PTL DEF Spec, RxFifo, Channel!Spec
=============================================================================
