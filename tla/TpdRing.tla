------------------------------ MODULE TpdRing ------------------------------
(***************************************************************************)
(* The transmit data path of the atl1c network driver (4-atl1c): the ring  *)
(* of transmit packet descriptors (TPD), filled by atl1c_xmit_frame on any *)
(* CPU under tx_lock, drained by the interrupt handler on another CPU with *)
(* no lock, and read by the NIC in between.                                *)
(*                                                                         *)
(* A step is a stretch of code between two accesses to state the other     *)
(* side can see.  The rest of the driver's state (link, reset, open and    *)
(* close) is in AtlTx, which extends this module.                          *)
(***************************************************************************)
EXTENDS Integers

CONSTANTS
    Count,      \* descriptors in the ring (tpd_ring->count)
    Skbs,       \* the packets the stack owns
    Shape,      \* what a packet looks like: [Skbs -> Shapes]
    Cpus,       \* the CPUs that may call ndo_start_xmit
    Failures,   \* which of the fallible calls may fail
    MaxIntWork, \* AT_MAX_INT_WORK
    None

\* frags: skb_shinfo()->nr_frags; gso: the TCP offload asked for; split: the
\* linear part is longer than the protocol headers; oddcsum: a checksum is
\* wanted and starts at an odd offset.
Shapes == [frags : Nat, gso : {"none", "tcp4", "tcp6"}, split : BOOLEAN, oddcsum : BOOLEAN]

ASSUME CountAssumption == Count \in Nat /\ Count >= 2
ASSUME ShapeAssumption == Shape \in [Skbs -> Shapes]
ASSUME NoneAssumption == None \notin Skbs /\ None \notin Cpus
ASSUME FailuresAssumption == Failures \subseteq {"cow", "dma", "up", "speed"}
ASSUME MaxIntWorkAssumption == MaxIntWork \in Nat \ {0}

VARIABLES
    next_to_use,    \* producer index, under tx_lock
    next_to_clean,  \* consumer index, atomic_t
    buffer_info,    \* per slot: the driver's record of what it mapped
    desc,           \* per slot: the descriptor the NIC reads
    pidx, cidx,     \* REG_TPD_PRI0_PIDX and REG_TPD_PRI0_CIDX
    isr_tx,         \* ISR_TX_PKT pending in REG_ISR
    queue_stopped,  \* netif_queue_stopped
    carrier,        \* netif_carrier_ok
    at_down,        \* __AT_DOWN
    tx_lock,        \* the CPU holding tx_lock
    pc, skb,        \* per CPU: where atl1c_xmit_frame is, and its packet
    first,          \* per CPU: its local `tpd' (a slot)
    left,           \* per CPU: buffers atl1c_tx_map has still to map
    intr,           \* the interrupt handler: where it is and its locals
    owner           \* per packet: who is responsible for it

ringVars == <<next_to_use, next_to_clean, buffer_info, desc>>
hwVars   == <<pidx, cidx, isr_tx>>
netVars  == <<queue_stopped, carrier, at_down>>
xmitVars == <<tx_lock, pc, skb, first, left>>
vars     == <<ringVars, hwVars, netVars, xmitVars, intr, owner>>

Slots == 0 .. Count - 1

NoBuffer == [free |-> TRUE, dma |-> FALSE, skb |-> None]
FreshBuffer == [free |-> FALSE, dma |-> FALSE, skb |-> None]
ZeroDesc == [kind |-> "zero", eop |-> FALSE]

Buffers == [free : BOOLEAN, dma : BOOLEAN, skb : Skbs \cup {None}]
Descs   == [kind : {"zero", "ext", "data"}, eop : BOOLEAN]

(***************************************************************************)
(* Ring arithmetic and the cost of a packet.                               *)
(***************************************************************************)

\* Mutant: the index is compared before it is advanced.
SuccLate(i) == IF i = Count THEN 0 ELSE i + 1

\* if (++index == count) index = 0
Succ(i) == IF i + 1 = Count THEN 0 ELSE i + 1

\* Steps forward from a to b; i is in [a, b) iff it is nearer to a than b.
Dist(a, b) == IF a <= b THEN b - a ELSE Count + b - a
InRange(a, b, i) == Dist(a, i) < Dist(a, b)

\* atl1c_tpd_avail
Avail == IF next_to_clean > next_to_use
         THEN next_to_clean - next_to_use - 1
         ELSE Count + next_to_clean - next_to_use - 1

\* Mutant: the extended descriptor of IPv6 is not asked for.
TpdReqNoExt(s) ==
    Shape[s].frags + 1 + (IF Shape[s].gso # "none" /\ Shape[s].split THEN 1 ELSE 0)

\* atl1c_cal_tpd_req
TpdReq(s) ==
    Shape[s].frags + 1
    + (IF Shape[s].gso # "none" /\ Shape[s].split THEN 1 ELSE 0)
    + (IF Shape[s].gso = "tcp6" THEN 1 ELSE 0)

\* TPD_LSO_EN: a GSO packet that has payload behind its headers.
Lso(s) == Shape[s].gso # "none" /\ (Shape[s].frags > 0 \/ Shape[s].split)

\* How many buffers atl1c_tx_map maps.
Pieces(s) == Shape[s].frags + 1 + (IF Lso(s) /\ Shape[s].split THEN 1 ELSE 0)

\* Mutant: the buffer is marked free, its skb is not forgotten.
CleanBufferKeep(b) == IF b.free THEN b ELSE [b EXCEPT !.free = TRUE]

\* atl1c_clean_buffer: nothing for a FREE buffer, else unmap and forget.
CleanBuffer(b) == IF b.free THEN b ELSE NoBuffer

\* Mutant: the skb is not freed.
ReleasedNone(S) == owner

\* The owners after the packets held by the slots in S are released.
Released(S) ==
    [s \in Skbs |->
        IF \E i \in S : ~buffer_info[i].free /\ buffer_info[i].skb = s
        THEN "freed" ELSE owner[s]]

(***************************************************************************)
(* atl1c_xmit_frame                                                        *)
(***************************************************************************)

Goto(c, l) == pc' = [pc EXCEPT ![c] = l]

\* atl1c_xmit_frame returns: its locals are gone.
Leave(c) ==
    /\ Goto(c, "idle")
    /\ skb' = [skb EXCEPT ![c] = None]
    /\ first' = [first EXCEPT ![c] = 0]
    /\ left' = [left EXCEPT ![c] = 0]

\* A return path that holds tx_lock and gives the packet up.
Return(c, s, o) ==
    /\ tx_lock' = None
    /\ Leave(c)
    /\ owner' = [owner EXCEPT ![s] = o]

\* Mutant: __AT_DOWN is not tested.
XmitEnterDown(c, s) ==
    /\ pc[c] = "idle"
    /\ owner[s] = "stack"
    /\ ~queue_stopped
    /\ skb' = [skb EXCEPT ![c] = s]
    /\ owner' = [owner EXCEPT ![s] = "driver"]
    /\ Goto(c, "lock")
    /\ UNCHANGED <<ringVars, hwVars, netVars, tx_lock, first, left, intr>>

\* The stack calls ndo_start_xmit unless the queue is stopped; a driver that
\* is down drops the packet.
XmitEnter(c, s) ==
    /\ pc[c] = "idle"
    /\ owner[s] = "stack"
    /\ ~queue_stopped
    /\ \/ /\ at_down
          /\ owner' = [owner EXCEPT ![s] = "freed"]
          /\ UNCHANGED <<pc, skb>>
       \/ /\ ~at_down
          /\ owner' = [owner EXCEPT ![s] = "driver"]
          /\ skb' = [skb EXCEPT ![c] = s]
          /\ Goto(c, "lock")
    /\ UNCHANGED <<ringVars, hwVars, netVars, tx_lock, first, left, intr>>

\* Mutant: the result of the trylock is not looked at.
XmitLockAny(c) ==
    /\ pc[c] = "lock"
    /\ tx_lock' = c
    /\ Goto(c, "avail")
    /\ UNCHANGED <<ringVars, hwVars, netVars, skb, first, left, intr, owner>>

\* spin_trylock_irqsave, or NETDEV_TX_LOCKED: the packet stays with the stack.
XmitLock(c) ==
    /\ pc[c] = "lock"
    /\ \/ /\ tx_lock = None
          /\ tx_lock' = c
          /\ Goto(c, "avail")
          /\ UNCHANGED <<skb, first, left, owner>>
       \/ /\ tx_lock # None
          /\ Leave(c)
          /\ owner' = [owner EXCEPT ![skb[c]] = "stack"]
          /\ UNCHANGED tx_lock
    /\ UNCHANGED <<ringVars, hwVars, netVars, intr>>

\* atl1c_get_tpd: the next slot, its descriptor zeroed.
GetTpd ==
    /\ desc' = [desc EXCEPT ![next_to_use] = ZeroDesc]
    /\ next_to_use' = Succ(next_to_use)

\* The reading of the free space, and the first descriptor when it suffices.
XmitAvail(c) ==
    /\ pc[c] = "avail"
    /\ \/ /\ Avail < TpdReq(skb[c])
          /\ Goto(c, "stop")
          /\ UNCHANGED <<next_to_use, desc, first>>
       \/ /\ Avail >= TpdReq(skb[c])
          /\ GetTpd
          /\ first' = [first EXCEPT ![c] = next_to_use]
          /\ Goto(c, "offload")
    /\ UNCHANGED <<next_to_clean, buffer_info, hwVars, netVars, tx_lock, skb, left, intr, owner>>

\* netif_stop_queue, NETDEV_TX_BUSY.
XmitStop(c) ==
    /\ pc[c] = "stop"
    /\ queue_stopped' = TRUE
    /\ Return(c, skb[c], "stack")
    /\ UNCHANGED <<ringVars, hwVars, carrier, at_down, intr>>

\* atl1c_tso_csum fails: skb_cow_head on a GSO packet, or an odd checksum
\* start on one that ends at check_sum.  No descriptor is given back.
XmitOffloadFail(c) ==
    LET s == skb[c] IN
    /\ pc[c] = "offload"
    /\ \/ "cow" \in Failures /\ Shape[s].gso # "none" /\ UNCHANGED <<desc, next_to_use>>
       \/ /\ Shape[s].oddcsum /\ ~Lso(s)
          /\ IF Shape[s].gso = "tcp6" THEN GetTpd ELSE UNCHANGED <<desc, next_to_use>>
    /\ Return(c, s, "freed")
    /\ UNCHANGED <<next_to_clean, buffer_info, hwVars, netVars, intr>>

\* atl1c_tso_csum succeeds: for IPv6 the first descriptor becomes the
\* extended one and `tpd' moves to a second.
XmitOffload(c) ==
    LET s == skb[c] IN
    /\ pc[c] = "offload"
    /\ Lso(s) \/ ~Shape[s].oddcsum
    /\ IF Shape[s].gso = "tcp6"
       THEN /\ desc' = [desc EXCEPT ![first[c]] = [kind |-> "ext", eop |-> FALSE],
                                    ![next_to_use] = ZeroDesc]
            /\ next_to_use' = Succ(next_to_use)
            /\ first' = [first EXCEPT ![c] = next_to_use]
       ELSE UNCHANGED <<desc, next_to_use, first>>
    /\ left' = [left EXCEPT ![c] = Pieces(s)]
    /\ Goto(c, "map")
    /\ UNCHANGED <<next_to_clean, buffer_info, hwVars, netVars, tx_lock, skb, intr, owner>>

\* atl1c_tx_map fills `tpd' first and takes a new descriptor for each piece
\* after that.
MapSlot(c) == IF left[c] = Pieces(skb[c]) THEN first[c] ELSE next_to_use

\* One piece mapped; the last one gets EOP and carries the skb, which is the
\* ring's from there on.
XmitMap(c) ==
    LET s == skb[c]
        i == MapSlot(c)
        last == left[c] = 1
    IN
    /\ pc[c] = "map"
    /\ desc' = [desc EXCEPT ![i] = [kind |-> "data", eop |-> last]]
    /\ buffer_info' = [buffer_info EXCEPT ![i] =
            [free |-> FALSE, dma |-> TRUE, skb |-> IF last THEN s ELSE @.skb]]
    /\ next_to_use' = IF i = first[c] THEN next_to_use ELSE Succ(next_to_use)
    /\ left' = [left EXCEPT ![c] = @ - 1]
    /\ owner' = [owner EXCEPT ![s] = IF last THEN "ring" ELSE @]
    /\ Goto(c, IF last THEN "queue" ELSE "map")
    /\ UNCHANGED <<next_to_clean, hwVars, netVars, tx_lock, skb, first, intr>>

\* Mutant: the error is not reported to atl1c_xmit_frame.
XmitMapFailSilent(c) ==
    LET i == MapSlot(c) IN
    /\ pc[c] = "map"
    /\ "dma" \in Failures
    /\ desc' = [desc EXCEPT ![i] = [kind |-> "data", eop |-> FALSE]]
    /\ buffer_info' = [buffer_info EXCEPT ![i].dma = FALSE]
    /\ next_to_use' = IF i = first[c] THEN next_to_use ELSE Succ(next_to_use)
    /\ Goto(c, "queue")
    /\ UNCHANGED <<next_to_clean, hwVars, netVars, tx_lock, skb, first, left, intr, owner>>

\* err_dma: the slot is taken, nothing is mapped in it.
XmitMapFail(c) ==
    LET i == MapSlot(c) IN
    /\ pc[c] = "map"
    /\ "dma" \in Failures
    /\ desc' = [desc EXCEPT ![i] = [kind |-> "data", eop |-> FALSE]]
    /\ buffer_info' = [buffer_info EXCEPT ![i].dma = FALSE]
    /\ next_to_use' = IF i = first[c] THEN next_to_use ELSE Succ(next_to_use)
    /\ Goto(c, "rollback")
    /\ UNCHANGED <<next_to_clean, hwVars, netVars, tx_lock, skb, first, left, intr, owner>>

\* atl1c_tx_rollback back to `tpd', unlock, free the packet.
XmitRollback(c) ==
    LET undone == {i \in Slots : InRange(first[c], next_to_use, i)} IN
    /\ pc[c] = "rollback"
    /\ buffer_info' = [i \in Slots |->
            IF i \in undone THEN CleanBuffer(buffer_info[i]) ELSE buffer_info[i]]
    /\ desc' = [i \in Slots |-> IF i \in undone THEN ZeroDesc ELSE desc[i]]
    /\ next_to_use' = first[c]
    /\ Return(c, skb[c], "freed")
    /\ UNCHANGED <<next_to_clean, hwVars, netVars, intr>>

\* atl1c_tx_queue: hand everything up to next_to_use to the NIC.
XmitQueue(c) ==
    /\ pc[c] = "queue"
    /\ pidx' = next_to_use
    /\ tx_lock' = None
    /\ Leave(c)
    /\ UNCHANGED <<ringVars, cidx, isr_tx, netVars, intr, owner>>

Xmit(c) ==
    \/ \E s \in Skbs : XmitEnter(c, s)
    \/ XmitLock(c) \/ XmitAvail(c) \/ XmitStop(c)
    \/ XmitOffloadFail(c) \/ XmitOffload(c)
    \/ XmitMap(c) \/ XmitMapFail(c) \/ XmitRollback(c)
    \/ XmitQueue(c)

(***************************************************************************)
(* atl1c_intr with atl1c_clean_tx_irq                                      *)
(***************************************************************************)

IntrIdle == [pc |-> "idle", work |-> 0, idx |-> 0, hw |-> 0]

\* Entry, and each turn of the loop: read ISR; ack it before anything else.
IntrStatus ==
    /\ \/ intr.pc = "idle" /\ isr_tx
       \/ intr.pc = "status"
    /\ \/ /\ isr_tx
          /\ isr_tx' = FALSE
          /\ intr' = [intr EXCEPT !.pc = "read",
                                  !.work = IF intr.pc = "idle" THEN MaxIntWork ELSE @]
       \/ /\ ~isr_tx
          /\ intr' = IntrIdle
          /\ UNCHANGED isr_tx
    /\ UNCHANGED <<ringVars, pidx, cidx, netVars, xmitVars, owner>>

\* Mutant: the producer index of the NIC is read instead of its consumer index.
IntrReadPidx ==
    /\ intr.pc = "read"
    /\ intr' = [intr EXCEPT !.pc = "clean", !.idx = next_to_clean, !.hw = pidx]
    /\ UNCHANGED <<ringVars, hwVars, netVars, xmitVars, owner>>

\* atl1c_clean_tx_irq: its index and the NIC's, read once.
IntrRead ==
    /\ intr.pc = "read"
    /\ intr' = [intr EXCEPT !.pc = "clean", !.idx = next_to_clean, !.hw = cidx]
    /\ UNCHANGED <<ringVars, hwVars, netVars, xmitVars, owner>>

IntrClean ==
    /\ intr.pc = "clean"
    /\ intr.idx # intr.hw
    /\ buffer_info' = [buffer_info EXCEPT ![intr.idx] = CleanBuffer(@)]
    /\ owner' = Released({intr.idx})
    /\ intr' = [intr EXCEPT !.pc = "publish", !.idx = Succ(@)]
    /\ UNCHANGED <<next_to_use, next_to_clean, desc, hwVars, netVars, xmitVars>>

\* atomic_set(&next_to_clean) after each buffer.
IntrPublish ==
    /\ intr.pc = "publish"
    /\ next_to_clean' = intr.idx
    /\ intr' = [intr EXCEPT !.pc = "clean"]
    /\ UNCHANGED <<next_to_use, buffer_info, desc, hwVars, netVars, xmitVars, owner>>

\* Mutant: TX_PKT is acknowledged after the work as well.
IntrWakeAck ==
    /\ intr.pc = "clean"
    /\ intr.idx = intr.hw
    /\ isr_tx' = FALSE
    /\ queue_stopped' = (queue_stopped /\ ~carrier)
    /\ intr' = IF intr.work > 1 THEN [intr EXCEPT !.pc = "status", !.work = @ - 1]
                                ELSE IntrIdle
    /\ UNCHANGED <<ringVars, pidx, cidx, carrier, at_down, xmitVars, owner>>

\* Wake the queue, then loop or leave.
IntrWake ==
    /\ intr.pc = "clean"
    /\ intr.idx = intr.hw
    /\ queue_stopped' = (queue_stopped /\ ~carrier)
    /\ intr' = IF intr.work > 1 THEN [intr EXCEPT !.pc = "status", !.work = @ - 1]
                                ELSE IntrIdle
    /\ UNCHANGED <<ringVars, hwVars, carrier, at_down, xmitVars, owner>>

Intr == IntrStatus \/ IntrRead \/ IntrClean \/ IntrPublish \/ IntrWake

(***************************************************************************)
(* The NIC and the stack                                                   *)
(***************************************************************************)

\* The NIC is through with one descriptor; the end of a packet raises TX_PKT.
HwTransmit ==
    /\ cidx # pidx
    /\ cidx' = Succ(cidx)
    /\ isr_tx' = (isr_tx \/ desc[cidx].eop)
    /\ UNCHANGED <<ringVars, pidx, netVars, xmitVars, intr, owner>>

\* The memory of a released packet is used for another one.
Reuse(s) ==
    /\ owner[s] = "freed"
    /\ owner' = [owner EXCEPT ![s] = "stack"]
    /\ UNCHANGED <<ringVars, hwVars, netVars, xmitVars, intr>>

(***************************************************************************)

\* After atl1c_up with the link there. atl1c_init_ring_ptrs marks only the
\* first buffer as free; the others are zero, neither FREE nor BUSY.
Init ==
    /\ next_to_use = 0 /\ next_to_clean = 0
    /\ buffer_info = [i \in Slots |-> IF i = 0 THEN NoBuffer ELSE FreshBuffer]
    /\ desc = [i \in Slots |-> ZeroDesc]
    /\ pidx = 0 /\ cidx = 0 /\ isr_tx = FALSE
    /\ queue_stopped = FALSE /\ carrier = TRUE /\ at_down = FALSE
    /\ tx_lock = None
    /\ pc = [c \in Cpus |-> "idle"]
    /\ skb = [c \in Cpus |-> None]
    /\ first = [c \in Cpus |-> 0]
    /\ left = [c \in Cpus |-> 0]
    /\ intr = IntrIdle
    /\ owner = [s \in Skbs |-> "stack"]

Next ==
    \/ \E c \in Cpus : Xmit(c)
    \/ Intr
    \/ HwTransmit
    \/ \E s \in Skbs : Reuse(s)

Spec == Init /\ [][Next]_vars

\* A CPU inside atl1c_xmit_frame or the handler keeps running, and the NIC
\* keeps transmitting; nothing obliges the stack to send.
Fairness ==
    /\ \A c \in Cpus : WF_vars(Xmit(c) /\ pc[c] # "idle")
    /\ WF_vars(Intr)
    /\ WF_vars(HwTransmit)

FairSpec == Spec /\ Fairness

(***************************************************************************)
(* Properties                                                              *)
(***************************************************************************)

TypeOK ==
    /\ next_to_use \in Slots /\ next_to_clean \in Slots
    /\ buffer_info \in [Slots -> Buffers]
    /\ desc \in [Slots -> Descs]
    /\ pidx \in Slots /\ cidx \in Slots /\ isr_tx \in BOOLEAN
    /\ queue_stopped \in BOOLEAN /\ carrier \in BOOLEAN /\ at_down \in BOOLEAN
    /\ tx_lock \in Cpus \cup {None}
    /\ pc \in [Cpus -> {"idle", "lock", "avail", "stop", "offload", "map", "rollback", "queue"}]
    /\ skb \in [Cpus -> Skbs \cup {None}]
    /\ first \in [Cpus -> Slots]
    /\ left \in [Cpus -> Nat]
    /\ intr \in [pc : {"idle", "status", "read", "clean", "publish"},
                 work : 0 .. MaxIntWork, idx : Slots, hw : Slots]
    /\ owner \in [Skbs -> {"stack", "driver", "ring", "freed"}]

\* The four indices of the ring never overtake one another although no two
\* of them are written under a common lock: the handler cleans up to what the
\* NIC has consumed, which is up to what was queued, which is up to what was
\* taken, and the producer never runs into the slot being cleaned.
RingOrder ==
    /\ Dist(next_to_clean, cidx) <= Dist(next_to_clean, pidx)
    /\ Dist(next_to_clean, pidx) <= Dist(next_to_clean, next_to_use)

\* Why RingOrder holds, in three parts.
Locked == {"avail", "stop", "offload", "map", "rollback", "queue"}

LockInv ==
    \A c \in Cpus :
        /\ pc[c] \in Locked <=> tx_lock = c
        /\ pc[c] # "idle" => skb[c] \in Skbs

\* Descriptors the CPU has still to take, and has made sure of.
Need(c) ==
    CASE pc[c] = "offload" -> TpdReq(skb[c]) - 1
      [] pc[c] = "map" -> IF left[c] = Pieces(skb[c]) THEN left[c] - 1 ELSE left[c]
      [] OTHER -> 0

\* The CPU in the ring has room for the rest of its packet, and its first
\* descriptor lies in what it has taken, [pidx, next_to_use).
ProducerInv ==
    \A c \in Cpus :
        /\ tx_lock = c => Dist(next_to_clean, next_to_use) + Need(c) < Count
        /\ pc[c] = "map" => left[c] \in 1 .. Pieces(skb[c])
        /\ pc[c] \in {"offload", "map", "rollback"} =>
              /\ Dist(next_to_clean, pidx) <= Dist(next_to_clean, first[c])
              /\ Dist(next_to_clean, first[c]) < Dist(next_to_clean, next_to_use)
        /\ pc[c] = "offload" \/ (pc[c] = "map" /\ left[c] = Pieces(skb[c])) =>
              next_to_use = Succ(first[c])

\* The handler's index is next_to_clean or one ahead of it, and its snapshot
\* of CIDX is not ahead of CIDX.
ConsumerInv ==
    /\ intr.pc \in {"clean", "publish"} =>
          Dist(next_to_clean, intr.hw) <= Dist(next_to_clean, cidx)
    /\ intr.pc = "clean" => intr.idx = next_to_clean
    /\ intr.pc = "publish" => intr.idx = Succ(next_to_clean) /\ intr.hw # next_to_clean

IInv == TypeOK /\ LockInv /\ ProducerInv /\ ConsumerInv /\ RingOrder

\* A packet belongs to the ring exactly when one slot the handler has still to
\* clean holds it, and no other slot does: it is freed neither twice
\* nor never, whatever the failures and rollbacks of the packets around it.
SkbOwnership ==
    \A s \in Skbs :
        owner[s] = "ring" <=>
            \E i \in Slots :
                /\ InRange(next_to_clean, next_to_use, i)
                /\ buffer_info[i].skb = s
                /\ \A j \in Slots : buffer_info[j].skb = s => j = i

\* What the NIC is about to read is mapped: a data descriptor between CIDX and
\* PIDX has its buffer mapped, and the end of a packet has the packet.
HwSeesMapped ==
    \A i \in Slots : InRange(cidx, pidx, i) /\ desc[i].kind = "data" =>
        /\ buffer_info[i].dma /\ ~buffer_info[i].free
        /\ desc[i].eop => buffer_info[i].skb # None

\* No descriptor the NIC owns is rewritten and no buffer of one is unmapped:
\* neither by a producer, nor by a rollback, nor by the handler.
NoTouchUnderHw ==
    [][\A i \in Slots :
         InRange(cidx, pidx, i) /\ InRange(cidx', pidx', i) =>
            desc'[i] = desc[i] /\ buffer_info'[i] = buffer_info[i]]_vars

\* Why SkbOwnership and HwSeesMapped hold, in five parts. A packet in a slot is
\* the ring's, in that slot alone, and below PIDX once its CPU is through.
SlotInv ==
    \A i \in Slots :
        /\ buffer_info[i].free => buffer_info[i].skb = None
        /\ buffer_info[i].skb # None =>
              /\ owner[buffer_info[i].skb] = "ring"
              /\ InRange(next_to_clean, next_to_use, i)
              /\ InRange(next_to_clean, pidx, i) \/ \E c \in Cpus : pc[c] = "queue"
              /\ \A j \in Slots : buffer_info[j].skb = buffer_info[i].skb => j = i

RingInv == \A s \in Skbs : owner[s] = "ring" => \E i \in Slots : buffer_info[i].skb = s

\* Until its last piece is mapped a packet is one CPU's.
Carrying == {"lock", "avail", "stop", "offload", "map", "rollback"}

DriverInv ==
    \A c \in Cpus : pc[c] \in Carrying =>
        /\ owner[skb[c]] = "driver"
        /\ \A d \in Cpus : pc[d] \in Carrying /\ skb[d] = skb[c] => d = c

\* What the handler has cleaned and not yet published is empty.
PublishInv == intr.pc = "publish" => buffer_info[next_to_clean].skb = None

\* A data descriptor not yet consumed is mapped, unless it is being rolled back.
MappedInv ==
    \A i \in Slots : InRange(cidx, next_to_use, i) /\ desc[i].kind = "data" =>
        \/ \E c \in Cpus : pc[c] = "rollback" /\ InRange(first[c], next_to_use, i)
        \/ /\ buffer_info[i].dma /\ ~buffer_info[i].free
           /\ desc[i].eop => buffer_info[i].skb # None

ContentIInv == IInv /\ SlotInv /\ RingInv /\ DriverInv /\ PublishInv /\ MappedInv

\* Which packets the ring holds, and in which order they lie in it.
InRing == {s \in Skbs : owner[s] = "ring"}

Holds(i, s) == buffer_info[i].skb = s

Before ==
    {p \in Skbs \X Skbs :
        \E i, j \in Slots :
            /\ Holds(i, p[1]) /\ Holds(j, p[2])
            /\ Dist(next_to_clean, i) < Dist(next_to_clean, j)}

Channel == INSTANCE TxChannel WITH
    queue <- InRing, before <- Before, freed <- {s \in Skbs : owner[s] = "freed"}, purging <- FALSE

\* The ring is a FIFO of packets: each accepted one is released once, in order.
TxFifo == Channel!Spec

\* Every packet queued to the NIC is released: the acknowledgement of TX_PKT
\* cannot swallow the one raised while the handler is at work.
QueuedIsReleased == \A s \in Skbs : owner[s] = "ring" ~> owner[s] = "freed"

\* "roll back tpd/buffer" (atl1c_main.c:2254): a packet dropped for a DMA error
\* leaves no descriptor behind, so once tx_lock is free everything taken from the
\* ring has been handed to the NIC.
RollbackRestores == tx_lock = None => next_to_use = pidx
=============================================================================
