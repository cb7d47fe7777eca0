-------------------------------- MODULE CutTx --------------------------------
(***************************************************************************)
(* The transmit path of the cut-down copy of the atl1c driver (5-atl1c),   *)
(* where atl1c_xmit_frame no longer looks at the result of atl1c_tx_map:   *)
(* what a mapping that fails leaves in the ring, and what the NIC makes of *)
(* it. The interleavings inside the handlers are those of TpdRing; a step  *)
(* is a handler here.                                                      *)
(***************************************************************************)
EXTENDS Integers, Sequences, FiniteSets

CONSTANTS
    Count,     \* descriptors in the ring
    Frames,
    Pieces,    \* [Frames -> Nat]: what atl1c_tx_map maps for each
    Gso,       \* the ones the NIC is to segment
    Gso6,      \* the TCPv6 ones of them, that need an extended descriptor before
    Odd,       \* the ones whose checksum starts at an odd offset
    MaxFlaps,  \* bound: link losses and resets
    None

VARIABLES
    next_to_use, next_to_clean,
    slot,       \* per slot: the descriptor, and whether its buffer has an skb
    pidx, cidx, \* the NIC's indexes
    isr_tx, queue_stopped, carrier, at_down,
    owner,      \* per frame: "stack", "driver", "freed", "lost"
    gathered,   \* what the NIC has read of the packet it is sending
    sent,       \* the last packet it has sent
    flaps

vars == <<next_to_use, next_to_clean, slot, pidx, cidx, isr_tx, queue_stopped,
          carrier, at_down, owner, gathered, sent, flaps>>

Slots == 0 .. Count - 1
Dist(a, b) == IF a <= b THEN b - a ELSE Count + b - a
Ahead(i, n) == (i + n) % Count

Ext == 0         \* the part of an extended or zero descriptor
Unmapped == -1   \* one whose piece could not be mapped
Zero == [of |-> None, part |-> Ext, eop |-> FALSE, skb |-> FALSE]

\* Whether the frame ends at the last of n parts; the skb goes with it.
Desc(f, p, last) == [of |-> f, part |-> p, eop |-> last, skb |-> last]

\* What a frame takes in the ring.
Whole(f) == (IF f \in Gso6 THEN <<Desc(f, Ext, FALSE)>> ELSE <<>>)
            \o [p \in 1 .. Pieces[f] |-> Desc(f, p, p = Pieces[f])]

\* A variant that stores the skb with the first piece.
TxMapFirst(f, k) ==
    IF k = Pieces[f]
    THEN [d \in DOMAIN Whole(f) |-> [Whole(f)[d] EXCEPT !.skb = (d = 1)]]
    ELSE SubSeq(Whole(f), 1, Len(Whole(f)) - Pieces[f] + k) \o <<Desc(f, Unmapped, FALSE)>>

\* atl1c_tx_map, which maps the first k pieces; the next one fails if there is one.
TxMap(f, k) ==
    IF k = Pieces[f] THEN Whole(f)
    ELSE SubSeq(Whole(f), 1, Len(Whole(f)) - Pieces[f] + k) \o <<Desc(f, Unmapped, FALSE)>>

\* atl1c_tpd_avail
Avail == IF next_to_clean > next_to_use THEN next_to_clean - next_to_use - 1
         ELSE Count + next_to_clean - next_to_use - 1

\* atl1c_get_tpd, for each of the descriptors
Put(descs) ==
    /\ slot' = [i \in Slots |->
                  LET d == Dist(next_to_use, i) + 1
                  IN  IF d \in DOMAIN descs THEN descs[d] ELSE slot[i]]
    /\ next_to_use' = Ahead(next_to_use, Len(descs))

(***************************************************************************)
(* atl1c_xmit_frame                                                        *)
(***************************************************************************)

\* The frame is given to the driver, which drops it while it is down.
XmitDown(f) ==
    /\ owner[f] = "stack" /\ ~queue_stopped /\ at_down
    /\ owner' = [owner EXCEPT ![f] = "freed"]
    /\ UNCHANGED <<next_to_use, next_to_clean, slot, pidx, cidx, isr_tx, queue_stopped,
                   carrier, at_down, gathered, sent, flaps>>

\* There is no room: the frame stays with the stack.
XmitBusy(f) ==
    /\ owner[f] = "stack" /\ ~queue_stopped /\ ~at_down
    /\ Avail < Len(Whole(f))
    /\ queue_stopped' = TRUE
    /\ UNCHANGED <<next_to_use, next_to_clean, slot, pidx, cidx, isr_tx,
                   carrier, at_down, owner, gathered, sent, flaps>>

XmitRoom(f) ==
    owner[f] = "stack" /\ ~queue_stopped /\ ~at_down /\ Avail >= Len(Whole(f))

\* atl1c_tso_csum fails, on an odd offset or for want of memory for headers of
\* its own (skb_cow_head): the frame is freed, its descriptor stays taken.
XmitRefused(f) ==
    /\ XmitRoom(f) /\ f \in Odd \cup Gso
    /\ Put(<<Zero>>) /\ owner' = [owner EXCEPT ![f] = "freed"]
    /\ UNCHANGED <<next_to_clean, pidx, cidx, isr_tx, queue_stopped,
                   carrier, at_down, gathered, sent, flaps>>

\* The frame is mapped, or some of it, and queued: nobody undoes a failure,
\* frees the skb, or marks the end of the packet.
XmitQueue(f) ==
    /\ XmitRoom(f) /\ f \notin Odd
    /\ \E k \in 0 .. Pieces[f] :
          /\ Put(TxMap(f, k))
          /\ owner' = [owner EXCEPT ![f] = IF k = Pieces[f] THEN "driver" ELSE "lost"]
    /\ pidx' = next_to_use'
    /\ UNCHANGED <<next_to_clean, cidx, isr_tx, queue_stopped,
                   carrier, at_down, gathered, sent, flaps>>

(***************************************************************************)
(* The NIC and atl1c_clean_tx_irq                                          *)
(***************************************************************************)

\* The NIC reads a descriptor; at the end of a packet it sends it.
HwRead ==
    /\ cidx # pidx /\ carrier
    /\ cidx' = Ahead(cidx, 1)
    /\ LET read == Append(gathered, <<slot[cidx].of, slot[cidx].part>>)
       IN  IF slot[cidx].eop THEN gathered' = <<>> /\ sent' = read /\ isr_tx' = TRUE
           ELSE gathered' = read /\ UNCHANGED <<sent, isr_tx>>
    /\ UNCHANGED <<next_to_use, next_to_clean, slot, pidx, queue_stopped,
                   carrier, at_down, owner, flaps>>

\* atl1c_clean_buffer, for the buffers of these slots.
Clean(S) ==
    owner' = [f \in Frames |->
                IF \E i \in S : slot[i].skb /\ slot[i].of = f THEN "freed" ELSE owner[f]]

\* atl1c_intr, atl1c_clean_tx_irq: what the NIC has read is cleaned.
IntrTx ==
    /\ isr_tx /\ ~at_down /\ isr_tx' = FALSE
    /\ LET read == {i \in Slots : Dist(next_to_clean, i) < Dist(next_to_clean, cidx)}
       IN  /\ Clean(read)
           /\ slot' = [i \in Slots |-> IF i \in read THEN [slot[i] EXCEPT !.skb = FALSE] ELSE slot[i]]
    /\ next_to_clean' = cidx
    /\ queue_stopped' = (queue_stopped /\ ~carrier)
    /\ UNCHANGED <<next_to_use, pidx, cidx, carrier, at_down, gathered, sent, flaps>>

(***************************************************************************)
(* Link, down and up                                                       *)
(***************************************************************************)

\* atl1c_reset_mac and atl1c_clean_tx_ring
ResetRing ==
    /\ Clean(Slots) /\ slot' = [i \in Slots |-> Zero]
    /\ next_to_use' = 0 /\ next_to_clean' = 0 /\ pidx' = 0 /\ cidx' = 0
    /\ gathered' = <<>> /\ isr_tx' = FALSE

\* The work item finds the link lost.
LinkDown ==
    /\ carrier /\ ~at_down /\ flaps < MaxFlaps /\ flaps' = flaps + 1
    /\ carrier' = FALSE /\ ResetRing
    /\ UNCHANGED <<queue_stopped, at_down, sent>>

\* It finds the link again.
LinkUp ==
    /\ ~carrier /\ ~at_down /\ carrier' = TRUE
    /\ UNCHANGED <<next_to_use, next_to_clean, slot, pidx, cidx, isr_tx, queue_stopped,
                   at_down, owner, gathered, sent, flaps>>

\* atl1c_down, for a reset after atl1c_tx_timeout or for atl1c_close
Down ==
    /\ ~at_down /\ flaps < MaxFlaps /\ flaps' = flaps + 1
    /\ at_down' = TRUE /\ carrier' = FALSE /\ ResetRing
    /\ UNCHANGED <<queue_stopped, sent>>

\* atl1c_up, with or without a link
Up ==
    /\ at_down /\ at_down' = FALSE /\ carrier' \in BOOLEAN /\ queue_stopped' = FALSE
    /\ UNCHANGED <<next_to_use, next_to_clean, slot, pidx, cidx, isr_tx, owner,
                   gathered, sent, flaps>>

(***************************************************************************)
(* Specification                                                           *)
(***************************************************************************)

Init ==
    /\ next_to_use = 0 /\ next_to_clean = 0 /\ slot = [i \in Slots |-> Zero]
    /\ pidx = 0 /\ cidx = 0 /\ isr_tx = FALSE /\ queue_stopped = FALSE
    /\ carrier = TRUE /\ at_down = FALSE
    /\ owner = [f \in Frames |-> "stack"] /\ gathered = <<>> /\ sent = <<>> /\ flaps = 0

Next ==
    \/ \E f \in Frames : XmitDown(f) \/ XmitBusy(f) \/ XmitRefused(f) \/ XmitQueue(f)
    \/ HwRead \/ IntrTx \/ LinkDown \/ LinkUp \/ Down \/ Up

Spec == Init /\ [][Next]_vars

(***************************************************************************)
(* Properties                                                              *)
(***************************************************************************)

\* Whatever mapping fails, before or after it, across the wrap of the ring: a
\* packet on the wire ends with a whole frame, its pieces in order, and what
\* precedes it is what frames that failed left in the ring.
FrameEndsPacket ==
    sent # <<>> => \E f \in Frames :
        LET whole == Whole(f)
            junk == Len(sent) - Len(whole)
        IN  /\ junk >= 0
            /\ \A d \in DOMAIN whole : sent[junk + d] = <<f, whole[d].part>>
            /\ \A d \in 1 .. junk : sent[d][1] = None \/ owner[sent[d][1]] = "lost"

\* A frame is freed only when the NIC has read all of it or has been reset,
\* and the driver forgets no frame but one whose mapping failed.
FramesHeldWhileSent ==
    /\ \A i \in Slots : Dist(cidx, i) < Dist(cidx, pidx) =>
           slot[i].of = None \/ owner[slot[i].of] \in {"driver", "lost"}
    /\ \A f \in Frames : owner[f] = "driver" => \E i \in Slots : slot[i].skb /\ slot[i].of = f

(***************************************************************************)
(* The inductive invariant                                                 *)
(***************************************************************************)

CutAssumption ==
    /\ Count \in Nat \ {0} /\ None \notin Frames
    /\ Pieces \in [Frames -> Nat \ {0}]

Descs == [of : Frames \cup {None}, part : Int, eop : BOOLEAN, skb : BOOLEAN]
Packets == Seq((Frames \cup {None}) \X Int)

TypeOK ==
    /\ next_to_use \in Slots /\ next_to_clean \in Slots /\ pidx \in Slots /\ cidx \in Slots
    /\ slot \in [Slots -> Descs] /\ gathered \in Packets /\ sent \in Packets
    /\ owner \in [Frames -> {"stack", "driver", "freed", "lost"}]

\* From the oldest descriptor on come those the NIC has read, those it may
\* read, and those it has not been told of.
OrderInv ==
    /\ Dist(next_to_clean, cidx) <= Dist(next_to_clean, pidx)
    /\ Dist(next_to_clean, pidx) <= Dist(next_to_clean, next_to_use)

\* A driver's frame has one skb in the ring; only a driver's frame has one.
SkbInv ==
    /\ \A i \in Slots : slot[i].skb =>
           /\ slot[i].of \in Frames /\ owner[slot[i].of] = "driver"
           /\ Dist(next_to_clean, i) < Dist(next_to_clean, next_to_use)
    /\ \A i, j \in Slots : slot[i].skb /\ slot[j].skb /\ slot[i].of = slot[j].of => i = j
    /\ \A f \in Frames : owner[f] = "driver" => \E i \in Slots : slot[i].skb /\ slot[i].of = f

\* Where a descriptor is in the stream the NIC reads: 0 is the next one, what
\* it has gathered is at -1 and below.
Pos(i) == Dist(next_to_clean, i) - Dist(next_to_clean, cidx)
Unread(i) == Pos(i) >= 0 /\ Dist(next_to_clean, i) < Dist(next_to_clean, next_to_use)

\* The frame that ends at this slot takes this place in the stream.
Covers(e, p) ==
    /\ slot[e].skb /\ Unread(e)
    /\ p <= Pos(e) /\ Pos(e) < p + Len(Whole(slot[e].of))

Junk(f) == f = None \/ owner[f] = "lost"
Served(f, p) == \E e \in Slots : Covers(e, p) /\ slot[e].of = f

\* What is in the stream belongs to a frame whose end is yet to be read, or to
\* one that failed.
UnreadInv ==
    \A i \in Slots : Unread(i) =>
        (~slot[i].eop /\ Junk(slot[i].of)) \/ Served(slot[i].of, Pos(i))

GatheredInv ==
    \A d \in 1 .. Len(gathered) :
        Junk(gathered[d][1]) \/ Served(gathered[d][1], d - 1 - Len(gathered))

\* And such a frame is there as a whole, up to the slot where it ends.
Intact(e) ==
    LET whole == Whole(slot[e].of)
    IN  \A d \in 1 .. Len(whole) :
            LET p == Pos(e) - Len(whole) + d
            IN  /\ p >= 0 => \A i \in Slots : Pos(i) = p => slot[i] = whole[d]
                /\ p < 0 => /\ Len(gathered) + p >= 0
                            /\ gathered[Len(gathered) + 1 + p] = <<slot[e].of, whole[d].part>>

WholeInv == \A e \in Slots : slot[e].skb /\ Unread(e) => Intact(e)

IInv ==
    /\ TypeOK /\ OrderInv /\ SkbInv /\ UnreadInv /\ GatheredInv /\ WholeInv
    /\ FrameEndsPacket

=============================================================================
