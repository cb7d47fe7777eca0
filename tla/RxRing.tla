------------------------------- MODULE RxRing -------------------------------
(***************************************************************************)
(* The receive path of the atl1c driver (4-atl1c): the ring of receive     *)
(* free descriptors (RFD) that atl1c_alloc_rx_buffer fills with empty      *)
(* buffers, the ring of receive return descriptors (RRD) in which the NIC  *)
(* reports the frames it put into them, and the NAPI poll that cleans      *)
(* both, with the interrupt that schedules it.                             *)
(***************************************************************************)
EXTENDS Integers, Sequences

CONSTANTS
    Count,      \* rfd_ring->count = rrd_ring->count
    Skbs,       \* the memory for receive buffers
    Budget,     \* frames per NAPI poll
    Kinds,      \* what the NIC may report: "good", "error", "multi"
    Failures,   \* which of {"alloc", "map"} may fail
    MaxFlaps,   \* bound: how often the carrier may change
    Drained,    \* no frame waits for the poll when a reset begins
    None

ASSUME RxCountAssumption == Count \in Nat /\ Count >= 3
ASSUME RxBudgetAssumption == Budget \in Nat \ {0}
ASSUME RxKindsAssumption == Kinds \subseteq {"good", "error", "multi"}
ASSUME RxFailuresAssumption == Failures \subseteq {"alloc", "map"}
ASSUME RxNoneAssumption == None \notin Skbs /\ MaxFlaps \in Nat /\ Drained \in BOOLEAN

VARIABLES
    next_to_use,    \* rfd_ring->next_to_use
    next_to_clean,  \* rrd_ring->next_to_clean
    buffer_info,    \* per RFD: free or busy, and the skb
    prod,           \* REG_MB_RFD0_PROD_IDX
    hw_rfd,         \* the RFD the NIC fills next
    rrd, hw_rrd,    \* the return descriptors, and the one the NIC writes next
    isr_rx,         \* ISR_RX_PKT pending
    rx_unmasked,    \* ISR_RX_PKT in hw->intr_mask and IMR
    napi,           \* the poll: where it is, work_done, count
    carrier, flaps, \* netif_carrier_ok; how often it has changed
    up,             \* between atl1c_up and atl1c_down
    owner           \* per skb: who is responsible for it

rfdVars  == <<next_to_use, buffer_info, prod>>
rrdVars  == <<next_to_clean, rrd>>
hwVars   == <<hw_rfd, hw_rrd, isr_rx>>
netVars  == <<carrier, flaps, up>>
vars     == <<rfdVars, rrdVars, hwVars, rx_unmasked, napi, netVars, owner>>

Slots == 0 .. Count - 1

Free == [free |-> TRUE, skb |-> None]
Busy(s) == [free |-> FALSE, skb |-> s]
NoRrd == [updated |-> FALSE, kind |-> "good", rfd |-> 0, num |-> 1]
NapiIdle == [pc |-> "idle", done |-> 0, count |-> 0]

Plus(i, n) == (i + n) % Count

\* Steps forward from a to b.
Dist(a, b) == (b - a + Count) % Count

(***************************************************************************)
(* atl1c_alloc_rx_buffer                                                   *)
(***************************************************************************)

\* The outcomes: sequences of fresh skbs, put into the slots from `use' on. The
\* loop fills a slot if the one after it is free, and ends before that only when
\* an allocation or a mapping fails (the skb is given back). With Failures = {}
\* the memory is there when it is asked for.
Fills(use, info, own) ==
    LET pool == {s \in Skbs : own[s] = "pool"}
    IN  {q \in UNION {[1 .. n -> pool] : n \in 0 .. Count - 1} :
            /\ \A j, k \in DOMAIN q : q[j] = q[k] => j = k
            /\ \A k \in DOMAIN q : info[Plus(use, k)].free
            /\ Failures = {} => Len(q) = Count - 1 \/ ~info[Plus(use, Len(q) + 1)].free}

Filled(use, info, q) ==
    [i \in Slots |-> IF Dist(use, i) < Len(q) THEN Busy(q[Dist(use, i) + 1]) ELSE info[i]]

\* Mutant: the producer index is not written to the NIC.
AllocSilent(use, info, own, q) ==
    /\ q \in Fills(use, info, own)
    /\ buffer_info' = Filled(use, info, q)
    /\ owner' = [s \in Skbs |-> IF \E k \in DOMAIN q : q[k] = s THEN "ring" ELSE own[s]]
    /\ next_to_use' = Plus(use, Len(q))
    /\ UNCHANGED prod

\* A slot whose mapping failed is left free, as it was.
AllocRxBuffer(use, info, own, q) ==
    /\ q \in Fills(use, info, own)
    /\ buffer_info' = Filled(use, info, q)
    /\ owner' = [s \in Skbs |-> IF \E k \in DOMAIN q : q[k] = s THEN "ring" ELSE own[s]]
    /\ next_to_use' = Plus(use, Len(q))
    /\ prod' = IF Len(q) > 0 THEN Plus(use, Len(q)) ELSE prod

(***************************************************************************)
(* atl1c_intr on ISR_RX_PKT, and the NAPI poll atl1c_clean                 *)
(***************************************************************************)

IntrRx ==
    /\ up /\ isr_rx /\ rx_unmasked
    /\ isr_rx' = FALSE
    /\ IF napi.pc = "idle"
       THEN /\ rx_unmasked' = FALSE
            /\ napi' = [NapiIdle EXCEPT !.pc = "start"]
       ELSE UNCHANGED <<rx_unmasked, napi>>
    /\ UNCHANGED <<rfdVars, rrdVars, hw_rfd, hw_rrd, netVars, owner>>

\* Mutant: ISR_RX_PKT stays masked.
CompleteMasked ==
    /\ napi' = NapiIdle
    /\ UNCHANGED rx_unmasked

\* napi_complete and ISR_RX_PKT back into the mask.
Complete ==
    /\ napi' = NapiIdle
    /\ rx_unmasked' = TRUE

PollStart ==
    /\ napi.pc = "start"
    /\ \/ carrier /\ napi' = [napi EXCEPT !.pc = "poll"] /\ UNCHANGED rx_unmasked
       \/ ~carrier /\ Complete
    /\ UNCHANGED <<rfdVars, rrdVars, hwVars, netVars, owner>>

\* Mutant: the flag is left set.
CleanRrdKeep(num) ==
    /\ UNCHANGED rrd
    /\ next_to_clean' = Plus(next_to_clean, num)

\* atl1c_clean_rrd
CleanRrd(num) ==
    /\ rrd' = [i \in Slots |->
                  IF Dist(next_to_clean, i) < num THEN [rrd[i] EXCEPT !.updated = FALSE]
                                                  ELSE rrd[i]]
    /\ next_to_clean' = Plus(next_to_clean, num)

\* Mutant: one RFD too many.
CleanRfdMore(rfd, num) ==
    buffer_info' = [i \in Slots |-> IF Dist(rfd, i) <= num THEN Free ELSE buffer_info[i]]

\* atl1c_clean_rfd: the skb is forgotten, not freed.
CleanRfd(rfd, num) ==
    buffer_info' = [i \in Slots |-> IF Dist(rfd, i) < num THEN Free ELSE buffer_info[i]]

\* One turn of the loop of atl1c_clean_rx_irq that finds a frame.
Valid == napi.pc = "poll" /\ napi.done < Budget /\ rrd[next_to_clean].updated

PollGood ==
    LET r == rrd[next_to_clean] IN
    /\ Valid /\ r.kind = "good"
    /\ CleanRrd(r.num)
    /\ CleanRfd(r.rfd, r.num)
    /\ owner' = [owner EXCEPT ![buffer_info[r.rfd].skb] = "stack"]
    /\ napi' = [napi EXCEPT !.done = @ + 1, !.count = @ + 1]
    /\ UNCHANGED <<next_to_use, prod, hwVars, rx_unmasked, netVars>>

\* A frame with an error costs no budget and does not count for the refill. Its
\* buffer is lost: nobody has it any more, and nobody frees it.
PollError ==
    LET r == rrd[next_to_clean] IN
    /\ Valid /\ r.kind = "error"
    /\ CleanRrd(r.num)
    /\ CleanRfd(r.rfd, r.num)
    /\ owner' = [owner EXCEPT ![buffer_info[r.rfd].skb] = "lost"]
    /\ UNCHANGED <<next_to_use, prod, hwVars, rx_unmasked, napi, netVars>>

\* A frame of several buffers ends the loop; its RFDs stay busy.
PollMulti ==
    LET r == rrd[next_to_clean] IN
    /\ Valid /\ r.kind = "multi"
    /\ CleanRrd(r.num)
    /\ napi' = [napi EXCEPT !.pc = "refill"]
    /\ UNCHANGED <<rfdVars, hwVars, rx_unmasked, netVars, owner>>

PollStop ==
    /\ napi.pc = "poll"
    /\ napi.done >= Budget \/ ~rrd[next_to_clean].updated
    /\ napi' = [napi EXCEPT !.pc = "refill"]
    /\ UNCHANGED <<rfdVars, rrdVars, hwVars, rx_unmasked, netVars, owner>>

\* Refill if a frame was delivered; then complete, or poll again when the
\* budget was used up.
PollRefill ==
    /\ napi.pc = "refill"
    /\ IF napi.count > 0
       THEN \E q \in Fills(next_to_use, buffer_info, owner) :
                AllocRxBuffer(next_to_use, buffer_info, owner, q)
       ELSE UNCHANGED <<rfdVars, owner>>
    /\ IF napi.done < Budget
       THEN Complete
       ELSE napi' = [NapiIdle EXCEPT !.pc = "start"] /\ UNCHANGED rx_unmasked
    /\ UNCHANGED <<rrdVars, hwVars, netVars>>

Poll == PollStart \/ PollGood \/ PollError \/ PollMulti \/ PollStop \/ PollRefill

(***************************************************************************)
(* Going down and up                                                       *)
(***************************************************************************)

\* Mutant: the loop starts at the second buffer.
CleanRxRingFrom1 ==
    /\ owner' = [s \in Skbs |->
            IF \E i \in Slots \ {0} : ~buffer_info[i].free /\ buffer_info[i].skb = s
            THEN "pool" ELSE owner[s]]
    /\ buffer_info' = [i \in Slots |-> Free]

\* atl1c_clean_rx_ring: every buffer in the ring is unmapped and freed.
CleanRxRing ==
    /\ owner' = [s \in Skbs |->
            IF \E i \in Slots : ~buffer_info[i].free /\ buffer_info[i].skb = s
            THEN "pool" ELSE owner[s]]
    /\ buffer_info' = [i \in Slots |-> Free]

\* atl1c_down once NAPI is disabled: the MAC is reset, the RFD ring cleaned.
\* A reset leaves the memory of the RRD ring as it is; atl1c_close frees it and
\* atl1c_open gets it zeroed.
Down(reset) ==
    /\ up /\ napi.pc = "idle"
    /\ reset /\ Drained => \A i \in Slots : ~rrd[i].updated
    /\ up' = FALSE
    /\ CleanRxRing
    /\ next_to_use' = 0 /\ next_to_clean' = 0
    /\ rrd' = IF reset THEN rrd ELSE [i \in Slots |-> NoRrd]
    /\ prod' = 0 /\ hw_rfd' = 0 /\ hw_rrd' = 0 /\ isr_rx' = FALSE
    /\ UNCHANGED <<rx_unmasked, napi, carrier, flaps>>

\* atl1c_configure: without a single buffer the device stays down.
Up ==
    /\ ~up
    /\ \E q \in Fills(0, buffer_info, owner) :
        /\ AllocRxBuffer(0, buffer_info, owner, q)
        /\ up' = (Len(q) > 0)
    /\ UNCHANGED <<rrdVars, hwVars, rx_unmasked, napi, carrier, flaps>>

CarrierChange ==
    /\ flaps < MaxFlaps
    /\ flaps' = flaps + 1
    /\ carrier' = ~carrier
    /\ UNCHANGED <<rfdVars, rrdVars, hwVars, rx_unmasked, napi, up, owner>>

(***************************************************************************)
(* The NIC and the stack                                                   *)
(***************************************************************************)

\* A frame arrives and is put into one RFD (two for a "multi" one) and as many
\* RRDs, of which the first describes it.
HwReceive(kind) ==
    LET num == IF kind = "multi" THEN 2 ELSE 1 IN
    /\ up
    /\ Dist(hw_rfd, prod) >= num
    /\ rrd' = [rrd EXCEPT ![hw_rrd] =
                  [updated |-> TRUE, kind |-> kind, rfd |-> hw_rfd, num |-> num]]
    /\ hw_rrd' = Plus(hw_rrd, num)
    /\ hw_rfd' = Plus(hw_rfd, num)
    /\ isr_rx' = TRUE
    /\ UNCHANGED <<rfdVars, next_to_clean, rx_unmasked, napi, netVars, owner>>

StackFree(s) ==
    /\ owner[s] = "stack"
    /\ owner' = [owner EXCEPT ![s] = "pool"]
    /\ UNCHANGED <<rfdVars, rrdVars, hwVars, rx_unmasked, napi, netVars>>

(***************************************************************************)

Init ==
    /\ next_to_use = 0 /\ next_to_clean = 0
    /\ buffer_info = [i \in Slots |-> Free]
    /\ prod = 0 /\ hw_rfd = 0 /\ hw_rrd = 0 /\ isr_rx = FALSE
    /\ rrd = [i \in Slots |-> NoRrd]
    /\ rx_unmasked = TRUE
    /\ napi = NapiIdle
    /\ carrier = TRUE /\ flaps = 0 /\ up = FALSE
    /\ owner = [s \in Skbs |-> "pool"]

Next ==
    \/ IntrRx \/ Poll
    \/ \E reset \in BOOLEAN : Down(reset)
    \/ Up \/ CarrierChange
    \/ \E kind \in Kinds : HwReceive(kind)
    \/ \E s \in Skbs : StackFree(s)

Spec == Init /\ [][Next]_vars

\* The interrupt is delivered, softirqs run, the stack gives buffers back.
Fairness ==
    /\ WF_vars(IntrRx)
    /\ WF_vars(Poll)
    /\ \A s \in Skbs : WF_vars(StackFree(s))

FairSpec == Spec /\ Fairness

(***************************************************************************)
(* Properties                                                              *)
(***************************************************************************)

TypeOK ==
    /\ next_to_use \in Slots /\ next_to_clean \in Slots
    /\ buffer_info \in [Slots -> [free : BOOLEAN, skb : Skbs \cup {None}]]
    /\ prod \in Slots /\ hw_rfd \in Slots /\ hw_rrd \in Slots /\ isr_rx \in BOOLEAN
    /\ rrd \in [Slots -> [updated : BOOLEAN, kind : {"good", "error", "multi"},
                          rfd : Slots, num : 1 .. 2]]
    /\ rx_unmasked \in BOOLEAN
    /\ napi \in [pc : {"idle", "start", "poll", "refill"}, done : 0 .. Budget,
                 count : 0 .. Budget]
    /\ carrier \in BOOLEAN /\ flaps \in 0 .. MaxFlaps /\ up \in BOOLEAN
    /\ owner \in [Skbs -> {"pool", "ring", "stack", "lost"}]

\* The NIC only fills buffers that are there: every RFD between its own index
\* and the producer index is busy with a buffer nobody else has.
HwFillsBuffers ==
    \A i \in Slots : Dist(hw_rfd, i) < Dist(hw_rfd, prod) =>
        /\ ~buffer_info[i].free
        /\ buffer_info[i].skb # None
        /\ owner[buffer_info[i].skb] = "ring"
        /\ \A j \in Slots : buffer_info[j].skb = buffer_info[i].skb => j = i

\* The RRD ring cannot overflow although nothing limits it: it is as long as
\* the RFD ring, so whenever the NIC still has a buffer, the return descriptor
\* it would report it in has been cleaned.
RrdHasRoom == up /\ hw_rfd # prod => ~rrd[hw_rrd].updated

\* "the relationship between rrd and rfd is one map one" (atl1c_main.c:1762): the
\* return descriptor being cleaned stands for a buffer the NIC has filled.
CleanedWasFilled ==
    Valid => LET i == rrd[next_to_clean].rfd IN ~(Dist(hw_rfd, i) < Dist(hw_rfd, prod))

\* The descriptors reported and not yet cleaned, their buffers, and the order in
\* which the poll will come to them.
Waiting == {i \in Slots : rrd[i].updated}

Held(i) == buffer_info[rrd[i].rfd].skb

Reported == {Held(i) : i \in Waiting}

InTurn == {p \in Waiting \X Waiting : Dist(next_to_clean, p[1]) < Dist(next_to_clean, p[2])}

Before == {<<Held(p[1]), Held(p[2])>> : p \in InTurn}

Channel == INSTANCE RxChannel WITH
    filled <- Reported, before <- Before, stack <- {s \in Skbs : owner[s] = "stack"}

\* Frames reach the stack in the order of their arrival, each in its own
\* buffer and once, whatever refills, errors and polls happen in between.
RxFifo == Channel!Spec

\* "Free rx-reservation skbs" (atl1c_main.c:885): once the ring is cleaned the
\* driver is responsible for no buffer any more. The one loss on the way is that of
\* the frames with an error, atl1c_clean_rfd (PollError).
CleanFreesAll == ~up => \A s \in Skbs : owner[s] # "ring"

\* Every frame the NIC reports is dealt with: between the acknowledgement of
\* RX_PKT, the mask, the budget and NAPI none is left waiting for another one.
FrameIsHandled ==
    \A s \in Skbs : s \in Reported ~> s \notin Reported

\* Good traffic never starves the NIC for good: when it has used its last
\* buffer it is given new ones.
RfdsComeBack == (up /\ hw_rfd = prod) ~> (~up \/ hw_rfd # prod)
=============================================================================
