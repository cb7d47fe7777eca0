--------------------------- MODULE AdapterProofs ---------------------------
(***************************************************************************)
(* Proofs about Adapter: for any bounds, any set of operations and of      *)
(* failures, as long as PCI error recovery does not begin inside open or   *)
(* close (~Recovery).                                                      *)
(***************************************************************************)
EXTENDS Adapter, TLAPS, FiniteSetTheorems

(***************************************************************************)
(* The inductive invariant                                                 *)
(***************************************************************************)

DownPcs == {"down", "napi", "irqoff", "freeirq", "stop"}
UpPcs   == {"up", "request", "clear", "enable"}
BusPcs  == {"detach", "suspended", "aerwait", "aerup"}

\* Which operation a thread can be at each place for.
OpInv ==
    /\ th["net"].op \in {"none", "open", "close", "mtu", "nway", "features"}
    /\ th["work"].op \in {"none", "reset", "link"}
    /\ th["bus"].op \in {"none", "pm", "aer", "remove"}
    /\ \A t \in Threads :
        /\ th[t].pc = "idle" => th[t].op = "none"
        /\ th[t].op = "none" => th[t].pc \in {"idle", "task"}
        /\ th[t].pc \in DownPcs => th[t].op \in {"close", "mtu", "nway", "reset", "pm", "aer", "remove"}
        /\ th[t].pc \in UpPcs => th[t].op \in {"open", "mtu", "nway", "reset", "pm", "aer"}
        /\ th[t].pc = "check" => th[t].op \in {"open", "mtu", "nway", "reset", "pm", "aer", "link"}
        /\ th[t].pc = "attach" => th[t].op \in {"reset", "aer"}
        /\ th[t].pc \in {"cancel", "free"} => th[t].op \in {"close", "remove"}
        /\ th[t].pc = "freenet" => th[t].op = "remove"
        /\ th[t].pc \in {"detach", "suspended"} => th[t].op = "pm"
        /\ th[t].pc \in {"aerwait", "aerup"} => th[t].op = "aer"
        /\ th[t].pc = "vlan" => th[t].op = "features"
        /\ th[t].pc = "linkon" => th[t].op = "link"
        /\ th[t].pc = "task" => th[t].op = "none"
        /\ th[t].pc = "tasklink" => th[t].op = "reset"
        /\ th[t].pc \in {"task", "tasklink", "linkon"} => t = "work"

\* Past napi_disable and before napi_enable. The bus stays there from suspend to
\* resume and through the stages of error recovery.
Has(t) ==
    \/ th[t].pc \in {"irqoff", "freeirq", "stop", "up", "request", "clear"}
    \/ th[t].pc = "check" /\ th[t].op # "link"
    \/ th[t].pc \in BusPcs /\ running

\* NAPI is off while somebody has the device, who is alone; SCHED is the poll's
\* as long as the poll is not through.
LockInv ==
    /\ \A t \in Threads : Has(t) => napi = "off"
    /\ \A t, u \in Threads : Has(t) /\ Has(u) => t = u
    /\ napi = "sched" <=> poll \in {"sched", "run", "quit"}

\* atl1c_close is on its way to take the device down.
ToClose(t) == th[t].op \in {"close", "remove"} /\ th[t].pc \in DownPcs \cup {"cancel"}

Closed == ~running /\ \A t \in Threads : ~ToClose(t)

\* What each operation means for netif_running, who may be in one beside whom,
\* and what a closed and an unbound device is like.
OpenInv ==
    /\ \A t \in Threads :
        /\ th[t].op \in {"close", "remove"} => ~running
        /\ th[t].op \in {"open", "mtu", "nway"} => running
        /\ th[t].op \in {"pm", "aer"} /\ th[t].pc \in DownPcs \cup UpPcs \cup {"check"} => running
    /\ th["bus"].op \in {"pm", "aer"} => th["net"].op \notin {"open", "close"}
    /\ th["bus"].op = "remove" => th["net"].op = "none"
    /\ ~rings => ~running /\ \A t \in Threads : ~ToClose(t) /\ th[t].pc # "free"
    /\ Closed => napi = "off" /\ \A t \in Threads : ~Has(t)
    /\ ~bound => ~running /\ ~queued /\ \A t \in Threads : th[t].pc = "idle"

\* The interrupt is requested while NAPI is on, and by who has the device up to
\* free_irq and from request_irq on; the handler outlives it until the next step.
IrqInv ==
    /\ requested <=>
         \/ napi # "off"
         \/ \E t \in Threads : \/ th[t].pc \in {"irqoff", "freeirq", "clear"}
                               \/ th[t].pc = "check" /\ th[t].op # "link"
    /\ intr.pc # "idle" => requested \/ \E t \in Threads : th[t].pc = "stop"

\* The sections that have interrupts disabled besides the device being down.
Section(t) == th[t].pc \in {"enable", "linkon", "vlan"} \/ (At(t, "check") /\ th[t].op = "link")

Sections == {t \in Threads : Section(t)}

DownOnce == IF napi = "off" /\ (\A t \in Threads : ~At(t, "irqoff")) THEN 1 ELSE 0

SemInv == irq_sem = DownOnce + Cardinality(Sections)

\* On the way to SettledIsUp: why NAPI is off, why __AT_DOWN is set, why the
\* device is detached, why interrupts are masked.
UpInv ==
    /\ running /\ ~dead /\ napi = "off" => \E t \in Threads : Has(t)
    /\ running /\ ~dead /\ at_down => \E t \in Threads : At(t, "napi") \/ Has(t)
    /\ ~present /\ ~dead =>
         \/ th["work"].op = "reset" /\ th["work"].pc # "tasklink"
         \/ th["bus"].pc = "suspended" \/ th["bus"].op = "aer"
    /\ {"gphy", "error"} \subseteq intr_mask
    /\ irq_sem = 0 => {"gphy", "error"} \subseteq imr

IInv == TypeOK /\ OpInv /\ LockInv /\ OpenInv /\ IrqInv /\ SemInv /\ UpInv

(***************************************************************************)
(* Threads                                                                 *)
(***************************************************************************)

Pcs == {"idle", "down", "napi", "irqoff", "freeirq", "stop", "up", "request",
        "check", "clear", "enable", "attach", "task", "tasklink", "linkon",
        "cancel", "free", "vlan", "detach", "suspended", "aerwait", "aerup", "freenet"}
Ops == {"none", "open", "close", "mtu", "nway", "features", "reset", "link", "pm", "aer", "remove"}

LEMMA ThreadType == TypeOK => th \in [Threads -> [pc : Pcs, op : Ops]]
BY DEF TypeOK, Pcs, Ops

IntrStates == [pc : {"idle", "rx", "rest"}, status : SUBSET Causes, left : 1 .. MaxIntWork]

\* TypeOK without the threads, in three parts.
RegsOK ==
    /\ irq_sem \in Nat /\ intr_mask \subseteq Causes /\ imr \subseteq Causes
    /\ isr \subseteq Causes /\ dis_int \in BOOLEAN /\ requested \in BOOLEAN
    /\ intr \in IntrStates
    /\ napi \in {"on", "sched", "off"} /\ napi_dis \in BOOLEAN
    /\ poll \in {"idle", "sched", "run", "quit"} /\ tail \in {"idle", "unmask", "write"}

FlagsOK ==
    /\ phy_int \in BOOLEAN /\ link \in BOOLEAN /\ flaps \in 0 .. MaxFlaps
    /\ unresolved \in BOOLEAN
    /\ carrier \in BOOLEAN /\ at_down \in BOOLEAN
    /\ events \subseteq {"reset", "link"} /\ queued \in BOOLEAN

LifeOK ==
    /\ present \in BOOLEAN /\ running \in BOOLEAN /\ rings \in BOOLEAN /\ dead \in BOOLEAN
    /\ held \subseteq Resources /\ bound \in BOOLEAN
    /\ ops \in 0 .. MaxOps /\ frames \in 0 .. MaxFrames

LEMMA RestType == TypeOK => RegsOK /\ FlagsOK /\ LifeOK
BY DEF TypeOK, RegsOK, FlagsOK, LifeOK, IntrStates

LEMMA TypeParts == ASSUME RegsOK, FlagsOK, LifeOK, th \in [Threads -> [pc : Pcs, op : Ops]] PROVE TypeOK
BY DEF TypeOK, RegsOK, FlagsOK, LifeOK, IntrStates, Pcs, Ops

LEMMA TypeNext == ASSUME RegsOK', FlagsOK', LifeOK', th' \in [Threads -> [pc : Pcs, op : Ops]] PROVE TypeOK'
BY DEF TypeOK, RegsOK, FlagsOK, LifeOK, IntrStates, Pcs, Ops

LEMMA GotoMoves ==
    ASSUME TypeOK, NEW t \in Threads, NEW p \in Pcs, Goto(t, p)
    PROVE  /\ th' \in [Threads -> [pc : Pcs, op : Ops]]
           /\ th'[t].pc = p
           /\ th'[t].op = IF p = "idle" THEN "none" ELSE th[t].op
           /\ \A u \in Threads : u # t => th'[u] = th[u]
<1>1. th \in [Threads -> [pc : Pcs, op : Ops]]
  BY ThreadType
<1> DEFINE r == IF p = "idle" THEN [pc |-> p, op |-> "none"] ELSE [th[t] EXCEPT !.pc = p]
<1>2. th' = [th EXCEPT ![t] = r]
  BY DEF Goto
<1>3. r \in [pc : Pcs, op : Ops] /\ r.pc = p /\ r.op = IF p = "idle" THEN "none" ELSE th[t].op
  <2>1. CASE p = "idle"
    BY <2>1 DEF Ops
  <2>2. CASE p # "idle"
    BY <2>2, <1>1
  <2> QED BY <2>1, <2>2
<1> HIDE DEF r
<1> QED BY <1>1, <1>2, <1>3

LEMMA BeginMoves ==
    ASSUME TypeOK, NEW t \in Threads, NEW p \in Pcs, NEW o \in Ops, Begin(t, p, o)
    PROVE  /\ th' \in [Threads -> [pc : Pcs, op : Ops]]
           /\ th'[t].pc = p /\ th'[t].op = o
           /\ \A u \in Threads : u # t => th'[u] = th[u]
<1>1. th \in [Threads -> [pc : Pcs, op : Ops]]
  BY ThreadType
<1>2. th' = [th EXCEPT ![t] = [pc |-> p, op |-> o]]
  BY DEF Begin
<1> QED BY <1>1, <1>2

(***************************************************************************)
(* Counting the sections                                                   *)
(***************************************************************************)

LEMMA SectionsFinite == IsFiniteSet(Sections) /\ Cardinality(Sections) \in Nat
<1>1. IsFiniteSet(Threads)
  <2>1. Threads = {} \cup {"net"} \cup {"work"} \cup {"bus"}
    BY DEF Threads
  <2> QED BY <2>1, FS_EmptySet, FS_AddElement
<1>2. Sections \subseteq Threads
  BY DEF Sections
<1> QED BY <1>1, <1>2, FS_Subset, FS_CardinalityType

LEMMA SectionsSame ==
    ASSUME \A t \in Threads : Section(t)' <=> Section(t)
    PROVE  Sections' = Sections
BY DEF Sections, Threads

LEMMA SectionsEnter ==
    ASSUME NEW t \in Threads, ~Section(t), Section(t)',
           \A u \in Threads : u # t => (Section(u)' <=> Section(u))
    PROVE  Cardinality(Sections') = Cardinality(Sections) + 1
<1>1. Sections' = Sections \cup {t} /\ t \notin Sections
  BY DEF Sections, Threads
<1> QED BY <1>1, SectionsFinite, FS_AddElement

LEMMA SectionsLeave ==
    ASSUME NEW t \in Threads, Section(t), ~Section(t)',
           \A u \in Threads : u # t => (Section(u)' <=> Section(u))
    PROVE  Cardinality(Sections') = Cardinality(Sections) - 1
<1>1. Sections' = Sections \ {t} /\ t \in Sections
  BY DEF Sections, Threads
<1> QED BY <1>1, SectionsFinite, FS_RemoveElement

(***************************************************************************)
(* The handler, the poll and the device: no thread moves.                  *)
(***************************************************************************)

\* What such a step has to see to.
LEMMA StillStep ==
    ASSUME IInv, TypeOK',
           UNCHANGED <<th, running, rings, bound, requested, irq_sem, at_down, present, dead>>,
           napi' = "off" <=> napi = "off",
           napi' = "sched" <=> poll' \in {"sched", "run", "quit"},
           ~bound => ~queued',
           intr'.pc # "idle" => intr.pc # "idle" \/ requested,
           {"gphy", "error"} \subseteq intr_mask',
           irq_sem = 0 => {"gphy", "error"} \subseteq imr'
    PROVE  IInv'
<1> USE DEF IInv
<1>1. OpInv'
  BY DEF OpInv
<1>2. \A t \in Threads : (Has(t)' <=> Has(t)) /\ (ToClose(t)' <=> ToClose(t))
                          /\ (At(t, "irqoff")' <=> At(t, "irqoff")) /\ (Section(t)' <=> Section(t))
  BY DEF Has, ToClose, At, Section
<1>3. OpenInv'
  BY <1>2 DEF OpenInv, Closed
<1>4. LockInv'
  BY <1>2 DEF LockInv
<1>5. IrqInv'
  BY DEF IrqInv
<1>6. SemInv'
  BY <1>2, SectionsSame DEF SemInv, DownOnce
<1>7. UpInv'
  BY <1>2 DEF UpInv, At
<1> QED BY <1>1, <1>3, <1>4, <1>5, <1>6, <1>7

LEMMA HandlerStep == ASSUME IInv, Handler PROVE IInv'
<1> USE DEF IInv, UpInv, LockInv, napiVars, linkVars, flagVars, workVars, lifeVars, ifVars, busVars,
            irqVars, counts
\* A handler runs on a device that is bound.
<1>0. bound
  <2>1. ~bound => napi = "off" /\ ~requested /\ intr.pc = "idle"
    BY DEF OpenInv, Closed, ToClose, IrqInv, DownPcs
  <2> QED BY <2>1 DEF Handler, HandlerAck, HandlerRx, HandlerError, HandlerLink, HandlerLoop
<1>i. IntrIdle \in [pc : {"idle", "rx", "rest"}, status : SUBSET Causes, left : 1 .. MaxIntWork]
  BY AdapterAssumption DEF IntrIdle
<1>1. CASE HandlerAck
  <2> USE <1>1 DEF HandlerAck, Acknowledge
  <2>1. intr' \in [pc : {"idle", "rx", "rest"}, status : SUBSET Causes, left : 1 .. MaxIntWork]
    BY AdapterAssumption DEF TypeOK
  <2>2. TypeOK'
    <3>1. RegsOK'
      BY <2>1, RestType DEF RegsOK, IntrStates, Causes
    <3>2. FlagsOK'
      BY <2>1, RestType DEF FlagsOK
    <3>3. LifeOK'
      BY <2>1, RestType DEF LifeOK
    <3>4. th' = th
      BY <2>1
    <3> QED BY <3>1, <3>2, <3>3, <3>4, ThreadType, TypeNext
  <2> QED BY <1>0, <2>2, StillStep
<1>2. CASE HandlerRx
  <2> USE <1>2 DEF HandlerRx
  <2>1. intr' \in [pc : {"idle", "rx", "rest"}, status : SUBSET Causes, left : 1 .. MaxIntWork]
    BY DEF TypeOK
  <2>2. intr_mask' \subseteq Causes /\ imr' \subseteq Causes
    BY DEF TypeOK
  <2>3. TypeOK'
    <3>1. RegsOK'
      BY <2>1, <2>2, RestType DEF RegsOK, IntrStates, Causes
    <3>2. FlagsOK'
      BY <2>1, <2>2, RestType DEF FlagsOK
    <3>3. LifeOK'
      BY <2>1, <2>2, RestType DEF LifeOK
    <3>4. th' = th
      BY <2>1, <2>2
    <3> QED BY <3>1, <3>2, <3>3, <3>4, ThreadType, TypeNext
  <2>4. {"gphy", "error"} \subseteq intr_mask' /\ (irq_sem = 0 => {"gphy", "error"} \subseteq imr')
    OBVIOUS
  <2> QED BY <1>0, <2>3, <2>4, StillStep
<1>3. CASE HandlerError
  <2> USE <1>3 DEF HandlerError
  <2>1. TypeOK'
    <3>1. RegsOK'
      BY <1>i, RestType DEF RegsOK, IntrStates, Causes
    <3>2. FlagsOK'
      BY <1>i, RestType DEF FlagsOK
    <3>3. LifeOK'
      BY <1>i, RestType DEF LifeOK
    <3>4. th' = th
      BY <1>i
    <3> QED BY <3>1, <3>2, <3>3, <3>4, ThreadType, TypeNext
  <2> QED BY <1>0, <2>1, StillStep DEF IntrIdle
<1>4. CASE HandlerLink
  <2> USE <1>4 DEF HandlerLink
  <2>0. /\ carrier' \in BOOLEAN /\ events' \subseteq {"reset", "link"} /\ queued' \in BOOLEAN
        /\ dis_int' \in BOOLEAN
        /\ intr' \in [pc : {"idle", "rx", "rest"}, status : SUBSET Causes, left : 1 .. MaxIntWork]
    BY <1>i DEF TypeOK
  <2>1. TypeOK'
    <3>1. RegsOK'
      BY <2>0, RestType DEF RegsOK, IntrStates, Causes
    <3>2. FlagsOK'
      BY <2>0, RestType DEF FlagsOK
    <3>3. LifeOK'
      BY <2>0, RestType DEF LifeOK
    <3>4. th' = th
      BY <2>0
    <3> QED BY <3>1, <3>2, <3>3, <3>4, ThreadType, TypeNext
  <2> QED BY <1>0, <2>1, StillStep DEF IntrIdle
<1>5. CASE HandlerLoop
  <2>0. /\ intr.left \in 1 .. MaxIntWork /\ isr \cap intr_mask \subseteq Causes
        /\ isr \subseteq Causes /\ phy_int \in BOOLEAN
    BY DEF TypeOK
  <2>1. /\ UNCHANGED <<irq_sem, intr_mask, imr, requested, napi, napi_dis, poll, tail, link,
                        flaps, unresolved, carrier, at_down, events, queued, present, running,
                        rings, dead, held, bound, th, ops, frames>>
        /\ intr.pc = "rest"
    BY <1>5 DEF HandlerLoop
  <2>2. \/ isr' = isr /\ phy_int' = phy_int /\ dis_int' = FALSE /\ intr' = IntrIdle
        \/ /\ isr' = isr \ (isr \cap intr_mask) /\ phy_int' \in {phy_int, FALSE} /\ dis_int' = TRUE
           /\ intr.left > 1
           /\ intr' = [pc |-> "rx", status |-> isr \cap intr_mask, left |-> intr.left - 1]
    BY <1>5, <2>0 DEF HandlerLoop, Acknowledge
  <2>3. intr' \in IntrStates
    <3>1. CASE intr' = IntrIdle
      BY <3>1, <1>i DEF IntrStates
    <3>2. CASE /\ intr.left > 1
               /\ intr' = [pc |-> "rx", status |-> isr \cap intr_mask, left |-> intr.left - 1]
      <4>1. intr.left - 1 \in 1 .. MaxIntWork
        BY <2>0, <3>2, AdapterAssumption
      <4> QED BY <2>0, <3>2, <4>1 DEF IntrStates
    <3> QED BY <2>2, <3>1, <3>2
  <2>4. RegsOK'
    BY <2>0, <2>1, <2>2, <2>3, RestType DEF RegsOK
  <2>5. FlagsOK' /\ LifeOK'
    BY <2>0, <2>1, <2>2, RestType DEF FlagsOK, LifeOK
  <2>6. TypeOK'
    BY <2>1, <2>4, <2>5, ThreadType, TypeNext
  <2> QED BY <1>0, <2>1, <2>2, <2>6, StillStep
<1> QED BY <1>1, <1>2, <1>3, <1>4, <1>5 DEF Handler

LEMMA PollStep == ASSUME IInv, Poll PROVE IInv'
<1> USE DEF IInv, UpInv, LockInv, napiVars, linkVars, flagVars, workVars, lifeVars, ifVars, busVars,
            irqVars, counts
<1>0. ~bound => ~queued
  BY DEF OpenInv
<1>1. CASE PollStart
  <2>1. TypeOK'
    <3>1. RegsOK'
      BY <1>1, RestType DEF PollStart, RegsOK, IntrStates, Causes
    <3>2. FlagsOK'
      BY <1>1, RestType DEF PollStart, FlagsOK
    <3>3. LifeOK'
      BY <1>1, RestType DEF PollStart, LifeOK
    <3>4. th' = th
      BY <1>1 DEF PollStart
    <3> QED BY <3>1, <3>2, <3>3, <3>4, ThreadType, TypeNext
  <2> QED BY <1>0, <1>1, <2>1, StillStep DEF PollStart
<1>2. CASE PollComplete
  <2>1. TypeOK'
    <3>1. RegsOK'
      BY <1>2, RestType DEF PollComplete, RegsOK, IntrStates, Causes
    <3>2. FlagsOK'
      BY <1>2, RestType DEF PollComplete, FlagsOK
    <3>3. LifeOK'
      BY <1>2, RestType DEF PollComplete, LifeOK
    <3>4. th' = th
      BY <1>2 DEF PollComplete
    <3> QED BY <3>1, <3>2, <3>3, <3>4, ThreadType, TypeNext
  <2> QED BY <1>0, <1>2, <2>1, StillStep DEF PollComplete
<1>3. CASE PollFull
  <2>1. TypeOK'
    <3>1. RegsOK'
      BY <1>3, AdapterAssumption, RestType DEF PollFull, Frame, RegsOK, IntrStates, Causes
    <3>2. FlagsOK'
      BY <1>3, AdapterAssumption, RestType DEF PollFull, Frame, FlagsOK
    <3>3. LifeOK'
      BY <1>3, AdapterAssumption, RestType DEF PollFull, Frame, LifeOK
    <3>4. th' = th
      BY <1>3 DEF PollFull, Frame
    <3> QED BY <3>1, <3>2, <3>3, <3>4, ThreadType, TypeNext
  <2> QED BY <1>0, <1>3, <2>1, StillStep DEF PollFull, Frame
<1>4. CASE PollUnmask
  <2>1. TypeOK'
    <3>1. RegsOK'
      BY <1>4, RestType DEF PollUnmask, RegsOK, IntrStates, Causes
    <3>2. FlagsOK'
      BY <1>4, RestType DEF PollUnmask, FlagsOK
    <3>3. LifeOK'
      BY <1>4, RestType DEF PollUnmask, LifeOK
    <3>4. th' = th
      BY <1>4 DEF PollUnmask
    <3> QED BY <3>1, <3>2, <3>3, <3>4, ThreadType, TypeNext
  <2> QED BY <1>0, <1>4, <2>1, StillStep DEF PollUnmask
<1>5. CASE PollWrite
  <2>1. TypeOK'
    <3>1. RegsOK'
      BY <1>5, RestType DEF PollWrite, RegsOK, IntrStates, Causes
    <3>2. FlagsOK'
      BY <1>5, RestType DEF PollWrite, FlagsOK
    <3>3. LifeOK'
      BY <1>5, RestType DEF PollWrite, LifeOK
    <3>4. th' = th
      BY <1>5 DEF PollWrite
    <3> QED BY <3>1, <3>2, <3>3, <3>4, ThreadType, TypeNext
  <2> QED BY <1>0, <1>5, <2>1, StillStep DEF PollWrite
<1> QED BY <1>1, <1>2, <1>3, <1>4, <1>5 DEF Poll

LEMMA DeviceStep ==
    ASSUME IInv, PhyChange \/ TxTimeout \/ \E c \in Causes : Raise(c)
    PROVE  IInv'
<1> USE DEF IInv, UpInv, LockInv, napiVars, linkVars, flagVars, workVars, lifeVars, ifVars, busVars,
            irqVars, devVars, counts
<1>0. (~bound => ~queued) /\ (running => bound)
  BY DEF OpenInv
<1>1. CASE PhyChange
  <2>1. /\ flaps < MaxFlaps /\ flaps' = flaps + 1 /\ link' = ~link /\ phy_int' = TRUE
        /\ unresolved' = FALSE /\ th' = th
        /\ UNCHANGED <<irq_sem, intr_mask, imr, isr, dis_int, requested, intr, napi, napi_dis,
                       poll, tail, carrier, at_down, events, queued, present, running, rings,
                       dead, held, bound, ops, frames>>
    BY <1>1 DEF PhyChange
  <2>2. TypeOK'
    <3>1. RegsOK'
      BY <2>1, RestType DEF RegsOK
    <3>2. flaps' \in 0 .. MaxFlaps
      BY <2>1, RestType, AdapterAssumption DEF FlagsOK
    <3>3. FlagsOK'
      BY <2>1, <3>2, RestType DEF FlagsOK
    <3>4. LifeOK'
      BY <2>1, RestType DEF LifeOK
    <3> QED BY <2>1, <3>1, <3>3, <3>4, ThreadType, TypeNext
  <2> QED BY <1>0, <2>1, <2>2, StillStep
<1>2. CASE TxTimeout
  <2>1. /\ running /\ th' = th /\ queued' = TRUE /\ events' = events \cup {"reset"}
        /\ ops < MaxOps /\ ops' = ops + 1
        /\ UNCHANGED <<irq_sem, intr_mask, imr, isr, dis_int, requested, intr, napi, napi_dis,
                       poll, tail, phy_int, link, flaps, unresolved, carrier, at_down, present,
                       running, rings, dead, held, bound, frames>>
    BY <1>2 DEF TxTimeout, Count
  <2>2. TypeOK'
    <3>1. RegsOK'
      BY <2>1, RestType DEF RegsOK
    <3>2. FlagsOK'
      BY <2>1, RestType DEF FlagsOK
    <3>3. ops' \in 0 .. MaxOps
      BY <2>1, RestType, AdapterAssumption DEF LifeOK
    <3>4. LifeOK'
      BY <2>1, <3>3, RestType DEF LifeOK
    <3> QED BY <2>1, <3>1, <3>2, <3>4, ThreadType, TypeNext
  <2> QED BY <1>0, <2>1, <2>2, StillStep
<1>3. ASSUME NEW c \in Causes, Raise(c)
      PROVE  IInv'
  <2>1. /\ th' = th /\ isr' = isr \cup {c}
        /\ UNCHANGED <<irq_sem, intr_mask, imr, dis_int, requested, intr, napi, napi_dis, poll,
                       tail, phy_int, link, flaps, unresolved, carrier, at_down, events, queued,
                       present, running, rings, dead, held, bound>>
    BY <1>3 DEF Raise
  <2>2. ops' \in 0 .. MaxOps /\ frames' \in 0 .. MaxFrames
    <3>1. ops \in 0 .. MaxOps /\ frames \in 0 .. MaxFrames
      BY RestType DEF LifeOK
    <3>2. CASE c = "error"
      BY <1>3, <3>1, <3>2, AdapterAssumption DEF Raise, Count
    <3>3. CASE c = "rx"
      BY <1>3, <3>1, <3>3, AdapterAssumption DEF Raise, Frame
    <3>4. CASE c = "gphy"
      BY <1>3, <3>1, <3>4 DEF Raise, NoCount
    <3> QED BY <3>2, <3>3, <3>4 DEF Causes
  <2>3. TypeOK'
    <3>1. RegsOK'
      BY <2>1, RestType DEF RegsOK
    <3>2. FlagsOK' /\ LifeOK'
      BY <2>1, <2>2, RestType DEF FlagsOK, LifeOK
    <3> QED BY <2>1, <3>1, <3>2, ThreadType, TypeNext
  <2> QED BY <1>0, <2>1, <2>3, StillStep
<1> QED BY <1>1, <1>2, <1>3

(***************************************************************************)
(* atl1c_down                                                              *)
(***************************************************************************)

LEMMA DownMarkStep == ASSUME IInv, NEW t \in Threads, DownMark(t) PROVE IInv'
<1> USE DEF IInv
<1>1. /\ th[t].pc = "down" /\ at_down' = TRUE /\ carrier' = FALSE /\ events' = {} /\ napi_dis' = TRUE
      /\ UNCHANGED <<irqVars, requested, intr, napi, poll, tail, linkVars, queued, lifeVars, counts>>
  BY DEF DownMark, At
<1>2. /\ th' \in [Threads -> [pc : Pcs, op : Ops]]
      /\ th'[t].pc = "napi" /\ th'[t].op = th[t].op
      /\ \A u \in Threads : u # t => th'[u] = th[u]
  BY GotoMoves DEF DownMark, Pcs
<1> USE DEF irqVars, linkVars, lifeVars, ifVars, busVars, counts
<1>3. TypeOK'
  <2>1. RegsOK'
    BY <1>1, RestType DEF RegsOK
  <2>2. FlagsOK'
    BY <1>1, RestType DEF FlagsOK
  <2>3. LifeOK'
    BY <1>1, RestType DEF LifeOK
  <2> QED BY <1>2, <2>1, <2>2, <2>3, TypeNext
<1>4. OpInv'
  BY <1>1, <1>2 DEF OpInv, DownPcs, UpPcs, Threads
<1>5. LockInv'
  BY <1>1, <1>2 DEF LockInv, Has, BusPcs
<1>6. OpenInv'
  BY <1>1, <1>2 DEF OpenInv, Closed, ToClose, Has, DownPcs, UpPcs, BusPcs, Threads
<1>7. IrqInv'
  BY <1>1, <1>2 DEF IrqInv
<1>8. SemInv'
  BY <1>1, <1>2, SectionsSame DEF SemInv, DownOnce, Section, At
<1>9. UpInv'
  BY <1>1, <1>2 DEF UpInv, Has, At, BusPcs, Threads
<1> QED BY <1>3, <1>4, <1>5, <1>6, <1>7, <1>8, <1>9

LEMMA DownNapiStep == ASSUME IInv, NEW t \in Threads, DownNapi(t) PROVE IInv'
<1> USE DEF IInv
<1>1. /\ th[t].pc = "napi" /\ napi = "on" /\ napi' = "off" /\ napi_dis' = FALSE
      /\ UNCHANGED <<irq_sem, intr_mask, imr, isr, dis_int, requested, intr, poll, tail, phy_int, link,
                     flaps, unresolved, carrier, at_down, events, queued, present, running, rings, dead,
                     held, bound, ops, frames>>
  BY DEF DownNapi, At, irqVars, linkVars, flagVars, workVars, lifeVars, ifVars, busVars, counts
<1>2. /\ th' \in [Threads -> [pc : Pcs, op : Ops]]
      /\ th'[t].pc = "irqoff" /\ th'[t].op = th[t].op
      /\ \A u \in Threads : u # t => th'[u] = th[u]
  BY GotoMoves DEF DownNapi, Pcs
<1>3. TypeOK'
  <2>1. RegsOK'
    BY <1>1, RestType DEF RegsOK
  <2>2. FlagsOK'
    BY <1>1, RestType DEF FlagsOK
  <2>3. LifeOK'
    BY <1>1, RestType DEF LifeOK
  <2> QED BY <1>2, <2>1, <2>2, <2>3, TypeNext
<1>4. OpInv'
  BY <1>1, <1>2 DEF OpInv, DownPcs, UpPcs, Threads
\* NAPI was on: nobody had the device.
<1>5. \A u \in Threads : ~Has(u)
  BY <1>1 DEF LockInv
<1>6. LockInv'
  BY <1>1, <1>2, <1>5 DEF LockInv, Has, BusPcs
<1>7. OpenInv'
  BY <1>1, <1>2 DEF OpenInv, Closed, ToClose, Has, DownPcs, UpPcs, BusPcs, Threads
<1>8. IrqInv'
  BY <1>1, <1>2 DEF IrqInv
<1>9. SemInv'
  BY <1>1, <1>2, SectionsSame DEF SemInv, DownOnce, Section, At
<1>10. UpInv'
  BY <1>1, <1>2 DEF UpInv, Has, At, BusPcs, Threads
<1> QED BY <1>3, <1>4, <1>6, <1>7, <1>8, <1>9, <1>10

LEMMA DownIrqStep == ASSUME IInv, NEW t \in Threads, DownIrq(t) PROVE IInv'
<1> USE DEF IInv
<1>1. /\ th[t].pc = "irqoff" /\ irq_sem' = irq_sem + 1 /\ imr' = {} /\ dis_int' = TRUE
      /\ UNCHANGED <<intr_mask, isr, requested, intr, napi, napi_dis, poll, tail, phy_int,
                     link, flaps, unresolved, carrier, at_down, events, queued, present,
                     running, rings, dead, held, bound, ops, frames>>
  BY DEF DownIrq, IrqDisable, At, irqVars, napiVars, linkVars, workVars, ifVars, busVars, lifeVars, flagVars, devVars, counts
<1>2. /\ th' \in [Threads -> [pc : Pcs, op : Ops]]
      /\ th'[t].pc = "freeirq" /\ th'[t].op = th[t].op
      /\ \A u \in Threads : u # t => th'[u] = th[u]
  BY GotoMoves DEF DownIrq, Pcs
<1>a. Has(t) /\ napi = "off" /\ \A u \in Threads : th[u].pc = "irqoff" => u = t
  BY <1>1 DEF LockInv, Has
<1>3. TypeOK'
  <2>1. RegsOK'
    BY <1>1, RestType DEF RegsOK
  <2>2. FlagsOK'
    BY <1>1, RestType DEF FlagsOK
  <2>3. LifeOK'
    BY <1>1, RestType DEF LifeOK
  <2> QED BY <1>2, <2>1, <2>2, <2>3, TypeNext
<1>4. OpInv'
  BY <1>1, <1>2 DEF OpInv, DownPcs, UpPcs, Threads
<1>5. LockInv'
  BY <1>1, <1>2 DEF LockInv, Has, BusPcs
<1>6. OpenInv'
  BY <1>1, <1>2 DEF OpenInv, OpInv, Closed, ToClose, Has, DownPcs, UpPcs, BusPcs, Threads
<1>7. IrqInv'
  BY <1>1, <1>2 DEF IrqInv
<1>8. SemInv'
  <2>1. Sections' = Sections
    BY <1>1, <1>2, SectionsSame DEF Section, At
  <2>2. DownOnce = 0 /\ DownOnce' = 1
    BY <1>1, <1>2, <1>a DEF DownOnce, At
  <2> QED BY <1>1, <2>1, <2>2, SectionsFinite DEF SemInv
<1>9. UpInv'
  <2>1. irq_sem \in Nat
    BY RestType DEF RegsOK
  <2> QED BY <1>1, <1>2, <2>1 DEF UpInv, Has, At, BusPcs, Threads
<1> QED BY <1>3, <1>4, <1>5, <1>6, <1>7, <1>8, <1>9

LEMMA DownFreeStep == ASSUME IInv, NEW t \in Threads, DownFree(t) PROVE IInv'
<1> USE DEF IInv
<1>1. /\ th[t].pc = "freeirq" /\ requested' = FALSE
      /\ UNCHANGED <<irq_sem, intr_mask, imr, isr, dis_int, intr, napi, napi_dis,
                     poll, tail, phy_int, link, flaps, unresolved, carrier, at_down, events, queued,
                     present, running, rings, dead, held, bound, ops, frames>>
  BY DEF DownFree, At, irqVars, napiVars, linkVars, workVars, ifVars, busVars, lifeVars, flagVars, devVars, counts
<1>2. /\ th' \in [Threads -> [pc : Pcs, op : Ops]]
      /\ th'[t].pc = "stop" /\ th'[t].op = th[t].op
      /\ \A u \in Threads : u # t => th'[u] = th[u]
  BY GotoMoves DEF DownFree, Pcs
<1>a. Has(t) /\ napi = "off" /\ \A u \in Threads : Has(u) => u = t
  BY <1>1 DEF LockInv, Has
<1>3. TypeOK'
  <2>1. RegsOK'
    BY <1>1, RestType DEF RegsOK
  <2>2. FlagsOK'
    BY <1>1, RestType DEF FlagsOK
  <2>3. LifeOK'
    BY <1>1, RestType DEF LifeOK
  <2> QED BY <1>2, <2>1, <2>2, <2>3, TypeNext
<1>4. OpInv'
  BY <1>1, <1>2 DEF OpInv, DownPcs, UpPcs, Threads
<1>5. LockInv'
  BY <1>1, <1>2 DEF LockInv, Has, BusPcs
<1>6. OpenInv'
  BY <1>1, <1>2 DEF OpenInv, OpInv, Closed, ToClose, Has, DownPcs, UpPcs, BusPcs, Threads
<1>7. IrqInv'
  BY <1>1, <1>2, <1>a DEF IrqInv, Has
<1>8. SemInv'
  BY <1>1, <1>2, SectionsSame DEF SemInv, DownOnce, Section, At
<1>9. UpInv'
  BY <1>1, <1>2 DEF UpInv, Has, At, BusPcs, Threads
<1> QED BY <1>3, <1>4, <1>5, <1>6, <1>7, <1>8, <1>9

LEMMA DownStopStep == ASSUME IInv, NEW t \in Threads, DownStop(t) PROVE IInv'
<1> USE DEF IInv
<1>1. /\ th[t].pc = "stop" /\ intr.pc = "idle" /\ isr' = {}
      /\ UNCHANGED <<irq_sem, intr_mask, imr, dis_int, requested, intr, napi,
                     napi_dis, poll, tail, phy_int, link, flaps, unresolved, carrier, at_down, events,
                     queued, present, running, rings, dead, held, bound, ops,
                     frames>>
  BY DEF DownStop, At, irqVars, napiVars, linkVars, workVars, ifVars, busVars, lifeVars, flagVars, devVars, counts
<1>a. \/ AfterDown(th[t].op) = "up" /\ th[t].op \in {"mtu", "nway", "reset"}
      \/ AfterDown(th[t].op) = "free" /\ th[t].op \in {"close", "remove"}
      \/ AfterDown(th[t].op) = "detach" /\ th[t].op = "pm"
      \/ AfterDown(th[t].op) = "aerwait" /\ th[t].op = "aer"
  BY <1>1 DEF AfterDown, OpInv, DownPcs
<1>2. /\ th' \in [Threads -> [pc : Pcs, op : Ops]]
      /\ th'[t].pc = AfterDown(th[t].op) /\ th'[t].op = th[t].op
      /\ \A u \in Threads : u # t => th'[u] = th[u]
  BY <1>a, GotoMoves DEF DownStop, Pcs
<1>3. TypeOK'
  <2>1. RegsOK'
    BY <1>1, RestType DEF RegsOK
  <2>2. FlagsOK'
    BY <1>1, RestType DEF FlagsOK
  <2>3. LifeOK'
    BY <1>1, RestType DEF LifeOK
  <2> QED BY <1>2, <2>1, <2>2, <2>3, TypeNext
<1>4. OpInv'
  BY <1>1, <1>2, <1>a DEF OpInv, DownPcs, UpPcs, Threads
<1>5. LockInv'
  BY <1>1, <1>2, <1>a DEF LockInv, Has, BusPcs
<1>6. OpenInv'
  <2>1. Has(t) /\ napi = "off" /\ (\A u \in Threads : Has(u) => u = t)
    BY <1>1 DEF LockInv, Has
  <2> QED BY <1>1, <1>2, <1>a, <2>1 DEF OpenInv, OpInv, Closed, ToClose, Has, DownPcs, UpPcs, BusPcs, Threads
<1>7. IrqInv'
  BY <1>1, <1>2, <1>a DEF IrqInv
<1>8. SemInv'
  BY <1>1, <1>2, <1>a, SectionsSame DEF SemInv, DownOnce, Section, At
<1>9. UpInv'
  <2>1. running => Has(t)'
    BY <1>1, <1>2, <1>a DEF Has, BusPcs, OpenInv
  <2> QED BY <1>1, <1>2, <1>a, <2>1 DEF UpInv, Has, At, BusPcs, Threads
<1> QED BY <1>3, <1>4, <1>5, <1>6, <1>7, <1>8, <1>9

LEMMA DownStep == ASSUME IInv, NEW t \in Threads, Down(t) PROVE IInv'
BY DownMarkStep, DownNapiStep, DownIrqStep, DownFreeStep, DownStopStep DEF Down

(***************************************************************************)
(* atl1c_up                                                                *)
(***************************************************************************)

\* Whoever has the device is the only one, and interrupts are disabled once.
LEMMA HasAlone ==
    ASSUME IInv, NEW t \in Threads, Has(t)
    PROVE  /\ napi = "off" /\ \A u \in Threads : Has(u) => u = t
           /\ th[t].pc # "irqoff" => DownOnce = 1 /\ irq_sem # 0
<1> USE DEF IInv
<1>1. napi = "off" /\ \A u \in Threads : Has(u) => u = t
  BY DEF LockInv
<1>2. ASSUME th[t].pc # "irqoff"
      PROVE  DownOnce = 1 /\ irq_sem # 0
  <2>1. DownOnce = 1
    BY <1>1, <1>2 DEF DownOnce, At, Has
  <2> QED BY <2>1, SectionsFinite DEF SemInv
<1> QED BY <1>1, <1>2

LEMMA UpConfigureStep == ASSUME IInv, NEW t \in Threads, UpConfigure(t) PROVE IInv'
<1> USE DEF IInv
<1>1. /\ th[t].pc = "up" /\ carrier' = FALSE /\ imr' = {} /\ dis_int' = TRUE
      /\ UNCHANGED <<irq_sem, intr_mask, isr, requested, intr, napi, napi_dis, poll, tail,
                     phy_int, link, flaps, unresolved, at_down, events, queued, present,
                     running, rings, dead, held, bound, ops, frames>>
  BY DEF UpConfigure, At, irqVars, napiVars, linkVars, workVars, ifVars, busVars, lifeVars, flagVars, devVars, counts
<1>2. /\ th' \in [Threads -> [pc : Pcs, op : Ops]]
      /\ th'[t].pc = "request" /\ th'[t].op = th[t].op
      /\ \A u \in Threads : u # t => th'[u] = th[u]
  BY GotoMoves DEF UpConfigure, Pcs
<1>a. Has(t) /\ napi = "off" /\ (\A u \in Threads : Has(u) => u = t) /\ irq_sem # 0 /\ DownOnce = 1
  BY <1>1, HasAlone DEF Has
<1>3. TypeOK'
  <2>1. RegsOK'
    BY <1>1, RestType DEF RegsOK
  <2>2. FlagsOK'
    BY <1>1, RestType DEF FlagsOK
  <2>3. LifeOK'
    BY <1>1, RestType DEF LifeOK
  <2> QED BY <1>2, <2>1, <2>2, <2>3, TypeNext
<1>4. OpInv'
  BY <1>1, <1>2 DEF OpInv, DownPcs, UpPcs, Threads
<1>5. LockInv'
  BY <1>1, <1>2 DEF LockInv, Has, BusPcs
<1>6. OpenInv'
  BY <1>1, <1>2 DEF OpenInv, OpInv, Closed, ToClose, Has, DownPcs, UpPcs, BusPcs, Threads
<1>7. IrqInv'
  BY <1>1, <1>2 DEF IrqInv
<1>8. SemInv'
  BY <1>1, <1>2, SectionsSame DEF SemInv, DownOnce, Section, At
<1>9. UpInv'
  BY <1>1, <1>2, <1>a DEF UpInv, Has, At, BusPcs, Threads
<1> QED BY <1>3, <1>4, <1>5, <1>6, <1>7, <1>8, <1>9

LEMMA UpRequestStep == ASSUME IInv, NEW t \in Threads, UpRequest(t) PROVE IInv'
<1> USE DEF IInv
<1>1. /\ th[t].pc = "request" /\ requested' = TRUE
      /\ UNCHANGED <<irq_sem, intr_mask, imr, isr, dis_int, intr, napi, napi_dis,
                     poll, tail, phy_int, link, flaps, unresolved, carrier, at_down, events, queued,
                     present, running, rings, dead, held, bound, ops, frames>>
  BY DEF UpRequest, At, irqVars, napiVars, linkVars, workVars, ifVars, busVars, lifeVars, flagVars, devVars, counts
<1>2. /\ th' \in [Threads -> [pc : Pcs, op : Ops]]
      /\ th'[t].pc = "check" /\ th'[t].op = th[t].op
      /\ \A u \in Threads : u # t => th'[u] = th[u]
  BY GotoMoves DEF UpRequest, Pcs
<1>a. th[t].op # "link"
  BY <1>1 DEF OpInv, UpPcs
<1>3. TypeOK'
  <2>1. RegsOK'
    BY <1>1, RestType DEF RegsOK
  <2>2. FlagsOK'
    BY <1>1, RestType DEF FlagsOK
  <2>3. LifeOK'
    BY <1>1, RestType DEF LifeOK
  <2> QED BY <1>2, <2>1, <2>2, <2>3, TypeNext
<1>4. OpInv'
  BY <1>1, <1>2 DEF OpInv, DownPcs, UpPcs, Threads
<1>5. LockInv'
  BY <1>1, <1>2, <1>a DEF LockInv, Has, BusPcs
<1>6. OpenInv'
  BY <1>1, <1>2, <1>a DEF OpenInv, OpInv, Closed, ToClose, Has, DownPcs, UpPcs, BusPcs, Threads
<1>7. IrqInv'
  BY <1>1, <1>2, <1>a DEF IrqInv
<1>8. SemInv'
  BY <1>1, <1>2, <1>a, SectionsSame DEF SemInv, DownOnce, Section, At
<1>9. UpInv'
  BY <1>1, <1>2, <1>a DEF UpInv, Has, At, BusPcs, Threads
<1> QED BY <1>3, <1>4, <1>5, <1>6, <1>7, <1>8, <1>9

LEMMA UpFailStep == ASSUME IInv, NEW t \in Threads, UpFail(t) PROVE IInv'
<1> USE DEF IInv
<1>1. /\ th[t].pc = "request"
      /\ \/ th[t].op = "open" /\ running' = FALSE /\ rings' = FALSE /\ dead' = dead
         \/ th[t].op # "open" /\ dead' = TRUE /\ running' = running /\ rings' = rings
      /\ UNCHANGED <<irq_sem, intr_mask, imr, isr, dis_int, requested, intr, napi,
                     napi_dis, poll, tail, phy_int, link, flaps, unresolved, carrier, at_down, events,
                     queued, present, held, bound, ops, frames>>
  BY DEF UpFail, At, irqVars, napiVars, linkVars, workVars, ifVars, busVars, lifeVars, flagVars, devVars, counts
<1>2. /\ th' \in [Threads -> [pc : Pcs, op : Ops]]
      /\ th'[t].pc = (IF th[t].op = "reset" THEN "attach" ELSE "idle")
      /\ th'[t].op = (IF th[t].op = "reset" THEN "reset" ELSE "none")
      /\ \A u \in Threads : u # t => th'[u] = th[u]
  BY GotoMoves DEF UpFail, Pcs
<1>a. Has(t) /\ napi = "off" /\ (\A u \in Threads : Has(u) => u = t) /\ irq_sem # 0 /\ DownOnce = 1
  BY <1>1, HasAlone DEF Has
<1>b. th[t].op \in {"open", "mtu", "nway", "reset", "pm", "aer"}
  BY <1>1 DEF OpInv, UpPcs
\* An open is alone with the device, but for a work item.
<1>c. th[t].op = "open" => t = "net" /\ th["bus"].op = "none" /\ th["bus"].pc = "idle" /\ th["work"].op \in {"none", "reset", "link"}
  BY DEF OpInv, OpenInv, Threads
<1>3. TypeOK'
  <2>1. RegsOK'
    BY <1>1, RestType DEF RegsOK
  <2>2. FlagsOK'
    BY <1>1, RestType DEF FlagsOK
  <2>3. LifeOK'
    BY <1>1, RestType DEF LifeOK
  <2> QED BY <1>2, <2>1, <2>2, <2>3, TypeNext
<1>4. OpInv'
  BY <1>1, <1>2, <1>b DEF OpInv, DownPcs, UpPcs, Threads
<1>5. LockInv'
  BY <1>1, <1>2, <1>a, <1>c DEF LockInv, Has, BusPcs, Threads
<1>6. OpenInv'
  <2>1. CASE th[t].op = "open"
    BY <1>1, <1>2, <1>a, <1>c, <2>1 DEF OpenInv, OpInv, Closed, ToClose, Has, DownPcs, UpPcs, BusPcs, Threads
  <2>2. CASE th[t].op # "open"
    BY <1>1, <1>2, <1>a, <1>b, <2>2 DEF OpenInv, OpInv, Closed, ToClose, Has, DownPcs, UpPcs, BusPcs, Threads
  <2> QED BY <2>1, <2>2
<1>7. IrqInv'
  BY <1>1, <1>2 DEF IrqInv
<1>8. SemInv'
  BY <1>1, <1>2, SectionsSame DEF SemInv, DownOnce, Section, At
<1>9. UpInv'
  BY <1>1, <1>2, <1>a, <1>b, <1>c DEF UpInv, Has, At, BusPcs, Threads
<1> QED BY <1>3, <1>4, <1>5, <1>6, <1>7, <1>8, <1>9

LEMMA UpCheckStep == ASSUME IInv, NEW t \in Threads, UpCheck(t) PROVE IInv'
<1> USE DEF IInv
<1>1. /\ th[t].pc = "check" /\ th[t].op # "link"
      /\ isr' \in {isr, {}} /\ imr' \in {imr, {}} /\ dis_int' \in {dis_int, TRUE} /\ carrier' \in {carrier, link}
      /\ unresolved' \in BOOLEAN
      /\ UNCHANGED <<irq_sem, intr_mask, requested, intr, napi, napi_dis, poll, tail,
                     phy_int, link, flaps, at_down, events, queued, present,
                     running, rings, dead, held, bound, ops, frames>>
  BY DEF UpCheck, CheckLinkStatus, At, irqVars, napiVars, linkVars, workVars, ifVars, busVars, lifeVars, flagVars, devVars, counts
<1>2. /\ th' \in [Threads -> [pc : Pcs, op : Ops]]
      /\ th'[t].pc = "clear" /\ th'[t].op = th[t].op
      /\ \A u \in Threads : u # t => th'[u] = th[u]
  BY GotoMoves DEF UpCheck, Pcs
<1>a. Has(t) /\ napi = "off" /\ (\A u \in Threads : Has(u) => u = t) /\ irq_sem # 0 /\ DownOnce = 1
  BY <1>1, HasAlone DEF Has
<1>3. TypeOK'
  <2>1. RegsOK'
    BY <1>1, RestType DEF RegsOK
  <2>2. FlagsOK'
    BY <1>1, RestType DEF FlagsOK
  <2>3. LifeOK'
    BY <1>1, RestType DEF LifeOK
  <2> QED BY <1>2, <2>1, <2>2, <2>3, TypeNext
<1>4. OpInv'
  BY <1>1, <1>2 DEF OpInv, DownPcs, UpPcs, Threads
<1>5. LockInv'
  BY <1>1, <1>2 DEF LockInv, Has, BusPcs
<1>6. OpenInv'
  BY <1>1, <1>2 DEF OpenInv, OpInv, Closed, ToClose, Has, DownPcs, UpPcs, BusPcs, Threads
<1>7. IrqInv'
  BY <1>1, <1>2 DEF IrqInv
<1>8. SemInv'
  BY <1>1, <1>2, SectionsSame DEF SemInv, DownOnce, Section, At
<1>9. UpInv'
  BY <1>1, <1>2, <1>a DEF UpInv, Has, At, BusPcs, Threads
<1> QED BY <1>3, <1>4, <1>5, <1>6, <1>7, <1>8, <1>9

LEMMA UpClearStep == ASSUME IInv, NEW t \in Threads, UpClear(t) PROVE IInv'
<1> USE DEF IInv
<1>1. /\ th[t].pc = "clear" /\ at_down' = FALSE /\ napi' = "on"
      /\ UNCHANGED <<irq_sem, intr_mask, imr, isr, dis_int, requested, intr,
                     napi_dis, poll, tail, phy_int, link, flaps, unresolved, carrier, events, queued,
                     present, running, rings, dead, held, bound, ops, frames>>
  BY DEF UpClear, At, irqVars, napiVars, linkVars, workVars, ifVars, busVars, lifeVars, flagVars, devVars, counts
<1>2. /\ th' \in [Threads -> [pc : Pcs, op : Ops]]
      /\ th'[t].pc = "enable" /\ th'[t].op = th[t].op
      /\ \A u \in Threads : u # t => th'[u] = th[u]
  BY GotoMoves DEF UpClear, Pcs
<1>a. Has(t) /\ napi = "off" /\ (\A u \in Threads : Has(u) => u = t) /\ irq_sem # 0 /\ DownOnce = 1
  BY <1>1, HasAlone DEF Has
<1>3. TypeOK'
  <2>1. RegsOK'
    BY <1>1, RestType DEF RegsOK
  <2>2. FlagsOK'
    BY <1>1, RestType DEF FlagsOK
  <2>3. LifeOK'
    BY <1>1, RestType DEF LifeOK
  <2> QED BY <1>2, <2>1, <2>2, <2>3, TypeNext
<1>4. OpInv'
  BY <1>1, <1>2 DEF OpInv, DownPcs, UpPcs, Threads
<1>5. LockInv'
  BY <1>1, <1>2, <1>a DEF LockInv, Has, BusPcs, OpInv, Threads
<1>6. OpenInv'
  BY <1>1, <1>2, <1>a DEF OpenInv, OpInv, Closed, ToClose, Has, DownPcs, UpPcs, BusPcs, Threads
<1>7. IrqInv'
  BY <1>1, <1>2 DEF IrqInv
<1>8. SemInv'
  <2>1. Cardinality(Sections') = Cardinality(Sections) + 1
    BY <1>1, <1>2, SectionsEnter DEF Section, At
  <2>2. DownOnce' = 0
    BY <1>1 DEF DownOnce
  <2> QED BY <1>1, <1>a, <2>1, <2>2, SectionsFinite DEF SemInv
<1>9. UpInv'
  BY <1>1, <1>2, <1>a DEF UpInv, Has, At, BusPcs, Threads
<1> QED BY <1>3, <1>4, <1>5, <1>6, <1>7, <1>8, <1>9

LEMMA UpEnableStep == ASSUME IInv, NEW t \in Threads, UpEnable(t) PROVE IInv'
<1> USE DEF IInv
<1>1. /\ th[t].pc = "enable" /\ irq_sem' = irq_sem - 1
      /\ \/ irq_sem = 1 /\ isr' = {} /\ dis_int' = FALSE /\ imr' = intr_mask
         \/ irq_sem # 1 /\ isr' = isr /\ dis_int' = dis_int /\ imr' = imr
      /\ UNCHANGED <<intr_mask, requested, intr, napi, napi_dis, poll, tail, phy_int,
                     link, flaps, unresolved, carrier, at_down, events, queued, present,
                     running, rings, dead, held, bound, ops, frames>>
  BY DEF UpEnable, IrqEnable, At, irqVars, napiVars, linkVars, workVars, ifVars, busVars, lifeVars, flagVars, devVars, counts
<1>2. /\ th' \in [Threads -> [pc : Pcs, op : Ops]]
      /\ th'[t].pc = (IF th[t].op \in {"reset", "aer"} THEN "attach" ELSE "idle")
      /\ th'[t].op = (IF th[t].op \in {"reset", "aer"} THEN th[t].op ELSE "none")
      /\ \A u \in Threads : u # t => th'[u] = th[u]
  BY GotoMoves DEF UpEnable, Pcs
<1>a. Section(t) /\ irq_sem \in Nat \ {0} /\ Cardinality(Sections') = Cardinality(Sections) - 1
  <2>1. Section(t)
    BY <1>1 DEF Section
  <2>2. Cardinality(Sections') = Cardinality(Sections) - 1
    BY <1>1, <1>2, <2>1, SectionsLeave DEF Section, At
  <2>3. Cardinality(Sections) # 0
    BY <2>1, SectionsFinite, FS_EmptySet DEF Sections
  <2> QED BY <2>1, <2>2, <2>3, SectionsFinite DEF SemInv, DownOnce
<1>b. th[t].op \in {"open", "mtu", "nway", "reset", "pm", "aer"}
  BY <1>1 DEF OpInv, UpPcs
<1>3. TypeOK'
  <2>1. RegsOK'
    <3>1. irq_sem' \in Nat
      BY <1>1, <1>a
    <3>2. isr' \subseteq Causes /\ imr' \subseteq Causes /\ dis_int' \in BOOLEAN
      BY <1>1, RestType DEF RegsOK
    <3> QED BY <1>1, <3>1, <3>2, RestType DEF RegsOK
  <2>2. FlagsOK'
    BY <1>1, RestType DEF FlagsOK
  <2>3. LifeOK'
    BY <1>1, RestType DEF LifeOK
  <2> QED BY <1>2, <2>1, <2>2, <2>3, TypeNext
<1>4. OpInv'
  BY <1>1, <1>2, <1>b DEF OpInv, DownPcs, UpPcs, Threads
<1>5. LockInv'
  BY <1>1, <1>2 DEF LockInv, Has, BusPcs
<1>6. OpenInv'
  BY <1>1, <1>2 DEF OpenInv, OpInv, Closed, ToClose, Has, DownPcs, UpPcs, BusPcs, Threads
<1>7. IrqInv'
  BY <1>1, <1>2 DEF IrqInv
<1>8. SemInv'
  <2>1. DownOnce' = DownOnce
    BY <1>1, <1>2 DEF DownOnce, At
  <2> QED BY <1>1, <1>a, <2>1, SectionsFinite DEF SemInv, DownOnce
<1>9. UpInv'
  BY <1>1, <1>2, <1>a, <1>b DEF UpInv, Has, At, BusPcs, OpInv, Threads
<1> QED BY <1>3, <1>4, <1>5, <1>6, <1>7, <1>8, <1>9

LEMMA UpStep == ASSUME IInv, NEW t \in Threads, Up(t) PROVE IInv'
BY UpConfigureStep, UpRequestStep, UpFailStep, UpCheckStep, UpClearStep, UpEnableStep DEF Up

(***************************************************************************)
(* atl1c_attach and the work item                                          *)
(***************************************************************************)

LEMMA AttachStep == ASSUME IInv, NEW t \in Threads, Attach(t) PROVE IInv'
<1> USE DEF IInv
<1>1. /\ th[t].pc = "attach" /\ present' = TRUE
      /\ UNCHANGED <<irq_sem, intr_mask, imr, isr, dis_int, requested, intr, napi,
                     napi_dis, poll, tail, phy_int, link, flaps, unresolved, carrier, at_down, events,
                     queued, running, rings, dead, held, bound, ops, frames>>
  BY DEF Attach, At, irqVars, napiVars, linkVars, workVars, ifVars, busVars, lifeVars, flagVars, devVars, counts
<1>2. /\ th' \in [Threads -> [pc : Pcs, op : Ops]]
      /\ th'[t].pc = (IF t = "work" THEN "tasklink" ELSE "idle")
      /\ th'[t].op = (IF t = "work" THEN th[t].op ELSE "none")
      /\ \A u \in Threads : u # t => th'[u] = th[u]
  BY GotoMoves DEF Attach, Pcs
<1>3. TypeOK'
  <2>1. RegsOK'
    BY <1>1, RestType DEF RegsOK
  <2>2. FlagsOK'
    BY <1>1, RestType DEF FlagsOK
  <2>3. LifeOK'
    BY <1>1, RestType DEF LifeOK
  <2> QED BY <1>2, <2>1, <2>2, <2>3, TypeNext
<1>4. OpInv'
  BY <1>1, <1>2 DEF OpInv, DownPcs, UpPcs, Threads
<1>5. LockInv'
  BY <1>1, <1>2 DEF LockInv, Has, BusPcs
<1>6. OpenInv'
  BY <1>1, <1>2 DEF OpenInv, OpInv, Closed, ToClose, Has, DownPcs, UpPcs, BusPcs, Threads
<1>7. IrqInv'
  BY <1>1, <1>2 DEF IrqInv
<1>8. SemInv'
  BY <1>1, <1>2, SectionsSame DEF SemInv, DownOnce, Section, At
<1>9. UpInv'
  BY <1>1, <1>2 DEF UpInv, Has, At, BusPcs, Threads
<1> QED BY <1>3, <1>4, <1>5, <1>6, <1>7, <1>8, <1>9

LEMMA TaskRunStep == ASSUME IInv, TaskRun PROVE IInv'
<1> USE DEF IInv
<1>1. /\ queued /\ th["work"].pc = "idle" /\ queued' = FALSE
      /\ UNCHANGED <<irq_sem, intr_mask, imr, isr, dis_int, requested, intr, napi,
                     napi_dis, poll, tail, phy_int, link, flaps, unresolved, carrier, at_down, events,
                     present, running, rings, dead, held, bound, ops, frames>>
  BY DEF TaskRun, At, irqVars, napiVars, linkVars, workVars, ifVars, busVars, lifeVars, flagVars, devVars, counts
<1>t. "work" \in Threads
  BY DEF Threads
<1>2. CASE th' = th
  <2>1. TypeOK'
    <3>1. RegsOK'
      BY <1>1, RestType DEF RegsOK
    <3>2. FlagsOK'
      BY <1>1, RestType DEF FlagsOK
    <3>3. LifeOK'
      BY <1>1, RestType DEF LifeOK
    <3> QED BY <1>2, <3>1, <3>2, <3>3, ThreadType, TypeNext
  <2> QED BY <1>1, <1>2, <2>1, StillStep DEF LockInv, UpInv
<1>3. ASSUME Goto("work", "task") PROVE IInv'
  <2>2. /\ th' \in [Threads -> [pc : Pcs, op : Ops]]
        /\ th'["work"].pc = "task" /\ th'["work"].op = "none"
        /\ \A u \in Threads : u # "work" => th'[u] = th[u]
    BY <1>1, <1>t, <1>3, GotoMoves DEF Pcs, OpInv
  <2>3. TypeOK'
    <3>1. RegsOK'
      BY <1>1, RestType DEF RegsOK
    <3>2. FlagsOK'
      BY <1>1, RestType DEF FlagsOK
    <3>3. LifeOK'
      BY <1>1, RestType DEF LifeOK
    <3> QED BY <2>2, <3>1, <3>2, <3>3, TypeNext
  <2>4. OpInv'
    BY <1>1, <2>2 DEF OpInv, DownPcs, UpPcs, Threads
  <2>5. LockInv'
    BY <1>1, <2>2 DEF LockInv, Has, BusPcs
  <2>6. OpenInv'
    BY <1>1, <2>2 DEF OpenInv, OpInv, Closed, ToClose, Has, DownPcs, UpPcs, BusPcs, Threads
  <2>7. IrqInv'
    BY <1>1, <2>2 DEF IrqInv
  <2>8. SemInv'
    BY <1>1, <2>2, SectionsSame DEF SemInv, DownOnce, Section, At
  <2>9. UpInv'
    BY <1>1, <1>t, <2>2 DEF UpInv, Has, At, BusPcs, OpInv, Threads
  <2> QED BY <2>3, <2>4, <2>5, <2>6, <2>7, <2>8, <2>9
<1> QED BY <1>2, <1>3 DEF TaskRun

LEMMA TaskResetStep == ASSUME IInv, TaskReset PROVE IInv'
<1> USE DEF IInv
<1>1. /\ th["work"].pc = "task" /\ events' = events \ {"reset"} /\ present' = FALSE
      /\ UNCHANGED <<irq_sem, intr_mask, imr, isr, dis_int, requested, intr, napi,
                     napi_dis, poll, tail, phy_int, link, flaps, unresolved, carrier, at_down, queued,
                     running, rings, dead, held, bound, ops, frames>>
  BY DEF TaskReset, At, irqVars, napiVars, linkVars, workVars, ifVars, busVars, lifeVars, flagVars, devVars, counts
<1>t. "work" \in Threads
  BY DEF Threads
<1>2. /\ th' \in [Threads -> [pc : Pcs, op : Ops]]
      /\ th'["work"].pc = "down" /\ th'["work"].op = "reset"
      /\ \A u \in Threads : u # "work" => th'[u] = th[u]
  <2>1. "down" \in Pcs /\ "reset" \in Ops
    BY DEF Pcs, Ops
  <2>2. Begin("work", "down", "reset")
    BY DEF TaskReset
  <2> QED BY <1>t, <2>1, <2>2, BeginMoves
<1>3. TypeOK'
  <2>1. RegsOK'
    BY <1>1, RestType DEF RegsOK
  <2>2. FlagsOK'
    BY <1>1, RestType DEF FlagsOK
  <2>3. LifeOK'
    BY <1>1, RestType DEF LifeOK
  <2> QED BY <1>2, <2>1, <2>2, <2>3, TypeNext
<1>4. OpInv'
  BY <1>1, <1>2 DEF OpInv, DownPcs, UpPcs, Threads
<1>5. LockInv'
  BY <1>1, <1>2 DEF LockInv, Has, BusPcs
<1>6. OpenInv'
  BY <1>1, <1>2 DEF OpenInv, OpInv, Closed, ToClose, Has, DownPcs, UpPcs, BusPcs, Threads
<1>7. IrqInv'
  BY <1>1, <1>2 DEF IrqInv
<1>8. SemInv'
  BY <1>1, <1>2, SectionsSame DEF SemInv, DownOnce, Section, At
<1>9. UpInv'
  BY <1>1, <1>2 DEF UpInv, Has, At, BusPcs, OpInv, Threads
<1> QED BY <1>3, <1>4, <1>5, <1>6, <1>7, <1>8, <1>9

LEMMA TaskLinkStep == ASSUME IInv, TaskLink PROVE IInv'
<1> USE DEF IInv
<1>1. /\ th["work"].pc \in {"task", "tasklink"} /\ events' = events \ {"link"}
      /\ irq_sem' = irq_sem + 1 /\ imr' = {} /\ dis_int' = TRUE
      /\ UNCHANGED <<intr_mask, isr, requested, intr, napi, napi_dis, poll, tail, phy_int,
                     link, flaps, unresolved, carrier, at_down, queued, present, running, rings,
                     dead, held, bound, ops, frames>>
  BY DEF TaskLink, IrqDisable, At, irqVars, napiVars, linkVars, workVars, ifVars, busVars, lifeVars, flagVars, devVars, counts
<1>t. "work" \in Threads
  BY DEF Threads
<1>2. /\ th' \in [Threads -> [pc : Pcs, op : Ops]]
      /\ th'["work"].pc = "check" /\ th'["work"].op = "link"
      /\ \A u \in Threads : u # "work" => th'[u] = th[u]
  <2>1. "check" \in Pcs /\ "link" \in Ops
    BY DEF Pcs, Ops
  <2>2. Begin("work", "check", "link")
    BY DEF TaskLink
  <2> QED BY <1>t, <2>1, <2>2, BeginMoves
<1>a. irq_sem \in Nat /\ DownOnce' = DownOnce /\ Cardinality(Sections') = Cardinality(Sections) + 1
  <2>1. ~Section("work") /\ Section("work")'
    BY <1>1, <1>2 DEF Section, At
  <2>2. Cardinality(Sections') = Cardinality(Sections) + 1
    BY <1>1, <1>2, <1>t, <2>1, SectionsEnter DEF Section, At
  <2> QED BY <1>1, <1>2, <2>2, RestType DEF RegsOK, DownOnce, At
<1>3. TypeOK'
  <2>1. RegsOK'
    BY <1>1, RestType DEF RegsOK
  <2>2. FlagsOK'
    BY <1>1, RestType DEF FlagsOK
  <2>3. LifeOK'
    BY <1>1, RestType DEF LifeOK
  <2> QED BY <1>2, <2>1, <2>2, <2>3, TypeNext
<1>4. OpInv'
  BY <1>1, <1>2 DEF OpInv, DownPcs, UpPcs, Threads
<1>5. LockInv'
  BY <1>1, <1>2 DEF LockInv, Has, BusPcs
<1>6. OpenInv'
  BY <1>1, <1>2 DEF OpenInv, OpInv, Closed, ToClose, Has, DownPcs, UpPcs, BusPcs, Threads
<1>7. IrqInv'
  BY <1>1, <1>2 DEF IrqInv
<1>8. SemInv'
  BY <1>1, <1>a, SectionsFinite DEF SemInv, DownOnce
<1>9. UpInv'
  BY <1>1, <1>2, <1>a DEF UpInv, Has, At, BusPcs, OpInv, Threads
<1> QED BY <1>3, <1>4, <1>5, <1>6, <1>7, <1>8, <1>9

LEMMA TaskDoneStep == ASSUME IInv, TaskDone PROVE IInv'
<1> USE DEF IInv
<1>1. /\ th["work"].pc \in {"task", "tasklink"}
      /\ UNCHANGED <<irq_sem, intr_mask, imr, isr, dis_int, requested, intr, napi,
                     napi_dis, poll, tail, phy_int, link, flaps, unresolved, carrier, at_down, events,
                     queued, present, running, rings, dead, held, bound, ops,
                     frames>>
  BY DEF TaskDone, At, irqVars, napiVars, linkVars, workVars, ifVars, busVars, lifeVars, flagVars, devVars, counts
<1>t. "work" \in Threads
  BY DEF Threads
<1>2. /\ th' \in [Threads -> [pc : Pcs, op : Ops]]
      /\ th'["work"].pc = "idle" /\ th'["work"].op = "none"
      /\ \A u \in Threads : u # "work" => th'[u] = th[u]
  BY <1>t, GotoMoves DEF TaskDone, Pcs
<1>3. TypeOK'
  <2>1. RegsOK'
    BY <1>1, RestType DEF RegsOK
  <2>2. FlagsOK'
    BY <1>1, RestType DEF FlagsOK
  <2>3. LifeOK'
    BY <1>1, RestType DEF LifeOK
  <2> QED BY <1>2, <2>1, <2>2, <2>3, TypeNext
<1>4. OpInv'
  BY <1>1, <1>2 DEF OpInv, DownPcs, UpPcs, Threads
<1>5. LockInv'
  BY <1>1, <1>2 DEF LockInv, Has, BusPcs
<1>6. OpenInv'
  BY <1>1, <1>2 DEF OpenInv, OpInv, Closed, ToClose, Has, DownPcs, UpPcs, BusPcs, Threads
<1>7. IrqInv'
  BY <1>1, <1>2 DEF IrqInv
<1>8. SemInv'
  BY <1>1, <1>2, SectionsSame DEF SemInv, DownOnce, Section, At
<1>9. UpInv'
  BY <1>1, <1>2 DEF UpInv, Has, At, BusPcs, OpInv, Threads
<1> QED BY <1>3, <1>4, <1>5, <1>6, <1>7, <1>8, <1>9

LEMMA TaskCheckStep == ASSUME IInv, TaskCheck PROVE IInv'
<1> USE DEF IInv
<1>1. /\ th["work"].pc = "check" /\ th["work"].op = "link"
      /\ isr' \in {isr, {}} /\ imr' \in {imr, {}} /\ dis_int' \in {dis_int, TRUE} /\ carrier' \in {carrier, link}
      /\ unresolved' \in BOOLEAN
      /\ UNCHANGED <<irq_sem, intr_mask, requested, intr, napi, napi_dis, poll, tail,
                     phy_int, link, flaps, at_down, events, queued, present,
                     running, rings, dead, held, bound, ops, frames>>
  BY DEF TaskCheck, CheckLinkStatus, At, irqVars, napiVars, linkVars, workVars, ifVars, busVars, lifeVars, flagVars, devVars, counts
<1>t. "work" \in Threads
  BY DEF Threads
<1>2. /\ th' \in [Threads -> [pc : Pcs, op : Ops]]
      /\ th'["work"].pc = "linkon" /\ th'["work"].op = "link"
      /\ \A u \in Threads : u # "work" => th'[u] = th[u]
  BY <1>t, GotoMoves DEF TaskCheck, Pcs
\* The work item is itself a section that has interrupts disabled.
<1>a. irq_sem # 0
  <2>1. Cardinality(Sections) # 0
    BY <1>1, <1>t, SectionsFinite, FS_EmptySet DEF Sections, Section, At
  <2> QED BY <2>1, SectionsFinite DEF SemInv, DownOnce
<1>3. TypeOK'
  <2>1. RegsOK'
    BY <1>1, RestType DEF RegsOK
  <2>2. FlagsOK'
    BY <1>1, RestType DEF FlagsOK
  <2>3. LifeOK'
    BY <1>1, RestType DEF LifeOK
  <2> QED BY <1>2, <2>1, <2>2, <2>3, TypeNext
<1>4. OpInv'
  BY <1>1, <1>2 DEF OpInv, DownPcs, UpPcs, Threads
<1>5. LockInv'
  BY <1>1, <1>2 DEF LockInv, Has, BusPcs
<1>6. OpenInv'
  BY <1>1, <1>2 DEF OpenInv, OpInv, Closed, ToClose, Has, DownPcs, UpPcs, BusPcs, Threads
<1>7. IrqInv'
  BY <1>1, <1>2 DEF IrqInv
<1>8. SemInv'
  BY <1>1, <1>2, SectionsSame DEF SemInv, DownOnce, Section, At
<1>9. UpInv'
  BY <1>1, <1>2, <1>a DEF UpInv, Has, At, BusPcs, OpInv, Threads
<1> QED BY <1>3, <1>4, <1>5, <1>6, <1>7, <1>8, <1>9

LEMMA TaskLinkOnStep == ASSUME IInv, TaskLinkOn PROVE IInv'
<1> USE DEF IInv
<1>1. /\ th["work"].pc = "linkon" /\ th["work"].op = "link" /\ irq_sem' = irq_sem - 1
      /\ \/ irq_sem = 1 /\ isr' = {} /\ dis_int' = FALSE /\ imr' = intr_mask
         \/ irq_sem # 1 /\ isr' = isr /\ dis_int' = dis_int /\ imr' = imr
      /\ UNCHANGED <<intr_mask, requested, intr, napi, napi_dis, poll, tail, phy_int,
                     link, flaps, unresolved, carrier, at_down, events, queued, present,
                     running, rings, dead, held, bound, ops, frames>>
  BY DEF TaskLinkOn, IrqEnable, OpInv, Threads, At, irqVars, napiVars, linkVars, workVars, ifVars, busVars, lifeVars, flagVars, devVars, counts
<1>t. "work" \in Threads
  BY DEF Threads
<1>2. /\ th' \in [Threads -> [pc : Pcs, op : Ops]]
      /\ th'["work"].pc = "idle" /\ th'["work"].op = "none"
      /\ \A u \in Threads : u # "work" => th'[u] = th[u]
  BY <1>t, GotoMoves DEF TaskLinkOn, Pcs
<1>a. irq_sem \in Nat \ {0} /\ DownOnce' = DownOnce /\ Cardinality(Sections') = Cardinality(Sections) - 1
  <2>1. Section("work") /\ ~Section("work")'
    BY <1>1, <1>2 DEF Section, At
  <2>2. Cardinality(Sections') = Cardinality(Sections) - 1
    BY <1>1, <1>2, <1>t, <2>1, SectionsLeave DEF Section, At
  <2>3. Cardinality(Sections) # 0
    BY <1>t, <2>1, SectionsFinite, FS_EmptySet DEF Sections
  <2>4. DownOnce' = DownOnce
    BY <1>1, <1>2 DEF DownOnce, At
  <2> QED BY <2>1, <2>2, <2>3, <2>4, SectionsFinite DEF SemInv, DownOnce
<1>3. TypeOK'
  <2>1. RegsOK'
    <3>1. irq_sem' \in Nat
      BY <1>1, <1>a
    <3>2. isr' \subseteq Causes /\ imr' \subseteq Causes /\ dis_int' \in BOOLEAN
      BY <1>1, RestType DEF RegsOK
    <3> QED BY <1>1, <3>1, <3>2, RestType DEF RegsOK
  <2>2. FlagsOK'
    BY <1>1, RestType DEF FlagsOK
  <2>3. LifeOK'
    BY <1>1, RestType DEF LifeOK
  <2> QED BY <1>2, <2>1, <2>2, <2>3, TypeNext
<1>4. OpInv'
  BY <1>1, <1>2 DEF OpInv, DownPcs, UpPcs, Threads
<1>5. LockInv'
  BY <1>1, <1>2 DEF LockInv, Has, BusPcs
<1>6. OpenInv'
  BY <1>1, <1>2 DEF OpenInv, OpInv, Closed, ToClose, Has, DownPcs, UpPcs, BusPcs, Threads
<1>7. IrqInv'
  BY <1>1, <1>2 DEF IrqInv
<1>8. SemInv'
  BY <1>1, <1>a, SectionsFinite DEF SemInv, DownOnce
<1>9. UpInv'
  BY <1>1, <1>2, <1>a DEF UpInv, Has, At, BusPcs, OpInv, Threads
<1> QED BY <1>3, <1>4, <1>5, <1>6, <1>7, <1>8, <1>9

LEMMA TaskStep == ASSUME IInv, Task PROVE IInv'
BY TaskRunStep, TaskResetStep, TaskLinkStep, TaskDoneStep, TaskCheckStep, TaskLinkOnStep DEF Task

(***************************************************************************)
(* The operations under the rtnl lock                                      *)
(***************************************************************************)

LEMMA OpenStep == ASSUME IInv, ~Recovery, Open PROVE IInv'
<1> USE DEF IInv
<1>c. ops' \in 0 .. MaxOps
  BY AdapterAssumption, RestType DEF LifeOK, Count, Open
<1>1. /\ bound /\ ~running /\ th["net"].pc = "idle" /\ th["bus"].op \notin {"remove", "pm", "aer"}
      /\ running' = TRUE /\ rings' = TRUE
      /\ UNCHANGED <<irq_sem, intr_mask, imr, isr, dis_int, requested, intr, napi,
                     napi_dis, poll, tail, phy_int, link, flaps, unresolved, carrier, at_down, events,
                     queued, present, dead, held, bound, frames>>
  BY DEF Open, User, RtnlFree, Frozen, Count, At, irqVars, napiVars, linkVars, workVars, ifVars, busVars, lifeVars, flagVars, devVars, counts
<1>t. "net" \in Threads
  BY DEF Threads
<1>2. /\ th' \in [Threads -> [pc : Pcs, op : Ops]]
      /\ th'["net"].pc = "up" /\ th'["net"].op = "open"
      /\ \A u \in Threads : u # "net" => th'[u] = th[u]
  <2>1. "up" \in Pcs /\ "open" \in Ops
    BY DEF Pcs, Ops
  <2>2. Begin("net", "up", "open")
    BY DEF Open
  <2> QED BY <1>t, <2>1, <2>2, BeginMoves
\* Only the work item is about.
<1>a. /\ th["net"].pc = "idle" /\ th["net"].op = "none" /\ th["bus"].pc = "idle" /\ th["bus"].op = "none"
      /\ th["work"].op \in {"none", "reset", "link"}
  BY <1>1 DEF OpInv, Threads
<1>b. napi = "off" /\ \A u \in Threads : ~Has(u)
  BY <1>1, <1>a DEF OpenInv, Closed, ToClose, Threads
<1>3. TypeOK'
  <2>1. RegsOK'
    BY <1>1, RestType DEF RegsOK
  <2>2. FlagsOK'
    BY <1>1, RestType DEF FlagsOK
  <2>3. LifeOK'
    BY <1>1, <1>c, RestType DEF LifeOK
  <2> QED BY <1>2, <2>1, <2>2, <2>3, TypeNext
<1>4. OpInv'
  BY <1>1, <1>2 DEF OpInv, DownPcs, UpPcs, Threads
<1>5. LockInv'
  <2>1. \A u \in Threads : Has(u)' => u = "net"
    <3>1. th'["bus"].pc = "idle" /\ th'["work"] = th["work"]
      BY <1>2, <1>a DEF Threads
    <3>2. ~Has("bus")'
      BY <3>1 DEF Has, BusPcs
    <3>3. ~Has("work")'
      BY <1>b, <3>1 DEF Has, BusPcs, OpInv, Threads
    <3> QED BY <3>2, <3>3 DEF Threads
  <2> QED BY <1>1, <1>b, <2>1 DEF LockInv
<1>6. OpenInv'
  BY <1>1, <1>2, <1>a, <1>b DEF OpenInv, OpInv, Closed, ToClose, Has, DownPcs, UpPcs, BusPcs, Threads
<1>7. IrqInv'
  BY <1>1, <1>2 DEF IrqInv
<1>8. SemInv'
  BY <1>1, <1>2, SectionsSame DEF SemInv, DownOnce, Section, At
<1>9. UpInv'
  BY <1>1, <1>2, <1>a, <1>t DEF UpInv, Has, At, BusPcs, Threads
<1> QED BY <1>3, <1>4, <1>5, <1>6, <1>7, <1>8, <1>9

LEMMA CloseStep == ASSUME IInv, ~Recovery, Close PROVE IInv'
<1> USE DEF IInv
<1>c. ops' \in 0 .. MaxOps
  BY AdapterAssumption, RestType DEF LifeOK, Count, Close
<1>1. /\ running /\ th["net"].pc = "idle" /\ th["bus"].op \notin {"remove", "pm", "aer"}
      /\ running' = FALSE /\ at_down' = TRUE
      /\ UNCHANGED <<irq_sem, intr_mask, imr, isr, dis_int, requested, intr, napi,
                     napi_dis, poll, tail, phy_int, link, flaps, unresolved, carrier, events, queued,
                     present, rings, dead, held, bound, frames>>
  BY DEF Close, RtnlFree, Frozen, Count, At, irqVars, napiVars, linkVars, workVars, ifVars, busVars, lifeVars, flagVars, devVars, counts
<1>t. "net" \in Threads
  BY DEF Threads
<1>2. /\ th' \in [Threads -> [pc : Pcs, op : Ops]]
      /\ th'["net"].pc = "cancel" /\ th'["net"].op = "close"
      /\ \A u \in Threads : u # "net" => th'[u] = th[u]
  <2>1. "cancel" \in Pcs /\ "close" \in Ops
    BY DEF Pcs, Ops
  <2>2. Begin("net", "cancel", "close")
    BY DEF Close
  <2> QED BY <1>t, <2>1, <2>2, BeginMoves
\* Only the work item is about.
<1>a. /\ th["net"].pc = "idle" /\ th["net"].op = "none" /\ th["bus"].pc = "idle" /\ th["bus"].op = "none"
      /\ th["work"].op \in {"none", "reset", "link"}
  BY <1>1 DEF OpInv, Threads
<1>3. TypeOK'
  <2>1. RegsOK'
    BY <1>1, RestType DEF RegsOK
  <2>2. FlagsOK'
    BY <1>1, RestType DEF FlagsOK
  <2>3. LifeOK'
    BY <1>1, <1>c, RestType DEF LifeOK
  <2> QED BY <1>2, <2>1, <2>2, <2>3, TypeNext
<1>4. OpInv'
  BY <1>1, <1>2 DEF OpInv, DownPcs, UpPcs, Threads
<1>5. LockInv'
  BY <1>1, <1>2, <1>a DEF LockInv, Has, BusPcs, Threads
<1>6. OpenInv'
  BY <1>1, <1>2, <1>a, <1>t DEF OpenInv, OpInv, Closed, ToClose, Has, DownPcs, UpPcs, BusPcs, Threads
<1>7. IrqInv'
  BY <1>1, <1>2 DEF IrqInv
<1>8. SemInv'
  BY <1>1, <1>2, SectionsSame DEF SemInv, DownOnce, Section, At
<1>9. UpInv'
  BY <1>1, <1>2, <1>a, <1>t DEF UpInv, Has, At, BusPcs, Threads
<1> QED BY <1>3, <1>4, <1>5, <1>6, <1>7, <1>8, <1>9

LEMMA ReinitStep == ASSUME IInv, NEW op, Reinit(op) PROVE IInv'
<1> USE DEF IInv
<1>c. ops' \in 0 .. MaxOps
  BY AdapterAssumption, RestType DEF LifeOK, Count, Reinit
<1>1. /\ bound /\ running /\ th["net"].pc = "idle" /\ th["bus"].op # "remove" /\ op \in {"mtu", "nway"}
      /\ UNCHANGED <<irq_sem, intr_mask, imr, isr, dis_int, requested, intr, napi,
                     napi_dis, poll, tail, phy_int, link, flaps, unresolved, carrier, at_down, events,
                     queued, present, running, rings, dead, held, bound, frames>>
  BY DEF Reinit, User, RtnlFree, Count, At, irqVars, napiVars, linkVars, workVars, ifVars, busVars, lifeVars, flagVars, devVars, counts
<1>t. "net" \in Threads
  BY DEF Threads
<1>2. /\ th' \in [Threads -> [pc : Pcs, op : Ops]]
      /\ th'["net"].pc = "down" /\ th'["net"].op = op
      /\ \A u \in Threads : u # "net" => th'[u] = th[u]
  <2>1. "down" \in Pcs /\ op \in Ops
    BY <1>1 DEF Pcs, Ops
  <2>2. Begin("net", "down", op)
    BY DEF Reinit
  <2> QED BY <1>t, <2>1, <2>2, BeginMoves
<1>3. TypeOK'
  <2>1. RegsOK'
    BY <1>1, RestType DEF RegsOK
  <2>2. FlagsOK'
    BY <1>1, RestType DEF FlagsOK
  <2>3. LifeOK'
    BY <1>1, <1>c, RestType DEF LifeOK
  <2> QED BY <1>2, <2>1, <2>2, <2>3, TypeNext
<1>4. OpInv'
  BY <1>1, <1>2 DEF OpInv, DownPcs, UpPcs, Threads
<1>5. LockInv'
  BY <1>1, <1>2, <1>t DEF LockInv, Has, BusPcs, OpInv
<1>6. OpenInv'
  BY <1>1, <1>2 DEF OpenInv, OpInv, Closed, ToClose, Has, DownPcs, UpPcs, BusPcs, Threads
<1>7. IrqInv'
  BY <1>1, <1>2 DEF IrqInv
<1>8. SemInv'
  BY <1>1, <1>2, SectionsSame DEF SemInv, DownOnce, Section, At
<1>9. UpInv'
  BY <1>1, <1>2, <1>t DEF UpInv, Has, At, BusPcs, Threads
<1> QED BY <1>3, <1>4, <1>5, <1>6, <1>7, <1>8, <1>9

LEMMA SetFeaturesStep == ASSUME IInv, SetFeatures PROVE IInv'
<1> USE DEF IInv
<1>c. ops' \in 0 .. MaxOps
  BY AdapterAssumption, RestType DEF LifeOK, Count, SetFeatures
<1>1. /\ bound /\ th["net"].pc = "idle" /\ th["bus"].op # "remove"
      /\ irq_sem' = irq_sem + 1 /\ imr' = {} /\ dis_int' = TRUE
      /\ UNCHANGED <<intr_mask, isr, requested, intr, napi, napi_dis, poll, tail, phy_int,
                     link, flaps, unresolved, carrier, at_down, events, queued, present,
                     running, rings, dead, held, bound, frames>>
  BY DEF SetFeatures, User, RtnlFree, Count, IrqDisable, At, irqVars, napiVars, linkVars, workVars, ifVars, busVars, lifeVars, flagVars, devVars, counts
<1>t. "net" \in Threads
  BY DEF Threads
<1>2. /\ th' \in [Threads -> [pc : Pcs, op : Ops]]
      /\ th'["net"].pc = "vlan" /\ th'["net"].op = "features"
      /\ \A u \in Threads : u # "net" => th'[u] = th[u]
  <2>1. "vlan" \in Pcs /\ "features" \in Ops
    BY DEF Pcs, Ops
  <2>2. Begin("net", "vlan", "features")
    BY DEF SetFeatures
  <2> QED BY <1>t, <2>1, <2>2, BeginMoves
<1>a. irq_sem \in Nat /\ DownOnce' = DownOnce /\ Cardinality(Sections') = Cardinality(Sections) + 1
  <2>1. ~Section("net") /\ Section("net")'
    BY <1>1, <1>2 DEF Section, At
  <2>2. Cardinality(Sections') = Cardinality(Sections) + 1
    BY <1>1, <1>2, <1>t, <2>1, SectionsEnter DEF Section, At
  <2> QED BY <1>1, <1>2, <2>2, RestType DEF RegsOK, DownOnce, At
<1>3. TypeOK'
  <2>1. RegsOK'
    BY <1>1, RestType DEF RegsOK
  <2>2. FlagsOK'
    BY <1>1, RestType DEF FlagsOK
  <2>3. LifeOK'
    BY <1>1, <1>c, RestType DEF LifeOK
  <2> QED BY <1>2, <2>1, <2>2, <2>3, TypeNext
<1>4. OpInv'
  BY <1>1, <1>2 DEF OpInv, DownPcs, UpPcs, Threads
<1>5. LockInv'
  BY <1>1, <1>2 DEF LockInv, Has, BusPcs
<1>6. OpenInv'
  BY <1>1, <1>2 DEF OpenInv, OpInv, Closed, ToClose, Has, DownPcs, UpPcs, BusPcs, Threads
<1>7. IrqInv'
  BY <1>1, <1>2 DEF IrqInv
<1>8. SemInv'
  BY <1>1, <1>a, SectionsFinite DEF SemInv, DownOnce
<1>9. UpInv'
  BY <1>1, <1>2, <1>a DEF UpInv, Has, At, BusPcs, OpInv, Threads
<1> QED BY <1>3, <1>4, <1>5, <1>6, <1>7, <1>8, <1>9

LEMMA VlanModeStep == ASSUME IInv, VlanMode PROVE IInv'
<1> USE DEF IInv
<1>1. /\ th["net"].pc = "vlan" /\ irq_sem' = irq_sem - 1
      /\ \/ irq_sem = 1 /\ isr' = {} /\ dis_int' = FALSE /\ imr' = intr_mask
         \/ irq_sem # 1 /\ isr' = isr /\ dis_int' = dis_int /\ imr' = imr
      /\ UNCHANGED <<intr_mask, requested, intr, napi, napi_dis, poll, tail, phy_int,
                     link, flaps, unresolved, carrier, at_down, events, queued, present,
                     running, rings, dead, held, bound, ops, frames>>
  BY DEF VlanMode, IrqEnable, At, irqVars, napiVars, linkVars, workVars, ifVars, busVars, lifeVars, flagVars, devVars, counts
<1>t. "net" \in Threads
  BY DEF Threads
<1>2. /\ th' \in [Threads -> [pc : Pcs, op : Ops]]
      /\ th'["net"].pc = "idle" /\ th'["net"].op = "none"
      /\ \A u \in Threads : u # "net" => th'[u] = th[u]
  BY <1>t, GotoMoves DEF VlanMode, Pcs
<1>a. irq_sem \in Nat \ {0} /\ DownOnce' = DownOnce /\ Cardinality(Sections') = Cardinality(Sections) - 1
  <2>1. Section("net") /\ ~Section("net")'
    BY <1>1, <1>2 DEF Section, At
  <2>2. Cardinality(Sections') = Cardinality(Sections) - 1
    BY <1>1, <1>2, <1>t, <2>1, SectionsLeave DEF Section, At
  <2>3. Cardinality(Sections) # 0
    BY <1>t, <2>1, SectionsFinite, FS_EmptySet DEF Sections
  <2>4. DownOnce' = DownOnce
    BY <1>1, <1>2 DEF DownOnce, At
  <2> QED BY <2>1, <2>2, <2>3, <2>4, SectionsFinite DEF SemInv, DownOnce
<1>3. TypeOK'
  <2>1. RegsOK'
    <3>1. irq_sem' \in Nat
      BY <1>1, <1>a
    <3>2. isr' \subseteq Causes /\ imr' \subseteq Causes /\ dis_int' \in BOOLEAN
      BY <1>1, RestType DEF RegsOK
    <3> QED BY <1>1, <3>1, <3>2, RestType DEF RegsOK
  <2>2. FlagsOK'
    BY <1>1, RestType DEF FlagsOK
  <2>3. LifeOK'
    BY <1>1, RestType DEF LifeOK
  <2> QED BY <1>2, <2>1, <2>2, <2>3, TypeNext
<1>4. OpInv'
  BY <1>1, <1>2 DEF OpInv, DownPcs, UpPcs, Threads
<1>5. LockInv'
  BY <1>1, <1>2 DEF LockInv, Has, BusPcs
<1>6. OpenInv'
  BY <1>1, <1>2 DEF OpenInv, OpInv, Closed, ToClose, Has, DownPcs, UpPcs, BusPcs, Threads
<1>7. IrqInv'
  BY <1>1, <1>2 DEF IrqInv
<1>8. SemInv'
  BY <1>1, <1>a, SectionsFinite DEF SemInv, DownOnce
<1>9. UpInv'
  BY <1>1, <1>2, <1>a DEF UpInv, Has, At, BusPcs, OpInv, Threads
<1> QED BY <1>3, <1>4, <1>5, <1>6, <1>7, <1>8, <1>9

LEMMA NetStep == ASSUME IInv, ~Recovery, Net PROVE IInv'
BY OpenStep, CloseStep, ReinitStep, SetFeaturesStep, VlanModeStep DEF Net

LEMMA CloseCancelStep == ASSUME IInv, NEW t \in Threads, CloseCancel(t) PROVE IInv'
<1> USE DEF IInv
<1>1. /\ th[t].pc = "cancel" /\ queued' = FALSE
      /\ UNCHANGED <<irq_sem, intr_mask, imr, isr, dis_int, requested, intr, napi,
                     napi_dis, poll, tail, phy_int, link, flaps, unresolved, carrier, at_down, events,
                     present, running, rings, dead, held, bound, ops, frames>>
  BY DEF CloseCancel, At, irqVars, napiVars, linkVars, workVars, ifVars, busVars, lifeVars, flagVars, devVars, counts
<1>2. /\ th' \in [Threads -> [pc : Pcs, op : Ops]]
      /\ th'[t].pc = "down" /\ th'[t].op = th[t].op
      /\ \A u \in Threads : u # t => th'[u] = th[u]
  BY GotoMoves DEF CloseCancel, Pcs
<1>3. TypeOK'
  <2>1. RegsOK'
    BY <1>1, RestType DEF RegsOK
  <2>2. FlagsOK'
    BY <1>1, RestType DEF FlagsOK
  <2>3. LifeOK'
    BY <1>1, RestType DEF LifeOK
  <2> QED BY <1>2, <2>1, <2>2, <2>3, TypeNext
<1>4. OpInv'
  BY <1>1, <1>2 DEF OpInv, DownPcs, UpPcs, Threads
<1>5. LockInv'
  BY <1>1, <1>2 DEF LockInv, Has, BusPcs
<1>6. OpenInv'
  <2>1. \A u \in Threads : ToClose(u)' <=> ToClose(u)
    BY <1>1, <1>2 DEF ToClose, OpInv, DownPcs
  <2>2. \A u \in Threads : Has(u)' <=> Has(u)
    BY <1>1, <1>2 DEF Has, BusPcs
  <2> QED BY <1>1, <1>2, <2>1, <2>2 DEF OpenInv, OpInv, Closed, DownPcs, UpPcs, Threads
<1>7. IrqInv'
  BY <1>1, <1>2 DEF IrqInv
<1>8. SemInv'
  BY <1>1, <1>2, SectionsSame DEF SemInv, DownOnce, Section, At
<1>9. UpInv'
  BY <1>1, <1>2 DEF UpInv, Has, At, BusPcs, Threads
<1> QED BY <1>3, <1>4, <1>5, <1>6, <1>7, <1>8, <1>9

LEMMA CloseFreeStep == ASSUME IInv, NEW t \in Threads, CloseFree(t) PROVE IInv'
<1> USE DEF IInv
<1>1. /\ th[t].pc = "free" /\ rings' = FALSE
      /\ UNCHANGED <<irq_sem, intr_mask, imr, isr, dis_int, requested, intr, napi,
                     napi_dis, poll, tail, phy_int, link, flaps, unresolved, carrier, at_down, events,
                     queued, present, running, dead, held, bound, ops, frames>>
  BY DEF CloseFree, At, irqVars, napiVars, linkVars, workVars, ifVars, busVars, lifeVars, flagVars, devVars, counts
<1>2. /\ th' \in [Threads -> [pc : Pcs, op : Ops]]
      /\ th'[t].pc = (IF th[t].op = "remove" THEN "freenet" ELSE "idle")
      /\ th'[t].op = (IF th[t].op = "remove" THEN "remove" ELSE "none")
      /\ \A u \in Threads : u # t => th'[u] = th[u]
  BY GotoMoves DEF CloseFree, Pcs
\* One close at a time.
<1>a. th[t].op \in {"close", "remove"} /\ ~running /\ \A u \in Threads : u # t => th[u].op \notin {"close", "remove"}
  BY <1>1 DEF OpInv, OpenInv, Threads
<1>3. TypeOK'
  <2>1. RegsOK'
    BY <1>1, RestType DEF RegsOK
  <2>2. FlagsOK'
    BY <1>1, RestType DEF FlagsOK
  <2>3. LifeOK'
    BY <1>1, RestType DEF LifeOK
  <2> QED BY <1>2, <2>1, <2>2, <2>3, TypeNext
<1>4. OpInv'
  BY <1>1, <1>2, <1>a DEF OpInv, DownPcs, UpPcs, Threads
<1>5. LockInv'
  BY <1>1, <1>2, <1>a DEF LockInv, Has, BusPcs
<1>6. OpenInv'
  <2>1. \A u \in Threads : ~ToClose(u)' /\ ~ToClose(u) /\ th'[u].pc # "free"
    BY <1>1, <1>2, <1>a DEF ToClose, OpInv, DownPcs
  <2>2. \A u \in Threads : Has(u)' <=> Has(u)
    BY <1>1, <1>2, <1>a DEF Has, BusPcs
  <2> QED BY <1>1, <1>2, <1>a, <2>1, <2>2 DEF OpenInv, OpInv, Closed, DownPcs, UpPcs, Threads
<1>7. IrqInv'
  BY <1>1, <1>2 DEF IrqInv
<1>8. SemInv'
  BY <1>1, <1>2, SectionsSame DEF SemInv, DownOnce, Section, At
<1>9. UpInv'
  BY <1>1, <1>2, <1>a DEF UpInv, Has, At, BusPcs, Threads
<1> QED BY <1>3, <1>4, <1>5, <1>6, <1>7, <1>8, <1>9

(***************************************************************************)
(* Suspend and resume, PCI error recovery                                  *)
(***************************************************************************)

LEMMA SuspendStep == ASSUME IInv, Suspend PROVE IInv'
<1> USE DEF IInv
<1>c. ops' \in 0 .. MaxOps
  BY AdapterAssumption, RestType DEF LifeOK, Count, Suspend
<1>1. /\ bound /\ th["bus"].pc = "idle" /\ th["net"].pc = "idle"
      /\ UNCHANGED <<irq_sem, intr_mask, imr, isr, dis_int, requested, intr, napi,
                     napi_dis, poll, tail, phy_int, link, flaps, unresolved, carrier, at_down, events,
                     queued, present, running, rings, dead, held, bound, frames>>
  BY DEF Suspend, Bus, Count, At, irqVars, napiVars, linkVars, workVars, ifVars, busVars, lifeVars, flagVars, devVars, counts
<1>t. "bus" \in Threads
  BY DEF Threads
<1>2. /\ th' \in [Threads -> [pc : Pcs, op : Ops]]
      /\ th'["bus"].pc = (IF running THEN "down" ELSE "detach") /\ th'["bus"].op = "pm"
      /\ \A u \in Threads : u # "bus" => th'[u] = th[u]
  <2>1. (IF running THEN "down" ELSE "detach") \in Pcs /\ "pm" \in Ops
    BY DEF Pcs, Ops
  <2>2. Begin("bus", IF running THEN "down" ELSE "detach", "pm")
    BY DEF Suspend
  <2> QED BY <1>t, <2>1, <2>2, BeginMoves
<1>a. th["bus"].op = "none" /\ ~Has("bus") /\ (th["net"].pc = "idle" => th["net"].op = "none")
  BY <1>1, <1>t DEF OpInv, Has, BusPcs, Threads
<1>3. TypeOK'
  <2>1. RegsOK'
    BY <1>1, RestType DEF RegsOK
  <2>2. FlagsOK'
    BY <1>1, RestType DEF FlagsOK
  <2>3. LifeOK'
    BY <1>1, <1>c, RestType DEF LifeOK
  <2> QED BY <1>2, <2>1, <2>2, <2>3, TypeNext
<1>4. OpInv'
  BY <1>1, <1>2 DEF OpInv, DownPcs, UpPcs, Threads
<1>5. LockInv'
  BY <1>1, <1>2, <1>a DEF LockInv, Has, BusPcs
<1>6. OpenInv'
  BY <1>1, <1>2, <1>a DEF OpenInv, OpInv, Closed, ToClose, Has, DownPcs, UpPcs, BusPcs, Threads
<1>7. IrqInv'
  BY <1>1, <1>2 DEF IrqInv
<1>8. SemInv'
  BY <1>1, <1>2, SectionsSame DEF SemInv, DownOnce, Section, At
<1>9. UpInv'
  BY <1>1, <1>2, <1>a DEF UpInv, Has, At, BusPcs, OpInv, Threads
<1> QED BY <1>3, <1>4, <1>5, <1>6, <1>7, <1>8, <1>9

LEMMA SuspendDetachStep == ASSUME IInv, SuspendDetach PROVE IInv'
<1> USE DEF IInv
<1>1. /\ th["bus"].pc = "detach" /\ present' = FALSE
      /\ UNCHANGED <<irq_sem, intr_mask, imr, isr, dis_int, requested, intr, napi,
                     napi_dis, poll, tail, phy_int, link, flaps, unresolved, carrier, at_down, events,
                     queued, running, rings, dead, held, bound, ops, frames>>
  BY DEF SuspendDetach, At, irqVars, napiVars, linkVars, workVars, ifVars, busVars, lifeVars, flagVars, devVars, counts
<1>t. "bus" \in Threads
  BY DEF Threads
<1>2. /\ th' \in [Threads -> [pc : Pcs, op : Ops]]
      /\ th'["bus"].pc = "suspended" /\ th'["bus"].op = th["bus"].op
      /\ \A u \in Threads : u # "bus" => th'[u] = th[u]
  BY <1>t, GotoMoves DEF SuspendDetach, Pcs
<1>3. TypeOK'
  <2>1. RegsOK'
    BY <1>1, RestType DEF RegsOK
  <2>2. FlagsOK'
    BY <1>1, RestType DEF FlagsOK
  <2>3. LifeOK'
    BY <1>1, RestType DEF LifeOK
  <2> QED BY <1>2, <2>1, <2>2, <2>3, TypeNext
<1>4. OpInv'
  BY <1>1, <1>2 DEF OpInv, DownPcs, UpPcs, Threads
<1>5. LockInv'
  BY <1>1, <1>2 DEF LockInv, Has, BusPcs
<1>6. OpenInv'
  BY <1>1, <1>2 DEF OpenInv, OpInv, Closed, ToClose, Has, DownPcs, UpPcs, BusPcs, Threads
<1>7. IrqInv'
  BY <1>1, <1>2 DEF IrqInv
<1>8. SemInv'
  BY <1>1, <1>2, SectionsSame DEF SemInv, DownOnce, Section, At
<1>9. UpInv'
  BY <1>1, <1>2 DEF UpInv, Has, At, BusPcs, Threads
<1> QED BY <1>3, <1>4, <1>5, <1>6, <1>7, <1>8, <1>9

LEMMA ResumeStep == ASSUME IInv, Resume PROVE IInv'
<1> USE DEF IInv
<1>1. /\ th["bus"].pc = "suspended" /\ th["bus"].op = "pm" /\ isr' = {} /\ present' = TRUE
      /\ UNCHANGED <<irq_sem, intr_mask, imr, dis_int, requested, intr, napi,
                     napi_dis, poll, tail, phy_int, link, flaps, unresolved, carrier, at_down, events,
                     queued, running, rings, dead, held, bound, ops, frames>>
  BY DEF Resume, OpInv, Threads, At, irqVars, napiVars, linkVars, workVars, ifVars, busVars, lifeVars, flagVars, devVars, counts
<1>t. "bus" \in Threads
  BY DEF Threads
<1>2. /\ th' \in [Threads -> [pc : Pcs, op : Ops]]
      /\ th'["bus"].pc = (IF running THEN "up" ELSE "idle") /\ th'["bus"].op = (IF running THEN "pm" ELSE "none")
      /\ \A u \in Threads : u # "bus" => th'[u] = th[u]
  BY <1>1, <1>t, GotoMoves DEF Resume, Pcs
<1>3. TypeOK'
  <2>1. RegsOK'
    BY <1>1, RestType DEF RegsOK
  <2>2. FlagsOK'
    BY <1>1, RestType DEF FlagsOK
  <2>3. LifeOK'
    BY <1>1, RestType DEF LifeOK
  <2> QED BY <1>2, <2>1, <2>2, <2>3, TypeNext
<1>4. OpInv'
  BY <1>1, <1>2 DEF OpInv, DownPcs, UpPcs, Threads
<1>5. LockInv'
  BY <1>1, <1>2, <1>t DEF LockInv, Has, BusPcs
<1>6. OpenInv'
  BY <1>1, <1>2 DEF OpenInv, OpInv, Closed, ToClose, Has, DownPcs, UpPcs, BusPcs, Threads
<1>7. IrqInv'
  BY <1>1, <1>2 DEF IrqInv
<1>8. SemInv'
  BY <1>1, <1>2, SectionsSame DEF SemInv, DownOnce, Section, At
<1>9. UpInv'
  BY <1>1, <1>2 DEF UpInv, Has, At, BusPcs, Threads
<1> QED BY <1>3, <1>4, <1>5, <1>6, <1>7, <1>8, <1>9

LEMMA ErrorDetectedStep == ASSUME IInv, ~Recovery, ErrorDetected PROVE IInv'
<1> USE DEF IInv
<1>c. ops' \in 0 .. MaxOps
  BY AdapterAssumption, RestType DEF LifeOK, Count, ErrorDetected
<1>1. /\ bound /\ th["bus"].pc = "idle" /\ th["net"].op \notin {"open", "close"} /\ present' = FALSE
      /\ UNCHANGED <<irq_sem, intr_mask, imr, isr, dis_int, requested, intr, napi,
                     napi_dis, poll, tail, phy_int, link, flaps, unresolved, carrier, at_down, events,
                     queued, running, rings, held, bound, frames>>
  BY DEF ErrorDetected, Bus, Count, At, irqVars, napiVars, linkVars, workVars, ifVars, busVars, lifeVars, flagVars, devVars, counts
<1>t. "bus" \in Threads
  BY DEF Threads
<1>2. CASE dead' = TRUE /\ th' = th
  <2>1. TypeOK'
    <3>1. RegsOK'
      BY <1>1, RestType DEF RegsOK
    <3>2. FlagsOK'
      BY <1>1, RestType DEF FlagsOK
    <3>3. LifeOK'
      BY <1>1, <1>2, <1>c, RestType DEF LifeOK
    <3> QED BY <1>2, <3>1, <3>2, <3>3, ThreadType, TypeNext
  <2>2. OpInv' /\ LockInv' /\ OpenInv' /\ IrqInv'
    BY <1>1, <1>2 DEF OpInv, LockInv, Has, OpenInv, Closed, ToClose, IrqInv
  <2>3. SemInv'
    BY <1>1, <1>2, SectionsSame DEF SemInv, DownOnce, Section, At
  <2>4. UpInv'
    BY <1>1, <1>2 DEF UpInv
  <2> QED BY <2>1, <2>2, <2>3, <2>4
<1>3. ASSUME dead' = dead, Begin("bus", IF running THEN "down" ELSE "aerwait", "aer")
      PROVE  IInv'
  <2>2. /\ th' \in [Threads -> [pc : Pcs, op : Ops]]
        /\ th'["bus"].pc = (IF running THEN "down" ELSE "aerwait") /\ th'["bus"].op = "aer"
        /\ \A u \in Threads : u # "bus" => th'[u] = th[u]
    <3>1. (IF running THEN "down" ELSE "aerwait") \in Pcs /\ "aer" \in Ops
      BY DEF Pcs, Ops
    <3> QED BY <1>t, <1>3, <3>1, BeginMoves
  <2>a. th["bus"].op = "none" /\ ~Has("bus")
    BY <1>1, <1>t DEF OpInv, Has, BusPcs, Threads
  <2>3. TypeOK'
    <3>1. RegsOK'
      BY <1>1, RestType DEF RegsOK
    <3>2. FlagsOK'
      BY <1>1, RestType DEF FlagsOK
    <3>3. LifeOK'
      BY <1>1, <1>3, <1>c, RestType DEF LifeOK
    <3> QED BY <2>2, <3>1, <3>2, <3>3, TypeNext
  <2>4. OpInv'
    BY <1>1, <2>2 DEF OpInv, DownPcs, UpPcs, Threads
  <2>5. LockInv'
    BY <1>1, <2>2, <2>a DEF LockInv, Has, BusPcs
  <2>6. OpenInv'
    BY <1>1, <2>2, <2>a DEF OpenInv, OpInv, Closed, ToClose, Has, DownPcs, UpPcs, BusPcs, Threads
  <2>7. IrqInv'
    BY <1>1, <2>2 DEF IrqInv
  <2>8. SemInv'
    BY <1>1, <2>2, SectionsSame DEF SemInv, DownOnce, Section, At
  <2>9. UpInv'
    BY <1>1, <2>2, <1>3, <2>a, <1>t DEF UpInv, Has, At, BusPcs, OpInv, Threads
  <2> QED BY <2>3, <2>4, <2>5, <2>6, <2>7, <2>8, <2>9
<1> QED BY <1>2, <1>3 DEF ErrorDetected

LEMMA SlotResetStep == ASSUME IInv, SlotReset PROVE IInv'
<1> USE DEF IInv
<1>1. /\ th["bus"].pc = "aerwait" /\ th["bus"].op = "aer" /\ isr' \in {isr, {}}
      /\ UNCHANGED <<irq_sem, intr_mask, imr, dis_int, requested, intr, napi,
                     napi_dis, poll, tail, phy_int, link, flaps, unresolved, carrier, at_down, events,
                     queued, present, running, rings, held, bound, ops, frames>>
  BY DEF SlotReset, At, OpInv, Threads, irqVars, napiVars, linkVars, workVars, ifVars, busVars, lifeVars, flagVars, devVars, counts
<1>t. "bus" \in Threads
  BY DEF Threads
<1>2. /\ th' \in [Threads -> [pc : Pcs, op : Ops]]
      /\ \/ th'["bus"].pc = "aerup" /\ th'["bus"].op = "aer" /\ dead' = dead
         \/ th'["bus"].pc = "idle" /\ th'["bus"].op = "none" /\ dead' = TRUE
      /\ \A u \in Threads : u # "bus" => th'[u] = th[u]
  BY <1>1, <1>t, GotoMoves DEF SlotReset, Pcs
<1>3. TypeOK'
  <2>1. RegsOK'
    BY <1>1, RestType DEF RegsOK
  <2>2. FlagsOK'
    BY <1>1, RestType DEF FlagsOK
  <2>3. LifeOK'
    BY <1>1, <1>2, RestType DEF LifeOK
  <2> QED BY <1>2, <2>1, <2>2, <2>3, TypeNext
<1>4. OpInv'
  BY <1>1, <1>2 DEF OpInv, DownPcs, UpPcs, Threads
<1>5. LockInv'
  BY <1>1, <1>2, <1>t DEF LockInv, Has, BusPcs
<1>6. OpenInv'
  BY <1>1, <1>2, <1>t DEF OpenInv, OpInv, Closed, ToClose, Has, DownPcs, UpPcs, BusPcs, Threads
<1>7. IrqInv'
  BY <1>1, <1>2 DEF IrqInv
<1>8. SemInv'
  BY <1>1, <1>2, SectionsSame DEF SemInv, DownOnce, Section, At
<1>9. UpInv'
  BY <1>1, <1>2, <1>t DEF UpInv, Has, At, BusPcs, OpInv, Threads
<1> QED BY <1>3, <1>4, <1>5, <1>6, <1>7, <1>8, <1>9

LEMMA IoResumeStep == ASSUME IInv, IoResume PROVE IInv'
<1> USE DEF IInv
<1>1. /\ th["bus"].pc = "aerup" /\ th["bus"].op = "aer"
      /\ UNCHANGED <<irq_sem, intr_mask, imr, isr, dis_int, requested, intr, napi,
                     napi_dis, poll, tail, phy_int, link, flaps, unresolved, carrier, at_down, events,
                     queued, present, running, rings, dead, held, bound, ops,
                     frames>>
  BY DEF IoResume, OpInv, Threads, At, irqVars, napiVars, linkVars, workVars, ifVars, busVars, lifeVars, flagVars, devVars, counts
<1>t. "bus" \in Threads
  BY DEF Threads
<1>2. /\ th' \in [Threads -> [pc : Pcs, op : Ops]]
      /\ th'["bus"].pc = (IF running THEN "up" ELSE "attach") /\ th'["bus"].op = "aer"
      /\ \A u \in Threads : u # "bus" => th'[u] = th[u]
  BY <1>1, <1>t, GotoMoves DEF IoResume, Pcs
<1>3. TypeOK'
  <2>1. RegsOK'
    BY <1>1, RestType DEF RegsOK
  <2>2. FlagsOK'
    BY <1>1, RestType DEF FlagsOK
  <2>3. LifeOK'
    BY <1>1, RestType DEF LifeOK
  <2> QED BY <1>2, <2>1, <2>2, <2>3, TypeNext
<1>4. OpInv'
  BY <1>1, <1>2 DEF OpInv, DownPcs, UpPcs, Threads
<1>5. LockInv'
  BY <1>1, <1>2, <1>t DEF LockInv, Has, BusPcs
<1>6. OpenInv'
  BY <1>1, <1>2 DEF OpenInv, OpInv, Closed, ToClose, Has, DownPcs, UpPcs, BusPcs, Threads
<1>7. IrqInv'
  BY <1>1, <1>2 DEF IrqInv
<1>8. SemInv'
  BY <1>1, <1>2, SectionsSame DEF SemInv, DownOnce, Section, At
<1>9. UpInv'
  BY <1>1, <1>2 DEF UpInv, Has, At, BusPcs, Threads
<1> QED BY <1>3, <1>4, <1>5, <1>6, <1>7, <1>8, <1>9

(***************************************************************************)
(* atl1c_probe, atl1c_remove                                               *)
(***************************************************************************)

LEMMA ProbeStep == ASSUME IInv, Probe PROVE IInv'
<1> USE DEF IInv
<1>c. ops' \in 0 .. MaxOps
  BY AdapterAssumption, RestType DEF LifeOK, Count, Probe
<1>1. /\ ~bound /\ UNCHANGED <<requested, intr, napi, napi_dis, poll, tail, phy_int, link, flaps, unresolved,
                     carrier, running, rings, frames>>
  BY DEF Probe, Count, irqVars, napiVars, linkVars, workVars, ifVars, busVars, lifeVars, flagVars, devVars, counts
<1>2. /\ \/ /\ irq_sem' = 1 /\ intr_mask' = Causes /\ imr' = {} /\ isr' = {} /\ dis_int' = FALSE
            /\ at_down' = TRUE /\ events' = {} /\ queued' = FALSE /\ present' = TRUE /\ dead' = FALSE
         \/ UNCHANGED <<irq_sem, intr_mask, imr, isr, dis_int, at_down, events, queued, present, dead>>
      /\ held' \subseteq held \cup Resources /\ bound' \in BOOLEAN /\ th' = th
  BY DEF Probe, Count, AcquiredBefore, Resources, irqVars, napiVars, linkVars, workVars, ifVars, busVars, lifeVars, flagVars, devVars, counts
\* Nothing is going on in an unbound driver.
<1>a. /\ ~running /\ ~queued /\ napi = "off" /\ \A u \in Threads : th[u].pc = "idle" /\ ~Has(u)
  BY <1>1 DEF OpenInv, Closed, ToClose, DownPcs
<1>3. TypeOK'
  <2>1. RegsOK'
    <3>1. irq_sem' \in Nat /\ intr_mask' \subseteq Causes /\ imr' \subseteq Causes
      BY <1>2, RestType DEF RegsOK
    <3>2. isr' \subseteq Causes /\ dis_int' \in BOOLEAN
      BY <1>2, RestType DEF RegsOK
    <3> QED BY <1>1, <3>1, <3>2, RestType DEF RegsOK
  <2>2. FlagsOK'
    BY <1>1, <1>2, RestType DEF FlagsOK
  <2>3. LifeOK'
    BY <1>1, <1>2, <1>c, RestType DEF LifeOK
  <2> QED BY <1>2, <2>1, <2>2, <2>3, ThreadType, TypeNext
<1>4. OpInv' /\ LockInv' /\ IrqInv'
  BY <1>1, <1>2 DEF OpInv, LockInv, Has, IrqInv
<1>5. OpenInv'
  BY <1>1, <1>2, <1>a DEF OpenInv, Closed, ToClose, Has
<1>6. SemInv'
  <2>1. Sections' = {} /\ Sections = {} /\ DownOnce' = 1 /\ DownOnce = 1
    BY <1>1, <1>2, <1>a DEF Sections, Section, DownOnce, At
  <2> QED BY <1>2, <2>1, FS_EmptySet DEF SemInv
<1>7. UpInv'
  BY <1>1, <1>2, <1>a DEF UpInv, Causes, At
<1> QED BY <1>3, <1>4, <1>5, <1>6, <1>7

LEMMA RemoveStep == ASSUME IInv, Remove PROVE IInv'
<1> USE DEF IInv
<1>c. ops' \in 0 .. MaxOps
  BY AdapterAssumption, RestType DEF LifeOK, Count, Remove
<1>1. /\ bound /\ th["bus"].pc = "idle" /\ th["net"].pc = "idle"
      /\ running' = FALSE /\ at_down' = (at_down \/ running)
      /\ UNCHANGED <<irq_sem, intr_mask, imr, isr, dis_int, requested, intr, napi,
                     napi_dis, poll, tail, phy_int, link, flaps, unresolved, carrier, events, queued,
                     present, rings, dead, held, bound, frames>>
  BY DEF Remove, Bus, RtnlFree, Count, At, irqVars, napiVars, linkVars, workVars, ifVars, busVars, lifeVars, flagVars, devVars, counts
<1>t. "bus" \in Threads
  BY DEF Threads
<1>2. /\ th' \in [Threads -> [pc : Pcs, op : Ops]]
      /\ th'["bus"].pc = (IF running THEN "cancel" ELSE "freenet") /\ th'["bus"].op = "remove"
      /\ \A u \in Threads : u # "bus" => th'[u] = th[u]
  <2>1. (IF running THEN "cancel" ELSE "freenet") \in Pcs /\ "remove" \in Ops
    BY DEF Pcs, Ops
  <2>2. Begin("bus", IF running THEN "cancel" ELSE "freenet", "remove")
    BY DEF Remove
  <2> QED BY <1>t, <2>1, <2>2, BeginMoves
\* Nobody else is in an operation, but for the work item.
<1>a. /\ th["net"].pc = "idle" /\ th["net"].op = "none" /\ th["bus"].op = "none" /\ ~Has("bus")
      /\ th["work"].op \in {"none", "reset", "link"} /\ (running => rings)
  BY <1>1, <1>t DEF OpInv, OpenInv, Has, BusPcs, Threads
<1>3. TypeOK'
  <2>1. RegsOK'
    BY <1>1, RestType DEF RegsOK
  <2>2. FlagsOK'
    BY <1>1, RestType DEF FlagsOK
  <2>3. LifeOK'
    BY <1>1, <1>c, RestType DEF LifeOK
  <2> QED BY <1>2, <2>1, <2>2, <2>3, TypeNext
<1>4. OpInv'
  BY <1>1, <1>2 DEF OpInv, DownPcs, UpPcs, Threads
<1>5. LockInv'
  BY <1>1, <1>2, <1>a DEF LockInv, Has, BusPcs
<1>6. OpenInv'
  BY <1>1, <1>2, <1>a, <1>t DEF OpenInv, OpInv, Closed, ToClose, Has, DownPcs, UpPcs, BusPcs, Threads
<1>7. IrqInv'
  BY <1>1, <1>2 DEF IrqInv
<1>8. SemInv'
  BY <1>1, <1>2, SectionsSame DEF SemInv, DownOnce, Section, At
<1>9. UpInv'
  BY <1>1, <1>2, <1>a, <1>t DEF UpInv, Has, At, BusPcs, OpInv, Threads
<1> QED BY <1>3, <1>4, <1>5, <1>6, <1>7, <1>8, <1>9

LEMMA RemoveFreeStep == ASSUME IInv, RemoveFree PROVE IInv'
<1> USE DEF IInv
<1>1. /\ th["bus"].pc = "freenet" /\ th["bus"].op = "remove" /\ poll = "idle" /\ ~queued /\ th["work"].pc = "idle"
      /\ held' = held \ Resources /\ bound' = FALSE
      /\ UNCHANGED <<irq_sem, intr_mask, imr, isr, dis_int, requested, intr, napi,
                     napi_dis, poll, tail, phy_int, link, flaps, unresolved, carrier, at_down, events,
                     queued, present, running, rings, dead, ops, frames>>
  BY DEF RemoveFree, OpInv, Threads, At, irqVars, napiVars, linkVars, workVars, ifVars, busVars, lifeVars, flagVars, devVars, counts
<1>t. "bus" \in Threads
  BY DEF Threads
<1>2. /\ th' \in [Threads -> [pc : Pcs, op : Ops]]
      /\ th'["bus"].pc = "idle" /\ th'["bus"].op = "none"
      /\ \A u \in Threads : u # "bus" => th'[u] = th[u]
  BY <1>t, GotoMoves DEF RemoveFree, Pcs
\* The device has been closed, and the rtnl lock is free.
<1>a. /\ ~running /\ th["net"].pc = "idle" /\ th["net"].op = "none" /\ th["work"].op = "none"
  BY <1>1, <1>t DEF OpInv, OpenInv, Threads
<1>3. TypeOK'
  <2>1. RegsOK'
    BY <1>1, RestType DEF RegsOK
  <2>2. FlagsOK'
    BY <1>1, RestType DEF FlagsOK
  <2>3. LifeOK'
    BY <1>1, RestType DEF LifeOK
  <2> QED BY <1>2, <2>1, <2>2, <2>3, TypeNext
<1>4. OpInv'
  BY <1>1, <1>2 DEF OpInv, DownPcs, UpPcs, Threads
<1>5. LockInv'
  BY <1>1, <1>2 DEF LockInv, Has, BusPcs
<1>6. OpenInv'
  <2>1. \A u \in Threads : ToClose(u)' <=> ToClose(u)
    BY <1>1, <1>2 DEF ToClose, DownPcs
  <2>2. \A u \in Threads : Has(u)' <=> Has(u)
    BY <1>1, <1>2 DEF Has, BusPcs
  <2>3. \A u \in Threads : th'[u].pc = "idle"
    BY <1>1, <1>2, <1>a DEF Threads
  <2> QED BY <1>1, <1>2, <1>a, <2>1, <2>2, <2>3 DEF OpenInv, Closed, DownPcs, UpPcs, Threads
<1>7. IrqInv'
  BY <1>1, <1>2 DEF IrqInv
<1>8. SemInv'
  BY <1>1, <1>2, SectionsSame DEF SemInv, DownOnce, Section, At
<1>9. UpInv'
  BY <1>1, <1>2, <1>a, <1>t DEF UpInv, Has, At, BusPcs, OpInv, Threads
<1> QED BY <1>3, <1>4, <1>5, <1>6, <1>7, <1>8, <1>9

LEMMA BusStepStep == ASSUME IInv, ~Recovery, BusStep PROVE IInv'
BY SuspendStep, SuspendDetachStep, ResumeStep, ErrorDetectedStep, SlotResetStep, IoResumeStep,
   ProbeStep, RemoveStep, RemoveFreeStep DEF BusStep

(***************************************************************************)
(* The invariant, and what follows from it                                 *)
(***************************************************************************)

LEMMA InitIInv == Init => IInv
<1> SUFFICES ASSUME Init PROVE IInv
  OBVIOUS
<1> USE DEF Init
<1>1. \A t \in Threads : th[t].pc = "idle" /\ th[t].op = "none"
  OBVIOUS
<1>2. TypeOK
  <2>1. IntrIdle \in [pc : {"idle", "rx", "rest"}, status : SUBSET Causes, left : 1 .. MaxIntWork]
    BY AdapterAssumption DEF IntrIdle
  <2>2. RegsOK
    BY <2>1 DEF RegsOK, IntrStates, Causes
  <2>3. FlagsOK /\ LifeOK
    <3>1. 0 \in 0 .. MaxFlaps /\ 0 \in 0 .. MaxOps /\ 0 \in 0 .. MaxFrames
      BY AdapterAssumption
    <3>2. FlagsOK
      BY <3>1 DEF FlagsOK
    <3>3. LifeOK
      BY <3>1 DEF LifeOK
    <3> QED BY <3>2, <3>3
  <2>4. th \in [Threads -> [pc : Pcs, op : Ops]]
    BY DEF Pcs, Ops
  <2> QED BY <2>2, <2>3, <2>4, TypeParts
<1>3. OpInv
  BY <1>1 DEF OpInv, DownPcs, UpPcs, Threads
<1>4. LockInv
  BY <1>1 DEF LockInv, Has, BusPcs
<1>5. OpenInv
  BY <1>1 DEF OpenInv, Closed, ToClose, Has, DownPcs, BusPcs, UpPcs, Threads
<1>6. IrqInv
  BY <1>1 DEF IrqInv, IntrIdle
<1>7. SemInv
  <2>1. Sections = {} /\ DownOnce = 1
    BY <1>1 DEF Sections, Section, DownOnce, At
  <2> QED BY <2>1, FS_EmptySet DEF SemInv
<1>8. UpInv
  BY DEF UpInv, Causes
<1> QED BY <1>2, <1>3, <1>4, <1>5, <1>6, <1>7, <1>8 DEF IInv

LEMMA StutterStep == ASSUME IInv, UNCHANGED vars PROVE IInv'
<1> USE DEF IInv, vars, irqVars, napiVars, linkVars, workVars, ifVars, busVars, lifeVars, flagVars,
            devVars, counts
<1>1. TypeOK'
  BY DEF TypeOK
<1>2. ~bound => ~queued
  BY DEF OpenInv
<1> QED BY <1>1, <1>2, StillStep DEF LockInv, UpInv

LEMMA NextStep == ASSUME ~Recovery, IInv, [Next]_vars PROVE IInv'
<1>1. ASSUME NEW t \in Threads, Thread(t) PROVE IInv'
  BY <1>1, DownStep, UpStep, AttachStep, CloseCancelStep, CloseFreeStep DEF Thread, Closing
<1> QED BY <1>1, HandlerStep, PollStep, DeviceStep, TaskStep, NetStep, BusStepStep, StutterStep DEF Next

\* Type correctness and the lock, the order of the operations, the interrupt
\* line and the count of irq_sem, all together, are an inductive invariant.
THEOREM AdapterInductive == ASSUME ~Recovery PROVE Spec => []IInv
<1>1. Init => IInv
  BY InitIInv
<1>2. IInv /\ [Next]_vars => IInv'
  BY NextStep
<1> QED BY <1>1, <1>2, PTL DEF Spec

\* irq_sem (atl1c_irq_disable and atl1c_irq_enable, atl1c_main.c) counts exactly
\* those who have the interrupt disabled: it is neither lost nor given twice.
THEOREM SemaphoreBalanced == ASSUME ~Recovery PROVE Spec => []IrqSemBalanced
<1>1. IInv => IrqSemBalanced
  <2>1. {t \in Threads : th[t].pc \in {"enable", "linkon", "vlan"}
                         \/ (At(t, "check") /\ th[t].op = "link")} = Sections
    BY DEF Sections, Section
  <2> QED BY <2>1 DEF IInv, SemInv, DownOnce, IrqSemBalanced
<1> QED BY <1>1, AdapterInductive, PTL

\* napi_disable and napi_enable keep two threads from taking the device down or
\* up at once, and no poll runs while one does.
THEOREM NapiLocks == ASSUME ~Recovery PROVE Spec => []NapiIsALock
<1>1. IInv => NapiIsALock
  BY DEF IInv, LockInv, IrqInv, Has, NapiIsALock, At
<1> QED BY <1>1, AdapterInductive, PTL

\* Once atl1c_close has freed the rings neither the handler, nor the poll, nor
\* an operation that takes the device down (atl1c_reset_dma_ring) or up is about
\* to touch them, and none is about to free them again.
THEOREM RingsOutlive == ASSUME ~Recovery PROVE Spec => []RingsOutliveUsers
<1>1. ASSUME IInv, ~rings
      PROVE  /\ intr.pc = "idle" /\ ~requested /\ poll # "run"
             /\ \A t \in Threads :
                   /\ th[t].pc \notin {"stop", "up", "request", "free"}
                   /\ At(t, "check") => th[t].op = "link"
  <2>1. Closed /\ \A t \in Threads : th[t].pc # "free"
    BY <1>1 DEF IInv, OpenInv, Closed
  <2>2. napi = "off" /\ \A t \in Threads : ~Has(t)
    BY <1>1, <2>1 DEF IInv, OpenInv
  <2>3. \A t \in Threads :
           /\ th[t].pc \notin {"stop", "up", "request", "free"}
           /\ At(t, "check") => th[t].op = "link"
    BY <2>1, <2>2 DEF Has, At
  <2>4. intr.pc = "idle" /\ ~requested /\ poll # "run"
    BY <1>1, <2>2 DEF IInv, IrqInv, LockInv, Has
  <2> QED BY <2>3, <2>4
<1>2. IInv => RingsOutliveUsers
  BY <1>1 DEF RingsOutliveUsers
<1> QED BY <1>2, AdapterInductive, PTL

\* When every operation has ended, a running device that has not failed is up
\* again, however the operations overlapped.
THEOREM SettledUp == ASSUME ~Recovery PROVE Spec => []SettledIsUp
<1>1. ASSUME IInv, running, ~dead, \A t \in Threads : At(t, "idle")
      PROVE  /\ irq_sem = 0 /\ requested /\ napi # "off" /\ ~at_down /\ rings /\ present
             /\ {"gphy", "error"} \subseteq imr
  <2> USE DEF IInv
  <2>1. \A t \in Threads : th[t].pc = "idle" /\ th[t].op = "none"
    BY <1>1 DEF OpInv, At
  <2>2. \A t \in Threads : ~Has(t) /\ ~Section(t)
    BY <2>1 DEF Has, BusPcs, Section, At
  <2>3. napi # "off" /\ ~at_down /\ requested /\ rings
    BY <1>1, <2>1, <2>2 DEF UpInv, At, IrqInv, OpenInv
  <2>4. present
    BY <1>1, <2>1 DEF UpInv, Threads
  <2>5. Sections = {} /\ DownOnce = 0
    BY <2>2, <2>3 DEF Sections, DownOnce
  <2>6. irq_sem = 0
    BY <1>1, <2>5, FS_EmptySet DEF SemInv
  <2> QED BY <1>1, <2>3, <2>4, <2>6 DEF UpInv
<1>2. IInv => SettledIsUp
  BY <1>1 DEF SettledIsUp
<1> QED BY <1>2, AdapterInductive, PTL

(***************************************************************************)
(* What atl1c_probe keeps                                                  *)
(***************************************************************************)

LEMMA HeldStay ==
    ASSUME Handler \/ Poll \/ PhyChange \/ TxTimeout \/ (\E c \in Causes : Raise(c))
           \/ (\E t \in Threads : Thread(t)) \/ Task \/ Net
           \/ Suspend \/ SuspendDetach \/ Resume \/ ErrorDetected \/ SlotReset \/ IoResume \/ Remove
    PROVE  held' = held /\ bound' = bound
<1> USE DEF lifeVars, busVars
<1>1. Handler \/ Poll \/ PhyChange \/ TxTimeout \/ (\E c \in Causes : Raise(c)) => UNCHANGED <<held, bound>>
  BY DEF Handler, HandlerAck, HandlerRx, HandlerError, HandlerLink, HandlerLoop, Poll, PollStart,
         PollComplete, PollFull, PollUnmask, PollWrite, PhyChange, TxTimeout, Raise
<1>2. ASSUME NEW t \in Threads, Thread(t)
      PROVE  UNCHANGED <<held, bound>>
  BY <1>2 DEF Thread, Down, DownMark, DownNapi, DownIrq, DownFree, DownStop, Up, UpConfigure, UpRequest,
              UpFail, UpCheck, UpClear, UpEnable, Attach, Closing, CloseCancel, CloseFree
<1>3. Task \/ Net => UNCHANGED <<held, bound>>
  BY DEF Task, TaskRun, TaskReset, TaskLink, TaskDone, TaskCheck, TaskLinkOn, Net, Open, Close, Reinit,
         SetFeatures, VlanMode
<1>4. Suspend \/ SuspendDetach \/ Resume \/ ErrorDetected \/ SlotReset \/ IoResume \/ Remove
        => UNCHANGED <<held, bound>>
  BY DEF Suspend, SuspendDetach, Resume, ErrorDetected, SlotReset, IoResume, Remove
<1> QED BY <1>1, <1>2, <1>3, <1>4

\* Whatever step of atl1c_probe fails, but for the DMA mask, its goto releases
\* all that has been acquired, and atl1c_remove releases the rest.
THEOREM ProbeKeepsAllOrNothing ==
    ASSUME "dma" \notin Failures PROVE Spec => []ProbeAllOrNothing
<1>1. Init => ProbeAllOrNothing
  BY DEF Init, ProbeAllOrNothing
<1>2. ASSUME ProbeAllOrNothing, [Next]_vars
      PROVE  ProbeAllOrNothing'
  <2>1. ASSUME Probe
        PROVE  ProbeAllOrNothing'
    <3>1. ~bound /\ held = {}
      BY <1>2, <2>1 DEF Probe, ProbeAllOrNothing
    <3>2. CASE held' = held \cup Resources /\ bound' = TRUE
      BY <3>1, <3>2 DEF ProbeAllOrNothing
    <3>3. ASSUME NEW step \in Steps \cap Failures,
                 held' = (held \cup AcquiredBefore(step)) \ ReleasedAfter(step),
                 bound' = (step = "dma")
          PROVE  ProbeAllOrNothing'
      <4>1. step # "dma"
        BY <3>3
      <4>2. AcquiredBefore(step) \subseteq ReleasedAfter(step)
        BY <4>1 DEF AcquiredBefore, ReleasedAfter, Resources, Steps
      <4> QED BY <3>1, <3>3, <4>1, <4>2 DEF ProbeAllOrNothing
    <3> QED BY <2>1, <3>2, <3>3 DEF Probe
  <2>2. ASSUME RemoveFree
        PROVE  ProbeAllOrNothing'
    BY <1>2, <2>2 DEF RemoveFree, ProbeAllOrNothing
  <2>3. ASSUME held' = held, bound' = bound
        PROVE  ProbeAllOrNothing'
    BY <1>2, <2>3 DEF ProbeAllOrNothing
  <2>4. UNCHANGED vars => held' = held /\ bound' = bound
    BY DEF vars, lifeVars, busVars
  <2> QED BY <1>2, <2>1, <2>2, <2>3, <2>4, HeldStay DEF Next, BusStep
<1> QED BY <1>1, <1>2, PTL DEF Spec
=============================================================================
