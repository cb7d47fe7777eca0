------------------------------ MODULE Adapter ------------------------------
(***************************************************************************)
(* The life of an atl1c adapter (4-atl1c): probe and remove, open and      *)
(* close, the operations that take the device down and up again (change of *)
(* MTU, nway_reset, the work item's reset, suspend and resume, PCI error   *)
(* recovery), and what they share with the interrupt handler and the NAPI  *)
(* poll: irq_sem, the registers ISR and IMR, the poll's SCHED bit, the     *)
(* interrupt line, __AT_DOWN and the rings.                                *)
(*                                                                         *)
(* Three threads run the driver's code: "net" is whoever holds the rtnl    *)
(* lock, "work" is the work item, "bus" the PCI and power management       *)
(* core. Packets are left to TpdRing and RxRing.                           *)
(***************************************************************************)
EXTENDS Integers, FiniteSets

CONSTANTS
    NetOps,    \* what user space does: subset of {"mtu", "nway", "features"}
    BusOps,    \* what the bus does: subset of {"pm", "aer", "probe"}
    Failures,  \* subset of {"up", "slot", "perm", "speed"} and of the steps of atl1c_probe
    Recovery,  \* PCI error recovery may overlap open and close
    Flood,     \* a poll may find as many frames as its budget
    MaxIntWork,
    MaxFlaps,  \* bound: how often the link may change
    MaxOps,    \* bound: operations of the user and the bus, errors, timeouts
    MaxFrames  \* bound: bursts of frames

Threads == {"net", "work", "bus"}
Causes  == {"rx", "gphy", "error"}

ASSUME AdapterAssumption ==
    /\ NetOps \subseteq {"mtu", "nway", "features"}
    /\ BusOps \subseteq {"pm", "aer", "probe"}
    /\ Recovery \in BOOLEAN /\ Flood \in BOOLEAN
    /\ MaxIntWork \in Nat \ {0} /\ MaxFlaps \in Nat
    /\ MaxOps \in Nat /\ MaxFrames \in Nat

VARIABLES
    irq_sem, intr_mask, imr,
    isr, dis_int,      \* causes latched in ISR, and its bit ISR_DIS_INT
    requested,         \* between request_irq and free_irq
    intr,              \* the handler: where it is, status, max_ints
    napi, napi_dis,    \* who has SCHED ("on": nobody), and NAPI_STATE_DISABLE
    poll, tail,        \* atl1c_clean, and its end once it has given SCHED up
    phy_int, link, flaps,
    unresolved,        \* history: the link is as the last check of it found it,
                       \* up but of no speed the driver could read
    carrier, at_down, events, queued,
    present, running,  \* netif_device_present, netif_running
    rings,             \* the rings are allocated
    dead,              \* an atl1c_up or a slot reset has failed on a running device
    held, bound,       \* what atl1c_probe has acquired; the driver is bound
    th,                \* per thread: where it is and for what
    ops, frames        \* how many operations, errors and timeouts, and frames

irqVars  == <<irq_sem, intr_mask, imr, isr, dis_int>>
napiVars == <<napi, napi_dis, poll, tail>>
linkVars == <<phy_int, link, flaps, unresolved>>
workVars == <<events, queued>>
ifVars   == <<present, running, rings, dead>>
busVars  == <<held, bound>>
lifeVars == <<ifVars, busVars>>
flagVars == <<carrier, at_down>>
devVars  == <<irqVars, requested, intr, napiVars>>
counts   == <<ops, frames>>
vars     == <<devVars, linkVars, flagVars, workVars, lifeVars, th, counts>>

IntrIdle == [pc |-> "idle", status |-> {}, left |-> MaxIntWork]

At(t, p)     == th[t].pc = p
Goto(t, p)   ==
    th' = [th EXCEPT ![t] = IF p = "idle" THEN [pc |-> p, op |-> "none"]
                                         ELSE [@ EXCEPT !.pc = p]]
Begin(t, p, o) == th' = [th EXCEPT ![t] = [pc |-> p, op |-> o]]

Count == ops < MaxOps /\ ops' = ops + 1 /\ UNCHANGED frames

NoCount == UNCHANGED <<counts>>

Frame == frames < MaxFrames /\ frames' = frames + 1 /\ UNCHANGED ops

RtnlFree == At("net", "idle") /\ th["bus"].op # "remove"

\* User space is frozen from suspend to resume.
Frozen == th["bus"].op = "pm"

(***************************************************************************)
(* irq_sem and the registers                                               *)
(***************************************************************************)

IrqDisable ==
    /\ irq_sem' = irq_sem + 1
    /\ imr' = {} /\ dis_int' = TRUE

\* Writing 0x7FFFFFFF to ISR acknowledges everything and clears DIS_INT.
IrqEnable ==
    /\ irq_sem' = irq_sem - 1
    /\ IF irq_sem = 1
       THEN isr' = {} /\ dis_int' = FALSE /\ imr' = intr_mask
       ELSE UNCHANGED <<isr, dis_int, imr>>

(***************************************************************************)
(* atl1c_intr                                                              *)
(***************************************************************************)

\* The status is read and acknowledged (the PHY's own interrupt first).
Acknowledge(status, left) ==
    /\ intr' = [pc |-> "rx", status |-> status, left |-> left]
    /\ phy_int' = (phy_int /\ "gphy" \notin status)
    /\ isr' = isr \ status
    /\ dis_int' = TRUE

HandlerAck ==
    LET status == isr \cap intr_mask IN
    /\ intr.pc = "idle" /\ requested /\ ~dis_int /\ isr \cap imr # {}
    /\ status # {}
    /\ Acknowledge(status, MaxIntWork)
    /\ UNCHANGED <<irq_sem, intr_mask, imr, requested, napiVars, link, flaps, unresolved,
                   flagVars, workVars, lifeVars, th, counts>>

\* napi_schedule_prep, and RX_PKT is masked until the poll has finished.
HandlerRx ==
    /\ intr.pc = "rx"
    /\ intr' = [intr EXCEPT !.pc = "rest"]
    /\ IF "rx" \in intr.status /\ napi = "on" /\ ~napi_dis
       THEN /\ intr_mask' = intr_mask \ {"rx"}
            /\ imr' = intr_mask'
            /\ napi' = "sched" /\ poll' = "sched"
       ELSE UNCHANGED <<intr_mask, imr, napi, poll>>
    /\ UNCHANGED <<irq_sem, isr, dis_int, requested, napi_dis, tail, linkVars, flagVars,
                   workVars, lifeVars, th, counts>>

\* Mutant: the reset is noted but the work item is not scheduled.
HandlerErrorUnscheduled ==
    /\ intr.pc = "rest" /\ "error" \in intr.status
    /\ events' = events \cup {"reset"}
    /\ intr' = IntrIdle
    /\ UNCHANGED <<irqVars, requested, napiVars, linkVars, flagVars, queued, lifeVars, th,
                   counts>>

\* An error returns with DIS_INT still set: only the reset clears it.
HandlerError ==
    /\ intr.pc = "rest" /\ "error" \in intr.status
    /\ events' = events \cup {"reset"} /\ queued' = TRUE
    /\ intr' = IntrIdle
    /\ UNCHANGED <<irqVars, requested, napiVars, linkVars, flagVars, lifeVars, th, counts>>

\* Mutant: the link is read but the work item not told.
HandlerLinkQuiet ==
    /\ intr.pc = "rest" /\ "gphy" \in intr.status /\ "error" \notin intr.status
    /\ carrier' = (carrier /\ link)
    /\ intr' = IntrIdle /\ dis_int' = FALSE
    /\ UNCHANGED <<irq_sem, intr_mask, imr, isr, requested, napiVars, linkVars, workVars,
                   at_down, lifeVars, th, counts>>

\* atl1c_link_chg_event, whatever __AT_DOWN says.
HandlerLink ==
    /\ intr.pc = "rest" /\ "gphy" \in intr.status /\ "error" \notin intr.status
    /\ carrier' = (carrier /\ link)
    /\ events' = events \cup {"link"} /\ queued' = TRUE
    /\ intr' = IntrIdle /\ dis_int' = FALSE
    /\ UNCHANGED <<irq_sem, intr_mask, imr, isr, requested, napiVars, linkVars, at_down,
                   lifeVars, th, counts>>

\* Another look at ISR, at most AT_MAX_INT_WORK times.
HandlerLoop ==
    LET status == isr \cap intr_mask IN
    /\ intr.pc = "rest" /\ intr.status \cap {"gphy", "error"} = {}
    /\ IF status # {} /\ intr.left > 1
       THEN Acknowledge(status, intr.left - 1)
       ELSE intr' = IntrIdle /\ dis_int' = FALSE /\ UNCHANGED <<phy_int, isr>>
    /\ UNCHANGED <<irq_sem, intr_mask, imr, requested, napiVars, link, flaps, unresolved,
                   flagVars, workVars, lifeVars, th, counts>>

Handler ==
    HandlerAck \/ HandlerRx \/ HandlerError \/ HandlerLink \/ HandlerLoop

(***************************************************************************)
(* atl1c_clean                                                             *)
(***************************************************************************)

\* Without a carrier no frame is looked at.
PollStart ==
    /\ poll = "sched"
    /\ poll' = IF carrier THEN "run" ELSE "quit"
    /\ UNCHANGED <<irqVars, requested, intr, napi, napi_dis, tail, linkVars, flagVars,
                   workVars, lifeVars, th, counts>>

\* With budget to spare: napi_complete. (Bound: no poll, on whatever CPU, comes
\* to its end before the end of the one before it is over.)
PollComplete ==
    /\ poll \in {"run", "quit"} /\ tail = "idle"
    /\ napi' = "on" /\ poll' = "idle" /\ tail' = "unmask"
    /\ UNCHANGED <<irqVars, requested, intr, napi_dis, linkVars, flagVars, workVars,
                   lifeVars, th, counts>>

\* The budget is used up: polled again; unless someone waits in napi_disable,
\* then net_rx_action completes, and nobody unmasks RX_PKT.
PollFull ==
    /\ Flood /\ Frame /\ poll = "run"
    /\ IF napi_dis THEN napi' = "on" /\ poll' = "idle" ELSE poll' = "sched" /\ UNCHANGED napi
    /\ UNCHANGED <<irqVars, requested, intr, napi_dis, tail, linkVars, flagVars, workVars,
                   lifeVars, th>>

\* The poll has given SCHED up when it changes the mask and then IMR: the
\* handler may have scheduled the next one by then.
PollUnmask ==
    /\ tail = "unmask"
    /\ intr_mask' = intr_mask \cup {"rx"}
    /\ tail' = "write"
    /\ UNCHANGED <<irq_sem, imr, isr, dis_int, requested, intr, napi, napi_dis, poll,
                   linkVars, flagVars, workVars, lifeVars, th, counts>>

PollWrite ==
    /\ tail = "write"
    /\ imr' = intr_mask
    /\ tail' = "idle"
    /\ UNCHANGED <<irq_sem, intr_mask, isr, dis_int, requested, intr, napi, napi_dis,
                   poll, linkVars, flagVars, workVars, lifeVars, th, counts>>

Poll == PollStart \/ PollComplete \/ PollFull \/ PollUnmask \/ PollWrite

(***************************************************************************)
(* The device: frames, errors, the PHY                                     *)
(***************************************************************************)

Raise(c) ==
    /\ rings /\ c \notin isr
    /\ c = "gphy" => phy_int
    /\ CASE c = "error" -> Count [] c = "rx" -> Frame [] OTHER -> NoCount
    /\ isr' = isr \cup {c}
    /\ UNCHANGED <<irq_sem, intr_mask, imr, dis_int, requested, intr, napiVars, linkVars,
                   flagVars, workVars, lifeVars, th>>

PhyChange ==
    /\ flaps < MaxFlaps
    /\ flaps' = flaps + 1 /\ link' = ~link /\ phy_int' = TRUE
    /\ unresolved' = FALSE
    /\ UNCHANGED <<devVars, flagVars, workVars, lifeVars, th, counts>>

\* The stack's watchdog finds the transmit queue stuck: atl1c_tx_timeout.
TxTimeout ==
    /\ Count
    /\ running /\ present /\ carrier /\ rings
    /\ events' = events \cup {"reset"} /\ queued' = TRUE
    /\ UNCHANGED <<devVars, linkVars, flagVars, lifeVars, th>>

(***************************************************************************)
(* atl1c_down                                                              *)
(***************************************************************************)

DownMark(t) ==
    /\ At(t, "down")
    /\ events' = {} /\ at_down' = TRUE /\ carrier' = FALSE
    /\ napi_dis' = TRUE
    /\ Goto(t, "napi")
    /\ UNCHANGED <<irqVars, requested, intr, napi, poll, tail, linkVars, queued,
                   lifeVars, counts>>

\* Mutant: the poll, and who else has NAPI disabled, is not waited for.
DownNapiNow(t) ==
    /\ At(t, "napi")
    /\ napi' = "off" /\ napi_dis' = FALSE
    /\ Goto(t, "irqoff")
    /\ UNCHANGED <<irqVars, requested, intr, poll, tail, linkVars, flagVars, workVars,
                   lifeVars, counts>>

\* napi_disable waits until SCHED is free and takes it.
DownNapi(t) ==
    /\ At(t, "napi") /\ napi = "on"
    /\ napi' = "off" /\ napi_dis' = FALSE
    /\ Goto(t, "irqoff")
    /\ UNCHANGED <<irqVars, requested, intr, poll, tail, linkVars, flagVars, workVars,
                   lifeVars, counts>>

\* Mutant: atl1c_down relies on free_irq alone.
DownIrqSkip(t) ==
    /\ At(t, "irqoff")
    /\ Goto(t, "freeirq")
    /\ UNCHANGED <<devVars, linkVars, flagVars, workVars, lifeVars, counts>>

DownIrq(t) ==
    /\ At(t, "irqoff")
    /\ IrqDisable
    /\ Goto(t, "freeirq")
    /\ UNCHANGED <<intr_mask, isr, requested, intr, napiVars, linkVars, flagVars,
                   workVars, lifeVars, counts>>

\* free_irq: the handler is not called any more, and waited for before the
\* next step.
DownFree(t) ==
    /\ At(t, "freeirq")
    /\ requested' = FALSE
    /\ Goto(t, "stop")
    /\ UNCHANGED <<irqVars, intr, napiVars, linkVars, flagVars, workVars, lifeVars, counts>>

\* Where each operation goes on once the device is down.
AfterDown(op) ==
    CASE op \in {"mtu", "nway", "reset"} -> "up"
      [] op \in {"close", "remove"}      -> "free"
      [] op = "pm"                       -> "detach"
      [] op = "aer"                      -> "aerwait"

\* Mutant: the handler is not waited for.
DownStopEarly(t) ==
    /\ At(t, "stop")
    /\ isr' = {}
    /\ Goto(t, AfterDown(th[t].op))
    /\ UNCHANGED <<irq_sem, intr_mask, imr, dis_int, requested, intr, napiVars, linkVars,
                   flagVars, workVars, lifeVars, counts>>

\* atl1c_reset_mac, atl1c_reset_dma_ring.
DownStop(t) ==
    /\ At(t, "stop") /\ intr.pc = "idle"
    /\ isr' = {}
    /\ Goto(t, AfterDown(th[t].op))
    /\ UNCHANGED <<irq_sem, intr_mask, imr, dis_int, requested, intr, napiVars, linkVars,
                   flagVars, workVars, lifeVars, counts>>

Down(t) == DownMark(t) \/ DownNapi(t) \/ DownIrq(t) \/ DownFree(t) \/ DownStop(t)

(***************************************************************************)
(* atl1c_up                                                                *)
(***************************************************************************)

\* atl1c_configure: atl1c_vlan_mode's pair of irq_disable and irq_enable
\* nests in the caller's.
UpConfigure(t) ==
    /\ At(t, "up")
    /\ carrier' = FALSE
    /\ imr' = {} /\ dis_int' = TRUE
    /\ Goto(t, "request")
    /\ UNCHANGED <<irq_sem, intr_mask, isr, requested, intr, napiVars, linkVars, at_down,
                   workVars, lifeVars, counts>>

UpRequest(t) ==
    /\ At(t, "request")
    /\ requested' = TRUE
    /\ Goto(t, "check")
    /\ UNCHANGED <<irqVars, intr, napiVars, linkVars, flagVars, workVars, lifeVars, counts>>

\* No buffer, no idle MAC or no interrupt. An open gives the rings back; the
\* others leave the device down, and only atl1c_io_resume leaves it detached.
UpFail(t) ==
    /\ "up" \in Failures /\ At(t, "request")
    /\ Goto(t, IF th[t].op = "reset" THEN "attach" ELSE "idle")
    /\ IF th[t].op = "open"
       THEN running' = FALSE /\ rings' = FALSE /\ UNCHANGED dead
       ELSE dead' = TRUE /\ UNCHANGED <<running, rings>>
    /\ UNCHANGED <<devVars, linkVars, flagVars, workVars, present, busVars, counts>>

\* atl1c_check_link_status: without a link the MAC is reset, the rings are
\* cleaned and the device is configured again. With one whose speed cannot be
\* read it returns and leaves the carrier as it was.
CheckLinkStatus ==
    \/ /\ carrier' = link /\ unresolved' = FALSE
       /\ IF link THEN UNCHANGED <<isr, imr, dis_int>>
                  ELSE isr' = {} /\ imr' = {} /\ dis_int' = TRUE
    \/ /\ link /\ "speed" \in Failures
       /\ unresolved' = TRUE
       /\ UNCHANGED <<carrier, isr, imr, dis_int>>

UpCheck(t) ==
    /\ At(t, "check") /\ th[t].op # "link"
    /\ CheckLinkStatus
    /\ Goto(t, "clear")
    /\ UNCHANGED <<irq_sem, intr_mask, requested, intr, napiVars, phy_int, link, flaps,
                   at_down, workVars, lifeVars, counts>>

\* Mutant: __AT_DOWN is left set.
UpClearDown(t) ==
    /\ At(t, "clear")
    /\ napi' = "on"
    /\ Goto(t, "enable")
    /\ UNCHANGED <<irqVars, requested, intr, napi_dis, poll, tail, linkVars, flagVars,
                   workVars, lifeVars, counts>>

\* napi_enable.
UpClear(t) ==
    /\ At(t, "clear")
    /\ at_down' = FALSE
    /\ napi' = "on"
    /\ Goto(t, "enable")
    /\ UNCHANGED <<irqVars, requested, intr, napi_dis, poll, tail, linkVars, carrier,
                   workVars, lifeVars, counts>>

UpEnable(t) ==
    /\ At(t, "enable")
    /\ IrqEnable
    /\ Goto(t, IF th[t].op \in {"reset", "aer"} THEN "attach" ELSE "idle")
    /\ UNCHANGED <<intr_mask, requested, intr, napiVars, linkVars, flagVars, workVars,
                   lifeVars, counts>>

Up(t) ==
    UpConfigure(t) \/ UpRequest(t) \/ UpFail(t) \/ UpCheck(t) \/ UpClear(t) \/ UpEnable(t)

\* netif_device_attach, after a reset and after atl1c_io_resume.
Attach(t) ==
    /\ At(t, "attach")
    /\ present' = TRUE
    /\ Goto(t, IF t = "work" THEN "tasklink" ELSE "idle")
    /\ UNCHANGED <<devVars, linkVars, flagVars, workVars, running, rings, dead, busVars,
                   counts>>

(***************************************************************************)
(* atl1c_common_task                                                       *)
(***************************************************************************)

TaskRun ==
    /\ queued /\ At("work", "idle")
    /\ queued' = FALSE
    /\ IF at_down THEN UNCHANGED th ELSE Goto("work", "task")
    /\ UNCHANGED <<devVars, linkVars, flagVars, events, lifeVars, counts>>

\* The reset begins with netif_device_detach.
TaskReset ==
    /\ At("work", "task") /\ "reset" \in events
    /\ events' = events \ {"reset"}
    /\ present' = FALSE
    /\ Begin("work", "down", "reset")
    /\ UNCHANGED <<devVars, linkVars, flagVars, queued, running, rings, dead, busVars,
                   counts>>

TaskLink ==
    /\ \/ At("work", "task") /\ "reset" \notin events
       \/ At("work", "tasklink")
    /\ "link" \in events
    /\ events' = events \ {"link"}
    /\ IrqDisable
    /\ Begin("work", "check", "link")
    /\ UNCHANGED <<intr_mask, isr, requested, intr, napiVars, linkVars, flagVars, queued,
                   lifeVars, counts>>

TaskDone ==
    /\ \/ At("work", "task") /\ "reset" \notin events
       \/ At("work", "tasklink")
    /\ "link" \notin events
    /\ Goto("work", "idle")
    /\ UNCHANGED <<devVars, linkVars, flagVars, workVars, lifeVars, counts>>

\* atl1c_irq_disable has waited for the handler.
TaskCheck ==
    /\ At("work", "check") /\ th["work"].op = "link" /\ intr.pc = "idle"
    /\ CheckLinkStatus
    /\ Goto("work", "linkon")
    /\ UNCHANGED <<irq_sem, intr_mask, requested, intr, napiVars, phy_int, link, flaps,
                   at_down, workVars, lifeVars, counts>>

TaskLinkOn ==
    /\ At("work", "linkon")
    /\ IrqEnable
    /\ Goto("work", "idle")
    /\ UNCHANGED <<intr_mask, requested, intr, napiVars, linkVars, flagVars, workVars,
                   lifeVars, counts>>

Task == TaskRun \/ TaskReset \/ TaskLink \/ TaskDone \/ TaskCheck \/ TaskLinkOn

(***************************************************************************)
(* The net_device and ethtool operations, under the rtnl lock              *)
(***************************************************************************)

User(op) == RtnlFree /\ ~Frozen /\ bound /\ present /\ op \in NetOps \cup {"open", "close"}

\* atl1c_setup_ring_resources, atl1c_up.
Open ==
    /\ Count
    /\ User("open") /\ ~running
    /\ Recovery \/ th["bus"].op # "aer"
    /\ running' = TRUE /\ rings' = TRUE
    /\ Begin("net", "up", "open")
    /\ UNCHANGED <<devVars, linkVars, flagVars, workVars, present, dead, busVars>>

\* The stack clears netif_running first; atl1c_close sets __AT_DOWN.
Close ==
    /\ Count
    /\ RtnlFree /\ ~Frozen /\ running
    /\ Recovery \/ th["bus"].op # "aer"
    /\ running' = FALSE /\ at_down' = TRUE
    /\ Begin("net", "cancel", "close")
    /\ UNCHANGED <<devVars, linkVars, carrier, workVars, present, rings, dead, busVars>>

\* cancel_work_sync waits for the work item.
CloseCancel(t) ==
    /\ At(t, "cancel") /\ At("work", "idle")
    /\ queued' = FALSE
    /\ Goto(t, "down")
    /\ UNCHANGED <<devVars, linkVars, flagVars, events, lifeVars, counts>>

\* atl1c_free_ring_resources.
CloseFree(t) ==
    /\ At(t, "free")
    /\ rings' = FALSE
    /\ Goto(t, IF th[t].op = "remove" THEN "freenet" ELSE "idle")
    /\ UNCHANGED <<devVars, linkVars, flagVars, workVars, present, running, dead, busVars,
                   counts>>

\* atl1c_change_mtu, and nway_reset's atl1c_reinit_locked. __AT_RESETTING adds
\* nothing to the rtnl lock both hold.
Reinit(op) ==
    /\ Count
    /\ User(op) /\ running /\ op \in {"mtu", "nway"}
    /\ Begin("net", "down", op)
    /\ UNCHANGED <<devVars, linkVars, flagVars, workVars, lifeVars>>

\* atl1c_set_features: atl1c_vlan_mode, on a device that is down too.
SetFeatures ==
    /\ Count
    /\ User("features")
    /\ IrqDisable
    /\ Begin("net", "vlan", "features")
    /\ UNCHANGED <<intr_mask, isr, requested, intr, napiVars, linkVars, flagVars,
                   workVars, lifeVars>>

VlanMode ==
    /\ At("net", "vlan") /\ intr.pc = "idle"
    /\ IrqEnable
    /\ Goto("net", "idle")
    /\ UNCHANGED <<intr_mask, requested, intr, napiVars, linkVars, flagVars, workVars,
                   lifeVars, counts>>

Net ==
    \/ Open \/ Close \/ SetFeatures \/ VlanMode
    \/ \E op \in NetOps : Reinit(op)

Closing(t) == CloseCancel(t) \/ CloseFree(t)

(***************************************************************************)
(* atl1c_suspend, atl1c_resume                                             *)
(***************************************************************************)

Bus(op) == At("bus", "idle") /\ bound /\ op \in BusOps

\* User space is frozen, the work item is not.
Suspend ==
    /\ Count
    /\ Bus("pm") /\ At("net", "idle")
    /\ Begin("bus", IF running THEN "down" ELSE "detach", "pm")
    /\ UNCHANGED <<devVars, linkVars, flagVars, workVars, lifeVars>>

SuspendDetach ==
    /\ At("bus", "detach")
    /\ present' = FALSE
    /\ Goto("bus", "suspended")
    /\ UNCHANGED <<devVars, linkVars, flagVars, workVars, running, rings, dead, busVars,
                   counts>>

\* Mutant: the device is attached but not brought up.
ResumeNoUp ==
    /\ At("bus", "suspended")
    /\ isr' = {} /\ present' = TRUE
    /\ Goto("bus", "idle")
    /\ UNCHANGED <<irq_sem, intr_mask, imr, dis_int, requested, intr, napiVars, linkVars,
                   flagVars, workVars, running, rings, dead, busVars, counts>>

\* atl1c_reset_pcie, the PHY, atl1c_reset_mac, then attach and up.
Resume ==
    /\ At("bus", "suspended")
    /\ isr' = {} /\ present' = TRUE
    /\ Goto("bus", IF running THEN "up" ELSE "idle")
    /\ UNCHANGED <<irq_sem, intr_mask, imr, dis_int, requested, intr, napiVars, linkVars,
                   flagVars, workVars, running, rings, dead, busVars, counts>>

(***************************************************************************)
(* PCI error recovery: neither the rtnl lock nor the work item stops it    *)
(***************************************************************************)

\* atl1c_io_error_detected; a permanent failure disconnects.
ErrorDetected ==
    /\ Count
    /\ Bus("aer")
    /\ Recovery \/ th["net"].op \notin {"open", "close"}
    /\ present' = FALSE
    /\ \/ /\ Begin("bus", IF running THEN "down" ELSE "aerwait", "aer")
          /\ UNCHANGED dead
       \/ "perm" \in Failures /\ dead' = TRUE /\ UNCHANGED th
    /\ UNCHANGED <<devVars, linkVars, flagVars, workVars, running, rings, busVars>>

\* atl1c_io_slot_reset: atl1c_reset_mac, or the device is given up.
SlotReset ==
    /\ At("bus", "aerwait")
    /\ \/ isr' = {} /\ Goto("bus", "aerup") /\ UNCHANGED dead
       \/ "slot" \in Failures /\ Goto("bus", "idle") /\ dead' = TRUE /\ UNCHANGED isr
    /\ UNCHANGED <<irq_sem, intr_mask, imr, dis_int, requested, intr, napiVars, linkVars,
                   flagVars, workVars, present, running, rings, busVars, counts>>

IoResume ==
    /\ At("bus", "aerup")
    /\ Goto("bus", IF running THEN "up" ELSE "attach")
    /\ UNCHANGED <<devVars, linkVars, flagVars, workVars, lifeVars, counts>>

(***************************************************************************)
(* atl1c_probe, atl1c_remove                                               *)
(***************************************************************************)

Resources == {"device", "regions", "netdev", "registers"}

\* The step of atl1c_probe that fails, and what its goto releases.
Steps == {"enable", "dma", "regions", "netdev", "ioremap", "sw_init", "reset", "register"}

AcquiredBefore(step) ==
    CASE step = "enable"             -> {}
      [] step \in {"dma", "regions"} -> {"device"}
      [] step = "netdev"             -> {"device", "regions"}
      [] step = "ioremap"            -> {"device", "regions", "netdev"}
      [] OTHER                       -> Resources

\* Mutant: the last failures jump one label too far down.
ReleasedAfterLate(step) ==
    CASE step = "enable"                -> {}
      [] step \in {"dma", "regions"}    -> {"device"}
      [] step = "netdev"                -> {"device", "regions"}
      [] OTHER                          -> {"device", "regions", "netdev"}

ReleasedAfter(step) ==
    CASE step = "enable"                -> {}
      [] step \in {"dma", "regions"}    -> {"device"}
      [] step = "netdev"                -> {"device", "regions"}
      [] step = "ioremap"               -> {"device", "regions", "netdev"}
      [] OTHER                          -> Resources

\* When no DMA mask is usable, err is still 0: probe reports success.
Probe ==
    /\ Count
    /\ ~bound /\ At("bus", "idle") /\ "probe" \in BusOps
    /\ \/ /\ held' = held \cup Resources /\ bound' = TRUE
          /\ irq_sem' = 1 /\ at_down' = TRUE /\ intr_mask' = Causes
          /\ imr' = {} /\ isr' = {} /\ dis_int' = FALSE
          /\ events' = {} /\ queued' = FALSE /\ present' = TRUE /\ dead' = FALSE
       \/ /\ \E step \in Steps \cap Failures :
               /\ held' = (held \cup AcquiredBefore(step)) \ ReleasedAfter(step)
               /\ bound' = (step = "dma")
          /\ UNCHANGED <<irqVars, at_down, workVars, present, dead>>
    /\ UNCHANGED <<requested, intr, napiVars, linkVars, carrier, running, rings, th>>

\* unregister_netdev closes the interface under the rtnl lock.
Remove ==
    /\ Count
    /\ Bus("probe") /\ RtnlFree
    /\ Begin("bus", IF running THEN "cancel" ELSE "freenet", "remove")
    /\ running' = FALSE /\ at_down' = (at_down \/ running)
    /\ UNCHANGED <<devVars, linkVars, carrier, workVars, present, rings, dead, busVars>>

\* Once the polls are over. A work item scheduled since cancel_work_sync is
\* assumed to have run (nothing in the code waits for it).
RemoveFree ==
    /\ At("bus", "freenet") /\ poll = "idle" /\ tail = "idle" /\ ~queued
    /\ At("work", "idle")
    /\ held' = held \ Resources /\ bound' = FALSE
    /\ Goto("bus", "idle")
    /\ UNCHANGED <<devVars, linkVars, flagVars, workVars, ifVars, counts>>

BusStep ==
    \/ Suspend \/ SuspendDetach \/ Resume
    \/ ErrorDetected \/ SlotReset \/ IoResume
    \/ Probe \/ Remove \/ RemoveFree

(***************************************************************************)

\* Probed, not yet opened (atl1c_sw_init), no cable plugged in.
Init ==
    /\ irq_sem = 1 /\ intr_mask = Causes /\ imr = {} /\ isr = {} /\ dis_int = FALSE
    /\ requested = FALSE /\ intr = IntrIdle
    /\ napi = "off" /\ napi_dis = FALSE /\ poll = "idle" /\ tail = "idle"
    /\ phy_int = FALSE /\ link = FALSE /\ flaps = 0 /\ unresolved = FALSE
    /\ carrier = FALSE /\ at_down = TRUE
    /\ events = {} /\ queued = FALSE
    /\ present = TRUE /\ running = FALSE /\ rings = FALSE /\ dead = FALSE
    /\ held = Resources /\ bound = TRUE
    /\ th = [t \in Threads |-> [pc |-> "idle", op |-> "none"]]
    /\ ops = 0 /\ frames = 0

Thread(t) == Down(t) \/ Up(t) \/ Attach(t) \/ Closing(t)

Next ==
    \/ Handler \/ Poll \/ PhyChange \/ TxTimeout
    \/ \E c \in Causes : Raise(c)
    \/ \E t \in Threads : Thread(t)
    \/ Task \/ Net \/ BusStep

Spec == Init /\ [][Next]_vars

\* What the driver, the cores and the device do once something has begun.
Progress ==
    \/ Handler \/ Poll \/ Raise("gphy")
    \/ \E t \in Threads : Thread(t)
    \/ Task \/ VlanMode
    \/ SuspendDetach \/ Resume \/ SlotReset \/ IoResume \/ RemoveFree

\* The computer does not stop while there is something left to do.
Fairness == WF_vars(Progress)

FairSpec == Spec /\ Fairness

(***************************************************************************)
(* Properties                                                              *)
(***************************************************************************)

\* Registers, flags and threads keep their types.
TypeOK ==
    /\ irq_sem \in Nat /\ intr_mask \subseteq Causes /\ imr \subseteq Causes
    /\ isr \subseteq Causes /\ dis_int \in BOOLEAN /\ requested \in BOOLEAN
    /\ intr \in [pc : {"idle", "rx", "rest"}, status : SUBSET Causes,
                 left : 1 .. MaxIntWork]
    /\ napi \in {"on", "sched", "off"} /\ napi_dis \in BOOLEAN
    /\ poll \in {"idle", "sched", "run", "quit"} /\ tail \in {"idle", "unmask", "write"}
    /\ phy_int \in BOOLEAN /\ link \in BOOLEAN /\ flaps \in 0 .. MaxFlaps
    /\ unresolved \in BOOLEAN
    /\ carrier \in BOOLEAN /\ at_down \in BOOLEAN
    /\ events \subseteq {"reset", "link"} /\ queued \in BOOLEAN
    /\ present \in BOOLEAN /\ running \in BOOLEAN /\ rings \in BOOLEAN /\ dead \in BOOLEAN
    /\ held \subseteq Resources /\ bound \in BOOLEAN
    /\ ops \in 0 .. MaxOps /\ frames \in 0 .. MaxFrames
    /\ th \in [Threads ->
                [pc : {"idle", "down", "napi", "irqoff", "freeirq", "stop", "up", "request",
                       "check", "clear", "enable", "attach", "task", "tasklink", "linkon",
                       "cancel", "free", "vlan", "detach", "suspended", "aerwait", "aerup",
                       "freenet"},
                 op : {"none", "open", "close", "mtu", "nway", "features", "reset", "link",
                       "pm", "aer", "remove"}]]

\* irq_sem is balanced: it counts who has interrupts disabled. It is one for a
\* device that is down and one for each section that masks the interrupt.
IrqSemBalanced ==
    bound => irq_sem =
        (IF napi = "off" /\ (\A t \in Threads : ~At(t, "irqoff")) THEN 1 ELSE 0)
        + Cardinality({t \in Threads : th[t].pc \in {"enable", "linkon", "vlan"}
                                       \/ (At(t, "check") /\ th[t].op = "link")})

\* SCHED is what keeps two threads from taking the device down at once: NAPI
\* is enabled by the thread that disabled it (napi_enable has a BUG_ON), the
\* interrupt freed is one requested, and no poll runs meanwhile.
NapiIsALock ==
    \A t \in Threads :
        /\ At(t, "clear") => napi = "off"
        /\ At(t, "freeirq") => requested
        /\ th[t].pc \in {"irqoff", "freeirq", "stop"} => poll \notin {"sched", "run", "quit"}

\* Nobody touches a ring that atl1c_close has freed: not the handler, not the
\* poll, not another operation that takes the device down (atl1c_reset_dma_ring
\* at "stop") or up, and none frees it again. The link check of the work item
\* does: RingsOutliveWork.
RingsOutliveUsers ==
    ~rings =>
        /\ intr.pc = "idle" /\ ~requested
        /\ poll # "run"
        /\ \A t \in Threads :
              /\ th[t].pc \notin {"stop", "up", "request", "free"}
              /\ At(t, "check") => th[t].op = "link"

\* "signal that we're down so the interrupt handler does not reschedule"
\* (atl1c_main.c:2353): nor does the work item's link check find freed rings.
RingsOutliveWork ==
    ~rings => ~(At("work", "check") /\ th["work"].op = "link")

\* When every operation is over, a running device is up: interrupts enabled
\* once, handler installed, NAPI on, __AT_DOWN clear.
SettledIsUp ==
    running /\ ~dead /\ (\A t \in Threads : At(t, "idle")) =>
        /\ irq_sem = 0 /\ requested /\ napi # "off" /\ ~at_down /\ rings /\ present
        /\ {"gphy", "error"} \subseteq imr

\* A failed probe keeps nothing, a successful one everything.
ProbeAllOrNothing == held = IF bound THEN Resources ELSE {}

\* After an error the handler leaves the interrupt disabled: the reset it
\* schedules enables it again, or the device is closed.
ErrorRecovers == (dis_int /\ running) ~> (~dis_int \/ ~running \/ dead)

\* The carrier ends up as the link is, whatever resets and suspends there are,
\* unless the link is up and the last check could not read its speed: then
\* atl1c_check_link_status has left the carrier off and nothing looks again.
CarrierFollows ==
    (carrier # link /\ running) ~>
        (carrier = link \/ ~running \/ dead \/ Frozen \/ (link /\ unresolved))

\* Suspend, error recovery, close and change of MTU, each waiting in
\* napi_disable for whoever has the device down: they all come to their end.
OperationsEnd ==
    (\E t \in {"net", "bus"} : ~At(t, "idle")) ~>
        (dead \/ \A t \in {"net", "bus"} : At(t, "idle"))
=============================================================================
