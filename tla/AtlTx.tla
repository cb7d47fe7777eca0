------------------------------- MODULE AtlTx -------------------------------
(***************************************************************************)
(* The transmit path of TpdRing inside the rest of the driver: open and    *)
(* close, the work item (common_task) that resets the device and follows   *)
(* the link, the PHY's link events, and the stack's transmit watchdog.     *)
(*                                                                         *)
(* One control thread stands for the work item and for open and close:     *)
(* close waits for the work item (cancel_work_sync) and the stack runs     *)
(* open and close one at a time.                                           *)
(***************************************************************************)
EXTENDS TpdRing

CONSTANTS
    MaxFlaps,   \* bound: how often the link may change
    ShortXmit   \* no call of atl1c_xmit_frame outlasts the way from
                \* set_bit(__AT_DOWN) to the MAC reset in atl1c_down

ASSUME AtlTxAssumption == MaxFlaps \in Nat /\ ShortXmit \in BOOLEAN

VARIABLES
    link,      \* what the PHY says (BMSR_LSTATUS)
    flaps,     \* how often it has changed
    isr_gphy,  \* the PHY's interrupt, pending until MII_ISR is read
    speed,     \* adapter->link_speed # SPEED_0
    mac_on,    \* TX enabled in the MAC
    irq_on,    \* handler installed and not masked
    napi_on,   \* napi enabled
    events,    \* adapter->work_event
    queued,    \* common_task is scheduled
    ctl,       \* the control thread: where it is, for what, its loop index, and
               \* where it goes once the ring is clean
    present,   \* netif_device_present
    running,   \* netif_running: between open and close
    closing    \* atl1c_close has begun

linkVars == <<link, flaps, isr_gphy, speed>>
devVars  == <<mac_on, irq_on, napi_on>>
workVars == <<events, queued>>
ifVars   == <<present, running, closing>>
ctlVars  == <<linkVars, devVars, workVars, ctl, ifVars>>
allVars  == <<vars, ctlVars>>

Ctl(p) == ctl' = [ctl EXCEPT !.pc = p]

XmitIdle == \A c \in Cpus : pc[c] = "idle"

(***************************************************************************)
(* The data path of TpdRing: the stack sends on a running device, the      *)
(* handler starts only while the interrupt is on, the NIC sends only       *)
(* while its MAC is enabled.                                               *)
(***************************************************************************)

\* The stack only sends on an interface that is up.
Transmit(c) ==
    /\ pc[c] = "idle" => running
    /\ Xmit(c)
    /\ UNCHANGED ctlVars

Handle ==
    /\ intr.pc = "idle" => irq_on
    /\ Intr
    /\ UNCHANGED ctlVars

HwSend == mac_on /\ HwTransmit /\ UNCHANGED ctlVars

Recycle(s) == Reuse(s) /\ UNCHANGED ctlVars

(***************************************************************************)
(* Link events, watchdog                                                   *)
(***************************************************************************)

PhyChange ==
    /\ flaps < MaxFlaps
    /\ flaps' = flaps + 1
    /\ link' = ~link
    /\ isr_gphy' = TRUE
    /\ UNCHANGED <<vars, speed, devVars, workVars, ctl, ifVars>>

\* atl1c_intr on ISR_GPHY: atl1c_clear_phy_int, atl1c_link_chg_event.
HandleLink ==
    /\ irq_on /\ intr.pc = "idle" /\ isr_gphy
    /\ isr_gphy' = FALSE
    /\ carrier' = (carrier /\ link)
    /\ speed' = (speed /\ (link \/ ~carrier))
    /\ events' = events \cup {"link"}
    /\ queued' = TRUE
    /\ UNCHANGED <<ringVars, hwVars, queue_stopped, at_down, xmitVars, intr, owner,
                   link, flaps, devVars, ctl, ifVars>>

\* Mutant: the work item is not scheduled.
TxTimeoutUnscheduled ==
    /\ running /\ present /\ carrier /\ queue_stopped
    /\ events' = events \cup {"reset"}
    /\ UNCHANGED <<vars, linkVars, devVars, queued, ctl, ifVars>>

\* The stack's watchdog calls atl1c_tx_timeout.
TxTimeout ==
    /\ running /\ present /\ carrier /\ queue_stopped
    /\ events' = events \cup {"reset"}
    /\ queued' = TRUE
    /\ UNCHANGED <<vars, linkVars, devVars, ctl, ifVars>>

(***************************************************************************)
(* atl1c_common_task                                                       *)
(***************************************************************************)

\* The work item starts; on a device that is down it returns at once.
TaskRun ==
    /\ queued
    /\ queued' = FALSE
    /\ \/ at_down /\ UNCHANGED ctl
       \/ ~at_down /\ ~closing /\ ctl.pc = "idle" /\ Ctl("task")
    /\ UNCHANGED <<vars, linkVars, devVars, events, ifVars>>

\* netif_device_detach, then atl1c_down.
TaskReset ==
    /\ ctl.pc = "task"
    /\ \/ /\ "reset" \in events
          /\ events' = events \ {"reset"}
          /\ queue_stopped' = (queue_stopped \/ (present /\ running))
          /\ present' = FALSE
          /\ ctl' = [ctl EXCEPT !.pc = "down", !.op = "reset"]
       \/ /\ "reset" \notin events
          /\ Ctl("tasklink")
          /\ UNCHANGED <<events, queue_stopped, present>>
    /\ UNCHANGED <<ringVars, hwVars, carrier, at_down, xmitVars, intr, owner,
                   linkVars, devVars, queued, running, closing>>

\* netif_device_attach.
TaskAttach ==
    /\ ctl.pc = "attach"
    /\ queue_stopped' = (queue_stopped /\ (present \/ ~running))
    /\ present' = TRUE
    /\ Ctl("tasklink")
    /\ UNCHANGED <<ringVars, hwVars, carrier, at_down, xmitVars, intr, owner,
                   linkVars, devVars, workVars, running, closing>>

\* atl1c_irq_disable (which waits for the handler), atl1c_check_link_status.
TaskLink ==
    /\ ctl.pc = "tasklink"
    /\ \/ /\ "link" \in events
          /\ intr.pc = "idle"
          /\ events' = events \ {"link"}
          /\ irq_on' = FALSE
          /\ ctl' = [ctl EXCEPT !.pc = "check", !.op = "link"]
       \/ /\ "link" \notin events
          /\ Ctl("idle")
          /\ UNCHANGED <<events, irq_on>>
    /\ UNCHANGED <<vars, linkVars, mac_on, napi_on, queued, ifVars>>

(***************************************************************************)
(* atl1c_down                                                              *)
(***************************************************************************)

DownMark ==
    /\ ctl.pc = "down"
    /\ events' = {}
    /\ at_down' = TRUE
    /\ carrier' = FALSE
    /\ Ctl("quiesce")
    /\ UNCHANGED <<ringVars, hwVars, queue_stopped, xmitVars, intr, owner,
                   linkVars, devVars, queued, ifVars>>

\* napi_disable waits for ever when NAPI is already disabled; irq_disable and
\* free_irq wait for the handler.
DownQuiesce ==
    /\ ctl.pc = "quiesce"
    /\ napi_on /\ intr.pc = "idle"
    /\ napi_on' = FALSE
    /\ irq_on' = FALSE
    /\ Ctl("reset_mac")
    /\ UNCHANGED <<vars, linkVars, mac_on, workVars, ifVars>>

\* Mutant: the mailbox registers keep their indices.
ResetMacKeep ==
    /\ mac_on' = FALSE
    /\ isr_tx' = FALSE
    /\ UNCHANGED <<pidx, cidx>>

\* atl1c_reset_mac: the NIC forgets its rings.
ResetMac ==
    /\ mac_on' = FALSE
    /\ pidx' = 0 /\ cidx' = 0 /\ isr_tx' = FALSE

DownReset ==
    /\ ctl.pc = "reset_mac"
    /\ ShortXmit => XmitIdle
    /\ ResetMac
    /\ speed' = FALSE
    /\ ctl' = [ctl EXCEPT !.pc = "clean", !.idx = 0,
                          !.then = IF ctl.op = "close" THEN "idle" ELSE "up"]
    /\ UNCHANGED <<ringVars, netVars, xmitVars, intr, owner, link, flaps, isr_gphy,
                   irq_on, napi_on, workVars, ifVars>>

(***************************************************************************)
(* atl1c_reset_dma_ring: atl1c_clean_tx_ring takes no lock.                *)
(***************************************************************************)

\* Mutant: the skb is forgotten, as atl1c_clean_rfd does.
CleanRingForget ==
    /\ ctl.pc = "clean" /\ ctl.idx < Count
    /\ buffer_info' = [buffer_info EXCEPT ![ctl.idx] = CleanBuffer(@)]
    /\ ctl' = [ctl EXCEPT !.idx = @ + 1]
    /\ UNCHANGED <<next_to_use, next_to_clean, desc, hwVars, netVars, xmitVars, intr, owner,
                   linkVars, devVars, workVars, ifVars>>

CleanRing ==
    /\ ctl.pc = "clean" /\ ctl.idx < Count
    /\ buffer_info' = [buffer_info EXCEPT ![ctl.idx] = CleanBuffer(@)]
    /\ owner' = Released({ctl.idx})
    /\ ctl' = [ctl EXCEPT !.idx = @ + 1]
    /\ UNCHANGED <<next_to_use, next_to_clean, desc, hwVars, netVars, xmitVars, intr,
                   linkVars, devVars, workVars, ifVars>>

\* Close is through; a reset goes on with atl1c_up, a lost link with
\* atl1c_configure.
CleanRingEnd ==
    /\ ctl.pc = "clean" /\ ctl.idx = Count
    /\ desc' = [i \in Slots |-> ZeroDesc]
    /\ next_to_clean' = 0
    /\ next_to_use' = 0
    /\ Ctl(ctl.then)
    /\ IF ctl.then = "idle" THEN running' = FALSE /\ closing' = FALSE
                            ELSE UNCHANGED <<running, closing>>
    /\ UNCHANGED <<buffer_info, hwVars, netVars, xmitVars, intr, owner,
                   linkVars, devVars, workVars, present>>

(***************************************************************************)
(* atl1c_up, atl1c_check_link_status                                       *)
(***************************************************************************)

\* atl1c_init_ring_ptrs, which marks slot 0 free.
Configure ==
    /\ next_to_use' = 0 /\ next_to_clean' = 0
    /\ buffer_info' = [buffer_info EXCEPT ![0].free = TRUE]

Up ==
    /\ ctl.pc = "up"
    /\ carrier' = FALSE
    /\ Configure
    /\ Ctl("check")
    /\ UNCHANGED <<desc, hwVars, queue_stopped, at_down, xmitVars, intr, owner,
                   linkVars, devVars, workVars, ifVars>>

\* No receive buffer, no idle MAC or no interrupt: atl1c_up gives up. A reset
\* attaches the device all the same; an open fails.
UpFail ==
    /\ ctl.pc = "up"
    /\ "up" \in Failures
    /\ carrier' = FALSE
    /\ Configure
    /\ Ctl(IF ctl.op = "reset" THEN "attach" ELSE "idle")
    /\ running' = (running /\ ctl.op = "reset")
    /\ UNCHANGED <<desc, hwVars, queue_stopped, at_down, xmitVars, intr, owner,
                   linkVars, devVars, workVars, present, closing>>

CheckLinkUp ==
    /\ ctl.pc = "check" /\ link
    /\ speed' = TRUE
    /\ mac_on' = (mac_on \/ ~speed)
    /\ carrier' = TRUE
    /\ Ctl("enable")
    /\ UNCHANGED <<ringVars, hwVars, queue_stopped, at_down, xmitVars, intr, owner, link,
                   flaps, isr_gphy, irq_on, napi_on, workVars, ifVars>>

\* The PHY has a link but no speed yet: nothing is done.
CheckLinkUnresolved ==
    /\ ctl.pc = "check" /\ link
    /\ "speed" \in Failures
    /\ Ctl("enable")
    /\ UNCHANGED <<vars, linkVars, devVars, workVars, ifVars>>

CheckLinkDown ==
    /\ ctl.pc = "check" /\ ~link
    /\ carrier' = FALSE
    /\ ResetMac
    /\ ctl' = [ctl EXCEPT !.pc = "clean", !.idx = 0, !.then = "configure"]
    /\ UNCHANGED <<ringVars, queue_stopped, at_down, xmitVars, intr, owner,
                   linkVars, irq_on, napi_on, workVars, ifVars>>

CheckLinkConfigure ==
    /\ ctl.pc = "configure"
    /\ Configure
    /\ Ctl("enable")
    /\ UNCHANGED <<desc, hwVars, netVars, xmitVars, intr, owner,
                   linkVars, devVars, workVars, ifVars>>

\* Mutant: atl1c_up forgets napi_enable.
EnableNoNapi ==
    /\ ctl.pc = "enable"
    /\ irq_on' = TRUE
    /\ isr_tx' = FALSE
    /\ IF ctl.op = "link"
       THEN UNCHANGED <<at_down, queue_stopped>>
       ELSE at_down' = FALSE /\ queue_stopped' = FALSE
    /\ running' = (running \/ ctl.op = "open")
    /\ Ctl(IF ctl.op = "reset" THEN "attach" ELSE "idle")
    /\ UNCHANGED <<ringVars, pidx, cidx, carrier, xmitVars, intr, owner,
                   linkVars, mac_on, napi_on, workVars, present, closing>>

\* atl1c_irq_enable, which acknowledges everything that is pending; at the end
\* of atl1c_up also __AT_DOWN, NAPI and the queue.
Enable ==
    /\ ctl.pc = "enable"
    /\ irq_on' = TRUE
    /\ isr_tx' = FALSE
    /\ IF ctl.op = "link"
       THEN UNCHANGED <<at_down, napi_on, queue_stopped>>
       ELSE at_down' = FALSE /\ napi_on' = TRUE /\ queue_stopped' = FALSE
    /\ running' = (running \/ ctl.op = "open")
    /\ Ctl(IF ctl.op = "reset" THEN "attach" ELSE "idle")
    /\ UNCHANGED <<ringVars, pidx, cidx, carrier, xmitVars, intr, owner,
                   linkVars, mac_on, workVars, present, closing>>

(***************************************************************************)
(* atl1c_open and atl1c_close                                              *)
(***************************************************************************)

\* The stack has stopped sending before it calls ndo_stop.
CloseBegin ==
    /\ running /\ ~closing /\ XmitIdle
    /\ closing' = TRUE
    /\ running' = FALSE
    /\ at_down' = TRUE
    /\ UNCHANGED <<ringVars, hwVars, queue_stopped, carrier, xmitVars, intr, owner,
                   linkVars, devVars, workVars, ctl, present>>

\* cancel_work_sync, then atl1c_down.
CloseCancel ==
    /\ closing /\ ctl.pc = "idle"
    /\ queued' = FALSE
    /\ ctl' = [ctl EXCEPT !.pc = "down", !.op = "close"]
    /\ UNCHANGED <<vars, linkVars, devVars, events, ifVars>>

\* atl1c_setup_ring_resources gives fresh rings; atl1c_up follows.
Open ==
    /\ ~running /\ ~closing /\ ctl.pc = "idle"
    /\ buffer_info' = [i \in Slots |-> FreshBuffer]
    /\ ctl' = [ctl EXCEPT !.pc = "up", !.op = "open"]
    /\ UNCHANGED <<next_to_use, next_to_clean, desc, hwVars, netVars, xmitVars, intr, owner,
                   linkVars, devVars, workVars, ifVars>>

(***************************************************************************)

\* Opened with the link there.
AtlInit ==
    /\ Init
    /\ link = TRUE /\ flaps = 0 /\ isr_gphy = FALSE /\ speed = TRUE
    /\ mac_on = TRUE /\ irq_on = TRUE /\ napi_on = TRUE
    /\ events = {} /\ queued = FALSE
    /\ ctl = [pc |-> "idle", op |-> "none", idx |-> 0, then |-> "idle"]
    /\ present = TRUE /\ running = TRUE /\ closing = FALSE

Task ==
    TaskRun \/ TaskReset \/ TaskAttach \/ TaskLink

Control ==
    \/ DownMark \/ DownQuiesce \/ DownReset \/ CleanRing \/ CleanRingEnd
    \/ Up \/ UpFail \/ CheckLinkUp \/ CheckLinkUnresolved \/ CheckLinkDown
    \/ CheckLinkConfigure \/ Enable \/ CloseCancel

AtlNext ==
    \/ \E c \in Cpus : Transmit(c)
    \/ Handle \/ HwSend
    \/ \E s \in Skbs : Recycle(s)
    \/ PhyChange \/ HandleLink \/ TxTimeout
    \/ Task \/ Control
    \/ CloseBegin \/ Open

AtlSpec == AtlInit /\ [][AtlNext]_allVars

\* What has begun goes on, and the stack's watchdog timer runs; nothing
\* obliges anyone to send, to close or to open.
AtlFairness ==
    /\ \A c \in Cpus : WF_allVars(Transmit(c) /\ pc[c] # "idle")
    /\ WF_allVars(Handle)
    /\ WF_allVars(HandleLink)
    /\ WF_allVars(HwSend)
    /\ WF_allVars(TxTimeout)
    /\ WF_allVars(Task)
    /\ WF_allVars(Control)

AtlFairSpec == AtlSpec /\ AtlFairness

(***************************************************************************)
(* Properties                                                              *)
(***************************************************************************)

AtlTypeOK ==
    /\ TypeOK
    /\ link \in BOOLEAN /\ flaps \in 0 .. MaxFlaps /\ isr_gphy \in BOOLEAN
    /\ speed \in BOOLEAN /\ mac_on \in BOOLEAN /\ irq_on \in BOOLEAN /\ napi_on \in BOOLEAN
    /\ events \subseteq {"reset", "link"} /\ queued \in BOOLEAN
    /\ ctl \in [pc : {"idle", "task", "tasklink", "down", "quiesce", "reset_mac", "clean",
                      "up", "check", "configure", "enable", "attach"},
                op : {"none", "reset", "link", "close", "open"},
                idx : 0 .. Count, then : {"idle", "up", "configure"}]
    /\ present \in BOOLEAN /\ running \in BOOLEAN /\ closing \in BOOLEAN

\* Resets and closes leave the ring in order: from the moment it is clean, the
\* indices of the driver and of the NIC agree again.
OrderAfterReset == ctl.pc # "clean" => RingOrder

\* A closed device keeps nothing: close has released every packet and unmapped
\* every buffer, whatever reset was under way when it began.
ClosedIsEmpty ==
    ~running /\ ~closing /\ ctl.pc = "idle" =>
        /\ \A s \in Skbs : owner[s] # "ring"
        /\ \A i \in Slots : ~buffer_info[i].dma /\ buffer_info[i].skb = None

\* Why these hold as long as the link does not change, in five parts. Without a
\* change there is no event of the PHY.
LinkInv ==
    /\ link /\ ~isr_gphy /\ "link" \notin events
    /\ ctl.op # "link" /\ ctl.then # "configure" /\ ctl.pc # "configure"

Empty ==
    /\ next_to_use = 0 /\ next_to_clean = 0
    /\ \A i \in Slots : buffer_info[i].skb = None /\ ~buffer_info[i].dma

\* With the interrupt off nobody enters the ring, from the MAC reset on nobody is
\* in it, and once it has been cleaned it stays empty.
QuietInv ==
    ~irq_on =>
        /\ at_down /\ intr.pc = "idle"
        /\ ctl.pc # "reset_mac" => XmitIdle /\ pidx = 0 /\ cidx = 0
        /\ ctl.pc \notin {"reset_mac", "clean"} => Empty

\* Where the control thread has the interrupt off, and that it is off on a device
\* that is closed.
Restarting == {"up", "check", "enable"}

CtlInv ==
    /\ ctl.pc \in {"reset_mac", "clean"} \cup Restarting => ~irq_on
    /\ ctl.pc = "quiesce" => at_down
    /\ ~running /\ ~closing =>
          ~irq_on /\ (ctl.pc = "idle" \/ (ctl.op = "open" /\ ctl.pc \in Restarting))

\* A buffer marked free is not mapped.
FreeInv == \A i \in Slots : buffer_info[i].free => ~buffer_info[i].dma

\* What is left of ContentIInv while the ring is being cleaned, and what has been.
CleaningInv ==
    /\ tx_lock = None
    /\ RingInv
    /\ \A i \in Slots :
          /\ buffer_info[i].free => buffer_info[i].skb = None
          /\ buffer_info[i].skb # None =>
                /\ owner[buffer_info[i].skb] = "ring"
                /\ \A j \in Slots : buffer_info[j].skb = buffer_info[i].skb => j = i
          /\ i < ctl.idx => buffer_info[i].skb = None /\ ~buffer_info[i].dma

AtlIInv ==
    /\ AtlTypeOK /\ LinkInv /\ QuietInv /\ CtlInv /\ FreeInv
    /\ IF ctl.pc = "clean" THEN CleaningInv ELSE ContentIInv

\* Resets and closes do not disturb what the stack sees: TxChannel with the
\* purge of a reset.
AtlChannel == INSTANCE TxChannel WITH
    queue <- InRing, before <- Before,
    freed <- {s \in Skbs : owner[s] = "freed"},
    purging <- (ctl.pc = "clean")

ResetIsPurge == AtlChannel!Spec

\* A stopped queue does not stay stopped: if the wake-up is lost, or no
\* completion will come, the watchdog's reset restarts it, as long as the
\* device is open and the link is there.
QueueRestarts ==
    (queue_stopped /\ running /\ link) ~> (~queue_stopped \/ ~running \/ ~link)

\* "Returns 0, this is not allowed to fail" (atl1c_main.c:2414): close returns.
CloseReturns == closing ~> ~closing

\* "next_to_use ... is protectd by adapter->tx_lock" (atl1c.h:491): while a CPU
\* holds the lock, nobody else changes it.
NextToUseUnderLock ==
    [][\A c \in Cpus :
         tx_lock = c /\ <<pc[c], left[c]>>' = <<pc[c], left[c]>> =>
            next_to_use' = next_to_use]_allVars
=============================================================================
