---------------------------- MODULE AtlTxProofs ----------------------------
(***************************************************************************)
(* The transmit path through resets, closes and opens, for every ring      *)
(* size, set of packets and of CPUs, every failure of atl1c_xmit_frame and *)
(* of atl1c_up: AtlIInv is inductive as long as the link does not change   *)
(* and no call of atl1c_xmit_frame outlasts the way to the MAC reset. From *)
(* it follow the order of the indices after a reset, that a closed device  *)
(* is empty, and that the stack still sees a FIFO channel of packets.      *)
(***************************************************************************)
EXTENDS MCAtl, TpdRingProofs

USE CountAssumption, ShapeAssumption, NoneAssumption, MaxIntWorkAssumption, AtlTxAssumption

\* The link is there and stays, and the MAC is reset after the last CPU has left
\* atl1c_xmit_frame.
Undisturbed == MaxFlaps = 0 /\ ShortXmit

(***************************************************************************)
(* Frames: what a step has to leave alone.                                 *)
(***************************************************************************)

\* ContentIInv says nothing of the queue, the carrier, __AT_DOWN and the ISR.
LEMMA ContentFrame ==
    ASSUME ContentIInv, TypeOK', UNCHANGED <<ringVars, pidx, cidx, xmitVars, intr, owner>>
    PROVE  ContentIInv'
<1> USE DEF ringVars, xmitVars
<1>1. IInv
  BY DEF ContentIInv
<1>2. IInv'
  BY <1>1 DEF IInv, LockInv, Locked, ProducerInv, Need, ConsumerInv, RingOrder
<1>3. Parts
  BY DEF ContentIInv, Parts
<1>4. Parts'
  BY <1>1, <1>3, StillParts
<1> QED BY <1>2, <1>4 DEF ContentIInv, Parts

\* A ring that is empty, with nobody in it, is one that has just been set up.
LEMMA EmptyRing ==
    ASSUME TypeOK', Empty', RingInv', XmitIdle', tx_lock' = None, intr'.pc = "idle",
           pidx' = 0, cidx' = 0
    PROVE  ContentIInv'
<1>1. Dist(0, 0) = 0 /\ 0 \in Slots
  BY ZeroSlot, DistZero
<1>2. \A c \in Cpus : pc'[c] = "idle"
  BY DEF XmitIdle
<1>3. LockInv'
  BY <1>2 DEF LockInv, Locked
<1>4. ProducerInv'
  BY <1>2 DEF ProducerInv
<1>5. ConsumerInv'
  BY DEF ConsumerInv
<1>6. RingOrder'
  BY <1>1 DEF RingOrder, Empty
<1>7. SlotInv'
  BY DEF SlotInv, Empty
<1>8. DriverInv'
  BY <1>2 DEF DriverInv, Carrying
<1>9. PublishInv'
  BY DEF PublishInv
<1>10. MappedInv'
  <2>1. \A i \in Slots : ~InRange(0, 0, i)
    BY <1>1, DistType DEF InRange
  <2> QED BY <2>1 DEF MappedInv, Empty
<1> QED BY <1>3, <1>4, <1>5, <1>6, <1>7, <1>8, <1>9, <1>10 DEF ContentIInv, IInv


(***************************************************************************)
(* The data path                                                           *)
(***************************************************************************)

\* Only atl1c_tx_map maps a buffer, and marks it busy.
LEMMA FreeStep ==
    ASSUME IInv, FreeInv, Next
    PROVE  FreeInv'
<1> USE DEF FreeInv
<1>1. buffer_info \in [Slots -> Buffers]
  BY DEF IInv, TypeOK
<1>2. UNCHANGED buffer_info => FreeInv'
  OBVIOUS
<1>3. ASSUME NEW c \in Cpus, XmitMap(c) \/ XmitMapFail(c)
      PROVE  FreeInv'
  <2>1. MapSlot(c) \in Slots
    BY <1>3, MapRoom DEF XmitMap, XmitMapFail
  <2> QED BY <1>1, <1>3, <2>1 DEF XmitMap, XmitMapFail, Buffers
<1>4. ASSUME NEW c \in Cpus, XmitRollback(c)
      PROVE  FreeInv'
  BY <1>1, <1>4 DEF XmitRollback, CleanBuffer, NoBuffer
<1>5. CASE IntrClean
  BY <1>1, <1>5 DEF IntrClean, CleanBuffer, NoBuffer
<1>6. ASSUME NEW c \in Cpus, Xmit(c)
      PROVE  FreeInv'
  BY <1>2, <1>3, <1>4, <1>6 DEF Xmit, XmitEnter, XmitLock, XmitAvail, XmitStop,
     XmitOffloadFail, XmitOffload, XmitQueue, ringVars
<1>7. CASE Intr
  BY <1>2, <1>5, <1>7 DEF Intr, IntrStatus, IntrRead, IntrPublish, IntrWake, ringVars
<1> QED BY <1>2, <1>6, <1>7 DEF Next, HwTransmit, Reuse, ringVars

\* A step of the data path.
Data ==
    \/ \E c \in Cpus : Transmit(c)
    \/ Handle \/ HwSend
    \/ \E s \in Skbs : Recycle(s)

\* With the interrupt off and the MAC reset, all that is left of the data path is
\* to drop a packet and to give one back.
LEMMA QuietStep ==
    ASSUME QuietInv, Data, ~irq_on, ctl.pc # "reset_mac", TypeOK
    PROVE  /\ UNCHANGED <<ringVars, hwVars, netVars, xmitVars, intr>>
           /\ \E s \in Skbs :
                \/ owner[s] = "stack" /\ owner' = [owner EXCEPT ![s] = "freed"]
                \/ owner[s] = "freed" /\ owner' = [owner EXCEPT ![s] = "stack"]
<1>1. at_down /\ intr.pc = "idle" /\ cidx = pidx /\ \A c \in Cpus : pc[c] = "idle"
  BY DEF QuietInv, XmitIdle
<1>2. ~Handle /\ ~HwSend
  BY <1>1 DEF Handle, HwSend, HwTransmit
<1>3. ASSUME NEW c \in Cpus, Transmit(c)
      PROVE  \E s \in Skbs : XmitEnter(c, s)
  BY <1>1, <1>3 DEF Transmit, Xmit, XmitLock, XmitAvail, XmitStop, XmitOffloadFail, XmitOffload,
     XmitMap, XmitMapFail, XmitRollback, XmitQueue
<1> QED BY <1>1, <1>2, <1>3 DEF Data, Recycle, Reuse, XmitEnter, xmitVars

LEMMA DataIsNext ==
    ASSUME Data
    PROVE  Next /\ UNCHANGED ctlVars
BY DEF Data, Transmit, Handle, HwSend, Recycle, Next

\* Nothing of the data path sets or clears __AT_DOWN, and with the interrupt off
\* the handler does not start.
LEMMA DataKeeps ==
    ASSUME Data
    PROVE  at_down' = at_down /\ (~irq_on /\ intr.pc = "idle" => intr' = intr)
<1>1. at_down' = at_down
  BY DataIsNext DEF Next, Xmit, XmitEnter, XmitLock, XmitAvail, XmitStop, XmitOffloadFail,
     XmitOffload, XmitMap, XmitMapFail, XmitRollback, XmitQueue, Intr, IntrStatus, IntrRead,
     IntrClean, IntrPublish, IntrWake, HwTransmit, Reuse, netVars
<1>2. ~irq_on /\ intr.pc = "idle" => intr' = intr
  BY DEF Data, Transmit, Handle, HwSend, Recycle, Xmit, XmitEnter, XmitLock, XmitAvail, XmitStop,
     XmitOffloadFail, XmitOffload, XmitMap, XmitMapFail, XmitRollback, XmitQueue, HwTransmit, Reuse
<1> QED BY <1>1, <1>2

LEMMA DataStep ==
    ASSUME AtlIInv, Data
    PROVE  AtlIInv'
<1>1. UNCHANGED <<linkVars, devVars, workVars, ctl, ifVars>>
  BY DataIsNext DEF ctlVars
<1>2. LinkInv' /\ CtlInv'
  BY <1>1, DataKeeps DEF AtlIInv, LinkInv, CtlInv, linkVars, devVars, workVars, ifVars, Restarting
<1>3. CASE ctl.pc = "clean"
  <2>1. CleaningInv /\ QuietInv /\ ~irq_on /\ TypeOK
    BY <1>3 DEF AtlIInv, CtlInv, AtlTypeOK
  <2>2. PICK s \in Skbs : \/ owner[s] = "stack" /\ owner' = [owner EXCEPT ![s] = "freed"]
                          \/ owner[s] = "freed" /\ owner' = [owner EXCEPT ![s] = "stack"]
    BY <1>3, <2>1, QuietStep
  <2>3. UNCHANGED <<ringVars, hwVars, netVars, xmitVars, intr>>
    BY <1>3, <2>1, QuietStep
  <2>4. TypeOK'
    BY <2>1, <2>2, <2>3 DEF TypeOK, ringVars, hwVars, netVars, xmitVars
  <2>5. \A t \in Skbs : owner'[t] = "ring" <=> owner[t] = "ring"
    BY <2>1, <2>2 DEF TypeOK
  <2>6. CleaningInv'
    <3>1. \A i \in Slots : buffer_info[i].skb \in Skbs \cup {None}
      BY <2>1 DEF TypeOK, Buffers
    <3> QED BY <1>1, <2>1, <2>3, <2>5, <3>1 DEF CleaningInv, RingInv, ringVars, xmitVars
  <2>7. QuietInv'
    BY <1>1, <2>1, <2>3 DEF QuietInv, XmitIdle, Empty, ringVars, hwVars, netVars, xmitVars, devVars
  <2>8. FreeInv'
    BY <2>3 DEF AtlIInv, FreeInv, ringVars
  <2>9. AtlTypeOK'
    BY <1>1, <2>4 DEF AtlIInv, AtlTypeOK, linkVars, devVars, workVars, ifVars
  <2> QED BY <1>1, <1>2, <1>3, <2>6, <2>7, <2>8, <2>9 DEF AtlIInv
<1>4. CASE ctl.pc # "clean"
  <2>1. IInv /\ Parts /\ Next
    BY <1>4, DataIsNext DEF AtlIInv, ContentIInv, Parts
  <2>2. IInv' /\ Parts'
    BY <2>1, NextStep, NextParts
  <2>3. FreeInv'
    BY <2>1, FreeStep DEF AtlIInv
  <2>4. QuietInv'
    <3>1. CASE irq_on
      BY <1>1, <3>1 DEF QuietInv, devVars
    <3>2. CASE ~irq_on /\ ctl.pc = "reset_mac"
      BY <1>1, <3>2, DataKeeps DEF AtlIInv, QuietInv, devVars
    <3>3. CASE ~irq_on /\ ctl.pc # "reset_mac"
      <4>1. UNCHANGED <<ringVars, hwVars, netVars, xmitVars, intr>>
        BY <3>3, QuietStep DEF AtlIInv, AtlTypeOK
      <4> QED BY <1>1, <3>3, <4>1 DEF AtlIInv, QuietInv, XmitIdle, Empty, ringVars, hwVars, netVars,
                                      xmitVars, devVars
    <3> QED BY <3>1, <3>2, <3>3
  <2>5. AtlTypeOK'
    BY <1>1, <2>2 DEF IInv, AtlIInv, AtlTypeOK, linkVars, devVars, workVars, ifVars
  <2> QED BY <1>1, <1>2, <1>4, <2>2, <2>3, <2>4, <2>5 DEF AtlIInv, ContentIInv, Parts
<1> QED BY <1>3, <1>4

(***************************************************************************)
(* The steps that leave the ring alone                                     *)
(***************************************************************************)

CtlRecords ==
    [pc : {"idle", "task", "tasklink", "down", "quiesce", "reset_mac", "clean",
           "up", "check", "configure", "enable", "attach"},
     op : {"none", "reset", "link", "close", "open"},
     idx : 0 .. Count, then : {"idle", "up", "configure"}]

Flags ==
    /\ queue_stopped \in BOOLEAN /\ carrier \in BOOLEAN /\ at_down \in BOOLEAN
    /\ isr_tx \in BOOLEAN /\ speed \in BOOLEAN /\ mac_on \in BOOLEAN /\ irq_on \in BOOLEAN
    /\ napi_on \in BOOLEAN /\ events \subseteq {"reset"} /\ queued \in BOOLEAN
    /\ present \in BOOLEAN /\ running \in BOOLEAN /\ closing \in BOOLEAN

LEMMA StillStep ==
    ASSUME AtlIInv, ctl.pc # "clean", ctl'.pc # "clean",
           UNCHANGED <<ringVars, pidx, cidx, xmitVars, intr, owner>>,
           AtlTypeOK', LinkInv', QuietInv', CtlInv'
    PROVE  AtlIInv'
<1>1. TypeOK'
  BY DEF AtlTypeOK
<1>2. ContentIInv'
  BY <1>1, ContentFrame DEF AtlIInv
<1>3. FreeInv'
  BY DEF AtlIInv, FreeInv, ringVars
<1> QED BY <1>2, <1>3 DEF AtlIInv

\* What a step of the control thread that leaves the ring alone has to show.
LEMMA CtlStep ==
    ASSUME AtlIInv, ctl.pc # "clean", ctl'.pc # "clean",
           UNCHANGED <<ringVars, pidx, cidx, xmitVars, intr, owner>>,
           UNCHANGED <<link, flaps, isr_gphy>>,
           Flags',
           ctl' \in CtlRecords, ctl'.op # "link", ctl'.then # "configure", ctl'.pc # "configure",
           QuietInv', CtlInv'
    PROVE  AtlIInv'
<1>1. TypeOK'
  BY DEF AtlIInv, AtlTypeOK, TypeOK, Flags, ringVars, xmitVars
<1>2. AtlTypeOK'
  BY <1>1 DEF AtlIInv, AtlTypeOK, Flags, CtlRecords
<1>3. LinkInv'
  BY DEF AtlIInv, LinkInv, Flags
<1> QED BY <1>2, <1>3, StillStep

\* What the invariant says of the control thread's state.
LEMMA CtlTypes ==
    ASSUME AtlIInv
    PROVE  /\ ctl \in CtlRecords /\ ctl.op # "link" /\ ctl.then # "configure"
           /\ ctl.pc # "configure" /\ link /\ ~isr_gphy
           /\ Flags /\ QuietInv /\ CtlInv /\ TypeOK
BY DEF AtlIInv, AtlTypeOK, TypeOK, LinkInv, CtlRecords, Flags

\* What a step beside the control thread has to show, whatever that is doing.
LEMMA SideStep ==
    ASSUME AtlIInv, UNCHANGED <<ringVars, hwVars, xmitVars, intr, owner, linkVars, devVars, ctl>>,
           Flags', at_down => at_down', CtlInv'
    PROVE  AtlIInv'
<1>1. UNCHANGED <<ringVars, pidx, cidx, isr_tx, xmitVars, intr, owner, link, flaps, isr_gphy,
                  speed, mac_on, irq_on, napi_on, ctl>>
  BY DEF hwVars, linkVars, devVars
<1>2. QuietInv'
  BY <1>1, CtlTypes DEF QuietInv, XmitIdle, Empty, ringVars, xmitVars
<1>3. CASE ctl.pc # "clean"
  BY <1>1, <1>2, <1>3, CtlTypes, CtlStep
<1>4. CASE ctl.pc = "clean"
  <2>1. CleaningInv' /\ FreeInv'
    BY <1>1, <1>4 DEF AtlIInv, CleaningInv, RingInv, FreeInv, ringVars, xmitVars
  <2>2. TypeOK'
    BY <1>1, CtlTypes DEF TypeOK, Flags, ringVars, xmitVars
  <2>3. AtlTypeOK' /\ LinkInv'
    BY <1>1, <2>2 DEF AtlIInv, AtlTypeOK, LinkInv, Flags
  <2> QED BY <1>1, <1>2, <1>4, <2>1, <2>3 DEF AtlIInv
<1> QED BY <1>3, <1>4

LEMMA TxTimeoutStep ==
    ASSUME AtlIInv, TxTimeout
    PROVE  AtlIInv'
<1> USE DEF vars, hwVars, netVars, devVars, ifVars
<1>1. /\ UNCHANGED <<ringVars, hwVars, netVars, xmitVars, intr, owner, linkVars, devVars, ctl,
                     ifVars>>
      /\ events' \subseteq {"reset"} /\ queued' = TRUE
  BY CtlTypes DEF TxTimeout, Flags
<1>2. CtlInv'
  BY <1>1, CtlTypes DEF CtlInv
<1>3. Flags'
  BY <1>1, CtlTypes DEF Flags, linkVars
<1> QED BY <1>1, <1>2, <1>3, SideStep

LEMMA CloseBeginStep ==
    ASSUME AtlIInv, CloseBegin
    PROVE  AtlIInv'
<1> USE DEF hwVars, netVars, devVars, workVars
<1>1. /\ UNCHANGED <<ringVars, hwVars, queue_stopped, carrier, xmitVars, intr, owner, linkVars,
                     devVars, workVars, ctl, present>>
      /\ closing' = TRUE /\ running' = FALSE /\ at_down' = TRUE
  BY DEF CloseBegin
<1>2. CtlInv'
  BY <1>1, CtlTypes DEF CtlInv
<1>3. Flags'
  BY <1>1, CtlTypes DEF Flags, linkVars
<1> QED BY <1>1, <1>2, <1>3, SideStep

LEMMA TaskRunStep ==
    ASSUME AtlIInv, TaskRun
    PROVE  AtlIInv'
<1>1. CASE at_down /\ UNCHANGED ctl
  <2>1. /\ UNCHANGED <<ringVars, hwVars, netVars, xmitVars, intr, owner, linkVars, devVars,
                       events, ctl, ifVars>>
        /\ queued' = FALSE
    BY <1>1 DEF TaskRun, vars
  <2>2. CtlInv'
    BY <2>1, CtlTypes DEF CtlInv, netVars, devVars, ifVars
  <2>3. Flags'
    BY <2>1, CtlTypes DEF Flags, hwVars, netVars, linkVars, devVars, ifVars
  <2> QED BY <2>1, <2>2, <2>3, SideStep DEF netVars
<1>2. CASE ~at_down /\ ctl.pc = "idle" /\ Ctl("task")
  <2>1. irq_on /\ ctl' = [ctl EXCEPT !.pc = "task"]
    BY <1>2, CtlTypes DEF QuietInv, Ctl
  <2>2. UNCHANGED <<ringVars, hwVars, netVars, xmitVars, intr, owner, linkVars, devVars, events,
                    ifVars>> /\ queued' = FALSE
    BY DEF TaskRun, vars
  <2>3. QuietInv'
    BY <2>1, <2>2 DEF QuietInv, devVars
  <2>4. CtlInv'
    BY <2>1, <2>2, CtlTypes DEF CtlInv, CtlRecords, Restarting, devVars, ifVars
  <2>5. Flags'
    BY <2>1, <2>2, CtlTypes DEF Flags, hwVars, netVars, linkVars, devVars, ifVars
  <2>6. ctl' \in CtlRecords /\ ctl'.pc = "task" /\ ctl'.op = ctl.op /\ ctl'.then = ctl.then
    BY <2>1, CtlTypes DEF CtlRecords
  <2> QED BY <1>2, <2>2, <2>3, <2>4, <2>5, <2>6, CtlTypes, CtlStep DEF hwVars, linkVars
<1> QED BY <1>1, <1>2 DEF TaskRun

LEMMA TaskResetStep ==
    ASSUME AtlIInv, TaskReset
    PROVE  AtlIInv'
<1> USE DEF hwVars, linkVars, devVars
<1>1. /\ ctl.pc = "task"
      /\ UNCHANGED <<ringVars, hwVars, carrier, at_down, xmitVars, intr, owner, linkVars, devVars,
                     queued, running, closing>>
      /\ events' \subseteq {"reset"} /\ queue_stopped' \in BOOLEAN /\ present' \in BOOLEAN
      /\ \/ ctl' = [ctl EXCEPT !.pc = "down", !.op = "reset"]
         \/ ctl' = [ctl EXCEPT !.pc = "tasklink"]
  BY CtlTypes DEF TaskReset, Ctl, Flags
<1>2. /\ ctl' \in CtlRecords /\ ctl'.pc \in {"down", "tasklink"} /\ ctl'.op # "link"
      /\ ctl'.then # "configure"
  BY <1>1, CtlTypes DEF CtlRecords
<1>3. QuietInv'
  BY <1>1, <1>2, CtlTypes DEF QuietInv, XmitIdle, Empty, ringVars, xmitVars
<1>4. CtlInv'
  BY <1>1, <1>2, CtlTypes DEF CtlInv, Restarting
<1>5. Flags'
  BY <1>1, CtlTypes DEF Flags
<1> QED BY <1>1, <1>2, <1>3, <1>4, <1>5, CtlTypes, CtlStep

LEMMA TaskAttachStep ==
    ASSUME AtlIInv, TaskAttach
    PROVE  AtlIInv'
<1> USE DEF hwVars, linkVars, devVars, workVars
<1>1. /\ ctl.pc = "attach"
      /\ UNCHANGED <<ringVars, hwVars, carrier, at_down, xmitVars, intr, owner, linkVars, devVars,
                     workVars, running, closing>>
      /\ queue_stopped' \in BOOLEAN /\ present' \in BOOLEAN
      /\ ctl' = [ctl EXCEPT !.pc = "tasklink"]
  BY CtlTypes DEF TaskAttach, Ctl, Flags
<1>2. /\ ctl' \in CtlRecords /\ ctl'.pc = "tasklink" /\ ctl'.op # "link"
      /\ ctl'.then # "configure"
  BY <1>1, CtlTypes DEF CtlRecords
<1>3. QuietInv'
  BY <1>1, <1>2, CtlTypes DEF QuietInv, XmitIdle, Empty, ringVars, xmitVars
<1>4. CtlInv'
  BY <1>1, <1>2, CtlTypes DEF CtlInv, Restarting
<1>5. Flags'
  BY <1>1, CtlTypes DEF Flags
<1> QED BY <1>1, <1>2, <1>3, <1>4, <1>5, CtlTypes, CtlStep

\* Without a change of the link there is no "link" event: the work item ends.
LEMMA TaskLinkStep ==
    ASSUME AtlIInv, TaskLink
    PROVE  AtlIInv'
<1> USE DEF vars, hwVars, netVars, linkVars, devVars, ifVars
<1>1. /\ ctl.pc = "tasklink"
      /\ UNCHANGED <<ringVars, hwVars, netVars, xmitVars, intr, owner, linkVars, devVars,
                     events, queued, ifVars>>
      /\ ctl' = [ctl EXCEPT !.pc = "idle"]
  BY CtlTypes DEF TaskLink, Ctl, Flags
<1>2. /\ ctl' \in CtlRecords /\ ctl'.pc = "idle" /\ ctl'.op # "link"
      /\ ctl'.then # "configure"
  BY <1>1, CtlTypes DEF CtlRecords
<1>3. QuietInv'
  BY <1>1, <1>2, CtlTypes DEF QuietInv, XmitIdle, Empty, ringVars, xmitVars
<1>4. CtlInv'
  BY <1>1, <1>2, CtlTypes DEF CtlInv, Restarting
<1>5. Flags'
  BY <1>1, CtlTypes DEF Flags
<1> QED BY <1>1, <1>2, <1>3, <1>4, <1>5, CtlTypes, CtlStep

LEMMA DownMarkStep ==
    ASSUME AtlIInv, DownMark
    PROVE  AtlIInv'
<1> USE DEF hwVars, linkVars, devVars, ifVars
<1>1. /\ ctl.pc = "down"
      /\ UNCHANGED <<ringVars, hwVars, queue_stopped, xmitVars, intr, owner, linkVars, devVars,
                     queued, ifVars>>
      /\ events' = {} /\ at_down' = TRUE /\ carrier' = FALSE
      /\ ctl' = [ctl EXCEPT !.pc = "quiesce"]
  BY DEF DownMark, Ctl
<1>2. /\ ctl' \in CtlRecords /\ ctl'.pc = "quiesce" /\ ctl'.op # "link"
      /\ ctl'.then # "configure"
  BY <1>1, CtlTypes DEF CtlRecords
<1>3. QuietInv'
  BY <1>1, <1>2, CtlTypes DEF QuietInv, XmitIdle, Empty, ringVars, xmitVars
<1>4. CtlInv'
  BY <1>1, <1>2, CtlTypes DEF CtlInv, Restarting
<1>5. Flags'
  BY <1>1, CtlTypes DEF Flags
<1> QED BY <1>1, <1>2, <1>3, <1>4, <1>5, CtlTypes, CtlStep

LEMMA DownQuiesceStep ==
    ASSUME AtlIInv, DownQuiesce
    PROVE  AtlIInv'
<1> USE DEF vars, hwVars, netVars, linkVars, workVars, ifVars
<1>1. /\ ctl.pc = "quiesce" /\ intr.pc = "idle"
      /\ UNCHANGED <<ringVars, hwVars, netVars, xmitVars, intr, owner, linkVars, mac_on,
                     workVars, ifVars>>
      /\ irq_on' = FALSE /\ napi_on' = FALSE
      /\ ctl' = [ctl EXCEPT !.pc = "reset_mac"]
  BY DEF DownQuiesce, Ctl
<1>2. /\ ctl' \in CtlRecords /\ ctl'.pc = "reset_mac" /\ ctl'.op # "link"
      /\ ctl'.then # "configure"
  BY <1>1, CtlTypes DEF CtlRecords
<1>3. at_down /\ (running \/ closing)
  BY <1>1, CtlTypes DEF CtlInv, Restarting
<1>4. QuietInv'
  BY <1>1, <1>2, <1>3 DEF QuietInv
<1>5. CtlInv'
  BY <1>1, <1>2, <1>3 DEF CtlInv, Restarting
<1>6. Flags'
  BY <1>1, CtlTypes DEF Flags
<1> QED BY <1>1, <1>2, <1>4, <1>5, <1>6, CtlTypes, CtlStep

LEMMA CheckLinkStep ==
    ASSUME AtlIInv, CheckLinkUp \/ CheckLinkUnresolved
    PROVE  AtlIInv'
<1> USE DEF vars, hwVars, netVars, linkVars, devVars, workVars, ifVars
<1>1. /\ ctl.pc = "check"
      /\ UNCHANGED <<ringVars, hwVars, queue_stopped, at_down, xmitVars, intr, owner, link, flaps,
                     isr_gphy, irq_on, napi_on, workVars, ifVars>>
      /\ speed' \in BOOLEAN /\ mac_on' \in BOOLEAN /\ carrier' \in BOOLEAN
      /\ ctl' = [ctl EXCEPT !.pc = "enable"]
  BY CtlTypes DEF CheckLinkUp, CheckLinkUnresolved, Ctl, Flags
<1>2. /\ ctl' \in CtlRecords /\ ctl'.pc = "enable" /\ ctl'.op = ctl.op
      /\ ctl'.then # "configure"
  BY <1>1, CtlTypes DEF CtlRecords
<1>3. QuietInv'
  BY <1>1, <1>2, CtlTypes DEF QuietInv, XmitIdle, Empty, ringVars, xmitVars
<1>4. CtlInv'
  BY <1>1, <1>2, CtlTypes DEF CtlInv, Restarting
<1>5. Flags'
  BY <1>1, CtlTypes DEF Flags
<1> QED BY <1>1, <1>2, <1>3, <1>4, <1>5, CtlTypes, CtlStep

LEMMA EnableStep ==
    ASSUME AtlIInv, Enable
    PROVE  AtlIInv'
<1> USE DEF hwVars, linkVars, workVars
<1>1. /\ ctl.pc = "enable"
      /\ UNCHANGED <<ringVars, pidx, cidx, carrier, xmitVars, intr, owner, linkVars, mac_on,
                     workVars, present, closing>>
      /\ irq_on' = TRUE /\ isr_tx' = FALSE
      /\ at_down' = FALSE /\ napi_on' = TRUE /\ queue_stopped' = FALSE
      /\ running' = (running \/ ctl.op = "open")
      /\ \/ ctl' = [ctl EXCEPT !.pc = "attach"]
         \/ ctl' = [ctl EXCEPT !.pc = "idle"]
  BY CtlTypes DEF Enable, Ctl
<1>2. /\ ctl' \in CtlRecords /\ ctl'.pc \in {"attach", "idle"} /\ ctl'.op # "link"
      /\ ctl'.then # "configure"
  BY <1>1, CtlTypes DEF CtlRecords
<1>3. QuietInv'
  BY <1>1 DEF QuietInv
<1>4. CtlInv'
  BY <1>1, <1>2, CtlTypes DEF CtlInv, Restarting
<1>5. Flags'
  BY <1>1, CtlTypes DEF Flags
<1> QED BY <1>1, <1>2, <1>3, <1>4, <1>5, CtlTypes, CtlStep

LEMMA CloseCancelStep ==
    ASSUME AtlIInv, CloseCancel
    PROVE  AtlIInv'
<1> USE DEF vars, hwVars, netVars, linkVars, devVars, ifVars
<1>1. /\ closing /\ ctl.pc = "idle"
      /\ UNCHANGED <<ringVars, hwVars, netVars, xmitVars, intr, owner, linkVars, devVars, events,
                     ifVars>>
      /\ queued' = FALSE /\ ctl' = [ctl EXCEPT !.pc = "down", !.op = "close"]
  BY DEF CloseCancel
<1>2. /\ ctl' \in CtlRecords /\ ctl'.pc = "down" /\ ctl'.op # "link"
      /\ ctl'.then # "configure"
  BY <1>1, CtlTypes DEF CtlRecords
<1>3. QuietInv'
  BY <1>1, <1>2, CtlTypes DEF QuietInv, XmitIdle, Empty, ringVars, xmitVars
<1>4. CtlInv'
  BY <1>1, <1>2, CtlTypes DEF CtlInv, Restarting
<1>5. Flags'
  BY <1>1, CtlTypes DEF Flags
<1> QED BY <1>1, <1>2, <1>3, <1>4, <1>5, CtlTypes, CtlStep


(***************************************************************************)
(* The steps that clean the ring and set it up                             *)
(***************************************************************************)

\* From the MAC reset on the ring is the control thread's alone.
LEMMA DownResetStep ==
    ASSUME Undisturbed, AtlIInv, DownReset
    PROVE  AtlIInv' /\ UNCHANGED <<next_to_clean, buffer_info, owner>>
<1> USE DEF ringVars, netVars, xmitVars
<1>1. /\ ctl.pc = "reset_mac" /\ XmitIdle
      /\ UNCHANGED <<ringVars, netVars, xmitVars, intr, owner, link, flaps, isr_gphy, irq_on,
                     napi_on, workVars, ifVars>>
      /\ mac_on' = FALSE /\ pidx' = 0 /\ cidx' = 0 /\ isr_tx' = FALSE /\ speed' = FALSE
      /\ ctl' = [ctl EXCEPT !.pc = "clean", !.idx = 0,
                            !.then = IF ctl.op = "close" THEN "idle" ELSE "up"]
  BY DEF DownReset, ResetMac, Undisturbed
<1>2. /\ ctl' \in CtlRecords /\ ctl'.pc = "clean" /\ ctl'.op = ctl.op /\ ctl'.idx = 0
      /\ ctl'.then # "configure"
  <2>1. ctl \in CtlRecords /\ 0 \in 0 .. Count
    BY CtlTypes
  <2>2. CASE ctl.op = "close"
    BY <1>1, <2>1, <2>2 DEF CtlRecords
  <2>3. CASE ctl.op # "close"
    BY <1>1, <2>1, <2>3 DEF CtlRecords
  <2> QED BY <2>2, <2>3
<1>3. QuietInv'
  BY <1>1, <1>2, CtlTypes DEF QuietInv, XmitIdle, CtlInv
<1>4. CtlInv'
  BY <1>1, <1>2, CtlTypes DEF CtlInv, Restarting, workVars, ifVars
<1>5. AtlTypeOK'
  <2>1. TypeOK'
    BY <1>1, ZeroSlot, CtlTypes DEF TypeOK
  <2> QED BY <1>1, <1>2, <2>1 DEF AtlIInv, AtlTypeOK, CtlRecords, workVars, ifVars
<1>6. LinkInv'
  BY <1>1, <1>2, CtlTypes DEF LinkInv, Flags, workVars
<1>7. CleaningInv'
  <2>1. SlotInv /\ RingInv /\ LockInv
    BY <1>1 DEF AtlIInv, ContentIInv, IInv
  <2>2. tx_lock = None
    BY <1>1, <2>1, CtlTypes DEF LockInv, XmitIdle, Locked, TypeOK
  <2>3. \A i \in Slots : ~(i < 0)
    BY DEF Slots
  <2> QED BY <1>1, <1>2, <2>1, <2>2, <2>3 DEF CleaningInv, SlotInv, RingInv
<1>8. FreeInv'
  BY <1>1 DEF AtlIInv, FreeInv
<1> QED BY <1>1, <1>2, <1>3, <1>4, <1>5, <1>6, <1>7, <1>8 DEF AtlIInv

\* The slot at the loop index is emptied and its packet, the ring's until now,
\* released.
LEMMA CleanRingWrites ==
    ASSUME AtlIInv, CleanRing, NEW n, n = ctl.idx
    PROVE  /\ n \in Slots
           /\ \A i \in Slots : i # n => buffer_info'[i] = buffer_info[i]
           /\ buffer_info'[n].skb = None /\ ~buffer_info'[n].dma
           /\ buffer_info' \in [Slots -> Buffers]
           /\ owner' \in [Skbs -> {"stack", "driver", "ring", "freed"}]
           /\ \A s \in Skbs : owner'[s] = IF buffer_info[n].skb = s THEN "freed" ELSE owner[s]
<1>1. /\ ctl.pc = "clean" /\ n \in Slots /\ buffer_info \in [Slots -> Buffers]
      /\ buffer_info' = [buffer_info EXCEPT ![n] = CleanBuffer(@)]
      /\ owner' = Released({n})
  BY CtlTypes DEF CleanRing, CtlRecords, Slots, TypeOK
<1>2. buffer_info[n].free => buffer_info[n].skb = None /\ ~buffer_info[n].dma
  BY <1>1 DEF AtlIInv, CleaningInv, FreeInv
<1>3. buffer_info'[n].skb = None /\ ~buffer_info'[n].dma
  BY <1>1, <1>2 DEF CleanBuffer, NoBuffer
<1>4. buffer_info' \in [Slots -> Buffers]
  BY <1>1, CleanBufferType
<1>5. \A s \in Skbs : owner'[s] = IF buffer_info[n].skb = s THEN "freed" ELSE owner[s]
  BY <1>1, <1>2 DEF Released
<1>6. owner' \in [Skbs -> {"stack", "driver", "ring", "freed"}]
  BY <1>1, CtlTypes DEF Released, TypeOK
<1> QED BY <1>1, <1>3, <1>4, <1>5, <1>6

LEMMA CleanRingStep ==
    ASSUME AtlIInv, CleanRing
    PROVE  AtlIInv'
<1> USE DEF hwVars, netVars, xmitVars, linkVars, devVars, workVars, ifVars
<1> DEFINE n == ctl.idx
<1>1. /\ ctl.pc = "clean" /\ n < Count /\ n \in Slots
      /\ ctl' = [ctl EXCEPT !.idx = n + 1]
      /\ UNCHANGED <<next_to_use, next_to_clean, desc, hwVars, netVars, xmitVars, intr,
                     linkVars, devVars, workVars, ifVars>>
  BY CleanRingWrites DEF CleanRing
<1>2. /\ ctl' \in CtlRecords /\ ctl'.pc = "clean" /\ ctl'.op = ctl.op /\ ctl'.idx = n + 1
      /\ ctl'.then # "configure"
  BY <1>1, CtlTypes DEF CtlRecords, Slots
<1>3. QuietInv'
  BY <1>1, <1>2, CtlTypes DEF QuietInv, XmitIdle
<1>4. CtlInv'
  BY <1>1, <1>2, CtlTypes DEF CtlInv, Restarting
<1>5. AtlTypeOK'
  <2>1. TypeOK'
    BY <1>1, CleanRingWrites, CtlTypes DEF TypeOK
  <2> QED BY <1>1, <1>2, <2>1 DEF AtlIInv, AtlTypeOK, CtlRecords
<1>6. LinkInv'
  BY <1>1, <1>2, CtlTypes DEF LinkInv, Flags
<1>7. \A i \in Slots : i # n => buffer_info'[i] = buffer_info[i]
  BY CleanRingWrites
<1>8. buffer_info'[n].skb = None /\ ~buffer_info'[n].dma
  BY CleanRingWrites
<1>9. \A s \in Skbs : owner'[s] = IF buffer_info[n].skb = s THEN "freed" ELSE owner[s]
  BY CleanRingWrites
<1>10. FreeInv'
  BY <1>7, <1>8 DEF AtlIInv, FreeInv
<1>11. CleaningInv /\ \A i \in Slots : buffer_info[i].skb \in Skbs \cup {None}
  BY <1>1, CtlTypes DEF AtlIInv, TypeOK, Buffers
<1>12. RingInv'
  <2> SUFFICES ASSUME NEW s \in Skbs, owner'[s] = "ring"
               PROVE  \E i \in Slots : buffer_info'[i].skb = s
    BY DEF RingInv
  <2>1. owner[s] = "ring" /\ buffer_info[n].skb # s
    BY <1>9
  <2>2. PICK i \in Slots : buffer_info[i].skb = s
    BY <1>11, <2>1 DEF CleaningInv, RingInv
  <2> QED BY <1>7, <2>1, <2>2
<1>13. CleaningInv'
  <2>1. \A i \in Slots : i < n + 1 => i = n \/ i < n
    BY <1>1 DEF Slots
  <2>2. ASSUME NEW i \in Slots, i # n, buffer_info[i].skb # None
        PROVE  owner'[buffer_info[i].skb] = "ring"
    <3>1. owner[buffer_info[i].skb] = "ring" /\ buffer_info[n].skb # buffer_info[i].skb
      BY <1>1, <1>11, <2>2 DEF CleaningInv
    <3> QED BY <1>9, <1>11, <2>2, <3>1
  <2>3. \A i \in Slots : buffer_info'[i].free => buffer_info'[i].skb = None
    BY <1>7, <1>8, <1>11 DEF CleaningInv
  <2>4. \A i \in Slots : buffer_info'[i].skb # None => owner'[buffer_info'[i].skb] = "ring"
    BY <1>7, <1>8, <2>2
  <2>5. \A i, j \in Slots : buffer_info'[i].skb # None /\ buffer_info'[j].skb = buffer_info'[i].skb =>
          j = i
    BY <1>7, <1>8, <1>11 DEF CleaningInv
  <2>6. \A i \in Slots : i < n + 1 => buffer_info'[i].skb = None /\ ~buffer_info'[i].dma
    BY <1>7, <1>8, <1>11, <2>1 DEF CleaningInv
  <2> QED BY <1>1, <1>2, <1>11, <1>12, <2>3, <2>4, <2>5, <2>6 DEF CleaningInv
<1> QED BY <1>2, <1>3, <1>4, <1>5, <1>6, <1>10, <1>13 DEF AtlIInv

\* A ring whose every slot is empty is the channel without a packet.
LEMMA AllCleaned ==
    ASSUME AtlIInv, ctl.pc = "clean", ctl.idx = Count
    PROVE  /\ \A i \in Slots : buffer_info[i].skb = None /\ ~buffer_info[i].dma
           /\ \A s \in Skbs : owner[s] # "ring"
<1>1. \A i \in Slots : i < Count
  BY DEF Slots
<1>2. \A i \in Slots : buffer_info[i].skb = None /\ ~buffer_info[i].dma
  BY <1>1 DEF AtlIInv, CleaningInv
<1>3. \A s \in Skbs : owner[s] # "ring"
  BY <1>2 DEF AtlIInv, CleaningInv, RingInv
<1> QED BY <1>2, <1>3

LEMMA CleanRingEndStep ==
    ASSUME AtlIInv, CleanRingEnd
    PROVE  AtlIInv'
<1> USE DEF hwVars, netVars, xmitVars, linkVars, devVars, workVars
<1>1. /\ ctl.pc = "clean" /\ ctl.idx = Count
      /\ desc' = [i \in Slots |-> ZeroDesc] /\ next_to_clean' = 0 /\ next_to_use' = 0
      /\ UNCHANGED <<buffer_info, hwVars, netVars, xmitVars, intr, owner, linkVars, devVars,
                     workVars, present>>
      /\ ctl' = [ctl EXCEPT !.pc = ctl.then]
      /\ \/ ctl.then = "idle" /\ running' = FALSE /\ closing' = FALSE
         \/ ctl.then # "idle" /\ UNCHANGED <<running, closing>>
  BY DEF CleanRingEnd, Ctl
<1>2. /\ ctl' \in CtlRecords /\ ctl'.pc = ctl.then /\ ctl'.op = ctl.op
      /\ ctl'.then = ctl.then /\ ctl.then \in {"idle", "up"}
  BY <1>1, CtlTypes DEF CtlRecords
<1>3. Empty'
  BY <1>1, AllCleaned DEF Empty
<1>4. /\ ~irq_on /\ at_down /\ intr.pc = "idle" /\ XmitIdle /\ pidx = 0 /\ cidx = 0
      /\ tx_lock = None /\ RingInv
  BY <1>1, CtlTypes DEF CtlInv, QuietInv, AtlIInv, CleaningInv
<1>5. QuietInv'
  BY <1>1, <1>3, <1>4 DEF QuietInv, XmitIdle
<1>6. CtlInv'
  BY <1>1, <1>2, <1>4, CtlTypes DEF CtlInv, Restarting
<1>7. TypeOK'
  BY <1>1, ZeroSlot, ZeroDescType, CtlTypes DEF TypeOK
<1>8. AtlTypeOK'
  <2>1. running' \in BOOLEAN /\ closing' \in BOOLEAN
    BY <1>1, CtlTypes DEF Flags
  <2>2. AtlTypeOK
    BY DEF AtlIInv
  <2>3. ctl' \in CtlRecords
    BY <1>2
  <2> QED BY <1>1, <1>7, <2>1, <2>2, <2>3 DEF AtlTypeOK, CtlRecords
<1>9. LinkInv'
  BY <1>1, <1>2, CtlTypes DEF LinkInv, Flags
<1>10. FreeInv'
  BY <1>1 DEF AtlIInv, FreeInv
<1>11. ContentIInv'
  BY <1>1, <1>3, <1>4, <1>7, EmptyRing DEF RingInv, XmitIdle
<1> QED BY <1>2, <1>5, <1>6, <1>8, <1>9, <1>10, <1>11 DEF AtlIInv

\* Setting up a ring that is empty leaves it empty.
LEMMA SetUpStep ==
    ASSUME AtlIInv, ~irq_on, ctl.pc \notin {"reset_mac", "clean"}, ctl'.pc # "clean",
           UNCHANGED <<desc, at_down, hwVars, xmitVars, intr, owner, linkVars, devVars>>, Flags',
           Empty', next_to_use' \in Slots, next_to_clean' \in Slots, FreeInv',
           buffer_info' \in [Slots -> Buffers],
           ctl' \in CtlRecords, ctl'.op # "link", ctl'.then # "configure", ctl'.pc # "configure",
           CtlInv'
    PROVE  AtlIInv'
<1> USE DEF hwVars, xmitVars, linkVars, devVars
<1>1. at_down /\ intr.pc = "idle" /\ XmitIdle /\ pidx = 0 /\ cidx = 0 /\ Empty
  BY CtlTypes DEF QuietInv
<1>2. tx_lock = None /\ RingInv
  BY <1>1, CtlTypes DEF AtlIInv, ContentIInv, IInv, LockInv, Locked, XmitIdle, TypeOK
<1>3. \A s \in Skbs : owner[s] # "ring"
  BY <1>1, <1>2 DEF RingInv, Empty
<1>4. RingInv'
  BY <1>3 DEF RingInv
<1>5. TypeOK'
  BY CtlTypes DEF TypeOK, Flags
<1>6. ContentIInv'
  BY <1>1, <1>2, <1>4, <1>5, EmptyRing DEF XmitIdle
<1>7. QuietInv'
  BY <1>1 DEF QuietInv, XmitIdle
<1>8. AtlTypeOK'
  BY <1>5, CtlTypes DEF AtlIInv, AtlTypeOK, CtlRecords, Flags
<1>9. LinkInv'
  BY CtlTypes DEF LinkInv, Flags
<1> QED BY <1>6, <1>7, <1>8, <1>9 DEF AtlIInv

LEMMA ConfigureEmpties ==
    ASSUME Configure, Empty, TypeOK
    PROVE  /\ Empty' /\ FreeInv' /\ next_to_use' \in Slots /\ next_to_clean' \in Slots
           /\ buffer_info' \in [Slots -> Buffers]
<1>1. /\ next_to_use' = 0 /\ next_to_clean' = 0 /\ 0 \in Slots
      /\ buffer_info \in [Slots -> Buffers]
      /\ buffer_info' = [buffer_info EXCEPT ![0] = [buffer_info[0] EXCEPT !.free = TRUE]]
  BY ZeroSlot DEF Configure, TypeOK
<1>2. \A b \in Buffers : /\ [b EXCEPT !.free = TRUE] \in Buffers
                         /\ [b EXCEPT !.free = TRUE].dma = b.dma
                         /\ [b EXCEPT !.free = TRUE].skb = b.skb
  BY DEF Buffers
<1>3. buffer_info' \in [Slots -> Buffers]
  BY <1>1, <1>2
<1>4. \A i \in Slots : buffer_info'[i].dma = buffer_info[i].dma /\ buffer_info'[i].skb = buffer_info[i].skb
  BY <1>1, <1>2
<1>5. Empty' /\ FreeInv'
  BY <1>1, <1>4 DEF Empty, FreeInv
<1> QED BY <1>1, <1>3, <1>5

LEMMA UpStep ==
    ASSUME AtlIInv, Up \/ UpFail
    PROVE  AtlIInv'
<1> USE DEF ifVars
<1>1. /\ ctl.pc = "up" /\ Configure /\ carrier' = FALSE
      /\ UNCHANGED <<desc, hwVars, queue_stopped, at_down, xmitVars, intr, owner, linkVars, devVars,
                     workVars, present, closing>>
      /\ \/ ctl' = [ctl EXCEPT !.pc = "check"] /\ running' = running
         \/ /\ ctl' = [ctl EXCEPT !.pc = IF ctl.op = "reset" THEN "attach" ELSE "idle"]
            /\ running' = (running /\ ctl.op = "reset")
  BY DEF Up, UpFail, Ctl
<1>2. /\ ctl' \in CtlRecords /\ ctl'.pc \in {"check", "attach", "idle"} /\ ctl'.op = ctl.op
      /\ ctl'.then = ctl.then
  <2>1. \E p \in {"check", "attach", "idle"} : ctl' = [ctl EXCEPT !.pc = p]
    BY <1>1
  <2> QED BY <2>1, CtlTypes DEF CtlRecords
<1>3. ~irq_on /\ Empty
  BY <1>1, CtlTypes DEF CtlInv, Restarting, QuietInv
<1>4. CtlInv'
  <2>1. irq_on' = irq_on
    BY <1>1 DEF devVars
  <2>2. ~running' /\ ~closing' =>
          ~irq_on' /\ (ctl'.pc = "idle" \/ (ctl'.op = "open" /\ ctl'.pc \in Restarting))
    <3>1. CASE ctl' = [ctl EXCEPT !.pc = "check"] /\ running' = running
      BY <1>1, <1>2, <1>3, <2>1, <3>1, CtlTypes DEF CtlInv, Restarting, CtlRecords
    <3>2. CASE /\ ctl' = [ctl EXCEPT !.pc = IF ctl.op = "reset" THEN "attach" ELSE "idle"]
               /\ running' = (running /\ ctl.op = "reset")
      BY <1>1, <1>3, <2>1, <3>2, CtlTypes DEF CtlInv, Restarting, CtlRecords
    <3> QED BY <1>1, <3>1, <3>2
  <2> QED BY <1>2, <1>3, <2>1, <2>2 DEF CtlInv, Restarting
<1>5. Flags'
  BY <1>1, CtlTypes DEF Flags, hwVars, linkVars, devVars, workVars
<1>6. /\ Empty' /\ FreeInv' /\ next_to_use' \in Slots /\ next_to_clean' \in Slots
      /\ buffer_info' \in [Slots -> Buffers]
  BY <1>1, <1>3, CtlTypes, ConfigureEmpties
<1>7. ctl'.op # "link" /\ ctl'.then # "configure"
  BY <1>2, CtlTypes
<1> QED BY <1>1, <1>2, <1>3, <1>4, <1>5, <1>6, <1>7, SetUpStep

LEMMA OpenStep ==
    ASSUME AtlIInv, Open
    PROVE  AtlIInv'
<1> USE DEF netVars, ifVars
<1>1. /\ ~running /\ ~closing /\ ctl.pc = "idle"
      /\ buffer_info' = [i \in Slots |-> FreshBuffer]
      /\ ctl' = [ctl EXCEPT !.pc = "up", !.op = "open"]
      /\ UNCHANGED <<next_to_use, next_to_clean, desc, hwVars, netVars, xmitVars, intr, owner,
                     linkVars, devVars, workVars, ifVars>>
  BY DEF Open
<1>2. /\ ctl' \in CtlRecords /\ ctl'.pc = "up" /\ ctl'.op = "open" /\ ctl'.then = ctl.then
  BY <1>1, CtlTypes DEF CtlRecords
<1>3. ~irq_on /\ Empty
  BY <1>1, CtlTypes DEF CtlInv, QuietInv
<1>4. CtlInv'
  BY <1>1, <1>2, <1>3 DEF CtlInv, Restarting, devVars
<1>5. Empty' /\ FreeInv' /\ buffer_info' \in [Slots -> Buffers]
  BY <1>1, <1>3 DEF Empty, FreeInv, Buffers, FreshBuffer
<1>6. next_to_use \in Slots /\ next_to_clean \in Slots
  BY CtlTypes DEF TypeOK
<1>7. Flags'
  BY <1>1, CtlTypes DEF Flags, hwVars, linkVars, devVars, workVars
<1>8. ctl'.then # "configure"
  BY <1>2, CtlTypes
<1> QED BY <1>1, <1>2, <1>3, <1>4, <1>5, <1>6, <1>7, <1>8, SetUpStep

(***************************************************************************)
(* Theorems                                                                *)
(***************************************************************************)

LEMMA InitAtl == AtlInit => AtlIInv
<1> SUFFICES ASSUME AtlInit PROVE AtlIInv
  OBVIOUS
<1>1. Init /\ IInv /\ Parts
  BY InitIInv, InitParts DEF AtlInit
<1>2. AtlTypeOK
  <2>1. 0 \in 0 .. MaxFlaps /\ 0 \in 0 .. Count
    OBVIOUS
  <2>2. TypeOK
    BY <1>1 DEF IInv
  <2> QED BY <2>1, <2>2 DEF AtlInit, AtlTypeOK
<1>3. LinkInv /\ QuietInv /\ CtlInv
  BY DEF AtlInit, LinkInv, QuietInv, CtlInv, Restarting
<1>4. FreeInv
  BY <1>1 DEF Init, FreeInv, NoBuffer, FreshBuffer
<1> QED BY <1>1, <1>2, <1>3, <1>4 DEF AtlInit, AtlIInv, ContentIInv, Parts

\* The link does not change: no event of the PHY is handled, no ring is reset for
\* a lost link.
LEMMA NoLinkStep ==
    ASSUME Undisturbed, AtlIInv
    PROVE  ~PhyChange /\ ~HandleLink /\ ~CheckLinkDown /\ ~CheckLinkConfigure
BY CtlTypes DEF Undisturbed, AtlIInv, AtlTypeOK, PhyChange, HandleLink, CheckLinkDown,
   CheckLinkConfigure

LEMMA AtlNextStep ==
    ASSUME Undisturbed, AtlIInv, [AtlNext]_allVars
    PROVE  AtlIInv'
<1>1. CASE Data
  BY <1>1, DataStep
<1>2. CASE Task
  BY <1>2, TaskRunStep, TaskResetStep, TaskAttachStep, TaskLinkStep DEF Task
<1>3. CASE Control
  BY <1>3, NoLinkStep, DownMarkStep, DownQuiesceStep, DownResetStep, CleanRingStep,
     CleanRingEndStep, UpStep, CheckLinkStep, EnableStep, CloseCancelStep DEF Control
<1>4. CASE UNCHANGED allVars
  <2>1. CtlInv'
    <3>1. UNCHANGED <<ctl, irq_on, at_down, running, closing>>
      BY <1>4 DEF allVars, ctlVars, vars, netVars, devVars, ifVars
    <3>2. CtlInv
      BY CtlTypes
    <3> QED BY <3>1, <3>2 DEF CtlInv, Restarting
  <2>2. UNCHANGED <<ringVars, hwVars, netVars, xmitVars, intr, owner, linkVars, devVars, workVars,
                    ctl, ifVars>>
    BY <1>4 DEF allVars, vars, ctlVars
  <2>3. Flags'
    BY <2>2, CtlTypes DEF Flags, hwVars, netVars, linkVars, devVars, workVars, ifVars
  <2> QED BY <2>1, <2>2, <2>3, SideStep DEF netVars
<1>5. AtlNext => \/ Data \/ PhyChange \/ HandleLink \/ TxTimeout \/ Task \/ Control
                 \/ CloseBegin \/ Open
  BY DEF AtlNext, Data
<1> QED BY <1>1, <1>2, <1>3, <1>4, <1>5, NoLinkStep, TxTimeoutStep, CloseBeginStep, OpenStep

\* As long as the link does not change, AtlIInv is inductive: with the interrupt
\* off nobody enters the ring, from the MAC reset on nobody is in it, and the
\* cleaning leaves it as atl1c_configure wants it.
THEOREM AtlInductive == ASSUME Undisturbed PROVE AtlSpec => []AtlIInv
<1>1. AtlInit => AtlIInv
  BY InitAtl
<1>2. AtlIInv /\ [AtlNext]_allVars => AtlIInv'
  BY AtlNextStep
<1> QED BY <1>1, <1>2, PTL DEF AtlSpec

\* Resets and closes leave the indices of the driver and of the NIC in order, at
\* whatever point of atl1c_xmit_frame, of the handler and of the NIC they begin
\* (atl1c_down, atl1c_reset_dma_ring, atl1c_up).
THEOREM OrderSurvivesReset == ASSUME Undisturbed PROVE AtlSpec => []OrderAfterReset
<1>1. AtlIInv => OrderAfterReset
  BY DEF AtlIInv, ContentIInv, IInv, OrderAfterReset
<1> QED BY <1>1, AtlInductive, PTL

\* With the interface down the ring is as the cleaning has left it.
LEMMA ClosedEmpty == AtlIInv => ClosedIsEmpty
<1>1. ASSUME AtlIInv, ~running, ~closing, ctl.pc = "idle"
      PROVE  /\ \A s \in Skbs : owner[s] # "ring"
             /\ \A i \in Slots : ~buffer_info[i].dma /\ buffer_info[i].skb = None
  <2>1. Empty /\ RingInv
    BY <1>1, CtlTypes DEF CtlInv, QuietInv, AtlIInv, ContentIInv
  <2> QED BY <2>1 DEF Empty, RingInv
<1> QED BY <1>1 DEF ClosedIsEmpty

\* A device that is closed holds no packet and maps no buffer, whether it was
\* closed in the middle of a reset, after one that failed, or after an open that
\* failed (atl1c_close, atl1c_clean_tx_ring).
THEOREM ClosedKeepsNothing == ASSUME Undisturbed PROVE AtlSpec => []ClosedIsEmpty
BY ClosedEmpty, AtlInductive, PTL

(***************************************************************************)
(* AtlTx implements TxChannel: each step is one of the channel, with the   *)
(* purge of a reset, or a stutter.                                         *)
(***************************************************************************)

AtlStep == AtlChannel!Next \/ UNCHANGED <<InRing, Before, InFreed, ctl.pc = "clean">>

\* Outside a reset a step of the ring's channel is one of the driver's.
LEMMA FromRing ==
    ASSUME ChannelStep, ctl.pc # "clean", ctl' = ctl
    PROVE  AtlStep
<1>1. CASE UNCHANGED <<InRing, Before, InFreed>>
  BY <1>1 DEF AtlStep
<1>2. CASE Channel!Next
  <2>1. ~Channel!Reset /\ \A s \in Skbs : ~Channel!Purge(s)
    BY DEF Channel!Reset, Channel!Purge
  <2>2. PICK s \in Skbs : \/ Channel!Accept(s) \/ Channel!Drop(s)
                          \/ Channel!Release(s) \/ Channel!Reuse(s)
    BY <1>2, <2>1 DEF Channel!Next
  <2>3. Channel!Accept(s) => AtlChannel!Accept(s)
    BY DEF Channel!Accept, AtlChannel!Accept
  <2>4. Channel!Drop(s) => AtlChannel!Drop(s)
    BY DEF Channel!Drop, AtlChannel!Drop
  <2>5. Channel!Release(s) => AtlChannel!Release(s)
    BY DEF Channel!Release, AtlChannel!Release, Channel!Oldest, AtlChannel!Oldest,
           Channel!Dequeue, AtlChannel!Dequeue
  <2>6. Channel!Reuse(s) => AtlChannel!Reuse(s)
    BY DEF Channel!Reuse, AtlChannel!Reuse
  <2> QED BY <2>2, <2>3, <2>4, <2>5, <2>6 DEF AtlStep, AtlChannel!Next
<1> QED BY <1>1, <1>2 DEF ChannelStep

\* While the ring is cleaned the stack can only have a packet dropped, and reuse
\* one.
LEMMA DataMaps ==
    ASSUME AtlIInv, Data
    PROVE  AtlStep
<1>1. ctl' = ctl
  BY DataIsNext DEF ctlVars
<1>2. CASE ctl.pc # "clean"
  <2>1. ChannelStep
    BY <1>2, DataIsNext, NextMaps DEF AtlIInv
  <2> QED BY <1>1, <1>2, <2>1, FromRing
<1>3. CASE ctl.pc = "clean"
  <2>1. QuietInv /\ ~irq_on /\ TypeOK
    BY <1>3, CtlTypes DEF CtlInv
  <2>2. Before' = Before
    BY <1>3, <2>1, QuietStep, BeforeFrame DEF ringVars
  <2>3. owner \in [Skbs -> {"stack", "driver", "ring", "freed"}]
    BY <2>1 DEF TypeOK
  <2>4. PICK s \in Skbs : \/ owner[s] = "stack" /\ owner' = [owner EXCEPT ![s] = "freed"]
                          \/ owner[s] = "freed" /\ owner' = [owner EXCEPT ![s] = "stack"]
    BY <1>3, <2>1, QuietStep
  <2>5. InRing' = InRing /\ s \notin InRing
    BY <2>3, <2>4 DEF InRing
  <2>6. CASE owner[s] = "stack" /\ owner' = [owner EXCEPT ![s] = "freed"]
    <3>1. s \notin InFreed /\ InFreed' = InFreed \cup {s}
      BY <2>3, <2>6 DEF InFreed
    <3>2. AtlChannel!Drop(s)
      BY <1>1, <2>2, <2>5, <3>1 DEF AtlChannel!Drop, InFreed
    <3> QED BY <3>2 DEF AtlStep, AtlChannel!Next
  <2>7. CASE owner[s] = "freed" /\ owner' = [owner EXCEPT ![s] = "stack"]
    <3>1. s \in InFreed /\ InFreed' = InFreed \ {s}
      BY <2>3, <2>7 DEF InFreed
    <3>2. AtlChannel!Reuse(s)
      BY <1>1, <2>2, <2>5, <3>1 DEF AtlChannel!Reuse, InFreed
    <3> QED BY <3>2 DEF AtlStep, AtlChannel!Next
  <2> QED BY <2>4, <2>6, <2>7
<1> QED BY <1>2, <1>3

\* What neither touches the slots' packets nor begins or ends the cleaning.
LEMMA StillMaps ==
    ASSUME UNCHANGED <<next_to_clean, owner>>,
           \A i \in Slots : buffer_info'[i].skb = buffer_info[i].skb,
           ctl'.pc = "clean" <=> ctl.pc = "clean"
    PROVE  AtlStep
<1>1. UNCHANGED <<InRing, Before, InFreed>>
  BY BeforeFrame, Stutter
<1>2. (ctl.pc = "clean")' = (ctl.pc = "clean")
  OBVIOUS
<1> QED BY <1>1, <1>2 DEF AtlStep

LEMMA AsideMaps ==
    ASSUME AtlIInv,
           \/ TaskRun \/ TaskReset \/ TaskAttach \/ TaskLink \/ TxTimeout \/ CloseBegin
           \/ DownMark \/ DownQuiesce \/ CheckLinkUp \/ CheckLinkUnresolved \/ Enable
           \/ CloseCancel
    PROVE  AtlStep
<1>1. UNCHANGED <<next_to_clean, buffer_info, owner>>
  BY DEF TaskRun, TaskReset, TaskAttach, TaskLink, TxTimeout, CloseBegin, DownMark, DownQuiesce,
     CheckLinkUp, CheckLinkUnresolved, Enable, CloseCancel, vars, ringVars
<1>2. CASE TxTimeout \/ CloseBegin
  BY <1>1, <1>2, StillMaps DEF TxTimeout, CloseBegin
<1>3. CASE TaskRun
  <2>1. ctl' = ctl \/ (ctl.pc = "idle" /\ ctl' = [ctl EXCEPT !.pc = "task"])
    BY <1>3 DEF TaskRun, Ctl
  <2> QED BY <1>1, <2>1, CtlTypes, StillMaps DEF CtlRecords
<1>4. CASE TaskReset \/ TaskAttach \/ TaskLink
  <2>1. /\ ctl.pc \in {"task", "attach", "tasklink"}
        /\ \/ \E p \in {"tasklink", "idle"} : ctl' = [ctl EXCEPT !.pc = p]
           \/ ctl' = [ctl EXCEPT !.pc = "down", !.op = "reset"]
           \/ ctl' = [ctl EXCEPT !.pc = "check", !.op = "link"]
    BY <1>4 DEF TaskReset, TaskAttach, TaskLink, Ctl
  <2> QED BY <1>1, <2>1, CtlTypes, StillMaps DEF CtlRecords
<1>5. CASE DownMark \/ DownQuiesce \/ CheckLinkUp \/ CheckLinkUnresolved \/ Enable
  <2>1. /\ ctl.pc \in {"down", "quiesce", "check", "enable"}
        /\ \E p \in {"quiesce", "reset_mac", "enable", "attach", "idle"} :
             ctl' = [ctl EXCEPT !.pc = p]
    BY <1>5 DEF DownMark, DownQuiesce, CheckLinkUp, CheckLinkUnresolved, Enable, Ctl
  <2> QED BY <1>1, <2>1, CtlTypes, StillMaps DEF CtlRecords
<1>6. CASE CloseCancel
  <2>1. ctl.pc = "idle" /\ ctl' = [ctl EXCEPT !.pc = "down", !.op = "close"]
    BY <1>6 DEF CloseCancel
  <2> QED BY <1>1, <2>1, CtlTypes, StillMaps DEF CtlRecords
<1> QED BY <1>2, <1>3, <1>4, <1>5, <1>6

LEMMA NoneHeld ==
    /\ (\A i \in Slots : buffer_info[i].skb = None) => Before = {}
    /\ (\A i \in Slots : buffer_info'[i].skb = None) => Before' = {}
BY DEF Before, Holds, Slots

LEMMA SetUpMaps ==
    ASSUME AtlIInv, Up \/ UpFail \/ Open
    PROVE  AtlStep
<1>1. Empty /\ ctl.pc # "clean"
  BY CtlTypes DEF Up, UpFail, Open, CtlInv, Restarting, QuietInv
<1>2. owner' = owner /\ next_to_clean' = next_to_clean
  BY <1>1 DEF Up, UpFail, Open, Configure, Empty
<1>3. \A i \in Slots : buffer_info'[i].skb = buffer_info[i].skb
  <2>1. CASE Open
    BY <1>1, <2>1 DEF Open, Empty, FreshBuffer
  <2>2. CASE Configure
    BY <2>2, CtlTypes DEF Configure, TypeOK, Buffers
  <2> QED BY <2>1, <2>2 DEF Up, UpFail
<1>4. \E p \in {"check", "attach", "idle", "up"} :
        ctl' = [ctl EXCEPT !.pc = p] \/ ctl' = [ctl EXCEPT !.pc = p, !.op = "open"]
  BY DEF Up, UpFail, Open, Ctl
<1>5. ctl'.pc # "clean"
  BY <1>4, CtlTypes DEF CtlRecords
<1> QED BY <1>1, <1>2, <1>3, <1>5, StillMaps

\* The purge begins when the NIC has forgotten its rings.
LEMMA DownResetMaps ==
    ASSUME Undisturbed, AtlIInv, DownReset
    PROVE  AtlStep
<1>1. UNCHANGED <<next_to_clean, buffer_info, owner>>
  BY DownResetStep
<1>2. UNCHANGED <<InRing, Before, InFreed>>
  BY <1>1, BeforeFrame, Stutter
<1>3. ctl.pc = "reset_mac" /\ ctl'.pc = "clean"
  BY CtlTypes DEF DownReset, CtlRecords
<1>4. (ctl.pc = "clean")' = ~(ctl.pc = "clean")
  BY <1>3
<1>5. AtlChannel!Reset
  BY <1>2, <1>3, <1>4 DEF AtlChannel!Reset, InFreed
<1> QED BY <1>5 DEF AtlStep, AtlChannel!Next

\* Each slot that holds a packet purges it.
LEMMA CleanRingMaps ==
    ASSUME AtlIInv, CleanRing
    PROVE  AtlStep
<1> DEFINE k == next_to_clean
<1>1. PICK n : n = ctl.idx
  OBVIOUS
<1>2. /\ n \in Slots /\ ctl.pc = "clean" /\ ctl'.pc = "clean" /\ k' = k
      /\ \A i \in Slots : i # n => buffer_info'[i] = buffer_info[i]
      /\ buffer_info'[n].skb = None
      /\ \A s \in Skbs : owner'[s] = IF buffer_info[n].skb = s THEN "freed" ELSE owner[s]
  <2>1. ctl.pc = "clean" /\ k' = k /\ ctl' = [ctl EXCEPT !.idx = @ + 1]
    BY DEF CleanRing
  <2>2. ctl'.pc = "clean"
    BY <2>1, CtlTypes DEF CtlRecords
  <2> QED BY <1>1, <2>1, <2>2, CleanRingWrites
<1>3. CASE buffer_info[n].skb = None
  <2>1. \A i \in Slots : buffer_info'[i].skb = buffer_info[i].skb
    BY <1>2, <1>3
  <2>2. \A s \in Skbs : owner'[s] = owner[s]
    BY <1>2, <1>3
  <2>3. UNCHANGED <<InRing, Before, InFreed>>
    BY <1>2, <2>1, <2>2, BeforeFrame, Stutter
  <2> QED BY <1>2, <2>3 DEF AtlStep
<1>4. CASE buffer_info[n].skb # None
  <2>1. PICK s \in Skbs : s = buffer_info[n].skb
    BY <1>2, <1>4, CtlTypes DEF TypeOK, Buffers
  <2>2. /\ s # None /\ owner[s] = "ring" /\ CleaningInv
        /\ \A i \in Slots : buffer_info[i].skb = s => i = n
    BY <1>2, <1>4, <2>1 DEF AtlIInv, CleaningInv
  <2>3. s \in InRing /\ InRing' = InRing \ {s} /\ InFreed' = InFreed \cup {s}
    BY <1>2, <2>1, <2>2 DEF InRing, InFreed
  <2>4. \A i \in Slots, x \in Skbs : buffer_info'[i].skb = x <=> buffer_info[i].skb = x /\ x # s
    BY <1>2, <2>1, <2>2
  <2>5. \A i \in Slots, x \in Skbs : buffer_info[i].skb = x => x \in InRing
    BY <2>2 DEF CleaningInv, InRing
  <2>6. ASSUME NEW t \in Skbs, NEW u \in Skbs
        PROVE  <<t, u>> \in Before' <=> <<t, u>> \in Before /\ t \in InRing' /\ u \in InRing'
    <3>1. <<t, u>> \in Before' <=>
            \E i, j \in Slots : /\ buffer_info'[i].skb = t /\ buffer_info'[j].skb = u
                                /\ Dist(k, i) < Dist(k, j)
      BY <1>2, <2>6 DEF Before, Holds, Slots
    <3>2. <<t, u>> \in Before <=>
            \E i, j \in Slots : /\ buffer_info[i].skb = t /\ buffer_info[j].skb = u
                                /\ Dist(k, i) < Dist(k, j)
      BY <2>6 DEF Before, Holds
    <3> QED BY <3>1, <3>2, <2>3, <2>4, <2>5, <2>6
  <2>7. Before' = Before \cap (InRing' \X InRing')
    <3>1. Before \subseteq Skbs \X Skbs /\ Before' \subseteq Skbs \X Skbs
      BY DEF Before
    <3> HIDE DEF k
    <3> QED BY <3>1, <2>6
  <2>8. AtlChannel!Purge(s)
    BY <1>2, <2>3, <2>7 DEF AtlChannel!Purge, AtlChannel!Dequeue, InFreed
  <2> QED BY <2>8 DEF AtlStep, AtlChannel!Next
<1> QED BY <1>3, <1>4

\* The purge is over when no slot holds a packet.
LEMMA CleanRingEndMaps ==
    ASSUME AtlIInv, CleanRingEnd
    PROVE  AtlStep
<1>1. /\ ctl.pc = "clean" /\ ctl.idx = Count /\ UNCHANGED <<buffer_info, owner>>
      /\ ctl' = [ctl EXCEPT !.pc = ctl.then] /\ ctl.then # "clean"
  BY CtlTypes DEF CleanRingEnd, Ctl, CtlRecords
<1>2. ctl'.pc # "clean"
  BY <1>1, CtlTypes DEF CtlRecords
<1>3. Before = {} /\ Before' = {}
  BY <1>1, AllCleaned, NoneHeld
<1>4. InRing = {} /\ UNCHANGED <<InRing, InFreed>>
  BY <1>1, AllCleaned DEF InRing, InFreed
<1>5. (ctl.pc = "clean")' = ~(ctl.pc = "clean")
  BY <1>1, <1>2
<1>6. AtlChannel!Reset
  BY <1>3, <1>4, <1>5 DEF AtlChannel!Reset, InFreed
<1> QED BY <1>6 DEF AtlStep, AtlChannel!Next

LEMMA AtlMaps ==
    ASSUME Undisturbed, AtlIInv, AtlNext
    PROVE  AtlStep
<1>1. CASE Data
  BY <1>1, DataMaps
<1>2. CASE Task
  BY <1>2, AsideMaps DEF Task
<1>3. CASE Control
  BY <1>3, NoLinkStep, AsideMaps, SetUpMaps, DownResetMaps, CleanRingMaps, CleanRingEndMaps DEF Control
<1>4. AtlNext => \/ Data \/ PhyChange \/ HandleLink \/ TxTimeout \/ Task \/ Control
                 \/ CloseBegin \/ Open
  BY DEF AtlNext, Data
<1> QED BY <1>1, <1>2, <1>3, <1>4, NoLinkStep, AsideMaps, SetUpMaps

LEMMA InitMaps == AtlInit => AtlChannel!Init
<1> SUFFICES ASSUME AtlInit PROVE AtlChannel!Init
  OBVIOUS
<1>1. InRing = {} /\ InFreed = {}
  BY DEF AtlInit, Init, InRing, InFreed
<1>2. Before = {}
  BY NoneHeld DEF AtlInit, Init, NoBuffer, FreshBuffer
<1>3. ctl.pc = "idle"
  BY DEF AtlInit
<1> QED BY <1>1, <1>2, <1>3 DEF AtlChannel!Init, InFreed

\* The driver as the stack sees it, through any number of resets, closes and
\* opens, is the channel of TxChannel: a reset begins a purge with the MAC reset,
\* releases each packet the ring holds once, and accepts none until it is through
\* (atl1c_down, atl1c_clean_tx_ring).
THEOREM DriverIsChannel == ASSUME Undisturbed PROVE AtlSpec => ResetIsPurge
<1>1. AtlInit => AtlChannel!Init
  BY InitMaps
<1>2. AtlIInv /\ [AtlNext]_allVars => [AtlChannel!Next]_AtlChannel!vars
  <2>1. ASSUME UNCHANGED allVars
        PROVE  UNCHANGED <<InRing, Before, InFreed, ctl.pc = "clean">>
    <3>1. UNCHANGED <<next_to_clean, buffer_info, owner, ctl>>
      BY <2>1 DEF allVars, vars, ringVars, ctlVars
    <3> QED BY <3>1, BeforeFrame, Stutter
  <2> QED BY <2>1, AtlMaps DEF AtlStep, AtlChannel!vars, InFreed
<1> QED BY <1>1, <1>2, AtlInductive, PTL DEF AtlSpec, ResetIsPurge, AtlChannel!Spec

(***************************************************************************)
(* MCAtl runs AtlTx beside other parts: its properties follow.             *)
(***************************************************************************)

LEMMA RunInductive == ASSUME Undisturbed PROVE MCSpec => [](which = "reset" => AtlIInv)
<1>1. MCInit => (which = "reset" => AtlIInv)
  BY InitAtl DEF MCInit
<1>2. (which = "reset" => AtlIInv) /\ [MCNext]_mcVars => (which = "reset" => AtlIInv)'
  BY AtlNextStep DEF MCNext, InReset, InLive, InTpd, InRx, mcVars
<1> QED BY <1>1, <1>2, PTL DEF MCSpec

\* OrderSurvivesReset and ClosedKeepsNothing, as the run of MCAtl states them: after
\* atl1c_reset_dma_ring the indices of the driver and of the NIC are in order
\* again, and a device that is closed is empty.
THEOREM RunIsClean == ASSUME Undisturbed PROVE MCSpec => []MCResetIsClean
<1>1. (which = "reset" => AtlIInv) => MCResetIsClean
  BY ClosedEmpty DEF AtlIInv, ContentIInv, IInv, OrderAfterReset, MCResetIsClean
<1> QED BY <1>1, RunInductive, PTL

\* DriverIsChannel, as the run of MCAtl states it: every step of the driver, the
\* cleaning of atl1c_clean_tx_ring included, is one of TxChannel or a stutter.
THEOREM RunIsPurge == ASSUME Undisturbed PROVE MCSpec => MCResetIsPurge
<1>1. MCInit => (which = "reset" => AtlChannel!Init)
  BY InitMaps DEF MCInit
<1>2. (which = "reset" => AtlIInv) /\ [MCNext]_mcVars =>
        [which = "reset" => AtlChannel!Next \/ UNCHANGED AtlChannel!vars]_mcVars
  <2>1. ASSUME which = "reset", AtlIInv, MCNext
        PROVE  AtlStep
    BY <2>1, AtlMaps DEF MCNext, InReset, InLive, InTpd, InRx
  <2> QED BY <2>1 DEF AtlStep, AtlChannel!vars, InFreed
<1> QED BY <1>1, <1>2, RunInductive, PTL DEF MCSpec, MCResetIsPurge
=============================================================================
