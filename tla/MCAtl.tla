------------------------------- MODULE MCAtl -------------------------------
\* The transmit and the receive path of atl1c with small rings, "which" says
\* of what: the resets and failures of AtlTx ("reset"), and what must come at
\* last in AtlTx ("live"), TpdRing ("tpd") and RxRing ("rx"). The instances use
\* the variables of the same names; the ones a part does not have stay 0.
EXTENDS MCAtlTx

CONSTANT s4

VARIABLES which, prod, hw_rfd, rrd, hw_rrd, isr_rx, rx_unmasked, napi, up

Live == INSTANCE AtlTx WITH
    Count <- 2, Skbs <- {s2, s3}, Shape <- [s \in {s2, s3} |-> AllShapes[s]],
    Failures <- {}, MaxIntWork <- 1, MaxFlaps <- 2, ShortXmit <- TRUE

TpdShape ==
    s1 :> [Packet(0) EXCEPT !.gso = "tcp6", !.split = TRUE] @@
    s2 :> Packet(1) @@
    s3 :> [Packet(0) EXCEPT !.oddcsum = TRUE]

Tpd == INSTANCE TpdRing WITH
    Count <- 4, Skbs <- {s1, s2, s3}, Shape <- TpdShape, Failures <- {"dma"}, MaxIntWork <- 2

Rx == INSTANCE RxRing WITH
    Count <- 4, Skbs <- {s1, s2, s3, s4}, Budget <- 2, Kinds <- {"good"}, Failures <- {},
    MaxFlaps <- 0, Drained <- TRUE

rxVars == <<prod, hw_rfd, rrd, hw_rrd, isr_rx, rx_unmasked, napi, up>>
txVars == <<desc, pidx, cidx, isr_tx, queue_stopped, at_down, xmitVars, intr,
            link, isr_gphy, speed, devVars, workVars, ctl, ifVars>>
mcVars == <<which, allVars, rxVars>>

ZeroRx ==
    /\ prod = 0 /\ hw_rfd = 0 /\ rrd = 0 /\ hw_rrd = 0 /\ isr_rx = 0 /\ rx_unmasked = 0
    /\ napi = 0 /\ up = 0

ZeroCtl ==
    /\ link = 0 /\ flaps = 0 /\ isr_gphy = 0 /\ speed = 0
    /\ mac_on = 0 /\ irq_on = 0 /\ napi_on = 0 /\ events = 0 /\ queued = 0 /\ ctl = 0
    /\ present = 0 /\ running = 0 /\ closing = 0

\* All but flaps, which RxRing has too.
ZeroTx ==
    /\ desc = 0 /\ pidx = 0 /\ cidx = 0 /\ isr_tx = 0 /\ queue_stopped = 0 /\ at_down = 0
    /\ tx_lock = 0 /\ pc = 0 /\ skb = 0 /\ first = 0 /\ left = 0 /\ intr = 0
    /\ link = 0 /\ isr_gphy = 0 /\ speed = 0
    /\ mac_on = 0 /\ irq_on = 0 /\ napi_on = 0 /\ events = 0 /\ queued = 0 /\ ctl = 0
    /\ present = 0 /\ running = 0 /\ closing = 0

MCInit ==
    \/ which = "reset" /\ AtlInit /\ ZeroRx
    \/ which = "live" /\ Live!AtlInit /\ ZeroRx
    \/ which = "tpd" /\ Tpd!Init /\ ZeroCtl /\ ZeroRx
    \/ which = "rx" /\ Rx!Init /\ ZeroTx

InReset(A) == which = "reset" /\ A /\ UNCHANGED <<which, rxVars>>
InLive(A)  == which = "live" /\ A /\ UNCHANGED <<which, rxVars>>
InTpd(A)   == which = "tpd" /\ A /\ UNCHANGED <<which, rxVars, ctlVars>>
InRx(A)    == which = "rx" /\ A /\ UNCHANGED <<which, txVars>>

MCNext == InReset(AtlNext) \/ InLive(Live!AtlNext) \/ InTpd(Tpd!Next) \/ InRx(Rx!Next)

\* The fairness of AtlTx, TpdRing and RxRing. As which never changes, fairness
\* of "one or the other" is fairness of each.
MCFairness ==
    /\ \A c \in Cpus : WF_mcVars(/\ which \in {"live", "tpd"} /\ pc[c] # "idle"
                                 /\ InLive(Live!Transmit(c)) \/ InTpd(Tpd!Xmit(c)))
    /\ WF_mcVars(InLive(Live!Handle) \/ InTpd(Tpd!Intr) \/ InRx(Rx!IntrRx))
    /\ WF_mcVars(InLive(Live!HwSend) \/ InTpd(Tpd!HwTransmit) \/ InRx(Rx!Poll))
    /\ WF_mcVars(InLive(Live!HandleLink) \/ InRx(Rx!StackFree(s1)))
    /\ WF_mcVars(InLive(Live!TxTimeout) \/ InRx(Rx!StackFree(s2)))
    /\ WF_mcVars(InLive(Live!Task) \/ InRx(Rx!StackFree(s3)))
    /\ WF_mcVars(InLive(Live!Control) \/ InRx(Rx!StackFree(s4)))

MCSpec == MCInit /\ [][MCNext]_mcVars /\ MCFairness

(***************************************************************************)
(* Properties: those of AtlTx, TpdRing and RxRing, each for its part. A    *)
(* condition that always ends again is stated as []<>~condition.           *)
(***************************************************************************)

\* OrderAfterReset and ClosedIsEmpty of AtlTx: resets and closes leave the indices
\* of the driver and of the NIC in order (atl1c_reset_dma_ring), and a device that
\* is closed keeps no packet and no mapping (atl1c_clean_tx_ring).
MCResetIsClean == which = "reset" => OrderAfterReset /\ ClosedIsEmpty

\* ResetIsPurge of AtlTx: resets and closes do not disturb what the stack sees;
\* every step is one of TxChannel (atl1c_clean_tx_ring).
MCResetIsPurge ==
    /\ which = "reset" => AtlChannel!Init
    /\ [][which = "reset" => AtlChannel!Next \/ UNCHANGED AtlChannel!vars]_mcVars

\* QueueRestarts of AtlTx: a stopped queue is started again as long as the
\* device is open and the link there (atl1c_tx_timeout, atl1c_common_task).
MCQueueRestarts == []<>~(which = "live" /\ queue_stopped /\ running /\ link)

\* CloseReturns of AtlTx: "this is not allowed to fail" (atl1c_main.c:2414).
MCCloseReturns == []<>~(which = "live" /\ closing)

\* QueuedIsReleased of TpdRing: every packet queued to the NIC is released,
\* whatever acknowledgements race with it (atl1c_intr, atl1c_clean_tx_irq).
MCQueuedIsReleased == \A s \in {s1, s2, s3} : []<>~(which = "tpd" /\ owner[s] = "ring")

\* FrameIsHandled and RfdsComeBack of RxRing: every frame the NIC reports is
\* dealt with, between the acknowledgement, the mask, the budget and NAPI
\* (atl1c_clean), and good traffic never leaves the NIC without buffers for
\* good (atl1c_alloc_rx_buffer). The buffers are alike.
MCRxGoesOn ==
    /\ []<>~(which = "rx" /\ s1 \in Rx!Reported)
    /\ []<>~(which = "rx" /\ up /\ hw_rfd = prod)
=============================================================================
