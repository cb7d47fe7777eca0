------------------------------ MODULE MCDrivers ------------------------------
\* The parts of the repository that run by themselves, checked one at a time:
\* "which" says which. Each part has the variables x1, x2, ... for its own; the
\* ones it does not need stay 0.
EXTENDS Integers, Sequences, FiniteSets

\* The parameters of the parts that DriversProofs is about.
CONSTANTS
    PoolReaders, PoolInputSize, PoolBlockingSize, PoolBitFrac, PoolByteBits, PoolReadWakeup,
    PoolWriteWakeup, PoolCredits, PoolReseedBytes, PoolEvents,
    CrngReaders, CrngSources, CrngDrivers, CrngNodes, CrngThresh, CrngCalls,
    HidUsers, HidOpens,
    DrvKinds, DrvParams, DrvAttributes, DrvValues, DrvFailures, DrvUser,
    HookVersions, HookCpus, HookPrograms, HookCalls,
    HwNics, HwMtus, HwSettings, HwPartners, HwFailures, HwOps,
    ChrTasks, ChrTexts, ChrSize, ChrFailures, ChrCalls,
    CutCount, CutFrames, CutPieces, CutGso, CutGso6, CutOdd, CutFlaps

\* Values for TLC.
MCTexts == {<<"x">>, <<"x", "y">>}
MCPieces == [f \in CutFrames |-> IF f = "f1" THEN 2 ELSE 1]

VARIABLES which, x1, x2, x3, x4, x5, x6, x7, x8, x9, x10, x11, x12, x13, x14, x15, x16, x17, x18, x19, x20, x21

Zero15 == x16 = 0 /\ x17 = 0 /\ x18 = 0 /\ x19 = 0 /\ x20 = 0 /\ x21 = 0
Zero13 == x14 = 0 /\ x15 = 0 /\ Zero15
Zero11 == x12 = 0 /\ x13 = 0 /\ Zero13
Zero10 == x11 = 0 /\ Zero11
Zero9 == x10 = 0 /\ Zero10
Zero8 == x9 = 0 /\ Zero9

rest15 == <<x16, x17, x18, x19, x20, x21>>
rest13 == <<x14, x15, rest15>>
rest11 == <<x12, x13, rest13>>
rest10 == <<x11, rest11>>
rest9 == <<x10, rest10>>
rest8 == <<x9, rest9>>

Hw == INSTANCE AtlHw WITH
    Nics <- HwNics, Mtus <- HwMtus, Settings <- HwSettings, Partners <- HwPartners,
    Failures <- HwFailures, MaxHwOps <- HwOps,
    nic <- x1, stage <- x2, nd <- x3, hw <- x4, reg <- x5, phy <- x6, partner <- x7, hwops <- x8

Decode == INSTANCE AtkbdDecode WITH
    Encodings <- {"translated", "set2", "set3"}, Keys <- {"a", "shift", "up", "f7", "pause", "hanja"},
    MaxBytes <- 8, MaxStrokes <- 4,
    encoding <- x1, held <- x2, wire <- x3, emul <- x4, release <- x5, xl <- x6, enabled <- x7,
    down <- x8, lost <- x9, missed <- x10, fresh <- x11, pulled <- x12, torn <- x13, acks <-
    x14, strokes <- x15

Drv == INSTANCE AtkbdDrv WITH
    Kinds <- DrvKinds, Params <- DrvParams, Attributes <- DrvAttributes, Values <- DrvValues,
    Failures <- DrvFailures, MaxUser <- DrvUser,
    kind <- x1, port <- x2, a <- x3, enabled <- x4, devs <- x5, want <- x6, kb <- x7, bat <- x8,
    rq <- x9, mutex <- x10, wq <- x11, wpc <- x12, mask <- x13, cancelling <- x14, spc <- x15,
    op <- x16, old <- x17, failed <- x18, deaf <- x19, lowered <- x20, user <- x21

Pool == INSTANCE RandomPool WITH
    Readers <- PoolReaders, InputSize <- PoolInputSize, BlockingSize <- PoolBlockingSize,
    BitFrac <- PoolBitFrac, ByteBits <- PoolByteBits, ReadWakeup <- PoolReadWakeup,
    WriteWakeup <- PoolWriteWakeup, Credits <- PoolCredits, ReseedBytes <- PoolReseedBytes,
    MaxEvents <- PoolEvents,
    count <- x1, total <- x2, inited <- x3, ready <- x4, pushWork <- x5, th <- x6, events <- x7,
    given <- x8, zapped <- x9

Crng == INSTANCE RandomCrng WITH
    Readers <- CrngReaders, Sources <- CrngSources, Drivers <- CrngDrivers, Nodes <- CrngNodes,
    Thresh <- CrngThresh, MaxCalls <- CrngCalls,
    init <- x1, cnt <- x2, fresh <- x3, expired <- x4, holder <- x5, listHolder <- x6, list <-
    x7, drv <- x8, refs <- x9, th <- x10, calls <- x11

Hid == INSTANCE UsbHid WITH
    Users <- HidUsers, MaxOpens <- HidOpens,
    plugged <- x1, bound <- x2, usbhid <- x3, queued <- x4, running <- x5, killers <- x6, user
    <- x7, pm <- x8, shared <- x9, opens <- x10

Chr == INSTANCE CharDevs WITH
    Tasks <- ChrTasks, Texts <- ChrTexts, BufSize <- ChrSize,
    Failures <- ChrFailures, MaxCalls <- ChrCalls,
    dev <- x1, loaded <- x2, held <- x3, buf <- x4, loc <- x5, port <- x6, file <- x7, log <-
    x8, shared <- x9, calls <- x10, crashed <- x11

Small == INSTANCE SmallKbd WITH
    Drivers <- {"full", "micro"}, Keys <- {30, 65, 103, 119}, MaxBytes <- 6, MaxStrokes <- 4,
    driver <- x1, conn <- x2, bound <- x3, irq <- x4, weirdkey <- x5, down <- x6, held <- x7,
    wire <- x8, missed <- x9, torn <- x10, strokes <- x11

Hook == INSTANCE Hooks WITH
    Versions <- HookVersions, Cpus <- HookCpus, Programs <- HookPrograms, MaxCalls <- HookCalls,
    version <- x1, pc <- x2, cpu <- x3, wp <- x4, rw <- x5, table <- x6, saved <- x7, call <-
    x8, crashed <- x9, moved <- x10, calls <- x11

Cut == INSTANCE CutTx WITH
    Count <- CutCount, Frames <- CutFrames, Pieces <- CutPieces, Gso <- CutGso, Gso6 <- CutGso6,
    Odd <- CutOdd, MaxFlaps <- CutFlaps, None <- "none",
    next_to_use <- x1, next_to_clean <- x2, slot <- x3, pidx <- x4, cidx <- x5, isr_tx <- x6,
    queue_stopped <- x7, carrier <- x8, at_down <- x9, owner <- x10, gathered <- x11, sent <-
    x12, flaps <- x13

Init ==
    \/ which = "hw" /\ Hw!Init /\ Zero8
    \/ which = "decode" /\ Decode!Init /\ Zero15
    \/ which = "atkbd" /\ Drv!Init
    \/ which = "pool" /\ Pool!Init /\ Zero9
    \/ which = "crng" /\ Crng!Init /\ Zero11
    \/ which = "hid" /\ Hid!Init /\ Zero10
    \/ which = "chrdev" /\ Chr!Init /\ Zero11
    \/ which = "smallkbd" /\ Small!Init /\ Zero11
    \/ which = "hooks" /\ Hook!Init /\ Zero11
    \/ which = "cut" /\ Cut!Init /\ Zero13

Next ==
    /\ UNCHANGED which
    /\ \/ which = "hw" /\ Hw!Next /\ UNCHANGED rest8
       \/ which = "decode" /\ Decode!Next /\ UNCHANGED rest15
       \/ which = "atkbd" /\ Drv!Next
       \/ which = "pool" /\ Pool!Next /\ UNCHANGED rest9
       \/ which = "crng" /\ Crng!Next /\ UNCHANGED rest11
       \/ which = "hid" /\ Hid!Next /\ UNCHANGED rest10
       \/ which = "chrdev" /\ Chr!Next /\ UNCHANGED rest11
       \/ which = "smallkbd" /\ Small!Next /\ UNCHANGED rest11
       \/ which = "hooks" /\ Hook!Next /\ UNCHANGED rest11
       \/ which = "cut" /\ Cut!Next /\ UNCHANGED rest13

vars == <<which, x1, x2, x3, x4, x5, x6, x7, x8, rest8>>

Spec == Init /\ [][Next]_vars

FairSpec ==
    /\ Spec
    /\ WF_vars(which = "atkbd" /\ UNCHANGED which /\ (Drv!WorkFire \/ Drv!WorkLock \/ Drv!WorkLeds \/ Drv!WorkRep))
    /\ WF_vars(which = "atkbd" /\ UNCHANGED which /\ Drv!Serio)
    /\ WF_vars(which = "atkbd" /\ UNCHANGED which
                  /\ (Drv!StoreLock \/ Drv!StoreNothing \/ Drv!StoreAlter \/ Drv!StoreRegister \/ Drv!StoreEnable))
    /\ WF_vars(which = "atkbd" /\ UNCHANGED which /\ Drv!InterruptBat)
    /\ \A t \in Pool!Threads : WF_vars(which = "pool" /\ UNCHANGED <<which, rest9>> /\ Pool!Step(t))
    /\ WF_vars(which = "pool" /\ UNCHANGED <<which, rest9>> /\ Pool!Push)
    /\ WF_vars(which = "pool" /\ UNCHANGED <<which, rest9>> /\ Pool!Hwrng)
    /\ \A t \in Crng!Threads :
           WF_vars(which = "crng" /\ UNCHANGED <<which, rest11>> /\ ~Crng!At(t, "asleep") /\ Crng!Step(t))

(***************************************************************************)
(* What the proofs assume of the parameters                                *)
(***************************************************************************)

ASSUME PoolPartAssumption == IsFiniteSet(PoolReaders) /\ Pool!PoolAssumption
ASSUME CrngAssumption ==
    /\ "none" \notin CrngReaders \cup CrngSources /\ CrngReaders \cap CrngSources = {}
    /\ "primary" \notin CrngNodes
ASSUME HidAssumption == "stop" \notin HidUsers
ASSUME HookAssumption == HookCpus # {} /\ HookVersions \subseteq 1 .. 3
ASSUME DrvPartAssumption == Drv!DrvAssumption
ASSUME HwPartAssumption == Hw!HwAssumption
ASSUME ChrPartAssumption == Chr!ChrAssumption
ASSUME CutPartAssumption == Cut!CutAssumption

(***************************************************************************)
(* Properties                                                              *)
(***************************************************************************)

\* The atl1c hardware is left as the user, the link and the adapter's own
\* rules ask for, over any sequence of ethtool, open, close, suspend, resume
\* and rebinding (atl1c_hw.c, atl1c_ethtool.c).
HardwareAsAsked ==
    which = "hw" => /\ Hw!TypeOK /\ Hw!InactiveNoAspm /\ Hw!WakesAsAsked /\ Hw!AdvertisesAsAsked
                    /\ Hw!ProgrammedAsAsked /\ Hw!PermanentIsNotUsers /\ Hw!OtpClockOff

\* The keys the input layer holds for down are the keys held, whatever the
\* encoding, the prefixes, errors, self tests and reconnects (atkbd_interrupt
\* of atkbd-new.c, and of the two drivers cut down from it, whose handlers also
\* find their device).
DecodedAsHeld ==
    /\ which = "decode" => Decode!KeysAgree /\ Decode!PlugIsNoticed
    /\ which = "smallkbd" => Small!TablesAgree /\ Small!KeysAgree /\ Small!HandlerHasDevice

\* The attributes of a keyboard, its input device and the keyboard agree at
\* rest, also after a step that failed and was undone; one that is freed has
\* no work left (atkbd_attr_set_helper, atkbd_reconnect, atkbd_disconnect).
KeyboardCoherent ==
    which = "atkbd" => Drv!ConfigCoherent /\ Drv!FreedIsIdle /\ Drv!SetsAgree

\* /dev/random gives out no more than the sources have credited.
NeverOverestimates == which = "pool" => Pool!NeverOverestimates

\* The callbacks of modules that wait for the generator are all called, once,
\* with their module there; a request after that gets a seeded generator.
CrngServes ==
    which = "crng" => Crng!NoneForgotten /\ Crng!CallbackHasModule /\ Crng!FreshAfterReady

\* The mouse's URB runs as long as somebody has it open; cat gets what echo
\* wrote to the character devices, and nothing is kept by one that is not
\* loaded; neither they nor the hooks of system calls crash the kernel unless
\* they are misused, and the hooks leave the table protected; the cut-down atl1c
\* (5-atl1c) ends its packets, and holds their frames while they are sent.
SmallDriversServe ==
    /\ which = "hid" => Hid!QuietWhenClosed /\ Hid!OnlyUserIsServed
    /\ which = "chrdev" => Chr!CatGetsEcho /\ Chr!LoadAllOrNothing /\ Chr!CrashesOnlyIfMisused
    /\ which = "hooks" => Hook!CrashesOnlyIfMisused /\ Hook!RestsProtected
    /\ which = "cut" => Cut!FrameEndsPacket /\ Cut!FramesHeldWhileSent

\* Nobody who waits for random bytes, or for a pool that runs low, sleeps on
\* when there is what he waits for. (The bounds leave each behaviour a last
\* event; what is so from some time on after it was so after every other.)
SleepersWake ==
    <>[](/\ which = "pool" => (\A t \in PoolReaders : ~Pool!ReaderWaits(t)) /\ ~(Pool!WriterWaits /\ ~x9)
         /\ which = "crng" => \A t \in CrngReaders : ~Crng!WaiterWaits(t))

\* The keyboard's LEDs are at last what the console wants, and whoever lets
\* the port go comes to an end (atkbd_event_work, atkbd_disconnect).
WorkEnds == <>[](which = "atkbd" => Drv!LedsAsWanted /\ ~Drv!Leaving)

=============================================================================
