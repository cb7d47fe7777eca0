------------------------------ MODULE AtkbdDrv ------------------------------
(***************************************************************************)
(* The keyboard driver (atkbd-new.c) around its decoder: connect,          *)
(* reconnect and disconnect on the serio thread, the attributes that       *)
(* replace the input device, the work that sends the LEDs and the repeat   *)
(* rate, and the interrupt that sees a keyboard plugged in.                *)
(***************************************************************************)
EXTENDS Integers, FiniteSets

CONSTANTS
    Kinds,     \* the keyboards and ports there may be, a subset of AllKinds
    Params,    \* the module's parameter "set"
    Attributes,  \* the attributes written to, a subset of AllAttributes
    Values,    \* and the numbers written
    Failures,  \* subset of {"probe", "getset", "leds", "alloc", "register"}: one at most
    MaxUser    \* bound: how often user space, the keyboard or the port does something

\* The port: translating, read-only (RS-232) or raw; raw: what is plugged in.
AllKinds == {"translated", "readonly", "plain", "ncd", "extra", "omnikey", "set2only"}
AllAttributes == {"extra", "set", "scroll", "softrepeat", "softraw"}

DrvAssumption ==
    /\ Kinds \subseteq AllKinds /\ Params \subseteq {2, 3}
    /\ Attributes \subseteq AllAttributes /\ Values \subseteq Nat
    /\ Failures \subseteq {"probe", "getset", "leds", "alloc", "register"} /\ MaxUser \in Nat

Devs == {1, 2}

VARIABLES
    kind,
    port,     \* where the serio thread is
    a,        \* struct atkbd: set, extra, scroll, softrepeat, softraw, map, dev
    enabled,
    devs,     \* the input devices: state, attributes, LEDs, repeat rate
    want,     \* the LEDs the console wants on
    kb,       \* the keyboard: scan code set, LEDs, rate; does it send
    bat, rq,  \* a self test's answer is on its way; a reconnect is queued
    mutex,
    wq, wpc, mask, cancelling,  \* event_work: its timer, its thread, event_mask
    spc, op,  \* the write to an attribute, and what is written
    old,      \* its old_dev, old_set, ...
    failed, deaf, lowered,  \* history: a failure, a self test missed, set 3 left
    user

thread == <<port, cancelling>>
work   == <<wq, wpc, mask>>
sysfs  == <<spc, op, old>>
past   == <<failed, deaf, lowered>>
vars == <<kind, thread, a, enabled, devs, want, kb, bat, rq, mutex, work, sysfs, past, user>>

Write == kind # "readonly"
Xl    == kind = "translated"

\* A failure may happen, once.
MayFail(f) == IF f \in Failures /\ failed = {} THEN {TRUE, FALSE} ELSE {FALSE}
Fails(f, yes) == failed' = IF yes THEN {f} ELSE failed

(***************************************************************************)
(* The keyboard, and what the driver makes of its answers                  *)
(***************************************************************************)

NativeSet == IF kind = "ncd" THEN 3 ELSE 2

\* After a self test, or RESET_DEF; RESET_DIS also stops it.
PowerOn == [set |-> NativeSet, led |-> "off", rep |-> "fast", on |-> TRUE]
Deactivated(k) == [k EXCEPT !.set = NativeSet, !.rep = "fast", !.on = FALSE]

\* atkbd_select_set: the set it returns, extra, and the keyboard after it. A
\* keyboard that answers the query of its set with another one is put back into
\* set 2, and 3 is returned.
SelectSet(k, target, allowExtra, getsetFails) ==
    LET r(set, extra, kset) == [set |-> set, extra |-> extra, kb |-> [k EXCEPT !.set = kset]]
    IN  CASE Xl -> r(2, FALSE, k.set)
          [] kind = "ncd" -> r(3, FALSE, 3)
          [] kind = "extra" /\ allowExtra -> r(2, TRUE, k.set)
          [] target # 3 /\ ~Xl /\ kind # "ncd" /\ ~(kind = "extra" /\ allowExtra)
                -> r(2, FALSE, k.set)
          [] target = 3 /\ kind = "omnikey" -> r(2, FALSE, k.set)
          [] target = 3 /\ kind = "set2only" -> r(3, FALSE, 2)
          [] target = 3 /\ (kind = "plain" \/ (kind = "extra" /\ ~allowExtra))
                -> IF getsetFails THEN r(2, FALSE, 3) ELSE r(3, FALSE, 3)

\* atkbd_reset_state
ResetState(k) == [k EXCEPT !.led = "off", !.rep = "fast"]

\* atkbd_set_keycode_table: what the table is made from.
Table(c) == [xl |-> Xl, set |-> c.set, scroll |-> c.scroll /\ c.set # 3]

\* atkbd_set_device_attrs: the capabilities and the identity of the device.
Attrs(c) == [product |-> IF Xl THEN 1 ELSE c.set, extra |-> c.extra, wheel |-> c.scroll,
             softrepeat |-> c.softrepeat, raw |-> ~c.softraw]


Config(set, extra) ==
    [set |-> set, extra |-> extra, scroll |-> FALSE, softrepeat |-> FALSE, softraw |-> TRUE]

NewDev(c) == [st |-> "allocated", attrs |-> Attrs(c), led |-> "off", rep |-> "fast"]
NoDev == [NewDev(Config(0, FALSE)) EXCEPT !.st = "none"]
Unset == [cfg |-> Config(0, FALSE), map |-> Table(Config(0, FALSE)), dev |-> 1]

(***************************************************************************)
(* event_work                                                              *)
(***************************************************************************)

\* schedule_delayed_work does nothing while the work is being cancelled.
Schedule(bit) ==
    IF Write THEN mask' = mask \cup {bit} /\ wq' = (wq \/ ~cancelling) ELSE UNCHANGED <<mask, wq>>

\* input_register_device: the console sets the LEDs of a device it meets.
Registered(ds, d) == [ds EXCEPT ![d].st = "registered", ![d].led = want]

WorkFire ==
    /\ wq /\ wpc = "idle"
    /\ wq' = FALSE /\ wpc' = "lock"
    /\ UNCHANGED <<kind, thread, a, enabled, devs, want, kb, bat, rq, mutex, mask, sysfs, past, user>>

WorkLock ==
    /\ wpc = "lock" /\ mutex = "none"
    /\ \/ enabled /\ wpc' = "leds" /\ mutex' = "work" /\ UNCHANGED wq
       \/ ~enabled /\ wpc' = "idle" /\ wq' = ~cancelling /\ UNCHANGED mutex
    /\ UNCHANGED <<kind, thread, a, enabled, devs, want, kb, bat, rq, mask, sysfs, past, user>>

\* The bit is cleared whether or not the keyboard takes the LEDs. Of a device
\* that is gone the LEDs may be anything.
WorkLeds ==
    /\ wpc = "leds" /\ wpc' = "rep" /\ mask' = mask \ {"led"}
    /\ \E no \in MayFail("leds"), led \in {"off", "caps"} :
        /\ Fails("leds", no /\ "led" \in mask)
        /\ devs[a.dev].st = "registered" => led = devs[a.dev].led
        /\ kb' = IF "led" \in mask /\ ~no THEN [kb EXCEPT !.led = led] ELSE kb
    /\ UNCHANGED <<kind, thread, a, enabled, devs, want, bat, rq, mutex, wq, sysfs, deaf, lowered,
                   user>>

WorkRep ==
    /\ wpc = "rep" /\ wpc' = "idle" /\ mask' = mask \ {"rep"} /\ mutex' = "none"
    /\ kb' = IF "rep" \in mask THEN [kb EXCEPT !.rep = devs[a.dev].rep] ELSE kb
    /\ UNCHANGED <<kind, thread, a, enabled, devs, want, bat, rq, wq, sysfs, past, user>>

(***************************************************************************)
(* atkbd_connect, from the sysfs group on in steps                         *)
(***************************************************************************)

Connect ==
    /\ port = "unbound" /\ user < MaxUser /\ user' = user + 1
    /\ \E p \in Params, no \in MayFail("probe") :
        LET s == IF Write THEN SelectSet(Deactivated(kb), p, FALSE, FALSE)
                          ELSE [set |-> 2, extra |-> FALSE, kb |-> kb]
            c == Config(s.set, s.extra)
        IN  IF no /\ Write
            THEN Fails("probe", TRUE) /\ UNCHANGED <<port, a, devs, kb>>
            ELSE /\ kb' = IF Write THEN ResetState(s.kb) ELSE kb
                 /\ a' = [cfg |-> c, map |-> Table(c), dev |-> 1]
                 /\ devs' = [devs EXCEPT ![1] = NewDev(c)]
                 /\ port' = "created" /\ UNCHANGED failed
    /\ mask' = {}
    /\ UNCHANGED <<kind, cancelling, enabled, want, bat, rq, mutex, wq, wpc, sysfs, deaf, lowered>>

ConnectEnable ==
    /\ port = "created" /\ port' = "enabled"
    /\ enabled' = TRUE
    /\ kb' = IF Write THEN [kb EXCEPT !.on = TRUE] ELSE kb
    /\ UNCHANGED <<kind, cancelling, a, devs, want, bat, rq, mutex, work, sysfs, past, user>>

ConnectRegister ==
    /\ port = "enabled"
    /\ \E no \in MayFail("register") :
        /\ Fails("register", no)
        /\ \/ /\ ~no /\ port' = "bound" /\ devs' = Registered(devs, a.dev)
              /\ Schedule("led") /\ UNCHANGED <<enabled, rq>>
           \/ /\ no /\ port' = "unbound" /\ devs' = [devs EXCEPT ![a.dev] = NoDev]
              /\ enabled' = FALSE /\ rq' = FALSE /\ UNCHANGED <<mask, wq>>
    /\ UNCHANGED <<kind, cancelling, a, want, kb, bat, mutex, wpc, sysfs, deaf, lowered, user>>

(***************************************************************************)
(* atkbd_reconnect                                                         *)
(***************************************************************************)

Reconnect ==
    /\ port = "bound" /\ rq /\ mutex = "none"
    /\ rq' = FALSE /\ mutex' = "serio" /\ enabled' = FALSE /\ port' = "reconnect"
    /\ UNCHANGED <<kind, cancelling, a, devs, want, kb, bat, work, sysfs, past, user>>

\* A variant that leaves the LEDs and the keyboard's set to the input layer.
SettingsLeft(k) == [k EXCEPT !.set = NativeSet]

Settings(k) ==
    [k EXCEPT !.led = devs[a.dev].led, !.rep = IF a.cfg.softrepeat THEN @ ELSE devs[a.dev].rep]

\* The keyboard gets its LEDs and its rate back; one that does not answer as
\* it should stays disabled.
ReconnectRestore ==
    /\ port = "reconnect"
    /\ \E no \in MayFail("probe"), noset \in MayFail("getset") :
        LET s == SelectSet(Deactivated(kb), a.cfg.set, a.cfg.extra, noset)
        IN  /\ failed' = IF no THEN {"probe"} ELSE IF noset THEN {"getset"} ELSE failed
            /\ ~(no /\ noset)
            /\ CASE ~Write -> port' = "reenable" /\ UNCHANGED <<a, kb>>
                 [] Write /\ no -> port' = "giveup" /\ UNCHANGED <<a, kb>>
                 [] Write /\ ~no ->
                      /\ a' = [a EXCEPT !.cfg.extra = s.extra]
                      /\ IF s.set = a.cfg.set THEN port' = "reenable" /\ kb' = Settings(s.kb)
                                              ELSE port' = "giveup" /\ kb' = s.kb
    /\ UNCHANGED <<kind, cancelling, enabled, devs, want, bat, rq, mutex, work, sysfs, deaf,
                   lowered, user>>

ReconnectEnable ==
    /\ port \in {"reenable", "giveup"} /\ port' = "bound" /\ mutex' = "none"
    /\ enabled' = (port = "reenable")
    /\ kb' = IF port = "reenable" /\ Write THEN [kb EXCEPT !.on = TRUE] ELSE kb
    /\ UNCHANGED <<kind, cancelling, a, devs, want, bat, rq, work, sysfs, past, user>>

(***************************************************************************)
(* atkbd_disconnect; sysfs_remove_group waits for the write in progress    *)
(***************************************************************************)

DisconnectRequest ==
    /\ port = "bound" /\ user < MaxUser /\ user' = user + 1
    /\ port' = "removing"
    /\ UNCHANGED <<kind, cancelling, a, enabled, devs, want, kb, bat, rq, mutex, work, sysfs, past>>

DisconnectDisable ==
    /\ port = "removing" /\ spc = "idle"
    /\ enabled' = FALSE /\ port' = "unregister"
    /\ UNCHANGED <<kind, cancelling, a, devs, want, kb, bat, rq, mutex, work, sysfs, past, user>>

DisconnectUnregister ==
    /\ port = "unregister" /\ port' = "cancel"
    /\ devs' = [devs EXCEPT ![a.dev] = NoDev]
    /\ UNCHANGED <<kind, cancelling, a, enabled, want, kb, bat, rq, mutex, work, sysfs, past, user>>

\* A variant: cancel_delayed_work, which does not wait for the work.
DisconnectCancelNow ==
    /\ port = "cancel"
    /\ wq' = FALSE /\ cancelling' = TRUE /\ port' = "free"
    /\ UNCHANGED <<kind, a, enabled, devs, want, kb, bat, rq, mutex, wpc, mask, sysfs, past, user>>

\* A variant that waits for the work with the mutex held.
DisconnectCancelLocked ==
    /\ port = "cancel" /\ mutex \in {"none", "serio"}
    /\ wq' = FALSE /\ cancelling' = TRUE
    /\ mutex' = IF wpc = "idle" THEN "none" ELSE "serio"
    /\ port' = IF wpc = "idle" THEN "free" ELSE port
    /\ cancelling /\ ~wq => wpc = "idle"
    /\ UNCHANGED <<kind, a, enabled, devs, want, kb, bat, rq, wpc, mask, sysfs, past, user>>

\* cancel_delayed_work_sync: the work no longer queues itself and ends.
DisconnectCancel ==
    /\ port = "cancel"
    /\ wq' = FALSE /\ cancelling' = TRUE
    /\ port' = IF wpc = "idle" THEN "free" ELSE port
    /\ cancelling /\ ~wq => wpc = "idle"
    /\ UNCHANGED <<kind, a, enabled, devs, want, kb, bat, rq, mutex, wpc, mask, sysfs, past, user>>

DisconnectFree ==
    /\ port = "free" /\ port' = "unbound" /\ cancelling' = FALSE /\ rq' = FALSE
    /\ UNCHANGED <<kind, a, enabled, devs, want, kb, bat, mutex, work, sysfs, past, user>>

(***************************************************************************)
(* Writing an attribute: atkbd_attr_set_helper and atkbd_set_extra, _set,  *)
(* _scroll, _softrepeat and _softraw                                       *)
(***************************************************************************)

Store(o) ==
    /\ port = "bound" /\ spc = "idle" /\ user < MaxUser /\ user' = user + 1
    /\ op' = o /\ spc' = "lock"
    /\ UNCHANGED <<kind, thread, a, enabled, devs, want, kb, bat, rq, mutex, work, old, past>>

StoreLock ==
    /\ spc = "lock" /\ mutex = "none"
    /\ mutex' = "sysfs" /\ enabled' = FALSE /\ spc' = "check"
    /\ UNCHANGED <<kind, thread, a, devs, want, kb, bat, rq, work, op, old, past, user>>

Field == op[1]
Value == IF Field = "set" THEN op[2] ELSE op[2] = 1
Legal == IF Field = "set" THEN op[2] \in {2, 3} ELSE op[2] \in {0, 1}

\* Nothing is done: an error, or the value is there already.
StoreNothing ==
    /\ spc = "check" /\ spc' = "enable"
    /\ \/ ~Write /\ Field \in {"extra", "set", "softrepeat"}
       \/ ~Legal
       \/ Legal /\ a.cfg[Field] = Value
    /\ UNCHANGED <<kind, thread, a, enabled, devs, want, kb, bat, rq, mutex, work, op, old, past, user>>

\* The configuration and the keyboard after the attribute's own assignments.
Altered ==
    LET c == a.cfg
        s == IF Field = "set" THEN SelectSet(kb, op[2], c.extra, FALSE)
                              ELSE SelectSet(kb, c.set, Value, FALSE)
    IN  CASE Field \in {"set", "extra"} ->
                [cfg |-> [c EXCEPT !.set = s.set, !.extra = s.extra],
                 kb |-> [ResetState(s.kb) EXCEPT !.on = TRUE]]
          [] Field = "softrepeat" ->
                [cfg |-> [c EXCEPT !.softrepeat = Value, !.softraw = @ \/ Value], kb |-> kb]
          [] Field \in {"scroll", "softraw"} -> [cfg |-> [c EXCEPT ![Field] = Value], kb |-> kb]

StoreAlter ==
    /\ spc = "check" /\ Legal /\ a.cfg[Field] # Value
    /\ Write \/ Field \in {"scroll", "softraw"}
    /\ \E no \in MayFail("alloc"), d \in Devs \ {a.dev} :
        /\ Fails("alloc", no)
        /\ IF no THEN spc' = "enable" /\ UNCHANGED <<a, devs, kb, old, lowered>>
           ELSE /\ spc' = "register" /\ old' = a
                /\ kb' = Altered.kb
                /\ a' = [cfg |-> Altered.cfg, dev |-> d,
                         map |-> IF Field \in {"softrepeat", "softraw"} THEN a.map
                                 ELSE Table(Altered.cfg)]
                /\ devs' = [devs EXCEPT ![d] = NewDev(Altered.cfg)]
                /\ lowered' = (lowered \/ Field \in {"set", "extra"})
    /\ UNCHANGED <<kind, thread, enabled, want, bat, rq, mutex, work, op, deaf, user>>

\* What the attribute puts back when the new device cannot be registered: for
\* set and extra it asks the keyboard again.
Undone ==
    LET s == SelectSet(kb, old.cfg.set, old.cfg.extra, FALSE)
    IN  IF Field \in {"set", "extra"}
        THEN [cfg |-> [a.cfg EXCEPT !.set = s.set, !.extra = s.extra], kb |-> s.kb]
        ELSE [cfg |-> old.cfg, kb |-> kb]

\* A variant that puts the settings back and not the key table.
UndoneMapKept == a.map

UndoneMap == IF Field \in {"softrepeat", "softraw"} THEN a.map ELSE Table(Undone.cfg)

StoreRegister ==
    /\ spc = "register" /\ spc' = "enable"
    /\ \E no \in MayFail("register") :
        /\ Fails("register", no)
        /\ IF ~no
           THEN /\ devs' = [Registered(devs, a.dev) EXCEPT ![old.dev] = NoDev]
                /\ Schedule("led") /\ UNCHANGED <<a, kb>>
           ELSE /\ a' = [cfg |-> Undone.cfg, dev |-> old.dev, map |-> UndoneMap]
                /\ devs' = [devs EXCEPT ![a.dev] = NoDev, ![old.dev].attrs = Attrs(Undone.cfg),
                                        ![old.dev].rep = IF Undone.cfg.softrepeat THEN @ ELSE "fast"]
                /\ kb' = Undone.kb
                /\ UNCHANGED <<mask, wq>>
    /\ UNCHANGED <<kind, thread, enabled, want, bat, rq, mutex, wpc, op, old, deaf, lowered, user>>

\* atkbd_enable, whether or not the keyboard was enabled before.
StoreEnable ==
    /\ spc = "enable" /\ spc' = "idle"
    /\ mutex' = "none" /\ enabled' = TRUE
    /\ op' = <<"none", 0>> /\ old' = Unset
    /\ UNCHANGED <<kind, thread, a, devs, want, kb, bat, rq, work, past, user>>

(***************************************************************************)
(* User space, the keyboard and the system                                 *)
(***************************************************************************)

\* The console's LEDs change; atkbd_event.
SetLeds ==
    /\ user < MaxUser /\ user' = user + 1
    /\ want' = IF want = "off" THEN "caps" ELSE "off"
    /\ devs' = [d \in Devs |-> IF devs[d].st = "registered" THEN [devs[d] EXCEPT !.led = want']
                               ELSE devs[d]]
    /\ IF \E d \in Devs : devs[d].st = "registered" THEN Schedule("led")
       ELSE UNCHANGED <<mask, wq>>
    /\ UNCHANGED <<kind, thread, a, enabled, kb, bat, rq, mutex, wpc, sysfs, past>>

SetRep ==
    /\ user < MaxUser /\ user' = user + 1
    /\ \E d \in Devs :
        /\ devs[d].st = "registered"
        /\ devs' = [devs EXCEPT ![d].rep = IF @ = "fast" THEN "slow" ELSE "fast"]
    /\ IF a.cfg.softrepeat THEN UNCHANGED <<mask, wq>> ELSE Schedule("rep")
    /\ UNCHANGED <<kind, thread, a, enabled, want, kb, bat, rq, mutex, wpc, sysfs, past>>

\* The keyboard is pulled out and plugged in.
Replug ==
    /\ user < MaxUser /\ user' = user + 1
    /\ kb' = PowerOn /\ bat' = TRUE
    /\ UNCHANGED <<kind, thread, a, enabled, devs, want, rq, mutex, work, sysfs, past>>

\* atkbd_interrupt with the answer to the self test, which is dropped unless
\* the driver is listening.
InterruptBat ==
    /\ bat /\ bat' = FALSE
    /\ \/ /\ enabled /\ enabled' = FALSE /\ rq' = TRUE /\ UNCHANGED deaf
       \/ /\ ~enabled /\ deaf' = (deaf \/ port # "unbound") /\ UNCHANGED <<enabled, rq>>
    /\ UNCHANGED <<kind, thread, a, devs, want, kb, mutex, work, sysfs, failed, lowered, user>>

\* atkbd_cleanup before suspend; resume reconnects the port.
Suspend ==
    /\ port = "bound" /\ spc = "idle" /\ user < MaxUser /\ user' = user + 1
    /\ port' = "asleep" /\ enabled' = FALSE
    /\ kb' = IF Write THEN PowerOn ELSE kb
    /\ UNCHANGED <<kind, cancelling, a, devs, want, bat, rq, mutex, work, sysfs, past>>

Resume ==
    /\ port = "asleep" /\ port' = "bound" /\ rq' = TRUE
    /\ UNCHANGED <<kind, cancelling, a, enabled, devs, want, kb, bat, mutex, work, sysfs, past, user>>

(***************************************************************************)
(* Specification                                                           *)
(***************************************************************************)

Init ==
    /\ kind \in Kinds
    /\ port = "unbound" /\ cancelling = FALSE
    /\ a = Unset
    /\ enabled = FALSE
    /\ devs = [d \in Devs |-> NoDev]
    /\ want = "off" /\ kb = PowerOn /\ bat = FALSE /\ rq = FALSE
    /\ mutex = "none" /\ wq = FALSE /\ wpc = "idle" /\ mask = {}
    /\ spc = "idle" /\ op = <<"none", 0>> /\ old = Unset
    /\ failed = {} /\ deaf = FALSE /\ lowered = FALSE /\ user = 0

Serio ==
    \/ ConnectEnable \/ ConnectRegister
    \/ Reconnect \/ ReconnectRestore \/ ReconnectEnable
    \/ DisconnectDisable \/ DisconnectUnregister \/ DisconnectCancel \/ DisconnectFree
    \/ Resume

Next ==
    \/ Serio
    \/ WorkFire \/ WorkLock \/ WorkLeds \/ WorkRep
    \/ StoreLock \/ StoreNothing \/ StoreAlter \/ StoreRegister \/ StoreEnable
    \/ InterruptBat
    \/ Connect \/ DisconnectRequest \/ SetLeds \/ SetRep \/ Replug \/ Suspend
    \/ \E f \in Attributes, v \in Values : Store(<<f, v>>)

Spec == Init /\ [][Next]_vars

\* The workqueue, the serio thread, the writer and the interrupt each go on.
FairSpec ==
    /\ Spec
    /\ WF_vars(WorkFire \/ WorkLock \/ WorkLeds \/ WorkRep)
    /\ WF_vars(Serio)
    /\ WF_vars(StoreLock \/ StoreNothing \/ StoreAlter \/ StoreRegister \/ StoreEnable)
    /\ WF_vars(InterruptBat)

(***************************************************************************)
(* Properties                                                              *)
(***************************************************************************)

\* Between writes to the attributes exactly one input device exists and is
\* registered, and its identity, its capabilities and the key table are those
\* of the configuration, also after a write that failed half-way.
ConfigCoherent ==
    port \in {"bound", "removing", "asleep"} /\ mutex # "sysfs" =>
        /\ {d \in Devs : devs[d].st # "none"} = {a.dev}
        /\ devs[a.dev].st = "registered"
        /\ devs[a.dev].attrs = Attrs(a.cfg)
        /\ a.map = Table(a.cfg)

\* A driver that is gone leaves no work behind that would use it.
FreedIsIdle ==
    port = "unbound" => /\ ~wq /\ wpc = "idle" /\ spc = "idle" /\ ~enabled
                        /\ \A d \in Devs : devs[d].st = "none"

\* As long as no attribute changes it and no reconnect fails, the keyboard
\* speaks the set it is decoded with, also one plugged in anew and while a
\* write to an attribute re-enables it.
SetsAgree ==
    /\ port = "bound" /\ enabled /\ ~bat /\ ~rq /\ Write
    /\ ~deaf /\ ~lowered /\ kind # "set2only" /\ failed \cap {"probe", "getset"} = {}
    => kb.set = a.cfg.set

\* "we need to do it ourselves here" (atkbd-new.c:1254): the LEDs the console
\* wants get to the keyboard, whatever the port goes through.
LedsAsWanted == port = "bound" /\ failed = {} /\ ~deaf /\ Write => kb.led = want
LedsArrive == <>[]LedsAsWanted

\* The port is always let go: the writer, the work that queues itself again
\* and the thread that disconnects do not wait for one another in a circle.
Leaving == port \in {"removing", "unregister", "cancel", "free"}
DisconnectEnds == Leaving ~> ~Leaving

\* "event work ... will not try accessing freed input device"
\* (atkbd-new.c:902): the work sends the settings of a device that is there.
WorkHasDevice ==
    (wpc = "leds" /\ "led" \in mask) \/ (wpc = "rep" /\ "rep" \in mask)
        => devs[a.dev].st # "none"

(***************************************************************************)
(* The inductive invariant                                                 *)
(***************************************************************************)

Sets == {2, 3}
Flags == BOOLEAN
Leds == {"off", "caps"}
Reps == {"fast", "slow"}
Configs == [set : {0, 2, 3}, extra : BOOLEAN, scroll : BOOLEAN, softrepeat : BOOLEAN,
            softraw : BOOLEAN]
Tables == [xl : BOOLEAN, set : {0, 2, 3}, scroll : BOOLEAN]
Identities == [product : 0 .. 3, extra : BOOLEAN, wheel : BOOLEAN, softrepeat : BOOLEAN,
               raw : BOOLEAN]
Atkbds == [cfg : Configs, map : Tables, dev : Devs]
InputDevs == [st : {"none", "allocated", "registered"}, attrs : Identities, led : Leds, rep : Reps]
Keyboards == [set : Sets, led : Leds, rep : Reps, on : BOOLEAN]

\* What atkbd_select_set returns, s, and when it is the set asked for.
Selection(s, k, target, allowExtra, getsetFails) ==
    \E set \in Sets, extra \in Flags, kset \in Sets :
        /\ s = [set |-> set, extra |-> extra, kb |-> [k EXCEPT !.set = kset]]
        /\ extra <=> kind = "extra" /\ allowExtra
        /\ kind \in {"translated", "omnikey"} => set = 2
        /\ kind = "ncd" => set = 3
        /\ k.set = NativeSet /\ ~getsetFails /\ ~allowExtra /\ kind # "set2only" => kset = set
        /\ ~getsetFails /\ ~allowExtra /\ kind \in {"plain", "extra"} => set = target

DataOK ==
    /\ kind \in Kinds
    /\ a \in Atkbds /\ old \in Atkbds
    /\ devs \in [Devs -> InputDevs] /\ kb \in Keyboards /\ want \in Leds
    /\ failed \subseteq Failures

StateOK ==
    /\ port \in {"unbound", "created", "enabled", "bound", "reconnect", "reenable", "giveup",
                 "removing", "unregister", "cancel", "free", "asleep"}
    /\ enabled \in BOOLEAN /\ bat \in BOOLEAN /\ rq \in BOOLEAN /\ wq \in BOOLEAN
    /\ cancelling \in BOOLEAN /\ deaf \in BOOLEAN /\ lowered \in BOOLEAN
    /\ mutex \in {"none", "work", "serio", "sysfs"}
    /\ wpc \in {"idle", "lock", "leds", "rep"}
    /\ spc \in {"idle", "lock", "check", "register", "enable"}

\* Who holds the mutex, and who may run at all.
MutexInv ==
    /\ mutex = "sysfs" <=> spc \in {"check", "register", "enable"}
    /\ mutex = "serio" <=> port \in {"reconnect", "reenable", "giveup"}
    /\ mutex = "work" <=> wpc \in {"leds", "rep"}
    /\ spc # "idle" => Field \in AllAttributes
    /\ spc # "idle" => port \in {"bound", "reconnect", "reenable", "giveup", "removing"}
    /\ port \in {"unbound", "created", "unregister", "cancel", "free"} => ~enabled

\* The work neither starts nor goes on around connect and after disconnect.
WorkInv ==
    /\ port \in {"unbound", "created", "enabled"} => ~wq /\ wpc = "idle"
    /\ cancelling => ~wq /\ port \in {"cancel", "free"}
    /\ port = "free" => cancelling /\ wpc = "idle"

\* Device d, in state st, is the only one but for the devices of "others", and is
\* what the configuration makes of it.
DeviceIs(d, st, others) ==
    /\ devs[d].st = st /\ devs[d].attrs = Attrs(a.cfg) /\ a.map = Table(a.cfg)
    /\ \A e \in Devs \ others : e # d => devs[e].st = "none"

\* The extra keys are those of a keyboard that has them.
ExtraIsReal(c) == c.extra => kind = "extra"

DeviceInv ==
    /\ port \in {"unbound", "cancel", "free"} => \A d \in Devs : devs[d].st = "none"
    /\ port \in {"created", "enabled"} => DeviceIs(a.dev, "allocated", {})
    /\ port \in {"bound", "reconnect", "reenable", "giveup", "removing", "asleep", "unregister"}
         /\ spc # "register" => DeviceIs(a.dev, "registered", {})
    /\ port # "unbound" => a.cfg.set # 0
    /\ ExtraIsReal(a.cfg)

\* Between the two halves of a write: what is put back when the second fails.
RegisterInv ==
    spc = "register" =>
        /\ DeviceIs(a.dev, "allocated", {old.dev})
        /\ old.dev # a.dev /\ devs[old.dev].st = "registered"
        /\ old.cfg.set # 0 /\ ExtraIsReal(old.cfg)
        /\ Field \in {"set", "extra"} => lowered
        /\ Field \in {"set", "extra", "softrepeat"} => Write
        /\ Field \in {"softrepeat", "softraw"} => a.map = Table(old.cfg)
        /\ Field \notin {"set", "extra"} =>
              a.cfg.set = old.cfg.set /\ (a.cfg.extra <=> old.cfg.extra)

\* What SetsAgree takes for granted, for all but the keyboard that says it
\* cannot be put into set 3 and the ones that are being set up anew.
Undisturbed ==
    Write /\ ~deaf /\ ~lowered /\ kind # "set2only" /\ failed \cap {"probe", "getset"} = {}

SetsInv ==
    Undisturbed /\ port # "unbound" =>
        /\ port # "giveup" /\ ~a.cfg.extra
        /\ kind \in {"translated", "omnikey"} => a.cfg.set = 2
        /\ kind = "ncd" => a.cfg.set = 3
        /\ port \in {"created", "enabled", "bound", "reenable"} => kb.set = a.cfg.set \/ bat \/ rq

IInv == DataOK /\ StateOK /\ MutexInv /\ WorkInv /\ DeviceInv /\ RegisterInv /\ SetsInv

=============================================================================
