------------------------------- MODULE AtlHw -------------------------------
(***************************************************************************)
(* What the atl1c driver (4-atl1c) programs into the adapter over its      *)
(* life: the PHY's power and advertisement, the MAC, ASPM, wake-on-LAN,    *)
(* the station address, the receive filter, VLAN stripping, the frame      *)
(* size and the clock of the OTP memory.                                   *)
(*                                                                         *)
(* The operations are whole here: Adapter has the interleavings inside     *)
(* them. "nd" is what the net_device asks for, "hw" the driver's own       *)
(* record, "reg" the MAC's registers and "phy" the PHY's.                  *)
(***************************************************************************)
EXTENDS Integers, FiniteSets

CONSTANTS
    Nics,      \* the types of adapter, a subset of NicTypes
    Mtus,      \* the MTUs user space asks for
    Settings,  \* what "ethtool -s" asks for: "auto" or a mode
    Partners,  \* what may be at the other end of the cable: sets of modes
    Failures,  \* subset of {"mdio", "twsi", "up"}
    MaxHwOps   \* bound: how many operations

NicTypes == {"l1c", "l2c", "l2c_b", "l2c_b2", "l1d", "l1d_2"}

Speed(m)  == CASE m \in {"10h", "10f"} -> 10 [] m \in {"100h", "100f"} -> 100 [] OTHER -> 1000
Duplex(m) == IF m \in {"10f", "100f", "1000f"} THEN "full" ELSE "half"
FastModes == {"10h", "10f", "100h", "100f"}
Modes     == FastModes \cup {"1000h", "1000f"}

HwAssumption ==
    /\ Nics \subseteq NicTypes
    /\ Mtus \subseteq Nat
    /\ Settings \subseteq {"auto"} \cup (Modes \ {"1000h"})
    /\ Partners \subseteq SUBSET Modes
    /\ MaxHwOps \in Nat

VARIABLES
    nic,       \* its type, and whether it has an EEPROM
    stage,     \* "unbound", "down", "up", "suspended", "off"
    nd,        \* net_device: running, mtu, VLAN stripping, receive filter
    hw,        \* atl1c_hw and atl1c_adapter
    reg, phy,
    partner,   \* at the other end; {}: nobody
    hwops

vars == <<nic, stage, nd, hw, reg, phy, partner, hwops>>

(***************************************************************************)
(* The PHY                                                                 *)
(***************************************************************************)

Giga == nic.type \in {"l1c", "l1d", "l1d_2"}

\* atl1c_phy_setup_adv: a gigabit mode on a fast Ethernet adapter advertises
\* nothing at all.
Advertised(adv) ==
    (IF adv = "auto" THEN Modes ELSE {adv}) \ (IF Giga THEN {} ELSE {"1000h", "1000f"})

\* What auto-negotiation settles for, in its order of preference.
Preference == <<"1000f", "1000h", "100f", "100h", "10f", "10h">>

NoLink == "none"

Negotiate(p, others) ==
    LET common == p.adv \cap others IN
    IF p.power = "on" /\ p.done /\ common # {}
    THEN Preference[CHOOSE i \in 1 .. 6 :
                        /\ Preference[i] \in common
                        /\ \A j \in 1 .. i - 1 : Preference[j] \notin common]
    ELSE NoLink

Link == Negotiate(phy, partner)

\* atl1c_restart_autoneg: BMCR_RESET drops the link until the PHY has done.
RestartAutoneg(p, adv) == [p EXCEPT !.adv = Advertised(adv), !.done = FALSE]

\* atl1c_phy_reset: out of its sleep, both link interrupts on.
PhyReset(p) == [p EXCEPT !.power = "on", !.ier = {"up", "down"}]

\* atl1c_phy_init.
PhyInit(p, adv) == RestartAutoneg(p, adv)

(***************************************************************************)
(* The MAC                                                                 *)
(***************************************************************************)

\* atl1c_set_aspm.
Aspm(support, speed) ==
    LET asked == support \ (IF speed = 0 THEN {"L0s"} ELSE {}) IN
    CASE nic.type \in {"l1c", "l2c"} -> IF speed # 0 THEN {} ELSE asked \ {"L0s"}
      [] nic.type = "l2c_b"          -> asked \ {"L0s"}
      [] OTHER                       -> asked

AllAspm == {"L0s", "L1"}

\* atl1c_disable_l0s_l1.
DisableAspm(r) == [r EXCEPT !.aspm = Aspm({}, 0)]

NoFilter == [promisc |-> FALSE, allmulti |-> FALSE, hash |-> {}]

StopMac(r)  == [r EXCEPT !.mac = {}]
StartMac(r) == [r EXCEPT !.mac = {"tx", "rx"}]

\* atl1c_reset_mac: the units are stopped and their settings lost; the
\* station address stays.
ResetMac(r) == [StopMac(r) EXCEPT !.filter = NoFilter, !.vlan = FALSE]

\* atl1c_reset_pcie: no wake-up, and ASPM off until there is a link.
ResetPcie(r) == DisableAspm([r EXCEPT !.wol = {}])

\* atl1c_hw_set_mac_addr.
SetAddr(r, a) == [r EXCEPT !.sta = a]

\* atl1c_set_multi: IFF_PROMISC leaves MC_ALL_EN as it was.
SetMulti(r, flags) ==
    [r EXCEPT
       !.filter.promisc = (flags.promisc),
       !.filter.allmulti = IF flags.promisc THEN @ ELSE flags.allmulti,
       !.filter.hash = flags.mc]

\* atl1c_configure_des_ring and atl1c_configure_mac.
ConfigureRings(r, h) == [r EXCEPT !.rxbuf = h.rxbuf]

ConfigureMac(r, h) == [ConfigureRings(r, h) EXCEPT !.mtu = h.max_frame, !.wol = {}]

\* Mutant: atl1c_restore_vlan is left out.
ConfigureNoVlan(r, n, h) ==
    ConfigureMac(SetMulti(r, n.flags), h)

\* atl1c_configure.
Configure(r, n, h) ==
    ConfigureMac([SetMulti(r, n.flags) EXCEPT !.vlan = n.vlan], h)

\* atl1c_set_rxbufsize, in bytes: AT_RX_BUF_SIZE is 1522.
Overhead == 22
RxBufSize(mtu) == IF mtu > 1522 THEN ((mtu + Overhead + 7) \div 8) * 8 ELSE 1522

\* atl1c_check_link_status, for a link l: the MAC is started only when the
\* link differs from the stored one.
CheckLinkStatus(h, r, n, l) ==
    IF l = NoLink
    THEN [hw  |-> [h EXCEPT !.carrier = FALSE],
          reg |-> [Configure(ResetMac(r), n, h) EXCEPT !.aspm = Aspm(AllAspm, 0)]]
    ELSE IF h.speed = Speed(l) /\ h.duplex = Duplex(l)
    THEN [hw |-> [h EXCEPT !.carrier = TRUE], reg |-> r]
    ELSE [hw  |-> [h EXCEPT !.carrier = TRUE, !.speed = Speed(l), !.duplex = Duplex(l)],
          reg |-> [StartMac(r) EXCEPT !.aspm = Aspm(AllAspm, Speed(l))]]

\* atl1c_up, when it does not fail, and atl1c_down.
Up(h, r, n, l) ==
    CheckLinkStatus([h EXCEPT !.carrier = FALSE], Configure(r, n, h), n, l)

DownHw(h) == [h EXCEPT !.carrier = FALSE, !.speed = 0, !.duplex = "none"]

DownReg(r) == ResetMac(DisableAspm(r))

(***************************************************************************)
(* The station address: where it comes from, and its first byte            *)
(***************************************************************************)

NoAddr == [origin |-> "none", first |-> "own"]
Addr(o) == [origin |-> o, first |-> "own"]

\* atl1c_get_permanent_address: an address the BIOS left in the register has
\* its first byte replaced.
PermanentAddresses(sta) ==
    IF sta # NoAddr THEN {[sta EXCEPT !.first = "08"]}
    ELSE IF ~nic.eeprom THEN {Addr("random")}
    ELSE {Addr("eeprom")} \cup IF "twsi" \in Failures THEN {Addr("random")} ELSE {}

\* The OTP clock is switched on for the load; a load that times out leaves it.
OtpAfterLoad(r, perm) ==
    IF r.sta # NoAddr THEN r.otp
    ELSE nic.eeprom /\ nic.type \in {"l1c", "l2c"} /\ perm.origin = "random"

(***************************************************************************)
(* probe and remove                                                        *)
(***************************************************************************)

Op == hwops < MaxHwOps /\ hwops' = hwops + 1

\* What alloc_etherdev and atl1c_init_netdev leave, and atl1c_sw_init with the
\* address read.
NewNetDev == [running |-> FALSE, mtu |-> 1500, vlan |-> TRUE,
              flags |-> [promisc |-> FALSE, allmulti |-> FALSE, mc |-> {}]]

NewRecord(perm) ==
    [adv |-> "auto", wol |-> {}, speed |-> 0, duplex |-> "full", carrier |-> FALSE,
     mac_addr |-> perm, perm |-> perm, max_frame |-> 1500, rxbuf |-> RxBufSize(1500)]

\* atl1c_sw_init, atl1c_reset_pcie, atl1c_phy_reset, atl1c_reset_mac,
\* atl1c_phy_init, atl1c_read_mac_addr.
Probe ==
    /\ Op /\ stage = "unbound"
    /\ \E perm \in PermanentAddresses(reg.sta) :
         /\ hw' = NewRecord(perm)
         /\ reg' = [SetAddr(ResetMac(ResetPcie(reg)), perm) EXCEPT
                      !.otp = OtpAfterLoad(reg, perm)]
    /\ phy' = PhyInit(PhyReset(phy), "auto")
    /\ nd' = NewNetDev
    /\ stage' = "down"
    /\ UNCHANGED <<nic, partner>>

\* atl1c_power_saving without wake-on-LAN.
PowerOff(r) == [StopMac(r) EXCEPT !.wol = {}]

\* unregister_netdev closes; atl1c_hw_set_mac_addr; atl1c_phy_disable.
Remove ==
    /\ Op /\ stage \in {"down", "up"}
    /\ reg' = SetAddr(PowerOff(IF stage = "up" THEN DownReg(reg) ELSE reg), hw.perm)
    /\ phy' = [phy EXCEPT !.power = "iddq", !.done = FALSE]
    /\ nd' = [nd EXCEPT !.running = FALSE]
    /\ hw' = IF stage = "up" THEN DownHw(hw) ELSE hw
    /\ stage' = "unbound"
    /\ UNCHANGED <<nic, partner>>

(***************************************************************************)
(* open and close, the link                                                *)
(***************************************************************************)

Open ==
    /\ Op /\ stage = "down" /\ ~nd.running
    /\ LET up == Up(hw, reg, nd, Link) IN hw' = up.hw /\ reg' = up.reg
    /\ nd' = [nd EXCEPT !.running = TRUE]
    /\ stage' = "up"
    /\ UNCHANGED <<nic, phy, partner>>

\* atl1c_up found no buffer; atl1c_open ends with atl1c_reset_mac.
OpenFails ==
    /\ "up" \in Failures
    /\ Op /\ stage = "down" /\ ~nd.running
    /\ reg' = ResetMac(reg)
    /\ UNCHANGED <<nic, stage, nd, hw, phy, partner>>

Close ==
    /\ Op /\ stage = "up"
    /\ hw' = DownHw(hw) /\ reg' = DownReg(reg)
    /\ nd' = [nd EXCEPT !.running = FALSE]
    /\ stage' = "down"
    /\ UNCHANGED <<nic, phy, partner>>

\* The PHY reports a change (MII_IER); atl1c_link_chg_event in the handler,
\* atl1c_check_link_status in the work item. The handler forgets the speed of
\* a link it sees lost.
LinkChange(p, others) ==
    LET new   == Negotiate(p, others)
        h     == IF new = NoLink /\ hw.carrier
                 THEN [hw EXCEPT !.carrier = FALSE, !.speed = 0] ELSE hw
        after == CheckLinkStatus(h, reg, nd, new)
    IN  IF stage = "up" /\ new # Link THEN hw' = after.hw /\ reg' = after.reg
                                      ELSE UNCHANGED <<hw, reg>>

Plug ==
    /\ Op
    /\ \E others \in Partners \cup {{}} :
         /\ others # partner
         /\ partner' = others
         /\ phy' = [phy EXCEPT !.done = FALSE]
         /\ LinkChange(phy', others)
    /\ UNCHANGED <<nic, stage, nd>>

NegotiationDone ==
    /\ phy.power = "on" /\ ~phy.done /\ partner # {}
    /\ phy' = [phy EXCEPT !.done = TRUE]
    /\ LinkChange(phy', partner)
    /\ UNCHANGED <<nic, stage, nd, partner, hwops>>

(***************************************************************************)
(* What user space asks for                                                *)
(***************************************************************************)

Present == stage \in {"down", "up"}

\* atl1c_set_settings: what is asked for is recorded before the PHY is told,
\* so asking again after an error tells it nothing.
SetSettings(adv) ==
    /\ Op /\ Present
    /\ hw.adv # adv
    /\ \/ /\ phy' = RestartAutoneg(phy, adv)
          /\ IF stage = "up" /\ Link # NoLink
             THEN LET after == CheckLinkStatus([hw EXCEPT !.adv = adv, !.carrier = FALSE,
                                                          !.speed = 0], reg, nd, NoLink)
                  IN  hw' = after.hw /\ reg' = after.reg
             ELSE hw' = [hw EXCEPT !.adv = adv] /\ UNCHANGED reg
       \/ "mdio" \in Failures /\ hw' = [hw EXCEPT !.adv = adv] /\ UNCHANGED <<phy, reg>>
    /\ UNCHANGED <<nic, stage, nd, partner>>

\* atl1c_set_wol.
SetWol(wufc) ==
    /\ Op /\ Present /\ hw.wol # wufc
    /\ hw' = [hw EXCEPT !.wol = wufc]
    /\ UNCHANGED <<nic, stage, nd, reg, phy, partner>>

\* atl1c_set_mac_addr refuses while the interface runs.
SetMacAddr ==
    /\ Op /\ Present /\ ~nd.running
    /\ hw' = [hw EXCEPT !.mac_addr = Addr("user")]
    /\ reg' = SetAddr(reg, Addr("user"))
    /\ UNCHANGED <<nic, stage, nd, phy, partner>>

ValidMtu(mtu) ==
    /\ nic.type \in {"l2c", "l2c_b", "l2c_b2"} => mtu <= 1500
    /\ mtu + Overhead \in 64 .. 6 * 1024

\* atl1c_change_mtu; on a device that is down it does nothing and reports
\* success.
ChangeMtu(mtu) ==
    /\ Op /\ stage = "up" /\ mtu # nd.mtu /\ ValidMtu(mtu)
    /\ nd' = [nd EXCEPT !.mtu = mtu]
    /\ LET h  == [DownHw(hw) EXCEPT !.max_frame = mtu, !.rxbuf = RxBufSize(mtu)]
           up == Up(h, DownReg(reg), nd', Link)
       IN  hw' = up.hw /\ reg' = up.reg
    /\ UNCHANGED <<nic, stage, phy, partner>>

\* atl1c_set_multi as ndo_set_rx_mode, which the stack calls while the device
\* runs and is present; what is asked for meanwhile waits for atl1c_configure.
SetRxMode(flags) ==
    /\ Op /\ nd.running
    /\ nd' = [nd EXCEPT !.flags = flags]
    /\ reg' = IF stage = "up" THEN SetMulti(reg, flags) ELSE reg
    /\ UNCHANGED <<nic, stage, hw, phy, partner>>

\* atl1c_set_features.
SetFeatures ==
    /\ Op /\ Present
    /\ nd' = [nd EXCEPT !.vlan = ~@]
    /\ reg' = [reg EXCEPT !.vlan = nd'.vlan]
    /\ UNCHANGED <<nic, stage, hw, phy, partner>>

\* Mutant: the clock stays on after the read.
ReadEepromClockOn(r) == [r EXCEPT !.otp = TRUE]

\* atl1c_read_eeprom switches the clock on and then back to what it was.
ReadEeprom(r) ==
    LET on == [r EXCEPT !.otp = TRUE] IN [on EXCEPT !.otp = r.otp]

\* atl1c_get_eeprom, word by word.
GetEeprom ==
    /\ Op /\ Present /\ nic.eeprom
    /\ reg' = ReadEeprom(reg)
    /\ UNCHANGED <<nic, stage, nd, hw, phy, partner>>

(***************************************************************************)
(* suspend, resume, shutdown                                               *)
(***************************************************************************)

\* The slowest mode the partner has, as atl1c_phy_to_ps_link tests them.
PsMode(others) ==
    CASE "10f" \in others  -> "10f"
      [] "10h" \in others  -> "10h"
      [] "100h" \in others -> "100h"
      [] "100f" \in others -> "100f"
      [] OTHER             -> "10h"

\* atl1c_phy_to_ps_link: the speed it ends up with is stored, a link that
\* does not come back in time counts as none.
PsLink(h, p, intime) ==
    IF Link = NoLink THEN [hw |-> [h EXCEPT !.speed = 10, !.duplex = "half"], phy |-> p]
    ELSE LET slow == [RestartAutoneg(p, PsMode(partner)) EXCEPT !.done = intime]
             l    == Negotiate(slow, partner)
         IN  [phy |-> slow,
              hw  |-> IF l = NoLink THEN [h EXCEPT !.speed = 0, !.duplex = "full"]
                      ELSE [h EXCEPT !.speed = Speed(l), !.duplex = Duplex(l)]]

\* Mutant: the receiver is not left on for the magic packet.
PowerSavingDeaf(r, p, wufc) ==
    IF wufc = {}
    THEN [reg |-> PowerOff(r), phy |-> [p EXCEPT !.power = "iddq", !.done = FALSE]]
    ELSE [reg |-> [r EXCEPT !.mac = {}, !.wol = wufc],
          phy |-> IF "link" \in wufc THEN [p EXCEPT !.ier = {"up"}] ELSE p]

\* atl1c_power_saving.
PowerSaving(r, p, wufc) ==
    IF wufc = {}
    THEN [reg |-> PowerOff(r), phy |-> [p EXCEPT !.power = "iddq", !.done = FALSE]]
    ELSE [reg |-> [r EXCEPT !.mac = IF "magic" \in wufc THEN {"rx"} ELSE {}, !.wol = wufc],
          phy |-> IF "link" \in wufc THEN [p EXCEPT !.ier = {"up"}] ELSE p]

\* Suspend and shutdown.
Suspend ==
    /\ Op /\ Present
    /\ \E intime \in BOOLEAN :
         LET h    == IF stage = "up" THEN DownHw(hw) ELSE hw
             r    == IF stage = "up" THEN DownReg(reg) ELSE DisableAspm(reg)
             slow == IF hw.wol = {} THEN [hw |-> h, phy |-> phy] ELSE PsLink(h, phy, intime)
             done == PowerSaving(r, slow.phy, hw.wol)
         IN  hw' = slow.hw /\ reg' = done.reg /\ phy' = done.phy
    /\ stage' \in {"suspended", "off"}
    /\ UNCHANGED <<nic, nd, partner>>

\* atl1c_resume: PCIe, PHY and MAC are set up as in probe.
Resume ==
    /\ Op /\ stage = "suspended"
    /\ phy' = PhyInit(PhyReset(phy), hw.adv)
    /\ LET r == ResetMac(ResetPcie(reg))
       IN  IF nd.running
           THEN LET up == Up(hw, r, nd, Negotiate(phy', partner))
                IN  hw' = up.hw /\ reg' = up.reg /\ stage' = "up"
           ELSE reg' = r /\ stage' = "down" /\ UNCHANGED hw
    /\ UNCHANGED <<nic, nd, partner>>

(***************************************************************************)

\* Powered on, the driver not yet bound. The BIOS may have set the address.
Init ==
    /\ nic \in [type : Nics, eeprom : BOOLEAN]
    /\ stage = "unbound"
    /\ nd = NewNetDev /\ hw = NewRecord(NoAddr)
    /\ \E sta \in {NoAddr, Addr("bios")} :
         reg = [aspm |-> AllAspm, mac |-> {}, wol |-> {}, mtu |-> 0, rxbuf |-> 0,
                vlan |-> FALSE, filter |-> NoFilter, sta |-> sta, otp |-> FALSE]
    /\ phy = [power |-> "iddq", adv |-> {}, done |-> FALSE, ier |-> {}]
    /\ partner = {}
    /\ hwops = 0

RxFlags == [promisc : BOOLEAN, allmulti : {FALSE}, mc : {{}, {"m"}}]
             \cup {[promisc |-> FALSE, allmulti |-> TRUE, mc |-> {}]}

Next ==
    \/ Probe \/ Remove \/ Open \/ OpenFails \/ Close
    \/ Plug \/ NegotiationDone
    \/ \E adv \in Settings : SetSettings(adv)
    \/ \E wufc \in SUBSET {"magic", "link"} : SetWol(wufc)
    \/ SetMacAddr \/ SetFeatures \/ GetEeprom
    \/ \E mtu \in Mtus : ChangeMtu(mtu)
    \/ \E flags \in RxFlags : SetRxMode(flags)
    \/ Suspend \/ Resume

Spec == Init /\ [][Next]_vars

(***************************************************************************)
(* Properties                                                              *)
(***************************************************************************)

Addresses == [origin : {"none", "bios", "eeprom", "random", "user"}, first : {"own", "08"}]

\* The records of the driver and the registers keep their types.
TypeOK ==
    /\ nic \in [type : Nics, eeprom : BOOLEAN]
    /\ stage \in {"unbound", "down", "up", "suspended", "off"}
    /\ nd.running \in BOOLEAN /\ nd.mtu \in Nat /\ nd.vlan \in BOOLEAN
    /\ hw.adv \in {"auto"} \cup Modes /\ hw.wol \subseteq {"magic", "link"}
    /\ hw.speed \in {0, 10, 100, 1000} /\ hw.duplex \in {"none", "half", "full"}
    /\ hw.mac_addr \in Addresses /\ hw.perm \in Addresses
    /\ reg.aspm \subseteq AllAspm /\ reg.mac \subseteq {"tx", "rx"}
    /\ reg.wol \subseteq {"magic", "link"} /\ reg.sta \in Addresses /\ reg.otp \in BOOLEAN
    /\ phy.power \in {"on", "iddq"} /\ phy.adv \subseteq Modes /\ phy.done \in BOOLEAN
    /\ phy.ier \subseteq {"up", "down"}
    /\ partner \subseteq Modes /\ hwops \in 0 .. MaxHwOps

\* "disable ASPM if device inactive" (atl1c_main.c:2362): whatever was done to
\* the device and its link before.
InactiveNoAspm == stage \notin {"unbound", "up"} => reg.aspm = {}

\* A machine that sleeps is woken by what was asked for and by nothing else: a
\* magic packet finds a receiver, a link change a PHY with power. One that is
\* awake has wake-on-LAN off.
WakesAsAsked ==
    /\ stage \in {"suspended", "off"} =>
         /\ reg.wol = hw.wol
         /\ (phy.power = "on") <=> (hw.wol # {})
         /\ ("rx" \in reg.mac) <=> ("magic" \in hw.wol)
         /\ "tx" \notin reg.mac
    /\ Present => reg.wol = {}

\* The PHY advertises what ethtool was told, or everything, also after a
\* suspend that advertised a slow mode. A PHY that did not take the setting is
\* not told again: SetSettings.
AdvertisesAsAsked ==
    Present => /\ phy.power = "on" /\ phy.ier = {"up", "down"}
               /\ "mdio" \notin Failures => phy.adv = Advertised(hw.adv)

\* A device that is up filters, strips and receives as its net_device says,
\* through every reset; its buffers hold the frames the MAC accepts, but for
\* the MTUs from 1501 on that atl1c_set_rxbufsize compares with the size of a
\* frame.
ProgrammedAsAsked ==
    stage = "up" =>
        /\ reg.filter.promisc = nd.flags.promisc
        /\ reg.filter.hash = nd.flags.mc
        /\ ~nd.flags.promisc => reg.filter.allmulti = nd.flags.allmulti
        /\ reg.vlan = nd.vlan /\ reg.mtu = nd.mtu
        /\ reg.mtu \notin 1501 .. 1522 => reg.rxbuf >= reg.mtu + Overhead

\* "restore permanent address" (atl1c_main.c:2693): an address set by the user
\* does not become the permanent one when the driver is bound again.
PermanentIsNotUsers ==
    /\ Present => reg.sta = hw.mac_addr
    /\ hw.perm.origin # "user"

\* The OTP memory's clock runs only where loading the address has timed out.
OtpClockOff == reg.otp => hw.perm.origin = "random"

\* "link result is our setting" (atl1c_main.c:278): a link equal to the stored
\* one is one the MAC runs with.
CarrierMeansMac == hw.carrier => reg.mac = {"tx", "rx"}

(***************************************************************************)
(* The inductive invariant                                                 *)
(***************************************************************************)

Wakeups   == SUBSET {"magic", "link"}
Adverts   == {"auto"} \cup Modes
FlagSets  == [promisc : BOOLEAN, allmulti : BOOLEAN, mc : SUBSET {"m"}]
Filters   == [promisc : BOOLEAN, allmulti : BOOLEAN, hash : SUBSET {"m"}]
NetDevs   == [running : BOOLEAN, mtu : Nat, vlan : BOOLEAN, flags : FlagSets]
Speeds    == {0, 10, 100, 1000}
Duplexes  == {"none", "half", "full"}
Records   == [adv : Adverts, wol : Wakeups, speed : Speeds, duplex : Duplexes, carrier : BOOLEAN,
              mac_addr : Addresses, perm : Addresses, max_frame : Nat, rxbuf : Nat]
Registers == [aspm : SUBSET AllAspm, mac : SUBSET {"tx", "rx"}, wol : Wakeups, mtu : Nat,
              rxbuf : Nat, vlan : BOOLEAN, filter : Filters, sta : Addresses, otp : BOOLEAN]
Phys      == [power : {"on", "iddq"}, adv : SUBSET Modes, done : BOOLEAN,
              ier : SUBSET {"up", "down"}]

DataOK ==
    /\ nic \in [type : Nics, eeprom : BOOLEAN]
    /\ stage \in {"unbound", "down", "up", "suspended", "off"}
    /\ nd \in NetDevs /\ hw \in Records /\ reg \in Registers /\ phy \in Phys
    /\ partner \subseteq Modes /\ hwops \in 0 .. MaxHwOps

\* What registers r have of network device n and record h after atl1c_configure.
Programmed(r, n, h) ==
    /\ r.filter.promisc = n.flags.promisc /\ r.filter.hash = n.flags.mc
    /\ n.flags.promisc \/ r.filter.allmulti = n.flags.allmulti
    /\ r.vlan = n.vlan /\ r.mtu = h.max_frame /\ r.rxbuf = h.rxbuf /\ r.wol = {}

\* Records g and h differ in the link only.
SameRecord(g, h) ==
    /\ g.adv = h.adv /\ g.wol = h.wol /\ g.mac_addr = h.mac_addr /\ g.perm = h.perm
    /\ g.max_frame = h.max_frame /\ g.rxbuf = h.rxbuf

\* The record follows the network device, and an adapter that is up is
\* programmed with both.
MacInv ==
    /\ stage # "unbound" => hw.max_frame = nd.mtu /\ hw.rxbuf = RxBufSize(nd.mtu)
    /\ stage = "up" => Programmed(reg, nd, hw)

\* An adapter that is up belongs to a network device that runs.
RunningInv == stage = "up" => nd.running

\* The address that the next probe finds is not one that the user has set, and
\* tells whether the OTP memory's clock was left on.
AddrInv ==
    /\ stage # "unbound" => reg.sta = hw.mac_addr
    /\ stage = "unbound" => reg.sta.origin # "user" /\ (reg.otp => reg.sta.origin = "random")
    /\ hw.perm.origin # "user"
    /\ OtpClockOff

IInv == DataOK /\ InactiveNoAspm /\ WakesAsAsked /\ AdvertisesAsAsked /\ MacInv /\ RunningInv /\ AddrInv

=============================================================================
