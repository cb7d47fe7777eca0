# Verification of kernel-hacking

TLA+ models of the programs of this repository, checked with TLC and, for
the parts that matter most, proved with TLAPS. The repository is a kernel
learner's workbench: network, input and character drivers taken from the kernel
and worked on, and modules written from nothing. `D` stands for
`src/how-to-write-kernel-modules-and-drivers`, `K` for
`src/learning-to-send-kernel-patches/0-OLD/atkbd-patch-possibility`.

## 1. Inventory

| Part | Source | State | Operations | What is hard |
|---|---|---|---|---|
| Transmit path of the atl1c network driver | `D/0-earliest/4-atl1c/atl1c_main.c` 834-883, 1545-1645, 1909-2264 | `tpd_ring`: `next_to_use`, atomic `next_to_clean`, `buffer_info[]`, descriptors; `tx_lock`; the NIC's PIDX and CIDX | `atl1c_xmit_frame` and the functions it calls, `atl1c_clean_tx_irq` | producers hold a lock, the consumer holds none; the NIC reads while both run; a packet takes 1 to n descriptors and can fail in the middle |
| Reset, link, open and close | same, 175-376, 2320-2431 | `flags` (`__AT_DOWN`), `work_event`, NAPI and interrupt on or off, carrier, link speed | `common_task`, `check_link_status`, `link_chg_event`, `up`, `down`, `open`, `close`, `tx_timeout` | the work item, interrupts, the watchdog, the PHY and the stack run at once; `up` can fail in the middle of a reset |
| Receive path | same, 888-935, 1592-1616, 1687-1890 | RFD and RRD rings, NIC indices, the interrupt mask, NAPI | `alloc_rx_buffer`, `clean`, `clean_rx_irq`, `clean_rrd`, `clean_rfd`, `clean_rx_ring` | acknowledge, mask, budget and completion in the right order; allocation failures; refill only after a delivery |
| Interrupt mask, `irq_sem`, PCI lifecycle | same, 175-233, 344-376, 432-560, 1592-1675, 2266-2800 | `irq_sem`, `intr_mask`, ISR with its disable bit, IMR, NAPI's SCHED, the interrupt line, rings, what `probe` acquired | interrupt handler and poll, probe, remove, open, close, suspend, resume, `change_mtu`, `set_features`, `nway_reset`, PCI error recovery | five callers of `atl1c_down` of which not all exclude one another; failures in the middle of probe, open and reset |
| PHY, MDIO, EEPROM, power, ethtool | `atl1c_hw.c`, `atl1c_hw.h`, `atl1c_ethtool.c`, `atl1c_main.c` | the registers: MAC, ASPM, Wake-on-LAN, filters, addresses, OTP clock; the PHY's power and advertisement | configure, check_link_status, suspend, resume, set_settings, set_wol, get_eeprom, set_mac, set_multi | long sequences: what one operation leaves in a register another one reads |
| Cut-down copy of the driver | `D/0-earliest/5-atl1c` | as above | as above | what was cut: mapping errors are not rolled back |
| `open()` hook with sysfs commands | `D/7-meta/{toplel,sysfs,main}.c`, `util.h` | system call table entry, `orig_sys_open`, `toplel_installed`, `foo`, a static path buffer | `foo_store`, `toplel_insert`, `toplel_remove`, `my_sys_open`, `kmod_exit` | tasks are in the hook while it comes, goes and is unloaded |
| System call hooks, earlier versions | `D/4-hooks/1..3` | system call table, CR0 per CPU, the programs' address limit | insmod, rmmod, the hooks | two CPUs, tasks that move, programs in a hook |
| Character devices, procfs file, parallel port | `D/1-memory`, `D/0-earliest/2-character`, `D/0-earliest/3-parlelport`, `D/5-procfs` | one global buffer and position | insmod, rmmod, open, read, write, release | no lock, a position that only grows, a read that clears, failures at insmod |
| USB HID driver | `D/2-usbhid/hid-core.c` | one URB, its buffer, the HID device | probe, start, open, completion, close, stop, disconnect | completion beside close, disconnect and unplugging |
| Keyboard driver of the kernel, with a patch | `K/atkbd-new.c`, `atkbd-old.c` | decoder flags, LED and rate events, work item, attributes, key table, input device | interrupt, connect, reconnect, disconnect, event work, writes to attributes | the serio thread, the work item, sysfs writers and the interrupt; undoing half a change |
| Keyboard drivers cut down from it | `D/3-atkbd` | a prefix flag, a table | interrupt, connect, disconnect | typing while the port comes and goes |
| Random number generator, kept for reading | `src/reading/drivers_char_random.c` | pools and entropy counts, generator state per node, callbacks, wait queues | credit, account, transfer, read, ioctl; load, reseed, extract, ready callbacks | lock-free accounting; sleeping and waking on a count others change |
| Diagnostics, notes, scripts, patches | the rest | none to speak of | | |

How the atl1c parts interact: the stack calls `atl1c_xmit_frame` on any CPU;
it takes `tx_lock` and writes PIDX. The NIC moves CIDX and raises TX_PKT. The
handler cleans up to CIDX and wakes the queue. RX_PKT masks itself and schedules
the NAPI poll. A PHY interrupt, an error interrupt or the stack's watchdog sets a
bit in `work_event` and schedules `common_task`, which resets the device or
follows the link. Open, close, MTU and feature changes run under the stack's own
lock (rtnl); suspend, resume and error recovery are called by the PCI core. The
rings are shared by all of them. The other parts stand alone: each interacts with
the kernel's core (serio and input, USB and HID, the VFS, the system call
table, interrupts and readers of the random devices), which its module includes
as far as the driver can tell.

What makes each part correct:

- transmit: indices never overtake one another; a packet belongs to one place
  and is freed once; the NIC only sees mapped buffers, and nobody touches what
  it owns; completions are not lost;
- reset: driver and NIC agree on the indices afterwards, nothing stays in a
  closed device, a stopped queue restarts, close returns;
- receive: the NIC only fills buffers that are there, frames arrive in order
  and once, no frame is left waiting, the ring does not starve, nothing leaks;
- lifecycle: the disable count balances, two threads never take the device down
  at once, rings outlive their users, a device that should be up is up, a probe
  that fails keeps nothing;
- hardware: the registers end as the user, the link and the adapter's own rules
  ask;
- hooks: whoever gets into one reaches the real system call, and the table is as
  it was once the hook or the module is gone;
- devices: what was written is what is read;
- keyboards: the keys the input layer holds for down are the keys held; attributes,
  device, table and keyboard agree; what is freed has no work left;
- random: entropy is not counted twice, sleepers wake, callbacks are called once.

## 2. Modules

| Module | Role |
|---|---|
| `TxChannel` | what the transmit path promises: a FIFO of accepted packets, each released once, with a purge during a reset. The queue is a set with the order of acceptance, not a sequence: a slot of the ring then says by itself who is queued and who is before whom, and the refinement can be proved slot by slot |
| `TxChannelProofs` | that `TxChannel` is a FIFO |
| `TpdRing` | the transmit data path: producers, handler, NIC. It implements `TxChannel` (property `TxFifo`) |
| `MCTpdRing` | packets for TLC: `s1` IPv6 TSO (3 descriptors), `s2` with a fragment (2), `s3` with an odd checksum start, `s4` the smallest (1) |
| `TpdRingProofs` | theorems about `TpdRing`: its indices, then the contents of its slots and the refinement of `TxChannel` |
| `AtlTx` | extends `TpdRing` with open, close, the work item, the watchdog and the link; implements `TxChannel` with purge (`ResetIsPurge`) |
| `MCAtlTx` | packets for `AtlTx`: `s1` takes 2 descriptors, `s2` and `s3` one |
| `AtlTxProofs` | theorems about `AtlTx`, and about `MCAtl`'s run of it |
| `RxChannel` | what the receive path promises: reported buffers reach the stack, or are discarded, in order. Also a set with an order |
| `RxRing` | rings, interrupt and NAPI poll, reset and reopen. It implements `RxChannel` (property `RxFifo`) |
| `RxRingProofs` | theorems about `RxRing` |
| `MCAtl` | `AtlTx`, `TpdRing` and `RxRing` in one run, `which` says which: the safety of resets, and what must come at last in small rings |
| `Adapter` | the adapter's life and interrupts: three threads of driver code, the handler, the poll |
| `AdapterProofs` | theorems about `Adapter` |
| `AtlHw` | what ends up in the registers and the PHY over any sequence of operations |
| `CutTx` | the transmit path of `5-atl1c`, where a failed mapping is not noticed |
| `Toplel` | the `open()` hook, its sysfs commands, unloading, and the tasks in it |
| `ToplelProofs` | theorems about `Toplel` |
| `Hooks` | the three modules of `4-hooks` |
| `AtkbdDecode` | bytes of a PS/2 keyboard and the keys `atkbd_interrupt` makes of them |
| `AtkbdDrv` | connect, reconnect, disconnect, event work, attributes of the same driver |
| `SmallKbd` | the two drivers of `3-atkbd` |
| `RandomPool` | entropy accounting, transfer, readers and the hardware generator |
| `RandomCrng` | initialisation and seeding of the generator, callbacks |
| `UsbHid` | the URB of the mouse driver |
| `CharDevs` | the five character devices and files |
| `MCDrivers` | instances of the nine modules that run by themselves and of `CutTx`; `which` says which one a behaviour is of, `x1` to `x21` are its variables. Its constants are the parameters of the parts, except the tables' |
| `KernelProofs` | theorems about `MCDrivers`: the random number generator and the kernel's keyboard driver |
| `DriversProofs` | theorems about `MCDrivers`: five more of its parts |

### Correspondence

*TpdRing.* Variables have the driver's names. `buffer_info[i]` keeps FREE, the
mapping and the skb; `desc[i]` what the NIC tells apart (zeroed, extended, data,
end of packet). `pc`, `skb`, `first`, `left` are the program counter and locals
of `atl1c_xmit_frame` per CPU, `intr` those of the handler. Each action ends
where the other side can see a change: `XmitAvail` reads `next_to_clean` and
takes the first descriptor, `XmitMap` maps one piece, `XmitQueue` writes PIDX;
`IntrStatus` acknowledges, `IntrRead` reads CIDX, `IntrClean` cleans one buffer,
`IntrPublish` stores `next_to_clean`. `XmitMapFail` with `XmitRollback` is the
DMA error path, `XmitOffloadFail` the failures of `atl1c_tso_csum`. As in the
code, `tpd` has moved to the second descriptor for IPv6 TSO when the rollback
starts from it, and a failed offload gives no descriptor back. Descriptor
contents, queue priorities (only the normal queue is used) and statistics are
left out.

*AtlTx.* One control thread `ctl` stands for the work item and for open and
close: `atl1c_close` waits for the work item (`cancel_work_sync`) and the stack
does not run open and close at once. The cleaning of the ring is one step per
slot, because it takes no lock.

*RxRing.* `prod` is what the mailbox register holds, `hw_rfd` and `hw_rrd` are
the NIC's own indices. `AllocRxBuffer` is one call, with every prefix that
failures can leave behind. `Down(reset)` distinguishes a reset, which keeps the
memory of the return descriptors, from close and open, which renew it. `owner` says
who is responsible for a buffer; `"lost"` is one whose frame had an error, which
`atl1c_clean_rfd` forgets.

*Adapter.* `th` says, per thread ("net" is the holder of rtnl, "work" the work
item, "bus" the PCI and power core), which operation it is in and at which step.
`atl1c_down` is the steps `DownMark`, `DownNapi` (napi_disable waits for SCHED and
takes it), `DownIrq`, `DownFree`, `DownStop`; `atl1c_up` is `UpConfigure`,
`UpRequest`, `UpCheck`, `UpClear`, `UpEnable`, or `UpFail`. `IrqDisable` and `IrqEnable` are the two functions with
the count `irq_sem`; writing ISR clears the causes and the bit `dis_int` at the
values the code writes. `napi` is SCHED (and who may own it), `napi_dis` the bit
`napi_disable` sets while it waits; the first of two disablers clears it for the
second, as the kernel of that time does. The poll's tail is three steps
(`PollComplete`, `PollUnmask`, `PollWrite`), because the handler can come
between, and so can whoever takes SCHED (`tail` is where it is).
`CheckLinkStatus` returns early when the speed of a link that is up cannot be
read: the carrier stays as it was, and `unresolved` remembers that. `held` is what `atl1c_probe` has acquired, in order; its labels release
in reverse. `RemoveFree` assumes that the device is freed when its last user has left, the
work item included: `atl1c_remove` (2687-2702) does not wait for that itself. Packets are left to `TpdRing` and `RxRing`.

*AtlHw.* An operation is whole here; `nd` is what the net_device asks for, `hw`
the driver's own record, `reg` the MAC's registers, `phy` the PHY's. A register is
the set of the bits that are on. `Configure` is `atl1c_configure` with what it
calls, `PowerSaving` is `atl1c_power_saving` at suspend, `NegotiationDone` the partner's
answer with the `atl1c_check_link_status` that follows it. Six adapters differ in ASPM rules
and in where their address comes from.

*CutTx.* A step is a whole handler: the interleavings are those of `TpdRing`. A slot
holds which piece of which frame it maps and whether it ends a packet; `gathered`
is what the NIC has read since the last end of packet, `sent` the packet on the
wire. `XmitRefused` stands for both failures of `atl1c_tso_csum`: a header that cannot
be copied, a checksum that starts at an odd byte.

*Toplel.* `wpc` says where each writer, and rmmod, is in `sysfs.c`, `toplel.c`
and `main.c`; `opc` where each opening task is. Insert and remove take a step
per shared access. `cwd` counts the components left in the buffer of the
`getcwd` macro. A task in text that has been freed dies (`Crash`).

*Hooks.* insmod and rmmod take a step per access to the table and to CR0, and may
be moved to another CPU between two; `wp` is the WP bit of each CPU. A write with
it set, a call through a freed hook, and a bad pointer for a name (`"wild"`: versions 2
and 3 look at the user's name without copying it, version 1 prints it), crash. insmod
may find no table and load nothing.

*AtkbdDecode.* The keyboard's side (`Press`, `Unpress`, `Stray`, `Replug`, `Command`) puts
bytes on the wire by the tables of the scan code sets; `Interrupt` is one call of
`atkbd_interrupt` with its early returns in the order of the code, and with the
compat step (`CompatScancode`), the key table and the input layer's
answer. `down` is what the input layer holds for pressed.

*AtkbdDrv.* `port` is where the serio thread is in connect, reconnect or disconnect;
`spc` where the writer of an attribute is; `wpc` where the work is. `kb` is the
keyboard itself (set, LEDs, rate, enabled), `a` the driver's configuration, key
table and current input device, `devs` the input devices there are. A failed
step is chosen where the code tests for it; at most one fails.

*SmallKbd.* The table is the one of the source, byte for byte, in both drivers'
forms.

*RandomPool.* Counts are in fractions of a bit. The compare-and-exchange loops of
`credit_entropy_bits` and `account` are two steps, read and swap, and the swap is
repeated when the count has moved. Wake-ups are steps of their own with the
threshold the code tests. `given` is what the sources were credited less what
was delivered.

*RandomCrng.* A key is a flag: made before the generator was seeded, or after. A
section under a spin lock is one step, except the processing of callbacks, which
runs with the generator's lock held.

*UsbHid.* `queued` and `running` are the URB with the controller and in its
completion handler; `killers` are those in `usb_kill_urb`, which rejects
submissions while they wait.

*CharDevs.* `echo` is open, writes until done, release; `cat` is open, reads until 0,
release; calls of two tasks alternate freely. `held` is what insmod has acquired. It
may fail to get any of it: what the code tests for (`Checked`) undoes insmod, what it
does not (`Unchecked`: the minimal version and `5-procfs` test nothing) is then missing from a
module that is loaded, or crashes it at once (`LoadCrash`). `memory_write` and
`parlelport_write` do not stop at the end of the buffer; a byte behind it may crash
the kernel. Nor do the devices' `file_operations` have an owner: `Rmmod` can come
while a task has the device open, whose next call is into memory that is free
(`Stale`). `crashed` ends a behaviour. The history variable `log` has what was written
(`bytes`) and the text written last (`latest`).

## 3. Runs

| Run | Instance | What it shows |
|---|---|---|
| `tpd_ring` | 5 slots; packets of 3 and 1; 2 CPUs; both failures; `MaxIntWork` 2 | index order, the inductive invariant of the proofs (`ContentIInv`, which contains `IInv`), ownership of packets, NIC safety, the FIFO refinement |
| `tpd_ring_rollback` | one packet, DMA failure | **violation**: a rolled-back IPv6 TSO packet leaves its extended descriptor in the ring |
| `atl` | `AtlTx` with 3 slots, packets of 2 and 1, failures of `atl1c_up` and an unresolved speed; `AtlTx` with 2 slots and 2 link changes; `TpdRing` with 4 slots, packets of 3, 2 and one whose checksum cannot be done, DMA failures; `RxRing` with 4 slots and good frames | after each reset driver and NIC agree on the indices and a closed device is empty (`MCResetIsClean`), a reset is a purge of the channel; a stopped queue restarts, close returns, every queued packet is released, frames are handled and the receive ring is refilled |
| `atl_tx_hang` | `atl1c_up` may fail | **violation**: after a failed reset close blocks in `napi_disable` |
| `atl_tx_lock` | 1 link change | **violation**: a link loss resets `next_to_use` while a CPU holds `tx_lock` |
| `rx_ring` | 4 slots; good, bad and two-buffer frames; allocation and mapping failures; a carrier change | the NIC fills real buffers, RRDs do not overflow, one RRD per buffer, a reset or close loses no buffer but those of frames with an error, the FIFO refinement |
| `rx_ring_stale` | resets with frames still to be polled | **violation**: RRDs stay valid over a reset and are taken for new frames |
| `adapter` | 3 operations out of open, close, MTU, features, suspend, error recovery, probe, remove, error interrupts and timeouts; 1 link change; 2 bursts of frames; every failure | the disable count balances, SCHED keeps two threads apart, rings outlive their users, the device ends up as asked, a probe is all or nothing, errors recover, the carrier follows the link, every operation ends |
| `adapter_close` | open, close and what the NIC and the watchdog do; 1 link change | **violation**: close in the middle of a reset; a link event is handled on freed rings |
| `drivers` | the nine modules that run by themselves and `CutTx`, one at a time, instances in `MCDrivers` | see the comments of the eight properties in `MCDrivers`: each names the properties of the modules it stands for |
| `toplel` | 1 writer, 2 opening tasks, rmmod at any moment | the hook leads to the real `open`, the table is restored, nobody goes round in the hook |
| `toplel_path` | 1 opening task | **violation**: the second hooked open looks in the wrong directory |

Runs that combine several instances (`atl`, `drivers`) choose one in the initial
state and keep it. `which = "x" => P` is then P for that instance, and the
weak fairness of "one action or another, by instance" is fairness of each.

### Bounds

- `Count` 5 with packets of 3 and 1: two packets fit with the slot the ring
  keeps back, the ring wraps, runs full and refuses. Nothing in the code depends
  on more; the theorems cover every size. `AtlTx` has 3 and 2 slots, which keeps
  the ring full most of the time.
- `MaxIntWork` 2 (1 in `AtlTx`): one loop of the handler and one exhaustion; the
  code has 5.
- `MaxFlaps`: link or carrier changes. In the reset part of `atl` it is 0,
  because a link loss resets the ring under a running producer (`atl_tx_lock`)
  and the safety properties of the reset do not survive that; the live part
  has 2.
- `ShortXmit` (`AtlTx`, assumption): no call of `atl1c_xmit_frame` lasts longer
  than the way from `set_bit(__AT_DOWN)` to the MAC reset. The code does not wait
  for it; both delays that `atl1c_down` passes through make it likely.
- `Drained` (`RxRing`, assumption): no frame waits for the poll when a reset
  begins. `rx_ring_stale` shows what happens without it.
- `Budget` 2 in `RxRing` (64 in the code): a poll that uses it up and one that
  does not.
- `Kinds = {"good"}` and `Failures = {}` in the receive part of `atl`: memory is
  there when it is asked for. Otherwise the driver does starve: a poll that
  delivers nothing refills nothing, and an error frame's buffer is forgotten.
- `MaxOps` 3 in `Adapter`: two operations that overlap and one error or timeout
  between, or an operation and the work item after another. `MaxFrames` 2 and
  `Flood`: a poll that is scheduled again while it finishes, and one with more
  frames than its budget. The unmasking of a poll that has given SCHED up (`tail`) is
  over before the next poll comes to its end: two statements of one softirq against an
  interrupt and a whole poll. `Recovery` FALSE: error recovery does not begin
  between the steps of open or close (section 5).
- `AtlHw`: 5 operations on two adapters that differ in their ASPM rules, with and
  without an EEPROM: suspend, resume, and what changes a register
  before, between and after. The device's own failures are an EEPROM timeout and
  a failing open.
- `AtkbdDecode`: 4 strokes of six keys that stand for the kinds (plain, modifier,
  prefixed, the one whose release looks like an answer, pause, a key without
  release) and 8 bytes in the controller, which is longer than any sequence.
- `AtkbdDrv`: 3 requests of user space, the keyboard or the port, over seven
  kinds of keyboards; two attribute writes around a replug.
- `RandomPool`: pools of 32 and 16 fractions with 2 fractions to the bit and 2 bits
  to the byte instead of 2^15, 2^13, 8 and 8: the saturation of a pool, a partial
  transfer and the pool's reserve are all reached with 4 events. One reader, as
  /dev/random readers only meet in the wait queue.
- `RandomCrng`: 2 readers, one source, one driver, one node besides the primary
  generator, a threshold of 2 loads, 5 calls.
- `UsbHid`: 2 users and 5 opens; `CharDevs`: 2 tasks, texts of 1 and 2 bytes, 3 bytes
  of buffer, 5 commands (two long texts run over it), every failure of insmod;
  `SmallKbd`: 4 keys, of which one is not in the table; `Hooks`: 2 CPUs, 1 program, 5 calls
  and loads; `CutTx`: 5 slots, 4 frames of 1 or 2 descriptors, of which two are
  segmented and three can be refused, 1 link loss or reset.
- `Depth` 2 in `Toplel`: the path has two `/`; the third use of the macro faults.
- One writer in `Toplel`: see section 4.

Deadlock is not checked (`CHECK_DEADLOCK FALSE`): the bounds end every
behaviour, and the code does stall. A descriptor left over by a failed packet
with a stopped queue waits for the watchdog, which `TpdRing` alone does not
have; in `AtlTx` close hangs; a receive ring starves; and tasks of `Toplel` die
with the module. That what should go on does go on is stated by the liveness
properties.

### Fairness

- `TpdRing`: weak fairness of a CPU inside `atl1c_xmit_frame` (not of entering
  it), of the handler and of the NIC. A CPU that has `tx_lock` has interrupts off
  and runs on; `spin_trylock` never waits.
- `AtlTx`: the same, and weak fairness of the work item, the control thread, the
  PHY interrupt and the stack's watchdog timer. Nobody has to send, open or
  close.
- `RxRing`: weak fairness of the interrupt, the softirq, and the stack giving
  each buffer back. Frames need not arrive.
- `Adapter`: weak fairness of all progress together: the computer does not stop
  while a handler, a poll, a thread inside an operation, a scheduled work item or
  the core's next call (resume after suspend, the steps of error recovery) can
  go on. That is less than fairness of each; it is enough because what the
  environment may add is bounded. No operation has to be begun.
- `AtkbdDrv`: weak fairness of the workqueue, the serio thread, the writer inside an
  attribute, and the interrupt that is pending. The mutex is contended by a
  bounded number of requests.
- `RandomPool`, `RandomCrng`: weak fairness of each thread inside the driver (a task
  that is woken is scheduled; one that sleeps in `getrandom` need not be), of the
  transfer work item and of the hardware generator's thread.
- `Toplel`: weak fairness of a task in the hook. `sys_open` may block for ever.

Where a condition must always end again the run states `[]<>~p`, which is
`p ~> ~p`; in `drivers` the bounds leave each behaviour a last event, and
`<>[]~p` says that after it the sleeper wakes and stays awake. As any event can be
the last, this is what would hold after each.

## 4. Proofs

Eight modules hold theorems. An invariant that a run checks is seldom inductive, so
each module has one that is, with one lemma per action of the model and under it
one step per conjunct. Where a theorem needs more of the world than the
constants' assumptions, it says so in an `ASSUME` of its own; these hypotheses
are listed with it.

**`TpdRingProofs`** holds for every ring size of at least two slots, any set of CPUs
and packets and any shape of them (`CountAssumption`, `ShapeAssumption`,
`NoneAssumption`, `FailuresAssumption`, `MaxIntWorkAssumption`).

- `Inductive`: `Spec => []IInv`. `RingOrder` alone is not inductive. That the
  producer does not overtake the consumer needs that it has reserved what the
  rest of its packet takes (`Need` in `ProducerInv`), which needs that it holds the
  lock (`LockInv`) and that `atl1c_cal_tpd_req` covers what `atl1c_tso_csum` and
  `atl1c_tx_map` take (lemma `ReqCoversPieces`). That the consumer stops at
  CIDX needs that its snapshot is behind CIDX and its index is `next_to_clean` or
  one ahead (`ConsumerInv`), after lemmas on distances in the ring.
- `TypeCorrect`, `RingOrdered`: consequences.
- `NothingTouchedUnderHw`: no step writes a descriptor in [CIDX, PIDX) or unmaps
  its buffer, because producers write from PIDX on and the handler cleans before
  CIDX.

Its second half goes on from there, under the same assumptions, to what the slots hold.

- `ContentInductive`: `Spec => []ContentIInv`. It adds to `IInv` what lies in
  the slots: a packet in a slot is the ring's and in no other slot (`SlotInv`), and
  a packet of the ring is in one (`RingInv`); until its last piece is mapped a
  packet is one CPU's (`DriverInv`); what the handler has cleaned and not yet
  published is empty (`PublishInv`); a data descriptor not yet consumed has a
  mapped buffer, unless a rollback is on its way to it (`MappedInv`).
- `OwnershipIsExact`, `NicSeesMapped`: `SkbOwnership` and `HwSeesMapped`, from it.
- `RingIsFifo`: `Spec => TxFifo`. The `XmitMap` of a packet's last piece is the channel's Accept, cleaning the
  last slot of a packet its Release, a failure its Drop, everything else a stutter.
  The channel's order is that of the distances from `next_to_clean`; it survives
  the move of `next_to_clean` because the slot passed is empty by then.

**`TxChannelProofs`**: `ChannelIsFifo`, so that the refinement means what it should: what is
queued is in one strict total order and not yet released. That a packet only leaves, outside a
reset, as the first in that order is the guard of the channel's Release.

**`AtlTxProofs`** is the same ring inside `AtlTx`: reset, close and open may begin at any
step of a sender, the handler and the NIC, and `atl1c_up` may fail. It holds for every
size, packets, CPUs and failures as above, under the hypothesis `Undisturbed`: the link does not
change (`MaxFlaps = 0`) and no call of `atl1c_xmit_frame` outlasts the way to the MAC
reset (`ShortXmit`). Both are the run's own constants, and neither can be dropped: with one link
change, or with a sender that outlasts that way, the ring is cleaned beside a sender, and TLC
finds each of the three properties below violated (section 5; `atl_tx_lock` shows the cause).

- `AtlInductive`: `AtlSpec => []AtlIInv`. Outside the cleaning it is `ContentIInv`, which
  the steps of the data path keep by the lemmas of `TpdRingProofs`. With the interrupt
  off `__AT_DOWN` is set, so nobody enters the ring; from the MAC reset on nobody is in it and
  the NIC's indices are 0 (`QuietInv`); so a slot once cleaned stays
  empty, while the others still hold each its packet (`CleaningInv`), and what
  `atl1c_configure` sets up is a ring that satisfies `ContentIInv` again (lemma `EmptyRing`).
  A device neither open nor closing has its interrupt off (`CtlInv`); a buffer marked free is
  not mapped (`FreeInv`), which is why the cleaning, which skips free buffers, unmaps all.
- `OrderSurvivesReset`, `ClosedKeepsNothing`: `OrderAfterReset` and `ClosedIsEmpty`, from it.
- `DriverIsChannel`: `AtlSpec => ResetIsPurge`. The MAC reset begins the channel's purge
  and the end of `atl1c_clean_tx_ring` ends it; a slot cleaned is its Purge; the data path
  maps as in `RingIsFifo`, and during the purge can only drop and reuse.
- `RunIsClean`, `RunIsPurge`: the same for `MCSpec`, whose run checks
  `MCResetIsClean` and `MCResetIsPurge`.

**`RxRingProofs`** holds for every ring of at least three slots, any memory, budget
and bound, any kinds of frames and failures (`RxCountAssumption` and the others).

- `RxInductive`: `Spec => []IInv`, the types with the two rings in step (`prod` with
  `next_to_use`, `hw_rrd` with `hw_rfd`), the budget and the refill counting the same
  frames, the slot at `next_to_use` free, and a busy slot with a buffer of its own.
- `MarksInductive`, under `Drained`: `IInv /\ MarkInv`. What the NIC may fill is
  busy and not reported; what is reported is busy and its return descriptor carries its own
  index. The first is preserved by a refill because the loop of
  `atl1c_alloc_rx_buffer` fills free slots only, so it cannot go round to the slot
  the NIC is at (lemma `AllocMark`); the second by the poll because it frees
  exactly the slot of the descriptor it clears (`MarkFreed`).
- `NicFillsBuffers`, `ReturnRingHasRoom`, `CleansWhatWasFilled`: the run's three invariants, under
  `Drained`; without it `rx_ring_stale` is the counterexample.
- `OrderInductive`, under `Drained`: adds `OrderInv`. What lies between
  `next_to_clean` and the NIC is busy, every descriptor that waits lies there with all
  its buffers, and no two overlap. The NIC cannot catch up with the poll because the slot
  at `prod` is free (lemma `OrderReceive`).
- `RxRingIsFifo`, under `Drained`: `Spec => RxFifo`. A frame of the NIC is the
  channel's Fill, a good one cleaned its Deliver, one with an error or of several
  buffers its Discard, a reset or close its Flush, everything else a stutter. The
  order is that of the distances from `next_to_clean`, as for the transmit ring.
- `OnlyErrorsLeak`: `Spec => []CleanFreesAll`, without any hypothesis: after every reset
  and close, whenever it begins and whatever is reported or fails, the driver is
  responsible for no buffer. A buffer that is the driver's is in a slot that is not
  free, and a device that is down has none (`KeepInv`), because
  `atl1c_clean_rx_ring` visits every slot. The exception is in the model and not in a
  hypothesis: the buffer of a frame with an error is `"lost"` when its slot is
  cleaned.

**`AdapterProofs`** holds for any set of interrupt causes and failures and for every
bound on operations, frames and link changes, with `Recovery` FALSE
as in the run (`ASSUME ~Recovery` in each theorem but the last).

- `AdapterInductive`: `Spec => []IInv`. Who may be between which steps is one
  invariant: a thread that has napi_disable's SCHED, and nobody else, is
  between `DownNapi` and the release (`LockInv`); an operation of the stack, the work item
  and the bus exclude each other where the core says so, and where it does not
  `__AT_DOWN` and the lock do (`OpenInv`); the set of those who have the interrupt
  disabled is counted by `irq_sem` (`SemInv`); the handler only runs while the
  line is requested (`IrqInv`).
- `SemaphoreBalanced`, `NapiLocks`, `RingsOutlive`, `SettledUp`: the run's invariants `IrqSemBalanced`, `NapiIsALock`,
  `RingsOutliveUsers`, `SettledIsUp`, from it. `RingsOutliveUsers` is about the handler, the
  poll and every step of an operation that cleans, fills or frees the rings; the one
  exception is the work item's link check, which does find them freed (`adapter_close`).
- `ProbeKeepsAllOrNothing`: `ProbeAllOrNothing`, if setting the DMA mask does not
  fail (`"dma" \notin Failures`, as in the run; section 5 says what happens
  otherwise). It needs no other hypothesis.

`~Recovery` is a restriction of what is proved, not of what the code does: with
it off, an open that fails beside a recovery's resume breaks the lock, and TLC
shows it with six operations.

**`ToplelProofs`** holds for any number of opening tasks and any path, and (except
the last theorem) for one writer at a time (`OneWriter`, a hypothesis). With two
writers the theorems are false: both pass the test of `toplel_installed`, the
second saves the hook as the original, and `open` recurses.

- `HookInductive`: `Spec => []IInv`. One thread at most is in `toplel.c`, because
  rmmod waits for the last `foo_store` (`ThreadInv`); so the flag and the table
  agree except in the middle of an insert or remove (`TableInv`), and
  `orig_sys_open` is never the hook.
- `HookSound`, `FreedTable`, `RemoveSound`: consequences.
- `HookTypeCorrect`: `TypeOK` for any number of writers. A table entry, or a value
  about to be written there, that could be none of the two functions is excluded
  by `NullInv`: `orig_sys_open` is set before `toplel_installed`.

**`KernelProofs`** and **`DriversProofs`** are about eight of the parts that `MCDrivers` runs
one at a time, three in the first and five in the second (`SmallDriversServeAlways` has
four), with the constants of `MCDrivers` for their parameters. The invariant `IInv` is in
the module of each part; a step that is not of the part the behaviour is about leaves that
part's variables alone.

- `CrngServesAlways`, for any readers, sources, drivers and nodes (`CrngAssumption`: the
  first two do not overlap and none is called "none" or "primary"). The list holds
  exactly the drivers that wait, each with the reference it took (`ListInv`); who has just
  set `crng_init` to 2 holds the lock until the list is worked through (`LockInv`),
  so nobody is added to it behind his back; and a node is seeded only from a primary
  generator that has its key (`SeedInv`).
- `NeverOverestimatesAlways`, for any finite set of readers, pools, units and thresholds
  of any size, and any amounts credited (`PoolPartAssumption`). Who has got something
  from a pool has it until it is credited or delivered, and nobody else has anything
  (`ThreadsInv`); a step changes the share of one thread only, so the sum over the
  threads by as much (lemma `PoolSumChange`, by induction over the subsets). What the loop
  of `credit_entropy_bits` adds is at most what it is given and ends at the pool's size,
  however many rounds it takes (lemma `PoolCredited`, by induction on the amount left;
  both inductions are by least counterexample, `WFMin`). The exchange is what makes the
  sum hold: the count that is added to is the count that is there.
- `KeyboardCoherentAlways`, for any of the kinds, attributes, values and failures of
  the source (`DrvPartAssumption`). One thread at a time is inside the mutex (`MutexInv`); work
  is excluded around connect and after disconnect (`WorkInv`); the input device is that of
  the configuration (`DeviceInv`), except between the halves of a write, where what
  will be put back is known (`RegisterInv`); the keyboard has the set the driver
  believes, apart from the ones being set up anew (`SetsInv`).

The second module:

- `HardwareAsAskedAlways`, for any MTU (a number), settings the source accepts, link partners and
  number of operations, on every type of adapter (`HwPartAssumption`). The registers hold what the record asks for while
  the adapter is up (`MacInv`), and it is up only under a network device that runs
  (`RunningInv`). What an unbound adapter has in its address register, which the
  next probe reads, is not the user's, and tells whether the OTP clock was
  left on (`AddrInv`).
- `SmallDriversServeAlways` has four parts:
  - `UsbHid`, any users (`HidAssumption`: "stop" is none of them): users come after start and
    go before stop (`UsersInv`), a URB being killed is not queued, and without users
    nothing queues it (`UrbInv`);
  - `Hooks`, any CPUs (at least one) and programs (`HookAssumption`): who has not moved has the WP
    bit of its CPU cleared between its two writes of CR0 and no longer (`WpInv`), the
    originals are saved before the first entry is hooked and until the last is
    restored (`TableInv`), and whoever is in a hook finds them (`CallInv`);
  - `CharDevs`, any tasks, texts that are not empty and buffer size of at least one
    (`ChrPartAssumption`): while no two tasks have had the device open at once, the buffer
    is what the texts written so far and the part of the current one amount to, in each of the
    devices' own sense (`MemoryInv`, `SingleInv`, `ProcfsInv`, with
    `AloneInv` and `FilesInv`), and a reader that has read has all of it (`ReadersInv`).
    A crash needs a device open while its module goes, a position past the buffer, or
    a buffer insmod did not get (`CrashInv`, `NullInv`); what comes before an overrun in
    the memory devices follows from `MemoryInv`: more bytes than fit, or two tasks at once;
  - `CutTx`, any ring, frames of at least one piece (`CutPartAssumption`): the indices are in
    order (`OrderInv`), a frame's skb is in one slot (`SkbInv`), every frame
    in the ring lies there whole up to the slot that ends it, some of it perhaps read
    already (`WholeInv`), and what is in the stream belongs to such a frame or to
    one that failed (`UnreadInv`, `GatheredInv`). `FrameEndsPacket` needs all of them.

Only model-checked: every liveness property, which under fairness is out of the
prover's reach; `DecodedAsHeld`, whose modules `SmallKbd` and `AtkbdDecode` are tables, for
which checking is as good as a proof; `AtlTx`
across a change of the link; action properties of `Adapter`.

## 5. What the runs found, and what the models had to leave out

Six runs are violated, each with the line it contradicts in `PROJECT.json`: the
extended descriptor left by a rollback, close blocking after a failed reset,
`next_to_use` reset without its lock, return descriptors that stay valid over a
reset, a link event handled after close has freed the rings, and the `getcwd`
macro that eats its own buffer.

Further behaviour of the code that the properties of the passing runs step
around. Some modules state what one would expect as a property that no run
checks, because it does not hold; TLC finds each when it is put in a cfg.

- atl1c, receive: buffers of error frames leak (`"lost"` in `RxRing`); a refill that
  fails is not retried.
- atl1c, lifecycle: a link loss cleans the receive ring while a poll may be in it;
  a full-budget poll that meets `napi_disable` leaves RX_PKT masked until the next
  frame is polled by other means; a reset that overlaps suspend clears
  `__AT_DOWN` again; PCI error recovery that overlaps open or close frees or uses
  rings at the wrong moment; a link event is lost if the shared interrupt line
  fires while the device is down; a failed DMA mask in probe returns 0. A check of a link
  that is up whose speed cannot be read (`atl1c_main.c:278-281`) returns without
  turning the carrier on; no event is to come, so the carrier stays off under
  a good link. `CarrierFollows` leaves that case out (`link /\ unresolved`).
- `CarrierMeansMac` (`AtlHw`): a suspend with Wake-on-LAN stores the slow speed as
  the link's; after the resume `atl1c_check_link_status` finds it unchanged and
  leaves the MAC off. Also: `set_settings` records its argument before the PHY has
  taken it; `change_mtu` of a closed device reports success without a reset; the
  last dword of an EEPROM read can be uninitialised; the address load that times
  out leaves the OTP clock on; a failed write of the PHY is not tried again. An
  MTU of 1501 to 1522 gets receive buffers shorter than its frames, because
  `atl1c_set_rxbufsize` (`atl1c_main.c:489`) compares the MTU, without header, with
  `AT_RX_BUF_SIZE`; `ProgrammedAsAsked` leaves these out, and it was the proof for
  every MTU that met them.
- `FrameEndsPacket` (`CutTx`) says less than one would like: a frame whose mapping
  fails is leaked, its pieces are sent in front of the next one.
- `MidwayIsReset` (`AtkbdDecode`): a reconnect resets `emul` and `xl_bit` but not
  `release`. A shift released (0xaa) at the time of a self test is taken for one,
  and a keyboard replugged with shift held is not recognised.
- `WorkHasDevice` (`AtkbdDrv`): the event work tests `enabled` once, and disconnect
  unregisters the input device while a work item is past that test. Also: a self test's answer that comes
  while an attribute is written is dropped (history variable `deaf`); the writer
  re-enables a keyboard whose reconnect failed; a failed LED command is not tried
  again; attributes exist before the input device is registered.
- `WriterWakesWhenLow` (`RandomPool`): zapping the counts wakes no generator, nor does
  a changed threshold. `RandomCrng`: callbacks run with the generator's lock held;
  `crng_init > 2` is never true; a read of urandom before initialisation resets
  the count of loads.
- `UsbHid`: opens are not counted: two users share one URB, and the first to close
  silences the other. Probe ignores the failures of its steps.
- `CharDevs`: the reader's cleanup discards what a writer added meanwhile; a module
  can be unloaded with its device open; writes run over the end of the buffer;
  the minimal version and the proc file load without what they asked for. All of
  this is in the model, and `CrashesOnlyIfMisused` and `LoadAllOrNothing` say what
  is left: nothing else crashes, and what is tested for is there.
  `parlelport` sends only the first byte written since insmod, and its
  reads return 0; the proc file shows an uninitialised buffer until its first write.
  Not followed: what becomes of the memory behind a buffer when the kernel survives;
  what a freed module's user meets when the module is loaded again at the same place; an
  uninitialised proc buffer that does not end inside itself; the number or the
  region of another driver that the exit functions give back.
- `SmallKbd`: the micro version clears the port's driver without a lock, beside
  the handler; `HandlerHasDevice` is about the full one.
- `Hooks`: a bad pointer for a name crashes in the hook, where the real `open` would
  return an error; the WP bit belongs to a CPU and not to the task; a module is removed
  under programs in its hooks; the first version leaves the table's pages
  writable.
- `Toplel`: two writers of `foo` at once make the hook its own original.

## 6. Not modelled, and the plan

Not modelled, and why:

- MDIO polling, the constants written to the PHY's debug ports, descriptor
  bit fields, statistics, ethtool's functions that only report: no control of
  their own, or a sequence of constants.
- Mixing, hashing and ChaCha20 of the random number generator: their results are
  what the bits are, not who gets how many. The sysctl and proc interfaces only
  read and store integers.
- Scroll keys, DMI quirks and the force-release lists of some laptops in
  `atkbd-new.c`: tables.
- `5-atl1c` beyond its transmit path: `4-atl1c` with features removed, with the
  same handlers.
- The receive ring's reset by a link loss beside a running poll: the code has no
  exclusion there, so nothing can be stated that it keeps.
- Modules that print kernel state (`D/7-meta/{lib,modules,procs,state,userspace}.c`),
  `hello.c`, the sysfs tutorial, patches, scripts, texts: no state.

Left for the proofs: the link change in `AtlTx`, whose statement would have to say what
survives a ring that is cleaned beside a sender.
