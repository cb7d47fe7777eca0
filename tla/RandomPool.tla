----------------------------- MODULE RandomPool -----------------------------
(***************************************************************************)
(* The entropy count of the input and the blocking pool of random.c        *)
(* (drivers_char_random.c): sources credit the input pool, readers of      *)
(* /dev/random and a work item move entropy to the blocking pool, both     *)
(* without a lock, by compare and exchange; readers and the hardware       *)
(* generator sleep until the count is right.                               *)
(*                                                                         *)
(* Counts are in fractions of a bit, as in the code, with smaller pools    *)
(* and bytes: the sizes are powers of two, a bit has BitFrac fractions.    *)
(***************************************************************************)
EXTENDS Integers, FiniteSets, FiniteSetsExt

CONSTANTS
    Readers,                  \* tasks that read /dev/random
    InputSize, BlockingSize,  \* poolfracbits of the two pools
    BitFrac, ByteBits,        \* 1 << ENTROPY_SHIFT, and 8
    ReadWakeup, WriteWakeup,  \* random_read_wakeup_bits, random_write_wakeup_bits
    Credits,                  \* how many bits a source may credit at once
    ReseedBytes,              \* what crng_reseed extracts: 32 bytes, half at least
    MaxEvents                 \* bound: reads, credits, ioctls

Pools == {"input", "blocking"}
Size(r) == IF r = "input" THEN InputSize ELSE BlockingSize
ByteFrac == BitFrac * ByteBits
Bits(c) == c \div BitFrac
Threads == Readers \cup {"source", "hwrng", "push"}

VARIABLES
    count,    \* entropy_count of each pool
    total,    \* entropy_total of the input pool
    inited,   \* its initialized flag
    ready,    \* crng_init = 2
    pushWork, \* push_work is scheduled
    th,       \* per thread: where it is, and its locals
    events,
    given,    \* history: what the input pool was credited, less what was delivered
    zapped    \* history: an administrator has zapped the counts

vars == <<count, total, inited, ready, pushWork, th, events, given, zapped>>

\* A thread runs credit_entropy_bits or account on a pool: n is what it credits
\* or asks for, orig the count it last saw, got what account gave it.
Idle == [pc |-> "idle", pool |-> "input", n |-> 0, orig |-> 0, got |-> 0, then |-> "idle"]

At(t, pc) == th[t].pc = pc
To(t, pc) == th' = [th EXCEPT ![t].pc = pc]

(***************************************************************************)
(* credit_entropy_bits                                                     *)
(***************************************************************************)

\* What a pool holds after n fractions: the fuller it is, the less of them
\* counts, and at most half a pool is added at a time.
Credited(size, count0, n0) ==
    LET f[n \in 0 .. n0] ==
            [c \in 0 .. size |->
                LET a == Min({n, size \div 2})
                    d == c + ((size - c) * a * 3) \div (4 * size)
                IN  IF d < size - 2 /\ n > a THEN f[n - a][d] ELSE Min({d, size})]
    IN  f[n0][count0]

NewCount(t) == Credited(Size(th[t].pool), th[t].orig, th[t].n)

CreditCall(t, r, n, then) ==
    th' = [th EXCEPT ![t] = [Idle EXCEPT !.pc = "credit", !.pool = r, !.n = n, !.then = then]]

CreditRead(t) ==
    /\ At(t, "credit")
    /\ th' = [th EXCEPT ![t].pc = "credit_swap", ![t].orig = count[th[t].pool]]
    /\ UNCHANGED <<count, total, inited, ready, pushWork, events, given, zapped>>

\* What follows when the count has been stored.
CreditStored(t) ==
    LET r == th[t].pool
        c == NewCount(t)
    IN  /\ count' = [count EXCEPT ![r] = c]
        /\ given' = IF r = "input" THEN given + c - th[t].orig ELSE given
        /\ th' = [th EXCEPT ![t] = IF r = "input" THEN [@ EXCEPT !.pc = "total", !.orig = c]
                                   ELSE [Idle EXCEPT !.pc = th[t].then]]

\* A variant of the exchange that stores without comparing.
CreditStore(t) ==
    /\ At(t, "credit_swap") /\ CreditStored(t)
    /\ UNCHANGED <<total, inited, ready, pushWork, events, zapped>>

CreditSwap(t) ==
    /\ At(t, "credit_swap")
    /\ \/ count[th[t].pool] = th[t].orig /\ CreditStored(t)
       \/ /\ count[th[t].pool] # th[t].orig
          /\ th' = [th EXCEPT ![t].pc = "credit", ![t].orig = 0] /\ UNCHANGED <<count, given>>
    /\ UNCHANGED <<total, inited, ready, pushWork, events, zapped>>

\* entropy_total += nbits, without a lock: an addition may be lost to another.
CreditTotal(t) ==
    /\ At(t, "total")
    /\ \E n \in {0, Bits(th[t].n)} :
          LET full == ~inited /\ total + n > (ReseedBytes \div 2) * ByteBits
          IN  inited' = (inited \/ full) /\ total' = IF full THEN 0 ELSE total + n
    /\ th' = [th EXCEPT ![t].pc = "reseed", ![t].n = 0]
    /\ UNCHANGED <<count, ready, pushWork, events, given, zapped>>

\* crng_reseed, once there is enough and until it has succeeded.
CreditReseed(t) ==
    /\ At(t, "reseed")
    /\ IF ~ready /\ Bits(th[t].orig) >= (ReseedBytes \div 2) * ByteBits
       THEN th' = [th EXCEPT ![t].pc = "account", ![t].n = ReseedBytes, ![t].then = "reseeded"]
       ELSE To(t, "wake_readers")
    /\ UNCHANGED <<count, total, inited, ready, pushWork, events, given, zapped>>

Reseeded(t) ==
    /\ At(t, "reseeded")
    /\ ready' = (ready \/ th[t].got > 0)
    /\ given' = given - th[t].got * ByteFrac
    /\ th' = [th EXCEPT ![t].pc = "wake_readers", ![t].orig = count["input"], ![t].got = 0]
    /\ UNCHANGED <<count, total, inited, pushWork, events, zapped>>

Woken(ts, sleepers) == [t \in Threads |-> IF t \in sleepers /\ ts[t].pc = "asleep"
                                          THEN [ts[t] EXCEPT !.pc = "wakes"] ELSE ts[t]]

\* What the readers wait for, and when they are woken.
Enough(c) == Bits(c) >= ReadWakeup

\* A variant that wakes the readers only with more than they wait for.
WakeReadersStrict(t) ==
    /\ At(t, "wake_readers")
    /\ LET ts == [th EXCEPT ![t] = Idle]
           push == /\ Bits(th[t].orig) > WriteWakeup /\ inited /\ total >= 2 * ReadWakeup
                   /\ count["blocking"] <= (3 * BlockingSize) \div 4
       IN  /\ th' = IF Bits(th[t].orig) > ReadWakeup THEN Woken(ts, Readers) ELSE ts
           /\ pushWork' = (pushWork \/ push)
           /\ total' = IF push THEN 0 ELSE total
    /\ UNCHANGED <<count, inited, ready, events, given, zapped>>

\* Readers are woken, and some entropy is pushed to the blocking pool until
\* that is three quarters full.
WakeReaders(t) ==
    /\ At(t, "wake_readers")
    /\ LET ts == [th EXCEPT ![t] = Idle]
           push == /\ Bits(th[t].orig) > WriteWakeup /\ inited /\ total >= 2 * ReadWakeup
                   /\ count["blocking"] <= (3 * BlockingSize) \div 4
       IN  /\ th' = IF Enough(th[t].orig) THEN Woken(ts, Readers) ELSE ts
           /\ pushWork' = (pushWork \/ push)
           /\ total' = IF push THEN 0 ELSE total
    /\ UNCHANGED <<count, inited, ready, events, given, zapped>>

(***************************************************************************)
(* account, and the transfer to the blocking pool                          *)
(***************************************************************************)

AccountCall(t, r, nbytes, then) ==
    th' = [th EXCEPT ![t] = [Idle EXCEPT !.pc = "account", !.pool = r, !.n = nbytes, !.then = then]]

AccountRead(t) ==
    /\ At(t, "account")
    /\ th' = [th EXCEPT ![t].pc = "account_swap", ![t].orig = count[th[t].pool]]
    /\ UNCHANGED <<count, total, inited, ready, pushWork, events, given, zapped>>

\* A reseed takes half of what it asks for at least, a transfer what makes a
\* reader wake up, or nothing; a read takes what there is.
Least(t) == CASE th[t].then = "reseeded" -> ReseedBytes \div 2
              [] th[t].then = "pulled" -> ReadWakeup \div ByteBits
              [] OTHER -> 0

Given(t) ==
    LET i == Min({th[t].n, th[t].orig \div ByteFrac})
    IN  IF i < Least(t) THEN 0 ELSE i

AccountSwap(t) ==
    /\ At(t, "account_swap")
    /\ \/ /\ count[th[t].pool] # th[t].orig
          /\ th' = [th EXCEPT ![t].pc = "account", ![t].orig = 0] /\ UNCHANGED count
       \/ /\ count[th[t].pool] = th[t].orig
          /\ count' = [count EXCEPT ![th[t].pool] = @ - Given(t) * ByteFrac]
          /\ th' = [th EXCEPT ![t] = [@ EXCEPT !.pc = "wake_writers", !.got = Given(t),
                                                        !.n = 0, !.orig = 0]]
    /\ UNCHANGED <<total, inited, ready, pushWork, events, given, zapped>>

\* A variant that wakes the generator only from the pool that readers empty.
WakeWritersBlocking(t) ==
    /\ At(t, "wake_writers")
    /\ LET ts == [th EXCEPT ![t].pc = th[t].then]
       IN  th' = IF th[t].pool = "blocking" /\ th[t].got > 0
                 THEN Woken(ts, {"hwrng"}) ELSE ts
    /\ UNCHANGED <<count, total, inited, ready, pushWork, events, given, zapped>>

\* It looks at the count again, which may have changed.
WakeWriters(t) ==
    /\ At(t, "wake_writers")
    /\ LET ts == [th EXCEPT ![t].pc = th[t].then]
       IN  th' = IF th[t].got > 0 /\ Bits(count[th[t].pool]) < WriteWakeup
                 THEN Woken(ts, {"hwrng"}) ELSE ts
    /\ UNCHANGED <<count, total, inited, ready, pushWork, events, given, zapped>>

\* extract_entropy has filled the buffer, which is mixed into the blocking pool.
Pulled(t) ==
    /\ At(t, "pulled")
    /\ LET then == IF t = "push" THEN "idle" ELSE "take"
       IN  IF th[t].got = 0 THEN th' = [th EXCEPT ![t] = [Idle EXCEPT !.pc = then]]
           ELSE CreditCall(t, "blocking", th[t].got * ByteFrac, then)
    /\ UNCHANGED <<count, total, inited, ready, pushWork, events, given, zapped>>

PulledBytes(n) == Max({n, ReadWakeup \div ByteBits})

\* push_to_pool
Push ==
    /\ pushWork /\ At("push", "idle")
    /\ pushWork' = FALSE
    /\ AccountCall("push", "input", PulledBytes(0), "pulled")
    /\ UNCHANGED <<count, total, inited, ready, events, given, zapped>>

(***************************************************************************)
(* Readers of /dev/random, a byte each                                     *)
(***************************************************************************)

Read(t) ==
    /\ At(t, "idle") /\ events < MaxEvents /\ events' = events + 1
    /\ To(t, "xfer")
    /\ UNCHANGED <<count, total, inited, ready, pushWork, given, zapped>>

\* xfer_secondary_pool: no transfer when the blocking pool has the byte.
Xfer(t) ==
    /\ At(t, "xfer")
    /\ IF count["blocking"] >= ByteFrac THEN To(t, "take")
       ELSE AccountCall(t, "input", PulledBytes(1), "pulled")
    /\ UNCHANGED <<count, total, inited, ready, pushWork, events, given, zapped>>

Take(t) ==
    /\ At(t, "take")
    /\ AccountCall(t, "blocking", 1, "read")
    /\ UNCHANGED <<count, total, inited, ready, pushWork, events, given, zapped>>

WaitsFor(t) == IF Enough(count["input"]) THEN "xfer" ELSE "asleep"

\* It has its byte, or gives up (O_NONBLOCK, a signal), or waits.
ReadDone(t) ==
    /\ At(t, "read")
    /\ given' = given - th[t].got * ByteFrac
    /\ \/ th' = [th EXCEPT ![t] = Idle]
       \/ th[t].got = 0 /\ th' = [th EXCEPT ![t] = [Idle EXCEPT !.pc = WaitsFor(t)]]
    /\ UNCHANGED <<count, total, inited, ready, pushWork, events, zapped>>

ReadWakes(t) ==
    /\ At(t, "wakes") /\ t \in Readers
    /\ To(t, WaitsFor(t))
    /\ UNCHANGED <<count, total, inited, ready, pushWork, events, given, zapped>>

(***************************************************************************)
(* What feeds the input pool, and the ioctls                               *)
(***************************************************************************)

\* add_timer_randomness and add_interrupt_randomness, RNDADDENTROPY, RNDADDTOENTCNT.
Source ==
    /\ At("source", "idle") /\ events < MaxEvents /\ events' = events + 1
    /\ \E n \in Credits : CreditCall("source", "input", n * BitFrac, "idle")
    /\ UNCHANGED <<count, total, inited, ready, pushWork, given, zapped>>

\* add_hwgenerator_randomness, called again and again by a thread of the
\* generator: it sleeps while the pool is over the threshold.
Hwrng ==
    /\ th["hwrng"].pc \in {"idle", "wakes"} /\ events < MaxEvents
    /\ IF Bits(count["input"]) > WriteWakeup THEN To("hwrng", "asleep") /\ UNCHANGED events
       ELSE /\ events' = events + 1
            /\ \E n \in Credits : CreditCall("hwrng", "input", n * BitFrac, "idle")
    /\ UNCHANGED <<count, total, inited, ready, pushWork, given, zapped>>

\* RNDZAPENTCNT, RNDCLEARPOOL
Zap ==
    /\ events < MaxEvents /\ events' = events + 1
    /\ count' = [r \in Pools |-> 0] /\ zapped' = TRUE
    /\ UNCHANGED <<total, inited, ready, pushWork, th, given>>

(***************************************************************************)
(* Specification                                                           *)
(***************************************************************************)

Init ==
    /\ count = [r \in Pools |-> 0] /\ total = 0 /\ inited = FALSE
    /\ ready = FALSE /\ pushWork = FALSE
    /\ th = [t \in Threads |-> Idle]
    /\ events = 0 /\ given = 0 /\ zapped = FALSE

Step(t) ==
    \/ CreditRead(t) \/ CreditSwap(t) \/ CreditTotal(t) \/ CreditReseed(t) \/ Reseeded(t)
    \/ WakeReaders(t) \/ AccountRead(t) \/ AccountSwap(t) \/ WakeWriters(t) \/ Pulled(t)
    \/ Xfer(t) \/ Take(t) \/ ReadDone(t) \/ ReadWakes(t)

Next ==
    \/ \E t \in Threads : Step(t)
    \/ \E t \in Readers : Read(t)
    \/ Push \/ Source \/ Hwrng \/ Zap

Spec == Init /\ [][Next]_vars

\* A thread that is not asleep goes on, and the generator calls again.
FairSpec == Spec /\ (\A t \in Threads : WF_vars(Step(t))) /\ WF_vars(Push) /\ WF_vars(Hwrng)

(***************************************************************************)
(* Properties                                                              *)
(***************************************************************************)

\* What a thread has taken from a pool and not yet credited or delivered.
HeldBy(s) ==
    s.got * ByteFrac + IF s.pool = "blocking" /\ s.pc \in {"credit", "credit_swap"} THEN s.n ELSE 0
Held == [t \in Threads |-> HeldBy(th[t])]

\* Entropy is never counted twice (credit_entropy_bits and account race without
\* a lock): the two pools, with what is on its way between them and to the
\* readers, hold no more than the sources were credited less what was
\* delivered; and a pool no more than its size, which is a BUG in account().
NeverOverestimates ==
    /\ \A r \in Pools : count[r] \in 0 .. Size(r)
    /\ count["input"] + count["blocking"] + SumFunction(Held) <= given

\* A reader or the generator sleeps although there is what it waits for.
ReaderWaits(t) == At(t, "asleep") /\ Enough(count["input"])
WriterWaits == At("hwrng", "asleep") /\ Bits(count["input"]) < WriteWakeup

\* A reader does not sleep on while the input pool has what it waits for: the
\* wake-up in credit_entropy_bits is not lost to the reseed before it.
ReaderWakes == \A t \in Readers : ReaderWaits(t) ~> ~ReaderWaits(t)

\* Nor does the generator once the pool is below its threshold, unless an
\* administrator has emptied it (account's wake-up).
WriterWakes == (WriterWaits /\ ~zapped) ~> ~(WriterWaits /\ ~zapped)

\* "We'll be woken up again once below random_write_wakeup_thresh"
\* (drivers_char_random.c:2151), also when an administrator has emptied it.
WriterWakesWhenLow == WriterWaits ~> ~WriterWaits

(***************************************************************************)
(* The inductive invariant                                                 *)
(***************************************************************************)

PoolAssumption ==
    /\ InputSize \in Nat \ {0} /\ BlockingSize \in Nat \ {0}
    /\ BitFrac \in Nat \ {0} /\ ByteBits \in Nat \ {0}
    /\ ReadWakeup \in Nat /\ WriteWakeup \in Nat /\ ReseedBytes \in Nat /\ Credits \subseteq Nat

Crediting  == {"credit", "credit_swap"}
Accounting == {"account", "account_swap"}
Holding    == {"wake_writers", "reseeded", "pulled", "read"}
ThreadStates ==
    [pc : Crediting \cup Accounting \cup Holding
          \cup {"idle", "total", "reseed", "wake_readers", "xfer", "take", "asleep", "wakes"},
     pool : Pools, n : Nat, orig : Nat, got : Nat,
     then : {"idle", "take", "reseeded", "pulled", "read"}]

\* Only who has got something from a pool has anything, and goes on to use it;
\* who credits a pool goes on with nothing.
ThreadOK(s) ==
    /\ s.pc \notin Holding => s.got = 0
    /\ s.pc \in Crediting => s.then \in {"idle", "take"}
    /\ s.pc \in Accounting \cup {"wake_writers"} => s.then \in {"reseeded", "pulled", "read"}

ThreadsInv == \A t \in Threads : ThreadOK(th[t])

TypeOK == count \in [Pools -> Nat] /\ th \in [Threads -> ThreadStates] /\ given \in Int

IInv == TypeOK /\ ThreadsInv /\ NeverOverestimates

=============================================================================
