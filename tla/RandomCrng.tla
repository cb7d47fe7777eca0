----------------------------- MODULE RandomCrng -----------------------------
(***************************************************************************)
(* The generator behind /dev/urandom and getrandom (random.c): how it is   *)
(* initialised by interrupts and from the input pool, who waits for that   *)
(* and who is called back, and how the generators of the NUMA nodes are    *)
(* seeded from the primary one.                                            *)
(*                                                                         *)
(* A key is a flag: whether it holds anything the input pool gave since    *)
(* the system was started. A section under a spin lock is one step, but    *)
(* for the one that calls back with primary_crng.lock held.                *)
(***************************************************************************)
EXTENDS Integers, FiniteSets

CONSTANTS
    Readers,     \* tasks that call getrandom or read /dev/urandom
    Sources,     \* threads that credit the input pool
    Drivers,     \* modules with a callback
    Nodes,       \* NUMA nodes
    Thresh,      \* CRNG_INIT_CNT_THRESH, in loads of the fast pool
    MaxCalls     \* bound: requests, credits, registrations, expirations

Crngs == {"primary"} \cup Nodes
Threads == Readers \cup Sources

VARIABLES
    init, cnt,   \* crng_init, crng_init_cnt
    fresh,       \* per generator: its key
    expired,     \* its init_time is CRNG_RESEED_INTERVAL ago
    holder,      \* who holds primary_crng.lock across steps
    listHolder,  \* who holds random_ready_list_lock across steps
    list,        \* random_ready_list
    drv,         \* per driver: what it is doing
    refs,        \* its module's references
    th,          \* per thread: where it is, and its locals
    calls

vars == <<init, cnt, fresh, expired, holder, listHolder, list, drv, refs, th, calls>>

Idle == [pc |-> "idle", crng |-> "primary", late |-> FALSE, block |-> FALSE]

At(t, pc) == th[t].pc = pc
To(t, pc) == th' = [th EXCEPT ![t].pc = pc]
CrngReady == init > 0
Call == calls < MaxCalls /\ calls' = calls + 1
Awake == [t \in Threads |-> IF At(t, "asleep") THEN [th[t] EXCEPT !.pc = "urandom"] ELSE th[t]]

(***************************************************************************)
(* Initialisation by interrupts and by a hardware generator                *)
(***************************************************************************)

\* A variant that does not wake those who wait.
FastLoadQuiet ==
    /\ holder = "none" /\ ~CrngReady /\ Call
    /\ cnt' = cnt + 1 /\ init' = IF cnt' = Thresh THEN 1 ELSE init
    /\ UNCHANGED <<fresh, expired, holder, listHolder, list, drv, refs, th>>

\* crng_fast_load, that does nothing when the lock is taken.
FastLoad ==
    /\ holder = "none" /\ ~CrngReady /\ Call
    /\ cnt' = cnt + 1
    /\ IF cnt' = Thresh THEN init' = 1 /\ th' = Awake ELSE UNCHANGED <<init, th>>
    /\ UNCHANGED <<fresh, expired, holder, listHolder, list, drv, refs>>

(***************************************************************************)
(* crng_reseed of the primary generator                                    *)
(***************************************************************************)

\* credit_entropy_bits finds enough entropy.
Credit(s) ==
    /\ At(s, "idle") /\ init < 2 /\ Call
    /\ th' = [th EXCEPT ![s] = [Idle EXCEPT !.pc = "reseed"]]
    /\ UNCHANGED <<init, cnt, fresh, expired, holder, listHolder, list, drv, refs>>

\* extract_entropy has given something, or nothing; the key is mixed with it.
Reseed(t) ==
    /\ At(t, "reseed")
    /\ \/ /\ holder = "none"
          /\ fresh' = [fresh EXCEPT !["primary"] = TRUE]
          /\ expired' = [expired EXCEPT !["primary"] = FALSE]
          /\ IF init < 2 THEN init' = 2 /\ holder' = t /\ To(t, "process")
             ELSE To(t, "reseeded") /\ UNCHANGED <<init, holder>>
       \/ To(t, "reseeded") /\ UNCHANGED <<init, holder, fresh, expired>>
    /\ UNCHANGED <<cnt, listHolder, list, drv, refs, calls>>

\* process_random_ready_list, with both locks held.
ProcessLock(t) ==
    /\ At(t, "process") /\ listHolder = "none"
    /\ listHolder' = t /\ To(t, "callbacks")
    /\ UNCHANGED <<init, cnt, fresh, expired, holder, list, drv, refs, calls>>

\* A variant that puts the module before its callback has run.
CallbackPutEarly(t) ==
    /\ At(t, "callbacks") /\ \A e \in Drivers : drv[e] # "called"
    /\ \E d \in list : /\ list' = list \ {d} /\ drv' = [drv EXCEPT ![d] = "called"]
                       /\ refs' = [refs EXCEPT ![d] = @ - 1]
    /\ UNCHANGED <<init, cnt, fresh, expired, holder, listHolder, th, calls>>

Callback(t) ==
    /\ At(t, "callbacks") /\ \A e \in Drivers : drv[e] # "called"
    /\ \E d \in list : list' = list \ {d} /\ drv' = [drv EXCEPT ![d] = "called"]
    /\ UNCHANGED <<init, cnt, fresh, expired, holder, listHolder, refs, th, calls>>

CallbackDone(t) ==
    /\ At(t, "callbacks")
    /\ \E d \in Drivers : /\ drv[d] = "called" /\ drv' = [drv EXCEPT ![d] = "loaded"]
                          /\ refs' = [refs EXCEPT ![d] = @ - 1]
    /\ UNCHANGED <<init, cnt, fresh, expired, holder, listHolder, list, th, calls>>

\* The list is empty: the waiters are woken and both locks released.
ProcessDone(t) ==
    /\ At(t, "callbacks") /\ list = {} /\ \A d \in Drivers : drv[d] # "called"
    /\ listHolder' = "none" /\ holder' = "none"
    /\ th' = [Awake EXCEPT ![t].pc = "reseeded"]
    /\ UNCHANGED <<init, cnt, fresh, expired, list, drv, refs, calls>>

\* Back in credit_entropy_bits, or in a reader's _extract_crng.
Reseeded(t) ==
    /\ At(t, "reseeded")
    /\ IF t \in Sources THEN th' = [th EXCEPT ![t] = Idle]
       ELSE To(t, IF th[t].crng = "primary" THEN "block" ELSE "seed")
    /\ UNCHANGED <<init, cnt, fresh, expired, holder, listHolder, list, drv, refs, calls>>

(***************************************************************************)
(* add_random_ready_callback and del_random_ready_callback                 *)
(***************************************************************************)

AddGet(d) ==
    /\ drv[d] = "loaded" /\ ~CrngReady /\ Call
    /\ refs' = [refs EXCEPT ![d] = @ + 1] /\ drv' = [drv EXCEPT ![d] = "adds"]
    /\ UNCHANGED <<init, cnt, fresh, expired, holder, listHolder, list, th>>

\* A variant that does not look at crng_init again under the lock.
AddUnchecked(d) ==
    /\ drv[d] = "adds" /\ listHolder = "none"
    /\ list' = list \cup {d} /\ drv' = [drv EXCEPT ![d] = "waits"] /\ UNCHANGED refs
    /\ UNCHANGED <<init, cnt, fresh, expired, holder, listHolder, th, calls>>

Add(d) ==
    /\ drv[d] = "adds" /\ listHolder = "none"
    /\ IF CrngReady
       THEN /\ drv' = [drv EXCEPT ![d] = "loaded"] /\ refs' = [refs EXCEPT ![d] = @ - 1]
            /\ UNCHANGED list
       ELSE list' = list \cup {d} /\ drv' = [drv EXCEPT ![d] = "waits"] /\ UNCHANGED refs
    /\ UNCHANGED <<init, cnt, fresh, expired, holder, listHolder, th, calls>>

Del(d) ==
    /\ drv[d] \in {"loaded", "waits"} /\ listHolder = "none"
    /\ d \in list /\ list' = list \ {d}
    /\ drv' = [drv EXCEPT ![d] = "loaded"] /\ refs' = [refs EXCEPT ![d] = @ - 1]
    /\ UNCHANGED <<init, cnt, fresh, expired, holder, listHolder, th, calls>>

\* Nobody holds the module: it may be removed from the kernel.
Unload(d) ==
    /\ refs[d] = 0 /\ drv[d] # "gone"
    /\ drv' = [drv EXCEPT ![d] = "gone"]
    /\ UNCHANGED <<init, cnt, fresh, expired, holder, listHolder, list, refs, th, calls>>

(***************************************************************************)
(* getrandom and urandom_read                                              *)
(***************************************************************************)

\* late: the request begins with the generator initialised from the pool.
Request(t) ==
    /\ At(t, "idle") /\ Call
    /\ \E pc \in {"getrandom", "urandom"}, c \in Crngs :
          th' = [th EXCEPT ![t] = [Idle EXCEPT !.pc = pc, !.crng = c, !.late = (init = 2)]]
    /\ UNCHANGED <<init, cnt, fresh, expired, holder, listHolder, list, drv, refs>>

\* crng_wait_ready, or -EAGAIN; a signal ends the wait.
GetRandom(t) ==
    /\ \/ At(t, "getrandom") /\ CrngReady /\ To(t, "urandom")
       \/ At(t, "getrandom") /\ ~CrngReady /\ To(t, "asleep")
       \/ (At(t, "getrandom") \/ At(t, "asleep")) /\ ~CrngReady /\ th' = [th EXCEPT ![t] = Idle]
    /\ UNCHANGED <<init, cnt, fresh, expired, holder, listHolder, list, drv, refs, calls>>

\* urandom_read does not wait; the first ten that come early start the fast
\* load again. Then _extract_crng looks whether it should reseed.
Urandom(t) ==
    /\ At(t, "urandom")
    /\ IF ~CrngReady THEN (holder = "none" /\ cnt' = 0) \/ UNCHANGED cnt ELSE UNCHANGED cnt
    /\ To(t, "extract")
    /\ UNCHANGED <<init, fresh, expired, holder, listHolder, list, drv, refs, calls>>

\* A node is seeded from the primary generator, that may reseed itself first.
Extract(t) ==
    /\ At(t, "extract")
    /\ LET stale(c) == init > 1 /\ expired[c]
       IN  To(t, CASE ~stale(th[t].crng) -> "block"
                   [] stale("primary") -> "reseed"
                   [] OTHER -> "seed")
    /\ UNCHANGED <<init, cnt, fresh, expired, holder, listHolder, list, drv, refs, calls>>

\* A variant that sets init_time before the key.
SeedTimeFirst(t) ==
    /\ At(t, "seed") /\ holder = "none"
    /\ th' = [th EXCEPT ![t].pc = "store", ![t].block = fresh["primary"]]
    /\ expired' = [expired EXCEPT ![th[t].crng] = FALSE]
    /\ UNCHANGED <<init, cnt, fresh, holder, listHolder, list, drv, refs, calls>>

\* A block of the primary generator, that changes its key in turn.
Seed(t) ==
    /\ At(t, "seed") /\ holder = "none"
    /\ th' = [th EXCEPT ![t].pc = "store", ![t].block = fresh["primary"]]
    /\ UNCHANGED <<init, cnt, fresh, expired, holder, listHolder, list, drv, refs, calls>>

\* The node's key and init_time are written under the lock of the primary.
StoreSeed(t) ==
    /\ At(t, "store") /\ holder = "none"
    /\ fresh' = [fresh EXCEPT ![th[t].crng] = @ \/ th[t].block]
    /\ expired' = [expired EXCEPT ![th[t].crng] = FALSE]
    /\ To(t, "block")
    /\ UNCHANGED <<init, cnt, holder, listHolder, list, drv, refs, calls>>

\* chacha20_block, under the generator's own lock, and the copy to the user.
Block(t) ==
    /\ At(t, "block") /\ (th[t].crng = "primary" => holder = "none")
    /\ th' = [th EXCEPT ![t].pc = "copied", ![t].block = fresh[th[t].crng]]
    /\ UNCHANGED <<init, cnt, fresh, expired, holder, listHolder, list, drv, refs, calls>>

Return(t) ==
    /\ At(t, "copied")
    /\ th' = [th EXCEPT ![t] = Idle]
    /\ UNCHANGED <<init, cnt, fresh, expired, holder, listHolder, list, drv, refs, calls>>

\* Five minutes pass.
Expire ==
    /\ Call /\ \E c \in Crngs : ~expired[c] /\ expired' = [expired EXCEPT ![c] = TRUE]
    /\ UNCHANGED <<init, cnt, fresh, holder, listHolder, list, drv, refs, th>>

(***************************************************************************)
(* Specification                                                           *)
(***************************************************************************)

\* crng_initialize dates every generator as expired.
Init ==
    /\ init = 0 /\ cnt = 0
    /\ fresh = [c \in Crngs |-> FALSE] /\ expired = [c \in Crngs |-> TRUE]
    /\ holder = "none" /\ listHolder = "none" /\ list = {}
    /\ drv = [d \in Drivers |-> "loaded"] /\ refs = [d \in Drivers |-> 0]
    /\ th = [t \in Threads |-> Idle]
    /\ calls = 0

Step(t) ==
    \/ Reseed(t) \/ ProcessLock(t) \/ Callback(t) \/ CallbackDone(t) \/ ProcessDone(t)
    \/ Reseeded(t) \/ GetRandom(t) \/ Urandom(t) \/ Extract(t) \/ Seed(t) \/ StoreSeed(t)
    \/ Block(t) \/ Return(t)

Next ==
    \/ FastLoad \/ Expire
    \/ \E s \in Sources : Credit(s)
    \/ \E t \in Threads : Step(t)
    \/ \E t \in Readers : Request(t)
    \/ \E d \in Drivers : AddGet(d) \/ Add(d) \/ Del(d) \/ Unload(d)

Spec == Init /\ [][Next]_vars

FairSpec == Spec /\ \A t \in Threads : WF_vars(~At(t, "asleep") /\ Step(t))

(***************************************************************************)
(* Properties                                                              *)
(***************************************************************************)

\* No callback is left in the list once it has been processed: one that comes
\* late is told so instead (add_random_ready_callback).
NoneForgotten == init = 2 /\ holder = "none" => list = {}

\* A callback runs in a module that is there, and that is released afterwards.
CallbackHasModule ==
    \A d \in Drivers :
        /\ drv[d] = "called" => refs[d] > 0
        /\ refs[d] = IF drv[d] \in {"adds", "waits", "called"} THEN 1 ELSE 0

\* Who asks after the initialisation gets nothing from a key made before it,
\* whichever node's generator it uses (_extract_crng).
FreshAfterReady ==
    \A t \in Readers : At(t, "copied") /\ th[t].late => th[t].block

\* Nobody waits in getrandom for a generator that is initialised.
WaiterWaits(t) == At(t, "asleep") /\ CrngReady
WaitersWake == \A t \in Readers : WaiterWaits(t) ~> ~WaiterWaits(t)

(***************************************************************************)
(* The inductive invariant                                                 *)
(***************************************************************************)

Seeding == {"reseed", "process", "callbacks", "reseeded"}
Asking  == {"getrandom", "asleep", "urandom", "extract", "seed", "store", "block", "copied"}

ThreadStates ==
    [pc : {"idle"} \cup Seeding \cup Asking, crng : Crngs, late : BOOLEAN, block : BOOLEAN]

TypeOK ==
    /\ init \in 0 .. 2
    /\ fresh \in [Crngs -> BOOLEAN] /\ expired \in [Crngs -> BOOLEAN]
    /\ holder \in {"none"} \cup Threads /\ listHolder \in {"none"} \cup Threads
    /\ list \subseteq Drivers
    /\ drv \in [Drivers -> {"loaded", "adds", "waits", "called", "gone"}]
    /\ refs \in [Drivers -> Int]
    /\ th \in [Threads -> ThreadStates]

\* The list holds those who wait for their callback; a module's reference is
\* theirs.
ListInv ==
    \A d \in Drivers : /\ d \in list <=> drv[d] = "waits"
                       /\ refs[d] = IF drv[d] \in {"adds", "waits", "called"} THEN 1 ELSE 0

\* primary_crng.lock is held across steps by who has just set crng_init to 2
\* and still works through the list.
LockInv ==
    /\ \A t \in Threads : th[t].pc \in {"process", "callbacks"} <=> holder = t
    /\ holder # "none" => init = 2
    /\ init = 2 /\ holder = "none" => list = {}

\* Who seeds or has seeded a generator does so after the initialisation, from a
\* primary generator that has its key.
SeedInv ==
    /\ init = 2 => fresh["primary"]
    /\ \A c \in Crngs : ~expired[c] => fresh[c]
    /\ \A s \in Sources : th[s].pc \in {"idle"} \cup Seeding
    /\ \A t \in Readers :
          /\ th[t].late \/ th[t].pc \in Seeding \cup {"seed", "store"} => init = 2
          /\ th[t].pc = "store" => th[t].block
          /\ th[t].pc = "block" /\ th[t].late => fresh[th[t].crng]
          /\ th[t].pc = "copied" /\ th[t].late => th[t].block

IInv == TypeOK /\ ListInv /\ LockInv /\ SeedInv

=============================================================================
