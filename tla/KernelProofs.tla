---------------------------- MODULE KernelProofs -----------------------------
(***************************************************************************)
(* Proofs for the parts of MCDrivers that are the kernel's own: the random *)
(* number generator's callbacks (RandomCrng) and entropy counts            *)
(* (RandomPool), and the keyboard driver the patch is for (AtkbdDrv). A    *)
(* lemma's name begins with the instance it is about; the inductive        *)
(* invariant of each part is IInv of its module. One lemma per action,     *)
(* named like it, shows that the action keeps IInv, conjunct by conjunct.  *)
(***************************************************************************)
EXTENDS MCDrivers, FiniteSetTheorems, WellFoundedInduction, TLAPS

(***************************************************************************)
(* The random number generator (RandomCrng).                               *)
(***************************************************************************)

LEMMA CrngToType ==
  ASSUME Crng!TypeOK, NEW t \in Crng!Threads,
         NEW pc \in {"idle"} \cup Crng!Seeding \cup Crng!Asking,
         Crng!To(t, pc)
  PROVE  x10' \in [Crng!Threads -> Crng!ThreadStates]
BY DEF Crng!TypeOK, Crng!To, Crng!ThreadStates

LEMMA CrngIdleType ==
  ASSUME Crng!TypeOK, NEW t \in Crng!Threads, x10' = [x10 EXCEPT ![t] = Crng!Idle]
  PROVE  x10' \in [Crng!Threads -> Crng!ThreadStates]
BY DEF Crng!TypeOK, Crng!Idle, Crng!ThreadStates, Crng!Crngs

LEMMA CrngFastLoad ==
  ASSUME Crng!IInv, Crng!FastLoad
  PROVE  Crng!IInv'
<1> USE DEF Crng!FastLoad, Crng!Call, Crng!CrngReady, Crng!Awake, Crng!At
<1>1. Crng!TypeOK'
  BY DEF Crng!IInv, Crng!TypeOK, Crng!ListInv, Crng!ThreadStates, Crng!Threads, Crng!Crngs,
     Crng!Seeding, Crng!Asking
<1>2. Crng!ListInv'
  BY DEF Crng!IInv, Crng!TypeOK, Crng!ListInv
<1>3. Crng!LockInv'
  BY CrngAssumption DEF Crng!IInv, Crng!TypeOK, Crng!LockInv, Crng!ThreadStates, Crng!Threads,
     Crng!ListInv
<1>4. Crng!SeedInv'
  BY CrngAssumption DEF Crng!IInv, Crng!TypeOK, Crng!LockInv, Crng!SeedInv, Crng!ThreadStates,
     Crng!Threads, Crng!Crngs, Crng!Seeding, Crng!Asking
<1> QED
  BY <1>1, <1>2, <1>3, <1>4 DEF Crng!IInv

LEMMA CrngCredit ==
  ASSUME Crng!IInv, NEW s \in CrngSources, Crng!Credit(s)
  PROVE  Crng!IInv'
<1> USE DEF Crng!Credit, Crng!Call, Crng!At, Crng!Idle
<1>1. Crng!TypeOK'
  BY DEF Crng!IInv, Crng!TypeOK, Crng!ListInv, Crng!ThreadStates, Crng!Threads, Crng!Crngs,
     Crng!Seeding, Crng!Asking
<1>2. Crng!ListInv'
  BY DEF Crng!IInv, Crng!TypeOK, Crng!ListInv
<1>3. Crng!LockInv'
  BY CrngAssumption DEF Crng!IInv, Crng!TypeOK, Crng!LockInv, Crng!ThreadStates, Crng!Threads,
     Crng!ListInv
<1>4. Crng!SeedInv'
  BY CrngAssumption DEF Crng!IInv, Crng!TypeOK, Crng!LockInv, Crng!SeedInv, Crng!ThreadStates,
     Crng!Threads, Crng!Crngs, Crng!Seeding, Crng!Asking
<1> QED
  BY <1>1, <1>2, <1>3, <1>4 DEF Crng!IInv

LEMMA CrngReseed ==
  ASSUME Crng!IInv, NEW t \in Crng!Threads, Crng!Reseed(t)
  PROVE  Crng!IInv'
<1>1. Crng!TypeOK'
  <2>1. x10' \in [Crng!Threads -> Crng!ThreadStates]
    BY CrngToType DEF Crng!IInv, Crng!Reseed, Crng!Seeding
  <2>2. x1' \in 0 .. 2 /\ x5' \in {"none"} \cup Crng!Threads
    BY DEF Crng!IInv, Crng!TypeOK, Crng!Reseed
  <2>3. x3' \in [Crng!Crngs -> BOOLEAN] /\ x4' \in [Crng!Crngs -> BOOLEAN]
    BY DEF Crng!IInv, Crng!TypeOK, Crng!Crngs, Crng!Reseed
  <2> QED
    BY <2>1, <2>2, <2>3 DEF Crng!IInv, Crng!TypeOK, Crng!Reseed
<1> USE DEF Crng!Reseed, Crng!At, Crng!To
<1>2. Crng!ListInv'
  BY DEF Crng!IInv, Crng!TypeOK, Crng!ListInv
<1>3. Crng!LockInv'
  BY CrngAssumption DEF Crng!IInv, Crng!TypeOK, Crng!LockInv, Crng!ThreadStates, Crng!Threads,
     Crng!ListInv
<1>4. Crng!SeedInv'
  BY CrngAssumption DEF Crng!IInv, Crng!TypeOK, Crng!LockInv, Crng!SeedInv, Crng!ThreadStates,
     Crng!Threads, Crng!Crngs, Crng!Seeding, Crng!Asking
<1> QED
  BY <1>1, <1>2, <1>3, <1>4 DEF Crng!IInv

LEMMA CrngProcessLock ==
  ASSUME Crng!IInv, NEW t \in Crng!Threads, Crng!ProcessLock(t)
  PROVE  Crng!IInv'
<1> USE DEF Crng!ProcessLock, Crng!At, Crng!To
<1>1. Crng!TypeOK'
  BY DEF Crng!IInv, Crng!TypeOK, Crng!ListInv, Crng!ThreadStates, Crng!Threads, Crng!Crngs,
     Crng!Seeding, Crng!Asking
<1>2. Crng!ListInv'
  BY DEF Crng!IInv, Crng!TypeOK, Crng!ListInv
<1>3. Crng!LockInv'
  BY CrngAssumption DEF Crng!IInv, Crng!TypeOK, Crng!LockInv, Crng!ThreadStates, Crng!Threads,
     Crng!ListInv
<1>4. Crng!SeedInv'
  BY CrngAssumption DEF Crng!IInv, Crng!TypeOK, Crng!LockInv, Crng!SeedInv, Crng!ThreadStates,
     Crng!Threads, Crng!Crngs, Crng!Seeding, Crng!Asking
<1> QED
  BY <1>1, <1>2, <1>3, <1>4 DEF Crng!IInv

LEMMA CrngCallback ==
  ASSUME Crng!IInv, NEW t \in Crng!Threads, Crng!Callback(t)
  PROVE  Crng!IInv'
<1> USE DEF Crng!Callback, Crng!At
<1>1. Crng!TypeOK'
  BY DEF Crng!IInv, Crng!TypeOK, Crng!ListInv, Crng!ThreadStates, Crng!Threads, Crng!Crngs,
     Crng!Seeding, Crng!Asking
<1>2. Crng!ListInv'
  BY DEF Crng!IInv, Crng!TypeOK, Crng!ListInv
<1>3. Crng!LockInv'
  BY CrngAssumption DEF Crng!IInv, Crng!TypeOK, Crng!LockInv, Crng!ThreadStates, Crng!Threads,
     Crng!ListInv
<1>4. Crng!SeedInv'
  BY CrngAssumption DEF Crng!IInv, Crng!TypeOK, Crng!LockInv, Crng!SeedInv, Crng!ThreadStates,
     Crng!Threads, Crng!Crngs, Crng!Seeding, Crng!Asking
<1> QED
  BY <1>1, <1>2, <1>3, <1>4 DEF Crng!IInv

LEMMA CrngCallbackDone ==
  ASSUME Crng!IInv, NEW t \in Crng!Threads, Crng!CallbackDone(t)
  PROVE  Crng!IInv'
<1> USE DEF Crng!CallbackDone, Crng!At
<1>1. Crng!TypeOK'
  BY DEF Crng!IInv, Crng!TypeOK, Crng!ListInv, Crng!ThreadStates, Crng!Threads, Crng!Crngs,
     Crng!Seeding, Crng!Asking
<1>2. Crng!ListInv'
  BY DEF Crng!IInv, Crng!TypeOK, Crng!ListInv
<1>3. Crng!LockInv'
  BY CrngAssumption DEF Crng!IInv, Crng!TypeOK, Crng!LockInv, Crng!ThreadStates, Crng!Threads,
     Crng!ListInv
<1>4. Crng!SeedInv'
  BY CrngAssumption DEF Crng!IInv, Crng!TypeOK, Crng!LockInv, Crng!SeedInv, Crng!ThreadStates,
     Crng!Threads, Crng!Crngs, Crng!Seeding, Crng!Asking
<1> QED
  BY <1>1, <1>2, <1>3, <1>4 DEF Crng!IInv

LEMMA CrngProcessDone ==
  ASSUME Crng!IInv, NEW t \in Crng!Threads, Crng!ProcessDone(t)
  PROVE  Crng!IInv'
<1> USE DEF Crng!ProcessDone, Crng!At, Crng!Awake
<1>1. Crng!TypeOK'
  BY DEF Crng!IInv, Crng!TypeOK, Crng!ListInv, Crng!ThreadStates, Crng!Threads, Crng!Crngs,
     Crng!Seeding, Crng!Asking
<1>2. Crng!ListInv'
  BY DEF Crng!IInv, Crng!TypeOK, Crng!ListInv
<1>3. Crng!LockInv'
  BY CrngAssumption DEF Crng!IInv, Crng!TypeOK, Crng!LockInv, Crng!ThreadStates, Crng!Threads,
     Crng!ListInv
<1>4. Crng!SeedInv'
  BY CrngAssumption DEF Crng!IInv, Crng!TypeOK, Crng!LockInv, Crng!SeedInv, Crng!ThreadStates,
     Crng!Threads, Crng!Crngs, Crng!Seeding, Crng!Asking
<1> QED
  BY <1>1, <1>2, <1>3, <1>4 DEF Crng!IInv

LEMMA CrngReseeded ==
  ASSUME Crng!IInv, NEW t \in Crng!Threads, Crng!Reseeded(t)
  PROVE  Crng!IInv'
<1>1. Crng!TypeOK'
  <2>1. x10' \in [Crng!Threads -> Crng!ThreadStates]
    BY CrngToType, CrngIdleType DEF Crng!IInv, Crng!Reseeded, Crng!Asking
  <2> QED
    BY <2>1 DEF Crng!IInv, Crng!TypeOK, Crng!Reseeded
<1> USE DEF Crng!Reseeded, Crng!At, Crng!To, Crng!Idle
<1>2. Crng!ListInv'
  BY DEF Crng!IInv, Crng!TypeOK, Crng!ListInv
<1>3. Crng!LockInv'
  BY CrngAssumption DEF Crng!IInv, Crng!TypeOK, Crng!LockInv, Crng!ThreadStates, Crng!Threads,
     Crng!ListInv
<1>4. Crng!SeedInv'
  BY CrngAssumption DEF Crng!IInv, Crng!TypeOK, Crng!LockInv, Crng!SeedInv, Crng!ThreadStates,
     Crng!Threads, Crng!Crngs, Crng!Seeding, Crng!Asking
<1> QED
  BY <1>1, <1>2, <1>3, <1>4 DEF Crng!IInv

LEMMA CrngAddGet ==
  ASSUME Crng!IInv, NEW d \in CrngDrivers, Crng!AddGet(d)
  PROVE  Crng!IInv'
<1> USE DEF Crng!AddGet, Crng!Call, Crng!CrngReady
<1>1. Crng!TypeOK'
  BY DEF Crng!IInv, Crng!TypeOK, Crng!ListInv, Crng!ThreadStates, Crng!Threads, Crng!Crngs,
     Crng!Seeding, Crng!Asking
<1>2. Crng!ListInv'
  BY DEF Crng!IInv, Crng!TypeOK, Crng!ListInv
<1>3. Crng!LockInv'
  BY CrngAssumption DEF Crng!IInv, Crng!TypeOK, Crng!LockInv, Crng!ThreadStates, Crng!Threads,
     Crng!ListInv
<1>4. Crng!SeedInv'
  BY CrngAssumption DEF Crng!IInv, Crng!TypeOK, Crng!LockInv, Crng!SeedInv, Crng!ThreadStates,
     Crng!Threads, Crng!Crngs, Crng!Seeding, Crng!Asking
<1> QED
  BY <1>1, <1>2, <1>3, <1>4 DEF Crng!IInv

LEMMA CrngAdd ==
  ASSUME Crng!IInv, NEW d \in CrngDrivers, Crng!Add(d)
  PROVE  Crng!IInv'
<1> USE DEF Crng!Add, Crng!CrngReady
<1>1. Crng!TypeOK'
  BY DEF Crng!IInv, Crng!TypeOK, Crng!ListInv, Crng!ThreadStates, Crng!Threads, Crng!Crngs,
     Crng!Seeding, Crng!Asking
<1>2. Crng!ListInv'
  BY DEF Crng!IInv, Crng!TypeOK, Crng!ListInv
<1>3. Crng!LockInv'
  BY CrngAssumption DEF Crng!IInv, Crng!TypeOK, Crng!LockInv, Crng!ThreadStates, Crng!Threads,
     Crng!ListInv
<1>4. Crng!SeedInv'
  BY CrngAssumption DEF Crng!IInv, Crng!TypeOK, Crng!LockInv, Crng!SeedInv, Crng!ThreadStates,
     Crng!Threads, Crng!Crngs, Crng!Seeding, Crng!Asking
<1> QED
  BY <1>1, <1>2, <1>3, <1>4 DEF Crng!IInv

LEMMA CrngDel ==
  ASSUME Crng!IInv, NEW d \in CrngDrivers, Crng!Del(d)
  PROVE  Crng!IInv'
<1> USE DEF Crng!Del
<1>1. Crng!TypeOK'
  BY DEF Crng!IInv, Crng!TypeOK, Crng!ListInv, Crng!ThreadStates, Crng!Threads, Crng!Crngs,
     Crng!Seeding, Crng!Asking
<1>2. Crng!ListInv'
  BY DEF Crng!IInv, Crng!TypeOK, Crng!ListInv
<1>3. Crng!LockInv'
  BY CrngAssumption DEF Crng!IInv, Crng!TypeOK, Crng!LockInv, Crng!ThreadStates, Crng!Threads,
     Crng!ListInv
<1>4. Crng!SeedInv'
  BY CrngAssumption DEF Crng!IInv, Crng!TypeOK, Crng!LockInv, Crng!SeedInv, Crng!ThreadStates,
     Crng!Threads, Crng!Crngs, Crng!Seeding, Crng!Asking
<1> QED
  BY <1>1, <1>2, <1>3, <1>4 DEF Crng!IInv

LEMMA CrngUnload ==
  ASSUME Crng!IInv, NEW d \in CrngDrivers, Crng!Unload(d)
  PROVE  Crng!IInv'
<1> USE DEF Crng!Unload
<1>1. Crng!TypeOK'
  BY DEF Crng!IInv, Crng!TypeOK, Crng!ListInv, Crng!ThreadStates, Crng!Threads, Crng!Crngs,
     Crng!Seeding, Crng!Asking
<1>2. Crng!ListInv'
  BY DEF Crng!IInv, Crng!TypeOK, Crng!ListInv
<1>3. Crng!LockInv'
  BY CrngAssumption DEF Crng!IInv, Crng!TypeOK, Crng!LockInv, Crng!ThreadStates, Crng!Threads,
     Crng!ListInv
<1>4. Crng!SeedInv'
  BY CrngAssumption DEF Crng!IInv, Crng!TypeOK, Crng!LockInv, Crng!SeedInv, Crng!ThreadStates,
     Crng!Threads, Crng!Crngs, Crng!Seeding, Crng!Asking
<1> QED
  BY <1>1, <1>2, <1>3, <1>4 DEF Crng!IInv

LEMMA CrngRequest ==
  ASSUME Crng!IInv, NEW t \in CrngReaders, Crng!Request(t)
  PROVE  Crng!IInv'
<1>1. Crng!TypeOK'
  <2>1. PICK pc \in {"getrandom", "urandom"}, c \in Crng!Crngs :
           x10' = [x10 EXCEPT ![t] = [Crng!Idle EXCEPT !.pc = pc, !.crng = c, !.late = (x1 = 2)]]
    BY DEF Crng!Request
  <2>2. x10' \in [Crng!Threads -> Crng!ThreadStates]
    BY <2>1 DEF Crng!IInv, Crng!TypeOK, Crng!Idle, Crng!ThreadStates, Crng!Asking
  <2> QED
    BY <2>2 DEF Crng!IInv, Crng!TypeOK, Crng!Request
<1> USE DEF Crng!Request, Crng!At, Crng!Call, Crng!Idle
<1>2. Crng!ListInv'
  BY DEF Crng!IInv, Crng!TypeOK, Crng!ListInv
<1>3. Crng!LockInv'
  BY CrngAssumption DEF Crng!IInv, Crng!TypeOK, Crng!LockInv, Crng!ThreadStates, Crng!Threads,
     Crng!ListInv
<1>4. Crng!SeedInv'
  BY CrngAssumption DEF Crng!IInv, Crng!TypeOK, Crng!LockInv, Crng!SeedInv, Crng!ThreadStates,
     Crng!Threads, Crng!Crngs, Crng!Seeding, Crng!Asking
<1> QED
  BY <1>1, <1>2, <1>3, <1>4 DEF Crng!IInv

LEMMA CrngGetRandom ==
  ASSUME Crng!IInv, NEW t \in Crng!Threads, Crng!GetRandom(t)
  PROVE  Crng!IInv'
<1>1. Crng!TypeOK'
  <2>1. x10' \in [Crng!Threads -> Crng!ThreadStates]
    BY CrngToType, CrngIdleType DEF Crng!IInv, Crng!GetRandom, Crng!Asking
  <2> QED
    BY <2>1 DEF Crng!IInv, Crng!TypeOK, Crng!GetRandom
<1> USE DEF Crng!GetRandom, Crng!At, Crng!To, Crng!CrngReady, Crng!Idle
<1>2. Crng!ListInv'
  BY DEF Crng!IInv, Crng!TypeOK, Crng!ListInv
<1>3. Crng!LockInv'
  BY CrngAssumption DEF Crng!IInv, Crng!TypeOK, Crng!LockInv, Crng!ThreadStates, Crng!Threads,
     Crng!ListInv
<1>4. Crng!SeedInv'
  BY CrngAssumption DEF Crng!IInv, Crng!TypeOK, Crng!LockInv, Crng!SeedInv, Crng!ThreadStates,
     Crng!Threads, Crng!Crngs, Crng!Seeding, Crng!Asking
<1> QED
  BY <1>1, <1>2, <1>3, <1>4 DEF Crng!IInv

LEMMA CrngUrandom ==
  ASSUME Crng!IInv, NEW t \in Crng!Threads, Crng!Urandom(t)
  PROVE  Crng!IInv'
<1> USE DEF Crng!Urandom, Crng!At, Crng!To, Crng!CrngReady
<1>1. Crng!TypeOK'
  BY DEF Crng!IInv, Crng!TypeOK, Crng!ListInv, Crng!ThreadStates, Crng!Threads, Crng!Crngs,
     Crng!Seeding, Crng!Asking
<1>2. Crng!ListInv'
  BY DEF Crng!IInv, Crng!TypeOK, Crng!ListInv
<1>3. Crng!LockInv'
  BY CrngAssumption DEF Crng!IInv, Crng!TypeOK, Crng!LockInv, Crng!ThreadStates, Crng!Threads,
     Crng!ListInv
<1>4. Crng!SeedInv'
  BY CrngAssumption DEF Crng!IInv, Crng!TypeOK, Crng!LockInv, Crng!SeedInv, Crng!ThreadStates,
     Crng!Threads, Crng!Crngs, Crng!Seeding, Crng!Asking
<1> QED
  BY <1>1, <1>2, <1>3, <1>4 DEF Crng!IInv

LEMMA CrngExtract ==
  ASSUME Crng!IInv, NEW t \in Crng!Threads, Crng!Extract(t)
  PROVE  Crng!IInv'
<1> USE DEF Crng!Extract, Crng!At, Crng!To
<1>1. Crng!TypeOK'
  BY DEF Crng!IInv, Crng!TypeOK, Crng!ListInv, Crng!ThreadStates, Crng!Threads, Crng!Crngs,
     Crng!Seeding, Crng!Asking
<1>2. Crng!ListInv'
  BY DEF Crng!IInv, Crng!TypeOK, Crng!ListInv
<1>3. Crng!LockInv'
  BY CrngAssumption DEF Crng!IInv, Crng!TypeOK, Crng!LockInv, Crng!ThreadStates, Crng!Threads,
     Crng!ListInv
<1>4. Crng!SeedInv'
  BY CrngAssumption DEF Crng!IInv, Crng!TypeOK, Crng!LockInv, Crng!SeedInv, Crng!ThreadStates,
     Crng!Threads, Crng!Crngs, Crng!Seeding, Crng!Asking
<1> QED
  BY <1>1, <1>2, <1>3, <1>4 DEF Crng!IInv

LEMMA CrngSeed ==
  ASSUME Crng!IInv, NEW t \in Crng!Threads, Crng!Seed(t)
  PROVE  Crng!IInv'
<1> USE DEF Crng!Seed, Crng!At
<1>1. Crng!TypeOK'
  BY DEF Crng!IInv, Crng!TypeOK, Crng!ListInv, Crng!ThreadStates, Crng!Threads, Crng!Crngs,
     Crng!Seeding, Crng!Asking
<1>2. Crng!ListInv'
  BY DEF Crng!IInv, Crng!TypeOK, Crng!ListInv
<1>3. Crng!LockInv'
  BY CrngAssumption DEF Crng!IInv, Crng!TypeOK, Crng!LockInv, Crng!ThreadStates, Crng!Threads,
     Crng!ListInv
<1>4. Crng!SeedInv'
  BY CrngAssumption DEF Crng!IInv, Crng!TypeOK, Crng!LockInv, Crng!SeedInv, Crng!ThreadStates,
     Crng!Threads, Crng!Crngs, Crng!Seeding, Crng!Asking
<1> QED
  BY <1>1, <1>2, <1>3, <1>4 DEF Crng!IInv

LEMMA CrngStoreSeed ==
  ASSUME Crng!IInv, NEW t \in Crng!Threads, Crng!StoreSeed(t)
  PROVE  Crng!IInv'
<1> USE DEF Crng!StoreSeed, Crng!At, Crng!To
<1>1. Crng!TypeOK'
  BY DEF Crng!IInv, Crng!TypeOK, Crng!ListInv, Crng!ThreadStates, Crng!Threads, Crng!Crngs,
     Crng!Seeding, Crng!Asking
<1>2. Crng!ListInv'
  BY DEF Crng!IInv, Crng!TypeOK, Crng!ListInv
<1>3. Crng!LockInv'
  BY CrngAssumption DEF Crng!IInv, Crng!TypeOK, Crng!LockInv, Crng!ThreadStates, Crng!Threads,
     Crng!ListInv
<1>4. Crng!SeedInv'
  BY CrngAssumption DEF Crng!IInv, Crng!TypeOK, Crng!LockInv, Crng!SeedInv, Crng!ThreadStates,
     Crng!Threads, Crng!Crngs, Crng!Seeding, Crng!Asking
<1> QED
  BY <1>1, <1>2, <1>3, <1>4 DEF Crng!IInv

LEMMA CrngBlock ==
  ASSUME Crng!IInv, NEW t \in Crng!Threads, Crng!Block(t)
  PROVE  Crng!IInv'
<1> USE DEF Crng!Block, Crng!At
<1>1. Crng!TypeOK'
  BY DEF Crng!IInv, Crng!TypeOK, Crng!ListInv, Crng!ThreadStates, Crng!Threads, Crng!Crngs,
     Crng!Seeding, Crng!Asking
<1>2. Crng!ListInv'
  BY DEF Crng!IInv, Crng!TypeOK, Crng!ListInv
<1>3. Crng!LockInv'
  BY CrngAssumption DEF Crng!IInv, Crng!TypeOK, Crng!LockInv, Crng!ThreadStates, Crng!Threads,
     Crng!ListInv
<1>4. Crng!SeedInv'
  BY CrngAssumption DEF Crng!IInv, Crng!TypeOK, Crng!LockInv, Crng!SeedInv, Crng!ThreadStates,
     Crng!Threads, Crng!Crngs, Crng!Seeding, Crng!Asking
<1> QED
  BY <1>1, <1>2, <1>3, <1>4 DEF Crng!IInv

LEMMA CrngReturn ==
  ASSUME Crng!IInv, NEW t \in Crng!Threads, Crng!Return(t)
  PROVE  Crng!IInv'
<1> USE DEF Crng!Return, Crng!At, Crng!Idle
<1>1. Crng!TypeOK'
  BY DEF Crng!IInv, Crng!TypeOK, Crng!ListInv, Crng!ThreadStates, Crng!Threads, Crng!Crngs,
     Crng!Seeding, Crng!Asking
<1>2. Crng!ListInv'
  BY DEF Crng!IInv, Crng!TypeOK, Crng!ListInv
<1>3. Crng!LockInv'
  BY CrngAssumption DEF Crng!IInv, Crng!TypeOK, Crng!LockInv, Crng!ThreadStates, Crng!Threads,
     Crng!ListInv
<1>4. Crng!SeedInv'
  BY CrngAssumption DEF Crng!IInv, Crng!TypeOK, Crng!LockInv, Crng!SeedInv, Crng!ThreadStates,
     Crng!Threads, Crng!Crngs, Crng!Seeding, Crng!Asking
<1> QED
  BY <1>1, <1>2, <1>3, <1>4 DEF Crng!IInv

LEMMA CrngExpire ==
  ASSUME Crng!IInv, Crng!Expire
  PROVE  Crng!IInv'
<1> USE DEF Crng!Expire, Crng!Call
<1>1. Crng!TypeOK'
  BY DEF Crng!IInv, Crng!TypeOK, Crng!ListInv, Crng!ThreadStates, Crng!Threads, Crng!Crngs,
     Crng!Seeding, Crng!Asking
<1>2. Crng!ListInv'
  BY DEF Crng!IInv, Crng!TypeOK, Crng!ListInv
<1>3. Crng!LockInv'
  BY CrngAssumption DEF Crng!IInv, Crng!TypeOK, Crng!LockInv, Crng!ThreadStates, Crng!Threads,
     Crng!ListInv
<1>4. Crng!SeedInv'
  BY CrngAssumption DEF Crng!IInv, Crng!TypeOK, Crng!LockInv, Crng!SeedInv, Crng!ThreadStates,
     Crng!Threads, Crng!Crngs, Crng!Seeding, Crng!Asking
<1> QED
  BY <1>1, <1>2, <1>3, <1>4 DEF Crng!IInv

LEMMA CrngInit ==
  ASSUME Crng!Init
  PROVE  Crng!IInv
<1>1. Crng!TypeOK
  BY DEF Crng!Init, Crng!TypeOK, Crng!ThreadStates, Crng!Threads, Crng!Crngs, Crng!Idle
<1>2. Crng!ListInv /\ Crng!LockInv
  BY CrngAssumption DEF Crng!Init, Crng!ListInv, Crng!LockInv, Crng!Idle, Crng!Threads
<1>3. Crng!SeedInv
  BY DEF Crng!Init, Crng!SeedInv, Crng!Idle, Crng!Threads, Crng!Seeding
<1> QED
  BY <1>1, <1>2, <1>3 DEF Crng!IInv

LEMMA CrngNext ==
  ASSUME Crng!IInv, Crng!Next
  PROVE  Crng!IInv'
<1>1. CASE Crng!FastLoad \/ Crng!Expire
  BY <1>1, CrngFastLoad, CrngExpire
<1>2. CASE \E s \in CrngSources : Crng!Credit(s)
  BY <1>2, CrngCredit
<1>3. CASE \E t \in Crng!Threads : Crng!Step(t)
  <2>1. PICK t \in Crng!Threads : Crng!Step(t)
    BY <1>3
  <2>2. CASE Crng!Reseed(t) \/ Crng!ProcessLock(t) \/ Crng!Callback(t) \/ Crng!CallbackDone(t)
             \/ Crng!ProcessDone(t) \/ Crng!Reseeded(t)
    BY <2>2, CrngReseed, CrngProcessLock, CrngCallback, CrngCallbackDone, CrngProcessDone,
       CrngReseeded
  <2>3. CASE Crng!GetRandom(t) \/ Crng!Urandom(t) \/ Crng!Extract(t) \/ Crng!Seed(t)
             \/ Crng!StoreSeed(t) \/ Crng!Block(t) \/ Crng!Return(t)
    BY <2>3, CrngGetRandom, CrngUrandom, CrngExtract, CrngSeed, CrngStoreSeed, CrngBlock,
       CrngReturn
  <2> QED
    BY <2>1, <2>2, <2>3 DEF Crng!Step
<1>4. CASE \E t \in CrngReaders : Crng!Request(t)
  BY <1>4, CrngRequest
<1>5. CASE \E d \in CrngDrivers : Crng!AddGet(d) \/ Crng!Add(d) \/ Crng!Del(d) \/ Crng!Unload(d)
  BY <1>5, CrngAddGet, CrngAdd, CrngDel, CrngUnload
<1> QED
  BY <1>1, <1>2, <1>3, <1>4, <1>5 DEF Crng!Next

LEMMA CrngServed ==
  ASSUME Crng!IInv
  PROVE  Crng!NoneForgotten /\ Crng!CallbackHasModule /\ Crng!FreshAfterReady
<1>1. Crng!NoneForgotten
  BY DEF Crng!IInv, Crng!LockInv, Crng!NoneForgotten
<1>2. Crng!CallbackHasModule
  BY DEF Crng!IInv, Crng!ListInv, Crng!CallbackHasModule
<1>3. Crng!FreshAfterReady
  BY DEF Crng!IInv, Crng!SeedInv, Crng!FreshAfterReady, Crng!At
<1> QED
  BY <1>1, <1>2, <1>3

\* The list holds exactly the drivers that wait, until who seeds the primary
\* generator has worked through it with the lock held; so every callback is
\* called, once, with its module there, and a request that comes after it gets a
\* key made after the seeding (add_random_ready_callback, crng_reseed,
\* process_random_ready_list).
THEOREM CrngServesAlways == Spec => []CrngServes
<1> DEFINE Inv == which = "crng" => Crng!IInv
<1>1. ASSUME Init PROVE Inv
  BY <1>1, CrngInit DEF Init
<1>2. ASSUME Inv, [Next]_vars PROVE Inv'
  <2>1. CASE which = "crng" /\ Next
    <3>1. which' = "crng" /\ Crng!Next
      BY <2>1 DEF Next
    <3> QED
      BY <1>2, <2>1, <3>1, CrngNext
  <2>2. CASE which # "crng" /\ Next
    BY <2>2 DEF Next
  <2>3. CASE UNCHANGED vars
    <3>1. UNCHANGED <<which, Crng!vars>>
      BY <2>3 DEF vars, rest8, rest9, rest10, rest11, rest13, rest15, Crng!vars
    <3>2. Crng!IInv => Crng!IInv'
      BY <3>1 DEF Crng!vars, Crng!IInv, Crng!TypeOK, Crng!ListInv, Crng!LockInv, Crng!SeedInv
    <3> QED
      BY <1>2, <3>1, <3>2
  <2> QED
    BY <1>2, <2>1, <2>2, <2>3
<1>3. ASSUME Inv PROVE CrngServes
  BY <1>3, CrngServed DEF CrngServes
<1> QED
  BY <1>1, <1>2, <1>3, PTL DEF Spec

(***************************************************************************)
(* The entropy counts (RandomPool). First what the loop of                 *)
(* credit_entropy_bits adds to a count and what a sum over the threads is, *)
(* both by induction on the rounds; then the actions.                      *)
(***************************************************************************)

\* What the loop of credit_entropy_bits adds in its first round, and where it is then.
PoolA(size, n) == Pool!Min({n, size \div 2})
PoolD(size, c, n) == c + ((size - c) * PoolA(size, n) * 3) \div (4 * size)
PoolRow(size, g, n) ==
    [c \in 0 .. size |-> IF PoolD(size, c, n) < size - 2 /\ n > PoolA(size, n)
                         THEN g[n - PoolA(size, n)][PoolD(size, c, n)]
                         ELSE Pool!Min({PoolD(size, c, n), size})]
PoolLoop(size, g, m) == g = [n \in 0 .. m |-> PoolRow(size, g, n)]

\* Induction, for a set of numbers.
LEMMA NatSet ==
  ASSUME NEW S, 0 \in S, \A n \in Nat : n \in S => n + 1 \in S
  PROVE  \A n \in Nat : n \in S
<1> SUFFICES ASSUME Nat \ S # {} PROVE FALSE
  OBVIOUS
<1>1. PICK m \in Nat \ S : \A k \in Nat \ S : ~(<<k, m>> \in OpToRel(<, Nat))
  BY NatLessThanWellFounded, WFMin
<1>2. m \in Nat /\ m # 0
  BY <1>1
<1>3. PICK k \in Nat : m = k + 1
  BY <1>2
<1>4. k < m /\ <<k, m>> \in OpToRel(<, Nat)
  BY <1>2, <1>3 DEF OpToRel
<1>5. k \in S
  BY <1>1, <1>4
<1> QED
  BY <1>1, <1>3, <1>5

LEMMA PoolMin ==
  ASSUME NEW x \in Int, NEW y \in Int
  PROVE  Pool!Min({x, y}) = IF x <= y THEN x ELSE y
BY DEF Pool!Min

LEMMA DivBound ==
  ASSUME NEW x \in Nat, NEW y \in Nat \ {0}, NEW k \in Nat, x <= y * k
  PROVE  x \div y \in 0 .. k
<1>1. PICK q : q = x \div y
  OBVIOUS
<1>2. q \in Int /\ y * q <= x /\ x < y * q + y
  BY <1>1
<1>3. q <= k
  <2>1. y * q < y * (k + 1)
    BY <1>2
  <2> QED
    BY <2>1, <1>2
<1>4. q >= 0
  BY <1>2
<1> QED
  BY <1>1, <1>3, <1>4, <1>2

LEMMA PoolRound ==
  ASSUME NEW size \in Nat \ {0}, NEW c \in 0 .. size, NEW n \in Nat
  PROVE  /\ PoolA(size, n) \in 0 .. n /\ PoolD(size, c, n) \in c .. c + PoolA(size, n)
         /\ PoolD(size, c, n) < size - 2 => PoolA(size, n) > 0 \/ n = 0
<1>1. PICK a : a = PoolA(size, n)
  OBVIOUS
<1>2. size \div 2 \in Nat /\ (size > 2 => size \div 2 > 0)
  OBVIOUS
<1>3. a \in 0 .. n /\ (size > 2 /\ n > 0 => a > 0)
  BY <1>1, <1>2, PoolMin DEF PoolA
<1>4. PICK e \in Nat : e = size - c
  OBVIOUS
<1>5. e * a <= size * a /\ e * a \in Nat /\ size * a \in Nat
  BY <1>3, <1>4
<1>6. (size - c) * a * 3 \in Nat /\ (size - c) * a * 3 <= (4 * size) * a
  BY <1>3, <1>4, <1>5
<1>7. ((size - c) * a * 3) \div (4 * size) \in 0 .. a
  BY <1>3, <1>6, DivBound
<1>8. PICK q : q = ((size - c) * a * 3) \div (4 * size)
  OBVIOUS
<1>9. PoolD(size, c, n) = c + q /\ q \in 0 .. a
  BY <1>1, <1>7, <1>8 DEF PoolD
<1> QED
  BY <1>1, <1>3, <1>9

LEMMA PoolLoopExists ==
  ASSUME NEW size \in Nat \ {0}
  PROVE  \A m \in Nat : \E g : PoolLoop(size, g, m)
<1> DEFINE S == {m \in Nat : \E g : PoolLoop(size, g, m)}
<1>1. 0 \in S
  <2> DEFINE g == [n \in 0 .. 0 |-> PoolRow(size, <<>>, n)]
  <2>1. ASSUME NEW n \in 0 .. 0
        PROVE  PoolRow(size, g, n) = PoolRow(size, <<>>, n)
    <3>1. n = 0 /\ ~(n > PoolA(size, n))
      BY PoolRound, 0 \in 0 .. size
    <3> QED
      BY <3>1, Zenon DEF PoolRow
  <2> HIDE DEF g
  <2>2. g = [n \in 0 .. 0 |-> PoolRow(size, g, n)]
    BY <2>1 DEF g
  <2> QED
    BY <2>2 DEF PoolLoop
<1>2. ASSUME NEW m \in Nat, m \in S
      PROVE  m + 1 \in S
  <2>1. PICK g : g = [n \in 0 .. m |-> PoolRow(size, g, n)]
    BY <1>2 DEF PoolLoop
  <2> DEFINE h == [n \in 0 .. m + 1 |-> IF n <= m THEN g[n] ELSE PoolRow(size, g, n)]
  <2>2. ASSUME NEW n \in 0 .. m + 1
        PROVE  h[n] = PoolRow(size, h, n)
    <3>1. h[n] = PoolRow(size, g, n)
      <4>1. CASE n <= m
        BY <4>1, <2>1
      <4>2. CASE n > m
        BY <4>2
      <4> QED
        BY <4>1, <4>2
    <3>2. ASSUME NEW c \in 0 .. size, PoolD(size, c, n) < size - 2, n > PoolA(size, n)
          PROVE  h[n - PoolA(size, n)] = g[n - PoolA(size, n)]
      <4>1. n - PoolA(size, n) \in 0 .. m
        <5>1. PICK a, d : a = PoolA(size, n) /\ d = PoolD(size, c, n)
          OBVIOUS
        <5>2. n \in Nat
          OBVIOUS
        <5>3. a \in 0 .. n /\ (d < size - 2 => a > 0 \/ n = 0)
          BY <5>1, <5>2, PoolRound
        <5> QED
          BY <3>2, <5>1, <5>3
      <4> QED
        BY <4>1
    <3> HIDE DEF h
    <3>3. PoolRow(size, h, n) = PoolRow(size, g, n)
      BY <3>2, Zenon DEF PoolRow
    <3> QED
      BY <3>1, <3>3
  <2>3. h = [n \in 0 .. m + 1 |-> PoolRow(size, h, n)]
    <3>1. h = [n \in 0 .. m + 1 |-> h[n]]
      OBVIOUS
    <3> HIDE DEF h
    <3> QED
      BY <2>2, <3>1
  <2> HIDE DEF h
  <2> QED
    BY <2>3 DEF PoolLoop
<1> HIDE DEF S
<1>3. \A m \in Nat : m \in S
  BY <1>1, <1>2, NatSet
<1> QED
  BY <1>3 DEF S

LEMMA PoolLoopBound ==
  ASSUME NEW size \in Nat \ {0}, NEW g, NEW m \in Nat, PoolLoop(size, g, m)
  PROVE  \A n \in 0 .. m : \A c \in 0 .. size : g[n][c] \in c .. size /\ g[n][c] <= c + n
<1> DEFINE OK(n) == \A c \in 0 .. size : g[n][c] \in c .. size /\ g[n][c] <= c + n
           S == {k \in Nat : \A n \in 0 .. k : n <= m => OK(n)}
<1>1. ASSUME NEW n \in 0 .. m, \A k \in 0 .. n - 1 : OK(k)
      PROVE  OK(n)
  <2> SUFFICES ASSUME NEW c \in 0 .. size
               PROVE  g[n][c] \in c .. size /\ g[n][c] <= c + n
    OBVIOUS
  <2>1. PICK a, d : a = PoolA(size, n) /\ d = PoolD(size, c, n)
    OBVIOUS
  <2>2. a \in 0 .. n /\ d \in c .. c + a /\ (d < size - 2 => a > 0 \/ n = 0)
    BY <2>1, PoolRound
  <2>3. g[n] = PoolRow(size, g, n)
    BY DEF PoolLoop
  <2>4. g[n][c] = IF d < size - 2 /\ n > a THEN g[n - a][d] ELSE Pool!Min({d, size})
    BY <2>1, <2>3 DEF PoolRow
  <2>5. CASE d < size - 2 /\ n > a
    <3>1. n - a \in 0 .. n - 1 /\ d \in 0 .. size
      BY <2>2, <2>5
    <3>2. g[n - a][d] \in d .. size /\ g[n - a][d] <= d + (n - a)
      BY <1>1, <3>1
    <3> HIDE DEF OK
    <3> QED
      BY <2>2, <2>4, <2>5, <3>2
  <2>6. CASE ~(d < size - 2 /\ n > a)
    <3>1. g[n][c] = IF d <= size THEN d ELSE size
      BY <2>2, <2>4, <2>6, PoolMin
    <3> QED
      BY <2>2, <3>1
  <2> QED
    BY <2>5, <2>6
<1> HIDE DEF OK
<1>2. 0 \in S
  BY <1>1
<1>3. ASSUME NEW k \in Nat, k \in S
      PROVE  k + 1 \in S
  <2> SUFFICES ASSUME NEW n \in 0 .. k + 1, n <= m
               PROVE  OK(n)
    OBVIOUS
  <2>1. CASE n <= k
    BY <1>3, <2>1
  <2>2. CASE n = k + 1
    <3>1. \A j \in 0 .. n - 1 : OK(j)
      BY <1>3, <2>2
    <3> QED
      BY <1>1, <3>1
  <2> QED
    BY <2>1, <2>2
<1>4. m \in S
  <2> HIDE DEF S
  <2> QED
    BY <1>2, <1>3, NatSet
<1>5. \A n \in 0 .. m : OK(n)
  BY <1>4
<1> QED
  BY <1>5 DEF OK

LEMMA PoolCredited ==
  ASSUME NEW size \in Nat \ {0}, NEW c \in 0 .. size, NEW n0 \in Nat
  PROVE  Pool!Credited(size, c, n0) \in c .. size /\ Pool!Credited(size, c, n0) <= c + n0
<1>1. Pool!Credited(size, c, n0) = (CHOOSE g : PoolLoop(size, g, n0))[n0][c]
  BY DEF Pool!Credited, PoolLoop, PoolRow, PoolA, PoolD
<1>2. PICK f : f = CHOOSE g : PoolLoop(size, g, n0)
  OBVIOUS
<1>3. PoolLoop(size, f, n0)
  BY <1>2, PoolLoopExists
<1>4. f[n0][c] \in c .. size /\ f[n0][c] <= c + n0
  BY <1>3, PoolLoopBound
<1> QED
  BY <1>1, <1>2, <1>4

\* The sum over a set of the values of h, taken as the loop of SumFunction does.
Chosen(s) == CHOOSE x \in s : TRUE
SumTail(h, g, s) ==
    IF s = {} THEN 0 ELSE h[Chosen(s)] + g[s \ {Chosen(s)}]
SumLoop(h, g, D) == g = [s \in D |-> SumTail(h, g, s)]
UpTo(T, k) == {s \in SUBSET T : Cardinality(s) <= k}

LEMMA SumChosen ==
  ASSUME NEW T, IsFiniteSet(T), NEW s \in SUBSET T, s # {}, NEW x, x = Chosen(s)
  PROVE  /\ x \in s /\ s \ {x} \in SUBSET T
         /\ Cardinality(s) \in Nat /\ Cardinality(s \ {x}) \in Nat
         /\ Cardinality(s \ {x}) = Cardinality(s) - 1
<1>1. x \in s
  BY DEF Chosen
<1>2. IsFiniteSet(s) /\ Cardinality(s) \in Nat
  BY FS_Subset, FS_CardinalityType
<1>3. IsFiniteSet(s \ {x}) /\ Cardinality(s \ {x}) = Cardinality(s) - 1
  BY <1>1, <1>2, FS_RemoveElement
<1>4. Cardinality(s \ {x}) \in Nat
  BY <1>3, FS_CardinalityType
<1> QED
  BY <1>1, <1>2, <1>3, <1>4

LEMMA SumLoopExists ==
  ASSUME NEW h, NEW T, IsFiniteSet(T)
  PROVE  \E g : SumLoop(h, g, SUBSET T)
<1> DEFINE S == {k \in Nat : \E g : SumLoop(h, g, UpTo(T, k))}
<1>1. 0 \in S
  <2> DEFINE g == [s \in UpTo(T, 0) |-> SumTail(h, <<>>, s)]
  <2>1. ASSUME NEW s \in UpTo(T, 0)
        PROVE  SumTail(h, g, s) = SumTail(h, <<>>, s)
    <3>1. s = {}
      BY FS_Subset, FS_EmptySet, FS_CardinalityType DEF UpTo
    <3> QED
      BY <3>1, Zenon DEF SumTail
  <2> HIDE DEF g
  <2>2. g = [s \in UpTo(T, 0) |-> SumTail(h, g, s)]
    BY <2>1 DEF g
  <2> QED
    BY <2>2 DEF SumLoop
<1>2. ASSUME NEW k \in Nat, k \in S
      PROVE  k + 1 \in S
  <2>1. PICK g : g = [s \in UpTo(T, k) |-> SumTail(h, g, s)]
    BY <1>2 DEF SumLoop
  <2> DEFINE f == [s \in UpTo(T, k + 1) |-> IF s \in UpTo(T, k) THEN g[s] ELSE SumTail(h, g, s)]
  <2>2. ASSUME NEW s \in UpTo(T, k + 1)
        PROVE  f[s] = SumTail(h, f, s)
    <3>1. f[s] = SumTail(h, g, s)
      <4>1. CASE s \in UpTo(T, k)
        BY <4>1, <2>1
      <4>2. CASE s \notin UpTo(T, k)
        BY <4>2
      <4> QED
        BY <4>1, <4>2
    <3>2. ASSUME s # {}
          PROVE  f[s \ {Chosen(s)}] = g[s \ {Chosen(s)}]
      <4>0. PICK x : x = Chosen(s)
        OBVIOUS
      <4>1. /\ s \ {x} \in SUBSET T /\ Cardinality(s) \in Nat /\ Cardinality(s) <= k + 1
            /\ Cardinality(s \ {x}) = Cardinality(s) - 1
        BY <3>2, <4>0, SumChosen DEF UpTo
      <4>2. s \ {x} \in UpTo(T, k) /\ s \ {x} \in UpTo(T, k + 1)
        BY <4>1 DEF UpTo
      <4> QED
        BY <4>0, <4>2
    <3> HIDE DEF f
    <3>3. SumTail(h, f, s) = SumTail(h, g, s)
      BY <3>2, Zenon DEF SumTail
    <3> QED
      BY <3>1, <3>3
  <2>3. f = [s \in UpTo(T, k + 1) |-> f[s]]
    OBVIOUS
  <2> HIDE DEF f
  <2>4. f = [s \in UpTo(T, k + 1) |-> SumTail(h, f, s)]
    BY <2>2, <2>3
  <2> QED
    BY <2>4 DEF SumLoop
<1> HIDE DEF S
<1>3. \A k \in Nat : k \in S
  BY <1>1, <1>2, NatSet
<1>4. Cardinality(T) \in Nat /\ UpTo(T, Cardinality(T)) = SUBSET T
  BY FS_CardinalityType, FS_Subset DEF UpTo
<1> QED
  BY <1>3, <1>4 DEF S

\* A change of one value of h changes the sum by as much.
LEMMA SumLoopChange ==
  ASSUME NEW T, IsFiniteSet(T), NEW h \in [T -> Int], NEW i \in [T -> Int], NEW t \in T,
         \A x \in T : x # t => i[x] = h[x],
         NEW f, NEW g, SumLoop(h, f, SUBSET T), SumLoop(i, g, SUBSET T)
  PROVE  f[T] \in Int /\ g[T] = f[T] - h[t] + i[t]
<1> DEFINE OK(s) == f[s] \in Int /\ g[s] = IF t \in s THEN f[s] - h[t] + i[t] ELSE f[s]
           S == {k \in Nat : \A s \in UpTo(T, k) : OK(s)}
<1>1. ASSUME NEW s \in SUBSET T, \A r \in SUBSET T : Cardinality(r) < Cardinality(s) => OK(r)
      PROVE  OK(s)
  <2>1. f[s] = SumTail(h, f, s) /\ g[s] = SumTail(i, g, s)
    BY DEF SumLoop
  <2>2. CASE s = {}
    BY <2>1, <2>2 DEF SumTail
  <2>3. CASE s # {}
    <3>1. PICK x : x = Chosen(s)
      OBVIOUS
    <3>2. /\ x \in s /\ s \ {x} \in SUBSET T /\ Cardinality(s) \in Nat
           /\ Cardinality(s \ {x}) = Cardinality(s) - 1
      BY <2>3, <3>1, SumChosen, Zenon
    <3>3. PICK r : r = s \ {x}
      OBVIOUS
    <3>4. f[s] = h[x] + f[r] /\ g[s] = i[x] + g[r]
      BY <2>1, <2>3, <3>1, <3>3, Zenon DEF SumTail
    <3>5. f[r] \in Int /\ g[r] = IF t \in r THEN f[r] - h[t] + i[t] ELSE f[r]
      BY <1>1, <3>2, <3>3
    <3>6. h[x] \in Int /\ h[t] \in Int /\ i[t] \in Int /\ (x # t => i[x] = h[x])
      BY <3>2
    <3>7. CASE x = t
      BY <3>2, <3>3, <3>4, <3>5, <3>6, <3>7
    <3>8. CASE x # t
      BY <3>2, <3>3, <3>4, <3>5, <3>6, <3>8
    <3> QED
      BY <3>7, <3>8
  <2> QED
    BY <2>2, <2>3
<1> HIDE DEF OK
<1>2. \A s \in SUBSET T : Cardinality(s) \in Nat
  BY FS_Subset, FS_CardinalityType
<1>3. 0 \in S
  BY <1>1, <1>2 DEF UpTo
<1>4. ASSUME NEW k \in Nat, k \in S
      PROVE  k + 1 \in S
  <2> SUFFICES ASSUME NEW s \in UpTo(T, k + 1)
               PROVE  OK(s)
    OBVIOUS
  <2>1. \A r \in SUBSET T : Cardinality(r) < Cardinality(s) => OK(r)
    BY <1>2, <1>4 DEF UpTo
  <2> QED
    BY <1>1, <2>1 DEF UpTo
<1>5. Cardinality(T) \in S
  <2> HIDE DEF S
  <2> QED
    BY <1>2, <1>3, <1>4, NatSet
<1>6. OK(T)
  BY <1>2, <1>5 DEF UpTo
<1> QED
  BY <1>6 DEF OK

LEMMA SumLoopZero ==
  ASSUME NEW T, IsFiniteSet(T), NEW h, \A x \in T : h[x] = 0, NEW f, SumLoop(h, f, SUBSET T)
  PROVE  f[T] = 0
<1> DEFINE S == {k \in Nat : \A s \in UpTo(T, k) : f[s] = 0}
<1>1. ASSUME NEW s \in SUBSET T, \A r \in SUBSET T : Cardinality(r) < Cardinality(s) => f[r] = 0
      PROVE  f[s] = 0
  <2>1. f[s] = SumTail(h, f, s)
    BY DEF SumLoop
  <2>2. CASE s = {}
    BY <2>1, <2>2 DEF SumTail
  <2>3. CASE s # {}
    <3>1. PICK x : x = Chosen(s)
      OBVIOUS
    <3>2. /\ x \in s /\ s \ {x} \in SUBSET T /\ Cardinality(s) \in Nat
           /\ Cardinality(s \ {x}) = Cardinality(s) - 1
      BY <2>3, <3>1, SumChosen, Zenon
    <3>3. PICK r : r = s \ {x}
      OBVIOUS
    <3>4. f[s] = h[x] + f[r]
      BY <2>1, <2>3, <3>1, <3>3, Zenon DEF SumTail
    <3>5. f[r] = 0 /\ h[x] = 0
      BY <1>1, <3>2, <3>3
    <3> QED
      BY <3>4, <3>5
  <2> QED
    BY <2>2, <2>3
<1>2. \A s \in SUBSET T : Cardinality(s) \in Nat
  BY FS_Subset, FS_CardinalityType
<1>3. 0 \in S
  BY <1>1, <1>2 DEF UpTo
<1>4. ASSUME NEW k \in Nat, k \in S
      PROVE  k + 1 \in S
  <2> SUFFICES ASSUME NEW s \in UpTo(T, k + 1)
               PROVE  f[s] = 0
    OBVIOUS
  <2>1. \A r \in SUBSET T : Cardinality(r) < Cardinality(s) => f[r] = 0
    BY <1>2, <1>4 DEF UpTo
  <2> QED
    BY <1>1, <2>1 DEF UpTo
<1>5. Cardinality(T) \in S
  <2> HIDE DEF S
  <2> QED
    BY <1>2, <1>3, <1>4, NatSet
<1> QED
  BY <1>2, <1>5 DEF UpTo

LEMMA PoolSumLoop ==
  ASSUME NEW T, IsFiniteSet(T), NEW h, DOMAIN h = T
  PROVE  \E f : SumLoop(h, f, SUBSET T) /\ Pool!SumFunction(h) = f[T]
<1>1. Pool!SumFunction(h) = (CHOOSE f : SumLoop(h, f, SUBSET T))[T]
  BY DEF Pool!SumFunction, Pool!SumFunctionOnSet, Pool!FoldFunctionOnSet, Pool!MapThenFoldSet,
     SumLoop, SumTail, Chosen
<1> QED
  BY <1>1, SumLoopExists

LEMMA PoolSumZero ==
  ASSUME NEW T, IsFiniteSet(T), NEW h, DOMAIN h = T, \A x \in T : h[x] = 0
  PROVE  Pool!SumFunction(h) = 0
<1>1. PICK f : SumLoop(h, f, SUBSET T) /\ Pool!SumFunction(h) = f[T]
  BY PoolSumLoop
<1> QED
  BY <1>1, SumLoopZero

LEMMA PoolSumChange ==
  ASSUME NEW T, IsFiniteSet(T), NEW h \in [T -> Int], NEW i \in [T -> Int], NEW t \in T,
         \A x \in T : x # t => i[x] = h[x]
  PROVE  /\ Pool!SumFunction(h) \in Int
         /\ Pool!SumFunction(i) = Pool!SumFunction(h) - h[t] + i[t]
<1>1. PICK f : SumLoop(h, f, SUBSET T) /\ Pool!SumFunction(h) = f[T]
  BY PoolSumLoop
<1>2. PICK g : SumLoop(i, g, SUBSET T) /\ Pool!SumFunction(i) = g[T]
  BY PoolSumLoop
<1>3. f[T] \in Int /\ g[T] = f[T] - h[t] + i[t]
  BY <1>1, <1>2, SumLoopChange
<1> QED
  BY <1>1, <1>2, <1>3

LEMMA DivTimes ==
  ASSUME NEW x \in Nat, NEW y \in Nat \ {0}
  PROVE  x \div y \in Nat /\ (x \div y) * y <= x
OBVIOUS

LEMMA PoolNumbers ==
  /\ PoolInputSize \in Nat \ {0} /\ PoolBlockingSize \in Nat \ {0}
  /\ PoolBitFrac \in Nat \ {0} /\ PoolByteBits \in Nat \ {0} /\ Pool!ByteFrac \in Nat \ {0}
  /\ PoolReadWakeup \in Nat /\ PoolWriteWakeup \in Nat /\ PoolReseedBytes \in Nat
  /\ PoolCredits \subseteq Nat
<1>1. PoolBitFrac \in Nat \ {0} /\ PoolByteBits \in Nat \ {0}
  BY PoolPartAssumption DEF Pool!PoolAssumption
<1>2. PoolBitFrac * PoolByteBits \in Nat \ {0}
  BY <1>1
<1> QED
  BY <1>2, PoolPartAssumption DEF Pool!PoolAssumption, Pool!ByteFrac

LEMMA PoolThreads == IsFiniteSet(Pool!Threads)
<1>1. IsFiniteSet(PoolReaders)
  BY PoolPartAssumption
<1>2. IsFiniteSet(PoolReaders \cup {"source"})
  BY <1>1, FS_AddElement
<1>3. IsFiniteSet((PoolReaders \cup {"source"}) \cup {"hwrng"})
  BY <1>2, FS_AddElement
<1>4. IsFiniteSet(((PoolReaders \cup {"source"}) \cup {"hwrng"}) \cup {"push"})
  BY <1>3, FS_AddElement
<1>5. ((PoolReaders \cup {"source"}) \cup {"hwrng"}) \cup {"push"} = Pool!Threads
  BY DEF Pool!Threads
<1> QED
  BY <1>4, <1>5

\* What a thread holds, by where it is.
LEMMA PoolHeld ==
  ASSUME NEW s \in Pool!ThreadStates
  PROVE  /\ Pool!HeldBy(s) \in Nat /\ s.got * Pool!ByteFrac \in Nat
         /\ s.got = 0 /\ s.pc \notin Pool!Crediting => Pool!HeldBy(s) = 0
         /\ s.got = 0 /\ s.pool = "input" => Pool!HeldBy(s) = 0
         /\ s.got = 0 /\ s.pool = "blocking" /\ s.pc \in Pool!Crediting => Pool!HeldBy(s) = s.n
         /\ s.pc \notin Pool!Crediting => Pool!HeldBy(s) = s.got * Pool!ByteFrac
<1>1. s.got \in Nat /\ s.n \in Nat /\ s.pool \in {"input", "blocking"}
  BY DEF Pool!ThreadStates, Pool!Pools
<1>2. PICK p : p = s.got * Pool!ByteFrac
  OBVIOUS
<1>3. p \in Nat /\ (s.got = 0 => p = 0)
  BY <1>1, <1>2, PoolNumbers
<1>4. Pool!HeldBy(s) = p + (IF s.pool = "blocking" /\ s.pc \in Pool!Crediting THEN s.n ELSE 0)
  BY <1>2, Zenon DEF Pool!HeldBy, Pool!Crediting
<1> QED
  BY <1>1, <1>2, <1>3, <1>4

\* Waking the sleepers changes nothing that is held.
LEMMA PoolWoken ==
  ASSUME NEW ts \in [Pool!Threads -> Pool!ThreadStates], NEW sleepers,
         \A u \in Pool!Threads : Pool!ThreadOK(ts[u]), NEW ws, ws = ts \/ ws = Pool!Woken(ts, sleepers)
  PROVE  /\ ws \in [Pool!Threads -> Pool!ThreadStates]
         /\ \A u \in Pool!Threads : /\ Pool!ThreadOK(ws[u])
                                    /\ Pool!HeldBy(ws[u]) = Pool!HeldBy(ts[u])
<1>1. CASE ws = ts
  BY <1>1, Zenon
<1>2. CASE ws = Pool!Woken(ts, sleepers)
  <2>1. ASSUME NEW u \in Pool!Threads
        PROVE  /\ ws[u] \in Pool!ThreadStates /\ Pool!ThreadOK(ws[u])
               /\ Pool!HeldBy(ws[u]) = Pool!HeldBy(ts[u])
    <3>1. CASE ~(u \in sleepers /\ ts[u].pc = "asleep")
      BY <1>2, <3>1 DEF Pool!Woken
    <3>2. CASE ts[u].pc = "asleep" /\ u \in sleepers
      <4>1. ws[u] = [ts[u] EXCEPT !.pc = "wakes"]
        BY <1>2, <3>2 DEF Pool!Woken
      <4>2. ts[u] \in Pool!ThreadStates /\ Pool!ThreadOK(ts[u])
        OBVIOUS
      <4>3. ws[u] \in Pool!ThreadStates /\ ws[u].pc = "wakes" /\ ws[u].got = ts[u].got
        BY <4>1, <4>2 DEF Pool!ThreadStates
      <4>4. ts[u].got = 0
        BY <3>2, <4>2 DEF Pool!ThreadOK, Pool!Holding
      <4>5. Pool!ThreadOK(ws[u])
        BY <4>3, <4>4 DEF Pool!ThreadOK, Pool!Holding, Pool!Crediting, Pool!Accounting
      <4>6. Pool!HeldBy(ws[u]) = 0 /\ Pool!HeldBy(ts[u]) = 0
        BY <3>2, <4>2, <4>3, <4>4, PoolHeld DEF Pool!Crediting
      <4> QED
        BY <4>3, <4>5, <4>6
    <3> QED
      BY <3>1, <3>2
  <2>2. ws \in [Pool!Threads -> Pool!ThreadStates]
    <3>1. DOMAIN ws = Pool!Threads /\ ws = [u \in Pool!Threads |-> ws[u]]
      BY <1>2 DEF Pool!Woken
    <3> QED
      BY <2>1, <3>1
  <2> QED
    BY <2>1, <2>2
<1> QED
  BY <1>1, <1>2

\* A step of one thread keeps the invariant if pools, thread and history stay in balance.
LEMMA PoolStep ==
  ASSUME Pool!IInv, NEW t \in Pool!Threads, NEW s \in Pool!ThreadStates, Pool!ThreadOK(s),
         NEW ts, ts = [x6 EXCEPT ![t] = s], NEW sleepers, x6' = ts \/ x6' = Pool!Woken(ts,
         sleepers),
         NEW i \in 0 .. PoolInputSize, NEW b \in 0 .. PoolBlockingSize,
         x1' = [x1 EXCEPT !["input"] = i, !["blocking"] = b], x8' \in Int,
         i + b + Pool!HeldBy(s) - x8' <= x1["input"] + x1["blocking"] + Pool!HeldBy(x6[t]) - x8
  PROVE  Pool!IInv'
<1>1. /\ x1 \in [{"input", "blocking"} -> Nat] /\ x6 \in [Pool!Threads -> Pool!ThreadStates]
      /\ x8 \in Int /\ \A u \in Pool!Threads : Pool!ThreadOK(x6[u])
  BY DEF Pool!IInv, Pool!TypeOK, Pool!ThreadsInv, Pool!Pools
<1>2. ts \in [Pool!Threads -> Pool!ThreadStates] /\ \A u \in Pool!Threads : Pool!ThreadOK(ts[u])
  BY <1>1
<1>3. /\ x6' \in [Pool!Threads -> Pool!ThreadStates]
      /\ \A u \in Pool!Threads : Pool!ThreadOK(x6'[u]) /\ Pool!HeldBy(x6'[u]) = Pool!HeldBy(ts[u])
  <2>1. PICK ws : ws = x6'
    OBVIOUS
  <2>2. ws = ts \/ ws = Pool!Woken(ts, sleepers)
    BY <2>1
  <2>3. CASE ws = ts
    BY <1>2, <2>1, <2>3
  <2>4. CASE ws = Pool!Woken(ts, sleepers)
    <3>1. /\ ws \in [Pool!Threads -> Pool!ThreadStates]
          /\ \A u \in Pool!Threads : Pool!ThreadOK(ws[u]) /\ Pool!HeldBy(ws[u]) = Pool!HeldBy(ts[u])
      BY <1>2, <2>4, PoolWoken
    <3> QED
      BY <2>1, <3>1
  <2> QED
    BY <2>2, <2>3, <2>4
<1>4. x1' \in [{"input", "blocking"} -> Nat] /\ x1'["input"] = i /\ x1'["blocking"] = b
  BY <1>1, PoolNumbers
<1>5. Pool!TypeOK' /\ Pool!ThreadsInv'
  BY <1>3, <1>4 DEF Pool!TypeOK, Pool!ThreadsInv, Pool!Pools
<1>6. PICK h, g : h = Pool!Held /\ g = Pool!Held'
  OBVIOUS
<1>7. /\ h \in [Pool!Threads -> Int] /\ g \in [Pool!Threads -> Int]
      /\ \A u \in Pool!Threads : h[u] = Pool!HeldBy(x6[u]) /\ g[u] = Pool!HeldBy(x6'[u])
  <2>1. \A u \in Pool!Threads : Pool!HeldBy(x6[u]) \in Int /\ Pool!HeldBy(x6'[u]) \in Int
    BY <1>1, <1>3, PoolHeld
  <2>2. h = [u \in Pool!Threads |-> Pool!HeldBy(x6[u])]
          /\ g = [u \in Pool!Threads |-> Pool!HeldBy(x6'[u])]
    BY <1>6 DEF Pool!Held
  <2> QED
    BY <2>1, <2>2
<1>8. h[t] = Pool!HeldBy(x6[t]) /\ g[t] = Pool!HeldBy(s)
        /\ \A u \in Pool!Threads : u # t => g[u] = h[u]
  BY <1>1, <1>3, <1>7
<1>9. /\ Pool!SumFunction(h) \in Int
      /\ Pool!SumFunction(g) = Pool!SumFunction(h) - h[t] + g[t]
  BY <1>7, <1>8, PoolThreads, PoolSumChange
<1>10. x1["input"] + x1["blocking"] + Pool!SumFunction(h) <= x8
  BY <1>6 DEF Pool!IInv, Pool!NeverOverestimates
<1>11. h[t] \in Int /\ g[t] \in Int /\ x1["input"] \in Nat /\ x1["blocking"] \in Nat
  BY <1>1, <1>7
<1>12. i + b + Pool!SumFunction(g) <= x8'
  BY <1>1, <1>8, <1>9, <1>10, <1>11, PoolNumbers
<1>13. Pool!NeverOverestimates'
  BY <1>4, <1>6, <1>12 DEF Pool!NeverOverestimates, Pool!Pools, Pool!Size
<1> QED
  BY <1>5, <1>13 DEF Pool!IInv

\* What the invariant says of the pools and of a thread.
LEMMA PoolTypes ==
  ASSUME Pool!IInv, NEW t \in Pool!Threads
  PROVE  /\ x6 \in [Pool!Threads -> Pool!ThreadStates] /\ x6[t] \in Pool!ThreadStates
         /\ Pool!ThreadOK(x6[t]) /\ x8 \in Int /\ x1 \in [{"input", "blocking"} -> Nat]
         /\ x1["input"] \in 0 .. PoolInputSize /\ x1["blocking"] \in 0 .. PoolBlockingSize
         /\ Pool!HeldBy(x6[t]) \in Nat
<1>1. x6 \in [Pool!Threads -> Pool!ThreadStates] /\ x8 \in Int
        /\ x1 \in [{"input", "blocking"} -> Nat]
  BY DEF Pool!IInv, Pool!TypeOK, Pool!Pools
<1>2. x1["input"] \in 0 .. PoolInputSize /\ x1["blocking"] \in 0 .. PoolBlockingSize
  BY DEF Pool!IInv, Pool!NeverOverestimates, Pool!Pools, Pool!Size
<1>3. Pool!ThreadOK(x6[t])
  BY DEF Pool!IInv, Pool!ThreadsInv
<1>4. x6[t] \in Pool!ThreadStates
  BY <1>1
<1>5. Pool!HeldBy(x6[t]) \in Nat
  BY <1>4, PoolHeld
<1> QED
  BY <1>1, <1>2, <1>3, <1>4, <1>5

\* A step that leaves the pools alone.
LEMMA PoolLocal ==
  ASSUME Pool!IInv, NEW t \in Pool!Threads, NEW s \in Pool!ThreadStates, Pool!ThreadOK(s),
         NEW ts, ts = [x6 EXCEPT ![t] = s], NEW sleepers, x6' = ts \/ x6' = Pool!Woken(ts,
         sleepers),
         x1' = x1, x8' \in Int, Pool!HeldBy(s) - x8' <= Pool!HeldBy(x6[t]) - x8
  PROVE  Pool!IInv'
<1>1. PICK i \in 0 .. PoolInputSize, b \in 0 .. PoolBlockingSize :
           i = x1["input"] /\ b = x1["blocking"]
  BY PoolTypes
<1>2. x1' = [x1 EXCEPT !["input"] = i, !["blocking"] = b]
  BY <1>1, PoolTypes
<1>3. Pool!HeldBy(s) \in Nat /\ Pool!HeldBy(x6[t]) \in Nat /\ x8 \in Int
  BY PoolHeld, PoolTypes
<1>4. i + b + Pool!HeldBy(s) - x8' <= x1["input"] + x1["blocking"] + Pool!HeldBy(x6[t]) - x8
  BY <1>1, <1>3
<1> QED
  BY <1>2, <1>4, PoolStep

\* The same when nothing is credited or delivered and the thread holds what it held.
LEMMA PoolMoves ==
  ASSUME Pool!IInv, NEW t \in Pool!Threads, NEW s \in Pool!ThreadStates, Pool!ThreadOK(s),
         x6' = [x6 EXCEPT ![t] = s], x1' = x1, x8' = x8,
         Pool!HeldBy(s) = Pool!HeldBy(x6[t])
  PROVE  Pool!IInv'
<1>1. Pool!HeldBy(s) - x8' <= Pool!HeldBy(x6[t]) - x8 /\ x8' \in Int
  BY PoolTypes
<1> QED
  BY <1>1, PoolLocal

LEMMA PoolIdle ==
  /\ Pool!Idle \in Pool!ThreadStates /\ Pool!ThreadOK(Pool!Idle) /\ Pool!HeldBy(Pool!Idle) = 0
  /\ Pool!Idle.pc = "idle" /\ Pool!Idle.got = 0
<1>1. Pool!Idle \in Pool!ThreadStates /\ Pool!Idle.pc = "idle" /\ Pool!Idle.got = 0
  BY DEF Pool!Idle, Pool!ThreadStates, Pool!Pools
<1>2. Pool!ThreadOK(Pool!Idle)
  BY <1>1 DEF Pool!ThreadOK, Pool!Crediting, Pool!Accounting
<1> QED
  BY <1>1, <1>2, PoolHeld DEF Pool!Crediting

\* The thread that begins to account or to credit.
LEMMA PoolCalls ==
  ASSUME NEW p \in Pool!Pools, NEW n \in Nat, NEW then
  PROVE  /\ then \in {"reseeded", "pulled", "read"} =>
              LET s == [Pool!Idle EXCEPT !.pc = "account", !.pool = p, !.n = n, !.then = then]
              IN  s \in Pool!ThreadStates /\ Pool!ThreadOK(s) /\ Pool!HeldBy(s) = 0
         /\ then \in {"idle", "take"} =>
              LET s == [Pool!Idle EXCEPT !.pc = "credit", !.pool = p, !.n = n, !.then = then]
              IN  /\ s \in Pool!ThreadStates /\ Pool!ThreadOK(s)
                  /\ Pool!HeldBy(s) = IF p = "blocking" THEN n ELSE 0
<1>1. ASSUME then \in {"reseeded", "pulled", "read"}
      PROVE  LET s == [Pool!Idle EXCEPT !.pc = "account", !.pool = p, !.n = n, !.then = then]
             IN  s \in Pool!ThreadStates /\ Pool!ThreadOK(s) /\ Pool!HeldBy(s) = 0
  <2>1. PICK s : s = [Pool!Idle EXCEPT !.pc = "account", !.pool = p, !.n = n, !.then = then]
    OBVIOUS
  <2>2. s \in Pool!ThreadStates /\ s.pc = "account" /\ s.got = 0 /\ s.then = then
    BY <1>1, <2>1 DEF Pool!Idle, Pool!ThreadStates, Pool!Accounting
  <2>3. Pool!ThreadOK(s)
    BY <1>1, <2>2 DEF Pool!ThreadOK, Pool!Crediting, Pool!Accounting, Pool!Holding
  <2>4. Pool!HeldBy(s) = 0
    BY <2>2, PoolHeld DEF Pool!Crediting
  <2> QED
    BY <2>1, <2>2, <2>3, <2>4
<1>2. ASSUME then \in {"idle", "take"}
      PROVE  LET s == [Pool!Idle EXCEPT !.pc = "credit", !.pool = p, !.n = n, !.then = then]
             IN  /\ s \in Pool!ThreadStates /\ Pool!ThreadOK(s)
                 /\ Pool!HeldBy(s) = IF p = "blocking" THEN n ELSE 0
  <2>1. PICK s : s = [Pool!Idle EXCEPT !.pc = "credit", !.pool = p, !.n = n, !.then = then]
    OBVIOUS
  <2>2. /\ s \in Pool!ThreadStates /\ s.pc = "credit" /\ s.got = 0 /\ s.then = then /\ s.n = n
        /\ s.pool = p
    BY <1>2, <2>1 DEF Pool!Idle, Pool!ThreadStates, Pool!Crediting
  <2>3. Pool!ThreadOK(s)
    BY <1>2, <2>2 DEF Pool!ThreadOK, Pool!Crediting, Pool!Accounting, Pool!Holding
  <2>4. Pool!HeldBy(s) = IF p = "blocking" THEN n ELSE 0
    BY <2>2, PoolHeld DEF Pool!Crediting, Pool!Pools
  <2> QED
    BY <2>1, <2>2, <2>3, <2>4
<1> QED
  BY <1>1, <1>2

LEMMA PoolCreditRead ==
  ASSUME Pool!IInv, NEW t \in Pool!Threads, Pool!CreditRead(t)
  PROVE  Pool!IInv'
<1>1. PICK r \in Pool!ThreadStates : r = x6[t] /\ Pool!ThreadOK(r)
  BY PoolTypes
<1>2. PICK c \in Nat : c = x1[r.pool]
  BY <1>1, PoolTypes DEF Pool!ThreadStates, Pool!Pools
<1>3. PICK s : s = [r EXCEPT !.pc = "credit_swap", !.orig = c]
  OBVIOUS
<1>4. x6' = [x6 EXCEPT ![t] = s] /\ r.pc = "credit" /\ x1' = x1 /\ x8' = x8
  BY <1>1, <1>2, <1>3, PoolTypes DEF Pool!CreditRead, Pool!At
<1>5. /\ s \in Pool!ThreadStates /\ s.pc = "credit_swap" /\ s.got = r.got /\ s.n = r.n
      /\ s.pool = r.pool /\ s.then = r.then
  BY <1>3 DEF Pool!ThreadStates, Pool!Crediting
<1>6. Pool!ThreadOK(s)
  BY <1>1, <1>4, <1>5 DEF Pool!ThreadOK, Pool!Crediting, Pool!Accounting, Pool!Holding
<1>7. Pool!HeldBy(s) = Pool!HeldBy(r)
  BY <1>4, <1>5 DEF Pool!HeldBy
<1> QED
  BY <1>1, <1>4, <1>5, <1>6, <1>7, PoolMoves

LEMMA PoolAccountRead ==
  ASSUME Pool!IInv, NEW t \in Pool!Threads, Pool!AccountRead(t)
  PROVE  Pool!IInv'
<1>1. PICK r \in Pool!ThreadStates : r = x6[t] /\ Pool!ThreadOK(r)
  BY PoolTypes
<1>2. PICK c \in Nat : c = x1[r.pool]
  BY <1>1, PoolTypes DEF Pool!ThreadStates, Pool!Pools
<1>3. PICK s : s = [r EXCEPT !.pc = "account_swap", !.orig = c]
  OBVIOUS
<1>4. x6' = [x6 EXCEPT ![t] = s] /\ r.pc = "account" /\ x1' = x1 /\ x8' = x8
  BY <1>1, <1>2, <1>3, PoolTypes DEF Pool!AccountRead, Pool!At
<1>5. /\ s \in Pool!ThreadStates /\ s.pc = "account_swap" /\ s.got = r.got /\ s.n = r.n
      /\ s.pool = r.pool /\ s.then = r.then
  BY <1>3 DEF Pool!ThreadStates, Pool!Accounting
<1>6. Pool!ThreadOK(s)
  BY <1>1, <1>4, <1>5 DEF Pool!ThreadOK, Pool!Crediting, Pool!Accounting, Pool!Holding
<1>7. Pool!HeldBy(s) = Pool!HeldBy(r)
  BY <1>4, <1>5 DEF Pool!HeldBy
<1> QED
  BY <1>1, <1>4, <1>5, <1>6, <1>7, PoolMoves

LEMMA PoolReadWakes ==
  ASSUME Pool!IInv, NEW t \in Pool!Threads, Pool!ReadWakes(t)
  PROVE  Pool!IInv'
<1>1. PICK r \in Pool!ThreadStates : r = x6[t] /\ Pool!ThreadOK(r)
  BY PoolTypes
<1>2. PICK pc : x6' = [x6 EXCEPT ![t].pc = pc] /\ pc \in {"xfer", "asleep"}
  BY DEF Pool!ReadWakes, Pool!At, Pool!To, Pool!WaitsFor
<1>3. PICK s : s = [r EXCEPT !.pc = pc]
  OBVIOUS
<1>4. x6' = [x6 EXCEPT ![t] = s] /\ r.pc = "wakes" /\ x1' = x1 /\ x8' = x8
  BY <1>1, <1>2, <1>3, PoolTypes DEF Pool!ReadWakes, Pool!At
<1>5. s \in Pool!ThreadStates /\ s.pc = pc /\ s.got = r.got
  BY <1>2, <1>3 DEF Pool!ThreadStates
<1>6. r.got = 0 /\ Pool!ThreadOK(s)
  BY <1>1, <1>2, <1>4, <1>5 DEF Pool!ThreadOK, Pool!Crediting, Pool!Accounting, Pool!Holding
<1>7. Pool!HeldBy(s) = Pool!HeldBy(r)
  BY <1>2, <1>4, <1>5, <1>6, PoolHeld DEF Pool!Crediting
<1> QED
  BY <1>1, <1>4, <1>5, <1>6, <1>7, PoolMoves

LEMMA PoolRead ==
  ASSUME Pool!IInv, NEW t \in PoolReaders, Pool!Read(t)
  PROVE  Pool!IInv'
<1>0. t \in Pool!Threads
  BY DEF Pool!Threads
<1>1. PICK r \in Pool!ThreadStates : r = x6[t] /\ Pool!ThreadOK(r)
  BY <1>0, PoolTypes
<1>2. PICK pc : x6' = [x6 EXCEPT ![t].pc = pc] /\ pc \in {"xfer"}
  BY DEF Pool!Read, Pool!At, Pool!To, Pool!WaitsFor
<1>3. PICK s : s = [r EXCEPT !.pc = pc]
  OBVIOUS
<1>4. x6' = [x6 EXCEPT ![t] = s] /\ r.pc = "idle" /\ x1' = x1 /\ x8' = x8
  BY <1>0, <1>1, <1>2, <1>3, PoolTypes DEF Pool!Read, Pool!At
<1>5. s \in Pool!ThreadStates /\ s.pc = pc /\ s.got = r.got
  BY <1>2, <1>3 DEF Pool!ThreadStates
<1>6. r.got = 0 /\ Pool!ThreadOK(s)
  BY <1>0, <1>1, <1>2, <1>4, <1>5 DEF Pool!ThreadOK, Pool!Crediting, Pool!Accounting,
     Pool!Holding
<1>7. Pool!HeldBy(s) = Pool!HeldBy(r)
  BY <1>2, <1>4, <1>5, <1>6, PoolHeld DEF Pool!Crediting
<1> QED
  BY <1>0, <1>1, <1>4, <1>5, <1>6, <1>7, PoolMoves

LEMMA PoolCreditTotal ==
  ASSUME Pool!IInv, NEW t \in Pool!Threads, Pool!CreditTotal(t)
  PROVE  Pool!IInv'
<1>1. PICK r \in Pool!ThreadStates : r = x6[t] /\ Pool!ThreadOK(r)
  BY PoolTypes
<1>2. PICK s : s = [r EXCEPT !.pc = "reseed", !.n = 0]
  OBVIOUS
<1>3. x6' = [x6 EXCEPT ![t] = s] /\ r.pc = "total" /\ x1' = x1 /\ x8' = x8
  BY <1>1, <1>2, PoolTypes DEF Pool!CreditTotal, Pool!At
<1>4. s \in Pool!ThreadStates /\ s.pc = "reseed" /\ s.got = r.got
  BY <1>2 DEF Pool!ThreadStates
<1>5. r.got = 0 /\ Pool!ThreadOK(s)
  BY <1>1, <1>3, <1>4 DEF Pool!ThreadOK, Pool!Crediting, Pool!Accounting, Pool!Holding
<1>6. Pool!HeldBy(s) = Pool!HeldBy(r)
  BY <1>3, <1>4, <1>5, PoolHeld DEF Pool!Crediting
<1> QED
  BY <1>1, <1>3, <1>4, <1>5, <1>6, PoolMoves

LEMMA PoolCreditReseed ==
  ASSUME Pool!IInv, NEW t \in Pool!Threads, Pool!CreditReseed(t)
  PROVE  Pool!IInv'
<1>1. PICK r \in Pool!ThreadStates : r = x6[t] /\ Pool!ThreadOK(r)
  BY PoolTypes
<1>2. PICK s : /\ x6' = [x6 EXCEPT ![t] = s]
               /\ \/ s = [r EXCEPT !.pc = "account", !.n = PoolReseedBytes, !.then = "reseeded"]
                  \/ s = [r EXCEPT !.pc = "wake_readers"]
  BY <1>1, PoolTypes DEF Pool!CreditReseed, Pool!To
<1>3. r.pc = "reseed" /\ x1' = x1 /\ x8' = x8
  BY <1>1 DEF Pool!CreditReseed, Pool!At
<1>4. /\ s \in Pool!ThreadStates /\ s.got = r.got
      /\ s.pc = "wake_readers" \/ (s.pc = "account" /\ s.then = "reseeded")
  <2>1. CASE s = [r EXCEPT !.pc = "account", !.n = PoolReseedBytes, !.then = "reseeded"]
    BY <2>1, PoolNumbers DEF Pool!ThreadStates, Pool!Accounting
  <2>2. CASE s = [r EXCEPT !.pc = "wake_readers"]
    BY <2>2 DEF Pool!ThreadStates
  <2> QED
    BY <1>2, <2>1, <2>2
<1>5. r.got = 0 /\ Pool!ThreadOK(s)
  BY <1>1, <1>3, <1>4 DEF Pool!ThreadOK, Pool!Crediting, Pool!Accounting, Pool!Holding
<1>6. Pool!HeldBy(s) = Pool!HeldBy(r)
  BY <1>3, <1>4, <1>5, PoolHeld DEF Pool!Crediting
<1> QED
  BY <1>1, <1>2, <1>3, <1>4, <1>5, <1>6, PoolMoves

LEMMA PoolReseeded ==
  ASSUME Pool!IInv, NEW t \in Pool!Threads, Pool!Reseeded(t)
  PROVE  Pool!IInv'
<1>1. PICK r \in Pool!ThreadStates : r = x6[t] /\ Pool!ThreadOK(r)
  BY PoolTypes
<1>2. PICK c \in Nat : c = x1["input"]
  BY PoolTypes
<1>3. PICK s : s = [r EXCEPT !.pc = "wake_readers", !.orig = c, !.got = 0]
  OBVIOUS
<1>4. /\ x6' = [x6 EXCEPT ![t] = s] /\ r.pc = "reseeded" /\ x1' = x1
      /\ x8' = x8 - r.got * Pool!ByteFrac
  BY <1>1, <1>2, <1>3, PoolTypes DEF Pool!Reseeded, Pool!At
<1>5. s \in Pool!ThreadStates /\ s.pc = "wake_readers" /\ s.got = 0
  BY <1>3 DEF Pool!ThreadStates
<1>6. Pool!ThreadOK(s)
  BY <1>5 DEF Pool!ThreadOK, Pool!Crediting, Pool!Accounting, Pool!Holding
<1>7. Pool!HeldBy(s) = 0 /\ Pool!HeldBy(r) = r.got * Pool!ByteFrac
        /\ r.got * Pool!ByteFrac \in Nat
  BY <1>4, <1>5, PoolHeld DEF Pool!Crediting
<1>8. x8' \in Int /\ Pool!HeldBy(s) - x8' <= Pool!HeldBy(x6[t]) - x8
  BY <1>1, <1>4, <1>7, PoolTypes
<1> QED
  BY <1>4, <1>5, <1>6, <1>8, PoolLocal

LEMMA PoolCreditSwap ==
  ASSUME Pool!IInv, NEW t \in Pool!Threads, Pool!CreditSwap(t)
  PROVE  Pool!IInv'
<1>1. PICK r \in Pool!ThreadStates : r = x6[t] /\ Pool!ThreadOK(r)
  BY PoolTypes
<1>2. r.pc = "credit_swap" /\ r.got = 0 /\ r.then \in {"idle", "take"} /\ r.n \in Nat
  BY <1>1 DEF Pool!CreditSwap, Pool!At, Pool!ThreadOK, Pool!Crediting, Pool!Accounting,
     Pool!Holding, Pool!ThreadStates
<1>3. CASE x1[r.pool] = r.orig /\ Pool!CreditStored(t)
  <2>1. PICK c : c = Pool!NewCount(t)
    OBVIOUS
  <2>2. x1' = [x1 EXCEPT ![r.pool] = c]
    BY <1>1, <1>3, <2>1 DEF Pool!CreditStored
  <2>3. CASE r.pool = "input"
    <3>1. c = Pool!Credited(PoolInputSize, r.orig, r.n) /\ r.orig \in 0 .. PoolInputSize
      BY <1>1, <1>3, <2>1, <2>3, PoolTypes DEF Pool!NewCount, Pool!Size
    <3>2. c \in 0 .. PoolInputSize
      <4>1. PICK o \in 0 .. PoolInputSize, n \in Nat : o = r.orig /\ n = r.n
        BY <1>2, <3>1
      <4>2. Pool!Credited(PoolInputSize, o, n) \in o .. PoolInputSize
        BY PoolCredited, PoolNumbers
      <4>3. c \in o .. PoolInputSize
        BY <3>1, <4>1, <4>2
      <4> QED
        BY <4>3, PoolNumbers
    <3>3. PICK s : s = [r EXCEPT !.pc = "total", !.orig = c]
      OBVIOUS
    <3>4. x6' = [x6 EXCEPT ![t] = s] /\ x8' = x8 + c - r.orig
      BY <1>1, <1>3, <2>1, <2>3, <3>3, PoolTypes DEF Pool!CreditStored
    <3>5. s \in Pool!ThreadStates /\ s.pc = "total" /\ s.got = 0
      <4>1. c \in Nat
        BY <3>2, PoolNumbers
      <4> QED
        BY <1>2, <3>3, <4>1 DEF Pool!ThreadStates
    <3>6. Pool!ThreadOK(s)
      BY <3>5 DEF Pool!ThreadOK, Pool!Crediting, Pool!Accounting, Pool!Holding
    <3>7. Pool!HeldBy(s) = 0 /\ Pool!HeldBy(r) = 0
      BY <1>2, <2>3, <3>5, PoolHeld DEF Pool!Crediting
    <3>8. PICK b \in 0 .. PoolBlockingSize : b = x1["blocking"]
      BY PoolTypes
    <3>9. x1' = [x1 EXCEPT !["input"] = c, !["blocking"] = b]
      BY <2>2, <2>3, <3>8, PoolTypes
    <3>10. x8' \in Int
             /\ c + b + Pool!HeldBy(s) - x8' <= x1["input"] + x1["blocking"] + Pool!HeldBy(x6[t]) - x8
      BY <1>1, <1>3, <2>3, <3>1, <3>2, <3>4, <3>7, <3>8, PoolTypes
    <3> QED
      BY <3>2, <3>4, <3>5, <3>6, <3>9, <3>10, PoolStep
  <2>4. CASE r.pool = "blocking"
    <3>1. c = Pool!Credited(PoolBlockingSize, r.orig, r.n) /\ r.orig \in 0 .. PoolBlockingSize
      BY <1>1, <1>3, <2>1, <2>4, PoolTypes DEF Pool!NewCount, Pool!Size
    <3>2. c \in 0 .. PoolBlockingSize /\ c <= r.orig + r.n
      <4>1. PICK o \in 0 .. PoolBlockingSize, n \in Nat : o = r.orig /\ n = r.n
        BY <1>2, <3>1
      <4>2. /\ Pool!Credited(PoolBlockingSize, o, n) \in o .. PoolBlockingSize
            /\ Pool!Credited(PoolBlockingSize, o, n) <= o + n
        BY PoolCredited, PoolNumbers
      <4>3. c \in o .. PoolBlockingSize /\ c <= o + n
        BY <3>1, <4>1, <4>2
      <4> QED
        BY <4>1, <4>3, PoolNumbers
    <3>3. PICK s : s = [Pool!Idle EXCEPT !.pc = r.then]
      OBVIOUS
    <3>4. x6' = [x6 EXCEPT ![t] = s] /\ x8' = x8
      BY <1>1, <1>3, <2>1, <2>4, <3>3, PoolTypes DEF Pool!CreditStored
    <3>5. s \in Pool!ThreadStates /\ s.pc \in {"idle", "take"} /\ s.got = 0
      BY <1>2, <3>3 DEF Pool!ThreadStates, Pool!Idle, Pool!Pools
    <3>6. Pool!ThreadOK(s)
      BY <3>5 DEF Pool!ThreadOK, Pool!Crediting, Pool!Accounting, Pool!Holding
    <3>7. Pool!HeldBy(s) = 0 /\ Pool!HeldBy(r) = r.n
      BY <1>2, <2>4, <3>5, PoolHeld DEF Pool!Crediting
    <3>8. PICK i \in 0 .. PoolInputSize : i = x1["input"]
      BY PoolTypes
    <3>9. x1' = [x1 EXCEPT !["input"] = i, !["blocking"] = c]
      BY <2>2, <2>4, <3>8, PoolTypes
    <3>10. x8' \in Int
             /\ i + c + Pool!HeldBy(s) - x8' <= x1["input"] + x1["blocking"] + Pool!HeldBy(x6[t]) - x8
      BY <1>1, <1>2, <1>3, <2>4, <3>1, <3>2, <3>4, <3>7, <3>8, PoolTypes
    <3> QED
      BY <3>2, <3>4, <3>5, <3>6, <3>8, <3>9, <3>10, PoolStep
  <2> QED
    BY <1>1, <2>3, <2>4 DEF Pool!ThreadStates, Pool!Pools
<1>4. CASE x6' = [x6 EXCEPT ![t].pc = "credit", ![t].orig = 0] /\ UNCHANGED <<x1, x8>>
  <2>1. PICK s : s = [r EXCEPT !.pc = "credit", !.orig = 0]
    OBVIOUS
  <2>2. x6' = [x6 EXCEPT ![t] = s] /\ x1' = x1 /\ x8' = x8
    BY <1>1, <1>4, <2>1, PoolTypes
  <2>3. /\ s \in Pool!ThreadStates /\ s.pc = "credit" /\ s.got = r.got /\ s.n = r.n
        /\ s.pool = r.pool
        /\ s.then = r.then
    BY <2>1 DEF Pool!ThreadStates, Pool!Crediting
  <2>4. Pool!ThreadOK(s)
    BY <1>2, <2>3 DEF Pool!ThreadOK, Pool!Crediting, Pool!Accounting, Pool!Holding
  <2>5. Pool!HeldBy(s) = Pool!HeldBy(r)
    BY <1>2, <2>3 DEF Pool!HeldBy
  <2> QED
    BY <1>1, <2>2, <2>3, <2>4, <2>5, PoolMoves
<1> QED
  BY <1>1, <1>3, <1>4 DEF Pool!CreditSwap

LEMMA PoolAccountSwap ==
  ASSUME Pool!IInv, NEW t \in Pool!Threads, Pool!AccountSwap(t)
  PROVE  Pool!IInv'
<1>1. PICK r \in Pool!ThreadStates : r = x6[t] /\ Pool!ThreadOK(r)
  BY PoolTypes
<1>2. r.pc = "account_swap" /\ r.got = 0 /\ r.then \in {"reseeded", "pulled", "read"}
        /\ r.n \in Nat
  BY <1>1 DEF Pool!AccountSwap, Pool!At, Pool!ThreadOK, Pool!Crediting, Pool!Accounting,
     Pool!Holding, Pool!ThreadStates
<1>3. CASE /\ x1[r.pool] = r.orig
           /\ x1' = [x1 EXCEPT ![r.pool] = @ - Pool!Given(t) * Pool!ByteFrac]
           /\ x6' = [x6 EXCEPT ![t] = [@ EXCEPT !.pc = "wake_writers", !.got = Pool!Given(t),
                                                !.n = 0, !.orig = 0]]
           /\ x8' = x8
  <2>1. PICK k, d : k = Pool!Given(t) /\ d = k * Pool!ByteFrac
    OBVIOUS
  <2>2. r.orig \in Nat /\ r.orig \div Pool!ByteFrac \in Nat
        /\ (r.orig \div Pool!ByteFrac) * Pool!ByteFrac <= r.orig
    BY PoolNumbers, DivTimes DEF Pool!ThreadStates
  <2>3. k \in Nat /\ k <= r.orig \div Pool!ByteFrac
    <3>1. PICK q : q = r.orig \div Pool!ByteFrac
      OBVIOUS
    <3>2. PICK m : m = Pool!Min({r.n, q})
      OBVIOUS
    <3>3. m \in Nat /\ m <= q
      BY <1>2, <2>2, <3>1, <3>2, PoolMin
    <3>4. k = 0 \/ k = m
      BY <1>1, <2>1, <3>1, <3>2 DEF Pool!Given
    <3> QED
      BY <2>2, <3>1, <3>3, <3>4
  <2>4. d \in 0 .. r.orig
    <3>1. PICK q \in Nat : q = r.orig \div Pool!ByteFrac
      BY <2>2
    <3>2. k * Pool!ByteFrac \in Nat /\ k * Pool!ByteFrac <= q * Pool!ByteFrac
      BY <2>3, <3>1, PoolNumbers
    <3>3. q * Pool!ByteFrac \in Nat /\ q * Pool!ByteFrac <= r.orig
      BY <2>2, <3>1, PoolNumbers
    <3> QED
      BY <2>1, <2>2, <3>2, <3>3
  <2>5. PICK s : s = [r EXCEPT !.pc = "wake_writers", !.got = k, !.n = 0, !.orig = 0]
    OBVIOUS
  <2>6. x6' = [x6 EXCEPT ![t] = s] /\ x1' = [x1 EXCEPT ![r.pool] = r.orig - d] /\ x8' = x8
    BY <1>1, <1>3, <2>1, <2>5
  <2>7. s \in Pool!ThreadStates /\ s.pc = "wake_writers" /\ s.got = k /\ s.then = r.then
    BY <2>3, <2>5 DEF Pool!ThreadStates, Pool!Holding
  <2>8. Pool!ThreadOK(s)
    BY <1>2, <2>7 DEF Pool!ThreadOK, Pool!Crediting, Pool!Accounting, Pool!Holding
  <2>9. Pool!HeldBy(s) = d /\ Pool!HeldBy(r) = 0
    BY <1>2, <2>1, <2>7, PoolHeld DEF Pool!Crediting
  <2>10. PICK i0 \in 0 .. PoolInputSize, b0 \in 0 .. PoolBlockingSize :
              i0 = x1["input"] /\ b0 = x1["blocking"]
    BY PoolTypes
  <2>11. CASE r.pool = "input"
    <3>1. x1' = [x1 EXCEPT !["input"] = i0 - d, !["blocking"] = b0] /\ r.orig = i0
      BY <1>3, <2>6, <2>10, <2>11, PoolTypes
    <3>2. i0 - d \in 0 .. PoolInputSize
      BY <2>4, <2>10, <3>1, PoolNumbers
    <3>3. x8' \in Int
            /\ (i0 - d) + b0 + Pool!HeldBy(s) - x8' <= x1["input"] + x1["blocking"] + Pool!HeldBy(x6[t]) - x8
      BY <1>1, <2>4, <2>6, <2>9, <2>10, <3>1, PoolTypes
    <3> QED
      BY <2>6, <2>7, <2>8, <3>1, <3>2, <3>3, PoolStep
  <2>12. CASE r.pool = "blocking"
    <3>1. x1' = [x1 EXCEPT !["input"] = i0, !["blocking"] = b0 - d] /\ r.orig = b0
      BY <1>3, <2>6, <2>10, <2>12, PoolTypes
    <3>2. b0 - d \in 0 .. PoolBlockingSize
      BY <2>4, <2>10, <3>1, PoolNumbers
    <3>3. x8' \in Int
            /\ i0 + (b0 - d) + Pool!HeldBy(s) - x8' <= x1["input"] + x1["blocking"] + Pool!HeldBy(x6[t]) - x8
      BY <1>1, <2>4, <2>6, <2>9, <2>10, <3>1, PoolTypes
    <3> QED
      BY <2>6, <2>7, <2>8, <3>1, <3>2, <3>3, PoolStep
  <2> QED
    BY <2>11, <2>12 DEF Pool!ThreadStates, Pool!Pools
<1>4. CASE x6' = [x6 EXCEPT ![t].pc = "account", ![t].orig = 0] /\ UNCHANGED <<x1, x8>>
  <2>1. PICK s : s = [r EXCEPT !.pc = "account", !.orig = 0]
    OBVIOUS
  <2>2. x6' = [x6 EXCEPT ![t] = s] /\ x1' = x1 /\ x8' = x8
    BY <1>1, <1>4, <2>1, PoolTypes
  <2>3. s \in Pool!ThreadStates /\ s.pc = "account" /\ s.got = r.got /\ s.then = r.then
    BY <2>1 DEF Pool!ThreadStates, Pool!Accounting
  <2>4. Pool!ThreadOK(s)
    BY <1>2, <2>3 DEF Pool!ThreadOK, Pool!Crediting, Pool!Accounting, Pool!Holding
  <2>5. Pool!HeldBy(s) = 0 /\ Pool!HeldBy(r) = 0
    BY <1>2, <2>3, PoolHeld DEF Pool!Crediting
  <2> QED
    BY <1>1, <2>2, <2>3, <2>4, <2>5, PoolMoves
<1> QED
  BY <1>1, <1>3, <1>4 DEF Pool!AccountSwap

LEMMA PoolWakeReaders ==
  ASSUME Pool!IInv, NEW t \in Pool!Threads, Pool!WakeReaders(t)
  PROVE  Pool!IInv'
<1>1. PICK r \in Pool!ThreadStates : r = x6[t] /\ Pool!ThreadOK(r)
  BY PoolTypes
<1>2. /\ r.pc = "wake_readers" /\ x1' = x1 /\ x8' = x8
      /\ LET ts == [x6 EXCEPT ![t] = Pool!Idle]
         IN  x6' = ts \/ x6' = Pool!Woken(ts, PoolReaders)
  BY <1>1 DEF Pool!WakeReaders, Pool!At
<1>3. Pool!HeldBy(r) = 0 /\ Pool!HeldBy(Pool!Idle) = 0
  BY <1>1, <1>2, PoolHeld, PoolIdle DEF Pool!ThreadOK, Pool!Crediting, Pool!Accounting,
     Pool!Holding
<1>4. PICK ts : ts = [x6 EXCEPT ![t] = Pool!Idle]
  OBVIOUS
<1>5. x8' \in Int /\ Pool!HeldBy(Pool!Idle) - x8' <= Pool!HeldBy(x6[t]) - x8
  BY <1>1, <1>2, <1>3, PoolTypes
<1>6. x6' = ts \/ x6' = Pool!Woken(ts, PoolReaders)
  BY <1>2, <1>4
<1> QED
  BY <1>2, <1>4, <1>5, <1>6, PoolIdle, PoolLocal

LEMMA PoolWakeWriters ==
  ASSUME Pool!IInv, NEW t \in Pool!Threads, Pool!WakeWriters(t)
  PROVE  Pool!IInv'
<1>1. PICK r \in Pool!ThreadStates : r = x6[t] /\ Pool!ThreadOK(r)
  BY PoolTypes
<1>2. PICK s : s = [r EXCEPT !.pc = r.then]
  OBVIOUS
<1>3. PICK ts : ts = [x6 EXCEPT ![t] = s]
  OBVIOUS
<1>4. ts = [x6 EXCEPT ![t].pc = x6[t].then]
  BY <1>1, <1>2, <1>3, PoolTypes
<1>5. /\ r.pc = "wake_writers" /\ x1' = x1 /\ x8' = x8
      /\ x6' = ts \/ x6' = Pool!Woken(ts, {"hwrng"})
  BY <1>1, <1>4 DEF Pool!WakeWriters, Pool!At
<1>6. r.then \in {"reseeded", "pulled", "read"}
  BY <1>1, <1>5 DEF Pool!ThreadOK
<1>7. s \in Pool!ThreadStates /\ s.pc \in {"reseeded", "pulled", "read"} /\ s.got = r.got
  BY <1>2, <1>6 DEF Pool!ThreadStates, Pool!Holding
<1>8. Pool!ThreadOK(s)
  BY <1>7 DEF Pool!ThreadOK, Pool!Crediting, Pool!Accounting, Pool!Holding
<1>9. Pool!HeldBy(s) = Pool!HeldBy(r)
  BY <1>5, <1>7, PoolHeld DEF Pool!Crediting
<1>10. x8' \in Int /\ Pool!HeldBy(s) - x8' <= Pool!HeldBy(x6[t]) - x8
  BY <1>1, <1>5, <1>9, PoolTypes
<1> QED
  BY <1>3, <1>5, <1>7, <1>8, <1>10, PoolLocal

LEMMA PoolPulled ==
  ASSUME Pool!IInv, NEW t \in Pool!Threads, Pool!Pulled(t)
  PROVE  Pool!IInv'
<1>1. PICK r \in Pool!ThreadStates : r = x6[t] /\ Pool!ThreadOK(r)
  BY PoolTypes
<1>2. r.pc = "pulled" /\ x1' = x1 /\ x8' = x8
  BY <1>1 DEF Pool!Pulled, Pool!At
<1>3. Pool!HeldBy(r) = r.got * Pool!ByteFrac /\ r.got * Pool!ByteFrac \in Nat
  BY <1>2, PoolHeld DEF Pool!Crediting
<1>4. PICK then \in {"idle", "take"} :
        IF r.got = 0 THEN x6' = [x6 EXCEPT ![t] = [Pool!Idle EXCEPT !.pc = then]]
        ELSE Pool!CreditCall(t, "blocking", r.got * Pool!ByteFrac, then)
  BY <1>1 DEF Pool!Pulled
<1>5. CASE r.got = 0
  <2>1. PICK s : s = [Pool!Idle EXCEPT !.pc = then]
    OBVIOUS
  <2>2. s \in Pool!ThreadStates /\ s.pc = then /\ s.got = 0
    BY <2>1 DEF Pool!Idle, Pool!ThreadStates, Pool!Pools
  <2>3. Pool!ThreadOK(s)
    BY <2>2 DEF Pool!ThreadOK, Pool!Crediting, Pool!Accounting, Pool!Holding
  <2>4. Pool!HeldBy(s) = 0 /\ Pool!HeldBy(r) = 0
    BY <1>2, <1>5, <2>2, PoolHeld DEF Pool!Crediting
  <2>5. x6' = [x6 EXCEPT ![t] = s]
    BY <1>4, <1>5, <2>1
  <2> QED
    BY <1>1, <1>2, <2>2, <2>3, <2>4, <2>5, PoolMoves
<1>6. CASE r.got # 0
  <2>1. PICK n \in Nat : n = r.got * Pool!ByteFrac
    BY <1>3
  <2>2. PICK s : s = [Pool!Idle EXCEPT !.pc = "credit", !.pool = "blocking", !.n = n,
         !.then = then]
    OBVIOUS
  <2>3. s \in Pool!ThreadStates /\ Pool!ThreadOK(s) /\ Pool!HeldBy(s) = n
    BY <2>2, PoolCalls DEF Pool!Pools
  <2>4. x6' = [x6 EXCEPT ![t] = s]
    BY <1>4, <1>6, <2>1, <2>2 DEF Pool!CreditCall
  <2> QED
    BY <1>1, <1>2, <1>3, <2>1, <2>3, <2>4, PoolMoves
<1> QED
  BY <1>5, <1>6

LEMMA PoolTake ==
  ASSUME Pool!IInv, NEW t \in Pool!Threads, Pool!Take(t)
  PROVE  Pool!IInv'
<1>1. PICK r \in Pool!ThreadStates : r = x6[t] /\ Pool!ThreadOK(r)
  BY PoolTypes
<1>2. r.pc = "take" /\ x1' = x1 /\ x8' = x8
  BY <1>1 DEF Pool!Take, Pool!At
<1>3. PICK s : s = [Pool!Idle EXCEPT !.pc = "account", !.pool = "blocking", !.n = 1,
         !.then = "read"]
  OBVIOUS
<1>4. s \in Pool!ThreadStates /\ Pool!ThreadOK(s) /\ Pool!HeldBy(s) = 0
  BY <1>3, PoolCalls DEF Pool!Pools
<1>5. Pool!HeldBy(r) = 0
  BY <1>1, <1>2, PoolHeld DEF Pool!ThreadOK, Pool!Crediting, Pool!Accounting, Pool!Holding
<1>6. x6' = [x6 EXCEPT ![t] = s]
  BY <1>3 DEF Pool!Take, Pool!AccountCall
<1> QED
  BY <1>1, <1>2, <1>4, <1>5, <1>6, PoolMoves

LEMMA PoolPulledBytes ==
  ASSUME NEW n \in Nat
  PROVE  Pool!PulledBytes(n) \in Nat
<1>1. PoolReadWakeup \div PoolByteBits \in Nat
  BY PoolNumbers, DivTimes
<1>2. PICK q \in Nat : q = PoolReadWakeup \div PoolByteBits
  BY <1>1
<1>3. Pool!Max({n, q}) \in Nat
  BY DEF Pool!Max
<1> QED
  BY <1>2, <1>3 DEF Pool!PulledBytes

LEMMA PoolXfer ==
  ASSUME Pool!IInv, NEW t \in Pool!Threads, Pool!Xfer(t)
  PROVE  Pool!IInv'
<1>1. PICK r \in Pool!ThreadStates : r = x6[t] /\ Pool!ThreadOK(r)
  BY PoolTypes
<1>2. r.pc = "xfer" /\ x1' = x1 /\ x8' = x8
  BY <1>1 DEF Pool!Xfer, Pool!At
<1>3. Pool!HeldBy(r) = 0
  BY <1>1, <1>2, PoolHeld DEF Pool!ThreadOK, Pool!Crediting, Pool!Accounting, Pool!Holding
<1>4. CASE Pool!To(t, "take")
  <2>1. PICK s : s = [r EXCEPT !.pc = "take"]
    OBVIOUS
  <2>2. x6' = [x6 EXCEPT ![t] = s]
    BY <1>1, <1>4, <2>1, PoolTypes DEF Pool!To
  <2>3. s \in Pool!ThreadStates /\ s.pc = "take" /\ s.got = r.got
    BY <2>1 DEF Pool!ThreadStates
  <2>4. r.got = 0 /\ Pool!ThreadOK(s)
    BY <1>1, <1>2, <2>3 DEF Pool!ThreadOK, Pool!Crediting, Pool!Accounting, Pool!Holding
  <2>5. Pool!HeldBy(s) = 0
    BY <2>3, <2>4, PoolHeld DEF Pool!Crediting
  <2> QED
    BY <1>1, <1>2, <1>3, <2>2, <2>3, <2>4, <2>5, PoolMoves
<1>5. CASE Pool!AccountCall(t, "input", Pool!PulledBytes(1), "pulled")
  <2>1. PICK n \in Nat : n = Pool!PulledBytes(1)
    BY PoolPulledBytes
  <2>2. PICK s : s = [Pool!Idle EXCEPT !.pc = "account", !.pool = "input", !.n = n,
         !.then = "pulled"]
    OBVIOUS
  <2>3. s \in Pool!ThreadStates /\ Pool!ThreadOK(s) /\ Pool!HeldBy(s) = 0
    BY <2>2, PoolCalls DEF Pool!Pools
  <2>4. x6' = [x6 EXCEPT ![t] = s]
    BY <1>5, <2>1, <2>2 DEF Pool!AccountCall
  <2> QED
    BY <1>1, <1>2, <1>3, <2>3, <2>4, PoolMoves
<1> QED
  BY <1>4, <1>5 DEF Pool!Xfer

LEMMA PoolPush ==
  ASSUME Pool!IInv, Pool!Push
  PROVE  Pool!IInv'
<1>1. PICK t \in Pool!Threads : t = "push"
  BY DEF Pool!Threads
<1>2. PICK r \in Pool!ThreadStates : r = x6[t] /\ Pool!ThreadOK(r)
  BY PoolTypes
<1>3. r.pc = "idle" /\ x1' = x1 /\ x8' = x8
  BY <1>1, <1>2 DEF Pool!Push, Pool!At
<1>4. Pool!HeldBy(r) = 0
  BY <1>2, <1>3, PoolHeld DEF Pool!ThreadOK, Pool!Crediting, Pool!Accounting, Pool!Holding
<1>5. PICK n \in Nat : n = Pool!PulledBytes(0)
  BY PoolPulledBytes
<1>6. PICK s : s = [Pool!Idle EXCEPT !.pc = "account", !.pool = "input", !.n = n,
         !.then = "pulled"]
  OBVIOUS
<1>7. s \in Pool!ThreadStates /\ Pool!ThreadOK(s) /\ Pool!HeldBy(s) = 0
  BY <1>6, PoolCalls DEF Pool!Pools
<1>8. x6' = [x6 EXCEPT ![t] = s]
  BY <1>1, <1>5, <1>6 DEF Pool!Push, Pool!AccountCall
<1> QED
  BY <1>2, <1>3, <1>4, <1>7, <1>8, PoolMoves

LEMMA PoolSource ==
  ASSUME Pool!IInv, Pool!Source
  PROVE  Pool!IInv'
<1>1. PICK t \in Pool!Threads : t = "source"
  BY DEF Pool!Threads
<1>2. PICK r \in Pool!ThreadStates : r = x6[t] /\ Pool!ThreadOK(r)
  BY PoolTypes
<1>3. r.pc \in {"idle"} /\ x1' = x1 /\ x8' = x8
  BY <1>1, <1>2 DEF Pool!Source, Pool!At
<1>4. r.got = 0 /\ Pool!HeldBy(r) = 0
  BY <1>2, <1>3, PoolHeld DEF Pool!ThreadOK, Pool!Crediting, Pool!Accounting, Pool!Holding
<1>5. ASSUME NEW m \in PoolCredits, Pool!CreditCall("source", "input", m * PoolBitFrac, "idle")
      PROVE  Pool!IInv'
  <2>1. PICK n \in Nat : n = m * PoolBitFrac
    BY PoolNumbers
  <2>2. PICK s : s = [Pool!Idle EXCEPT !.pc = "credit", !.pool = "input", !.n = n,
         !.then = "idle"]
    OBVIOUS
  <2>3. s \in Pool!ThreadStates /\ Pool!ThreadOK(s) /\ Pool!HeldBy(s) = 0
    BY <2>2, PoolCalls DEF Pool!Pools
  <2>4. x6' = [x6 EXCEPT ![t] = s]
    BY <1>1, <1>5, <2>1, <2>2 DEF Pool!CreditCall
  <2> QED
    BY <1>2, <1>3, <1>4, <2>3, <2>4, PoolMoves
<1> QED
  BY <1>5 DEF Pool!Source

LEMMA PoolHwrng ==
  ASSUME Pool!IInv, Pool!Hwrng
  PROVE  Pool!IInv'
<1>1. PICK t \in Pool!Threads : t = "hwrng"
  BY DEF Pool!Threads
<1>2. PICK r \in Pool!ThreadStates : r = x6[t] /\ Pool!ThreadOK(r)
  BY PoolTypes
<1>3. r.pc \in {"idle", "wakes"} /\ x1' = x1 /\ x8' = x8
  BY <1>1, <1>2 DEF Pool!Hwrng, Pool!At
<1>4. r.got = 0 /\ Pool!HeldBy(r) = 0
  BY <1>2, <1>3, PoolHeld DEF Pool!ThreadOK, Pool!Crediting, Pool!Accounting, Pool!Holding
<1>5. ASSUME NEW m \in PoolCredits, Pool!CreditCall("hwrng", "input", m * PoolBitFrac, "idle")
      PROVE  Pool!IInv'
  <2>1. PICK n \in Nat : n = m * PoolBitFrac
    BY PoolNumbers
  <2>2. PICK s : s = [Pool!Idle EXCEPT !.pc = "credit", !.pool = "input", !.n = n,
         !.then = "idle"]
    OBVIOUS
  <2>3. s \in Pool!ThreadStates /\ Pool!ThreadOK(s) /\ Pool!HeldBy(s) = 0
    BY <2>2, PoolCalls DEF Pool!Pools
  <2>4. x6' = [x6 EXCEPT ![t] = s]
    BY <1>1, <1>5, <2>1, <2>2 DEF Pool!CreditCall
  <2> QED
    BY <1>2, <1>3, <1>4, <2>3, <2>4, PoolMoves
<1>6. CASE Pool!To("hwrng", "asleep")
  <2>1. PICK s : s = [r EXCEPT !.pc = "asleep"]
    OBVIOUS
  <2>2. x6' = [x6 EXCEPT ![t] = s]
    BY <1>1, <1>2, <1>6, <2>1, PoolTypes DEF Pool!To
  <2>3. s \in Pool!ThreadStates /\ s.pc = "asleep" /\ s.got = 0
    BY <1>4, <2>1 DEF Pool!ThreadStates
  <2>4. Pool!ThreadOK(s)
    BY <2>3 DEF Pool!ThreadOK, Pool!Crediting, Pool!Accounting, Pool!Holding
  <2>5. Pool!HeldBy(s) = 0
    BY <2>3, PoolHeld DEF Pool!Crediting
  <2> QED
    BY <1>2, <1>3, <1>4, <2>2, <2>3, <2>4, <2>5, PoolMoves
<1> QED
  BY <1>5, <1>6 DEF Pool!Hwrng

LEMMA PoolReadDone ==
  ASSUME Pool!IInv, NEW t \in Pool!Threads, Pool!ReadDone(t)
  PROVE  Pool!IInv'
<1>1. PICK r \in Pool!ThreadStates : r = x6[t] /\ Pool!ThreadOK(r)
  BY PoolTypes
<1>2. r.pc = "read" /\ x1' = x1 /\ x8' = x8 - r.got * Pool!ByteFrac
  BY <1>1 DEF Pool!ReadDone, Pool!At
<1>3. PICK pc \in {"idle", "xfer",
         "asleep"} : x6' = [x6 EXCEPT ![t] = [Pool!Idle EXCEPT !.pc = pc]]
  <2>1. CASE x6' = [x6 EXCEPT ![t] = Pool!Idle]
    <3>1. Pool!Idle = [Pool!Idle EXCEPT !.pc = "idle"]
      BY DEF Pool!Idle
    <3> QED
      BY <2>1, <3>1
  <2>2. CASE x6' = [x6 EXCEPT ![t] = [Pool!Idle EXCEPT !.pc = Pool!WaitsFor(t)]]
    BY <2>2 DEF Pool!WaitsFor
  <2> QED
    BY <2>1, <2>2 DEF Pool!ReadDone
<1>4. PICK s : s = [Pool!Idle EXCEPT !.pc = pc]
  OBVIOUS
<1>5. s \in Pool!ThreadStates /\ s.pc = pc /\ s.got = 0
  BY <1>4 DEF Pool!Idle, Pool!ThreadStates, Pool!Pools
<1>6. Pool!ThreadOK(s)
  BY <1>5 DEF Pool!ThreadOK, Pool!Crediting, Pool!Accounting, Pool!Holding
<1>7. Pool!HeldBy(s) = 0 /\ Pool!HeldBy(r) = r.got * Pool!ByteFrac
        /\ r.got * Pool!ByteFrac \in Nat
  BY <1>2, <1>5, PoolHeld DEF Pool!Crediting
<1>8. x8' \in Int /\ Pool!HeldBy(s) - x8' <= Pool!HeldBy(x6[t]) - x8
  BY <1>1, <1>2, <1>7, PoolTypes
<1>9. x6' = [x6 EXCEPT ![t] = s]
  BY <1>3, <1>4
<1> QED
  BY <1>2, <1>5, <1>6, <1>8, <1>9, PoolLocal

LEMMA PoolZap ==
  ASSUME Pool!IInv, Pool!Zap
  PROVE  Pool!IInv'
<1>1. PICK t \in Pool!Threads : t = "push"
  BY DEF Pool!Threads
<1>2. PICK r \in Pool!ThreadStates : r = x6[t] /\ Pool!ThreadOK(r)
  BY PoolTypes
<1>3. x6' = [x6 EXCEPT ![t] = r] /\ x8' = x8
  BY <1>2, PoolTypes DEF Pool!Zap
<1>4. x1' = [x1 EXCEPT !["input"] = 0, !["blocking"] = 0]
  BY PoolTypes DEF Pool!Zap, Pool!Pools
<1>5. x8' \in Int
        /\ 0 + 0 + Pool!HeldBy(r) - x8' <= x1["input"] + x1["blocking"] + Pool!HeldBy(x6[t]) - x8
  BY <1>2, <1>3, PoolTypes
<1>6. 0 \in 0 .. PoolInputSize /\ 0 \in 0 .. PoolBlockingSize
  BY PoolNumbers
<1> QED
  BY <1>2, <1>3, <1>4, <1>5, <1>6, PoolStep

LEMMA PoolInit ==
  ASSUME Pool!Init
  PROVE  Pool!IInv
<1>1. x1 = [r \in Pool!Pools |-> 0] /\ x6 = [t \in Pool!Threads |-> Pool!Idle] /\ x8 = 0
  BY DEF Pool!Init
<1>2. Pool!Idle \in Pool!ThreadStates /\ Pool!ThreadOK(Pool!Idle)
  BY DEF Pool!Idle, Pool!ThreadStates, Pool!Pools, Pool!ThreadOK, Pool!Crediting,
     Pool!Accounting, Pool!Holding
<1>3. Pool!HeldBy(Pool!Idle) = 0
  BY <1>2, PoolHeld DEF Pool!Idle, Pool!Crediting
<1>4. Pool!TypeOK /\ Pool!ThreadsInv
  BY <1>1, <1>2 DEF Pool!TypeOK, Pool!ThreadsInv
<1>5. Pool!SumFunction(Pool!Held) = 0
  <2>1. DOMAIN Pool!Held = Pool!Threads
    BY DEF Pool!Held
  <2>2. \A t \in Pool!Threads : Pool!Held[t] = 0
    BY <1>1, <1>3 DEF Pool!Held
  <2> QED
    BY <2>1, <2>2, PoolThreads, PoolSumZero
<1>6. x1["input"] = 0 /\ x1["blocking"] = 0 /\ \A r \in Pool!Pools : x1[r] = 0
  BY <1>1 DEF Pool!Pools
<1>7. \A r \in Pool!Pools : 0 \in 0 .. Pool!Size(r)
  BY PoolNumbers DEF Pool!Size
<1>8. Pool!NeverOverestimates
  BY <1>1, <1>5, <1>6, <1>7 DEF Pool!NeverOverestimates
<1> QED
  BY <1>4, <1>8 DEF Pool!IInv

LEMMA PoolNext ==
  ASSUME Pool!IInv, Pool!Next
  PROVE  Pool!IInv'
<1>1. CASE \E t \in Pool!Threads : Pool!Step(t)
  <2>1. PICK t \in Pool!Threads : Pool!Step(t)
    BY <1>1
  <2>2. CASE Pool!CreditRead(t) \/ Pool!CreditSwap(t) \/ Pool!CreditTotal(t)
             \/ Pool!CreditReseed(t) \/ Pool!Reseeded(t)
    BY <2>2, PoolCreditRead, PoolCreditSwap, PoolCreditTotal, PoolCreditReseed, PoolReseeded
  <2>3. CASE Pool!WakeReaders(t) \/ Pool!AccountRead(t) \/ Pool!AccountSwap(t)
             \/ Pool!WakeWriters(t) \/ Pool!Pulled(t)
    BY <2>3, PoolWakeReaders, PoolAccountRead, PoolAccountSwap, PoolWakeWriters, PoolPulled
  <2>4. CASE Pool!Xfer(t) \/ Pool!Take(t) \/ Pool!ReadDone(t) \/ Pool!ReadWakes(t)
    BY <2>4, PoolXfer, PoolTake, PoolReadDone, PoolReadWakes
  <2> QED
    BY <2>1, <2>2, <2>3, <2>4 DEF Pool!Step
<1>2. CASE \E t \in PoolReaders : Pool!Read(t)
  BY <1>2, PoolRead
<1>3. CASE Pool!Push \/ Pool!Source \/ Pool!Hwrng \/ Pool!Zap
  BY <1>3, PoolPush, PoolSource, PoolHwrng, PoolZap
<1> QED
  BY <1>1, <1>2, <1>3 DEF Pool!Next

\* Threads race for the counts without a lock: what one credits or takes, it
\* credits to or takes from the count it has seen; the loop of
\* credit_entropy_bits adds at most what it is given and stops at the pool's
\* size; what has been taken is held by one thread until it is credited or
\* delivered. So entropy is never counted twice, for pools of any size and any
\* finite set of readers (credit_entropy_bits, account, _xfer_secondary_pool).
THEOREM NeverOverestimatesAlways == Spec => []NeverOverestimates
<1> DEFINE Inv == which = "pool" => Pool!IInv
<1>1. ASSUME Init PROVE Inv
  BY <1>1, PoolInit DEF Init
<1>2. ASSUME Inv, [Next]_vars PROVE Inv'
  <2>1. CASE which = "pool" /\ Next
    <3>1. which' = "pool" /\ Pool!Next
      BY <2>1 DEF Next
    <3> QED
      BY <1>2, <2>1, <3>1, PoolNext
  <2>2. CASE which # "pool" /\ Next
    BY <2>2 DEF Next
  <2>3. CASE UNCHANGED vars
    <3>1. UNCHANGED <<which, x1, x6, x8>>
      BY <2>3 DEF vars
    <3>2. Pool!Held' = Pool!Held
      BY <3>1 DEF Pool!Held, Pool!HeldBy
    <3>3. Pool!IInv => Pool!IInv'
      BY <3>1, <3>2 DEF Pool!IInv, Pool!TypeOK, Pool!ThreadsInv, Pool!NeverOverestimates
    <3> QED
      BY <1>2, <3>1, <3>3
  <2> QED
    BY <1>2, <2>1, <2>2, <2>3
<1>3. ASSUME Inv PROVE NeverOverestimates
  BY <1>3 DEF NeverOverestimates, Pool!IInv
<1> QED
  BY <1>1, <1>2, <1>3, PTL DEF Spec

(***************************************************************************)
(* The keyboard driver (AtkbdDrv). First what its helpers make of a        *)
(* configuration and which sets a keyboard takes, then the actions.        *)
(***************************************************************************)

LEMMA DrvMade ==
  ASSUME NEW c \in Drv!Configs
  PROVE  /\ Drv!Attrs(c) \in Drv!Identities /\ Drv!Table(c) \in Drv!Tables
         /\ Drv!NewDev(c) \in Drv!InputDevs
<1>1. Drv!Attrs(c) \in Drv!Identities
  BY DEF Drv!Configs, Drv!Attrs, Drv!Xl, Drv!Identities
<1>2. Drv!Table(c) \in Drv!Tables
  BY DEF Drv!Configs, Drv!Table, Drv!Xl, Drv!Tables
<1>3. Drv!NewDev(c) \in Drv!InputDevs
  BY <1>1 DEF Drv!NewDev, Drv!InputDevs, Drv!Leds, Drv!Reps
<1> QED
  BY <1>1, <1>2, <1>3

LEMMA DrvNoDev == Drv!NoDev \in Drv!InputDevs /\ Drv!NoDev.st = "none"
<1>1. PICK c \in Drv!Configs : Drv!NoDev = [Drv!NewDev(c) EXCEPT !.st = "none"]
  BY DEF Drv!NoDev, Drv!Config, Drv!Configs
<1>2. Drv!NewDev(c) \in Drv!InputDevs
  BY DrvMade
<1> QED
  BY <1>1, <1>2 DEF Drv!InputDevs

LEMMA DrvSelect ==
  ASSUME x1 \in DrvKinds, Drv!Write, NEW k \in Drv!Keyboards, NEW t \in Drv!Sets,
         NEW al \in Drv!Flags, NEW f \in Drv!Flags
  PROVE  Drv!Selection(Drv!SelectSet(k, t, al, f), k, t, al, f)
<1>1. /\ x1 \in Drv!AllKinds \ {"readonly"} /\ k.set \in Drv!Sets /\ 2 \in Drv!Sets
      /\ 3 \in Drv!Sets
  BY DrvPartAssumption DEF Drv!DrvAssumption, Drv!Keyboards, Drv!Sets, Drv!Write
<1>2. CASE x1 = "translated"
  <2>1. Drv!SelectSet(k, t, al, f) = [set |-> 2, extra |-> FALSE, kb |-> [k EXCEPT !.set = k.set]]
    BY <1>2 DEF Drv!SelectSet, Drv!Sets, Drv!Flags, Drv!Xl
  <2>2. /\ FALSE \in Drv!Flags
        /\ FALSE <=> x1 = "extra" /\ al
        /\ x1 \in {"translated", "omnikey"} => 2 = 2
        /\ x1 = "ncd" => 2 = 3
        /\ k.set = Drv!NativeSet /\ ~f /\ ~al /\ x1 # "set2only" => k.set = 2
        /\ ~f /\ ~al /\ x1 \in {"plain", "extra"} => 2 = t
    BY <1>1, <1>2 DEF Drv!NativeSet, Drv!Sets, Drv!Flags
  <2> QED
    BY <1>1, <2>1, <2>2, Zenon DEF Drv!Selection
<1>3. CASE x1 = "ncd"
  <2>1. Drv!SelectSet(k, t, al, f) = [set |-> 3, extra |-> FALSE, kb |-> [k EXCEPT !.set = 3]]
    BY <1>3 DEF Drv!SelectSet, Drv!Sets, Drv!Flags, Drv!Xl
  <2>2. /\ FALSE \in Drv!Flags
        /\ FALSE <=> x1 = "extra" /\ al
        /\ x1 \in {"translated", "omnikey"} => 3 = 2
        /\ x1 = "ncd" => 3 = 3
        /\ k.set = Drv!NativeSet /\ ~f /\ ~al /\ x1 # "set2only" => 3 = 3
        /\ ~f /\ ~al /\ x1 \in {"plain", "extra"} => 3 = t
    BY <1>1, <1>3 DEF Drv!NativeSet, Drv!Sets, Drv!Flags
  <2> QED
    BY <1>1, <2>1, <2>2, Zenon DEF Drv!Selection
<1>4. CASE x1 = "extra" /\ al
  <2>1. Drv!SelectSet(k, t, al, f) = [set |-> 2, extra |-> TRUE, kb |-> [k EXCEPT !.set = k.set]]
    BY <1>4 DEF Drv!SelectSet, Drv!Sets, Drv!Flags, Drv!Xl
  <2>2. /\ TRUE \in Drv!Flags
        /\ TRUE <=> x1 = "extra" /\ al
        /\ x1 \in {"translated", "omnikey"} => 2 = 2
        /\ x1 = "ncd" => 2 = 3
        /\ k.set = Drv!NativeSet /\ ~f /\ ~al /\ x1 # "set2only" => k.set = 2
        /\ ~f /\ ~al /\ x1 \in {"plain", "extra"} => 2 = t
    BY <1>1, <1>4 DEF Drv!NativeSet, Drv!Sets, Drv!Flags
  <2> QED
    BY <1>1, <2>1, <2>2, Zenon DEF Drv!Selection
<1>5. CASE x1 \notin {"translated", "ncd"} /\ ~(x1 = "extra" /\ al) /\ t = 2
  <2>1. Drv!SelectSet(k, t, al, f) = [set |-> 2, extra |-> FALSE, kb |-> [k EXCEPT !.set = k.set]]
    BY <1>5 DEF Drv!SelectSet, Drv!Sets, Drv!Flags, Drv!Xl
  <2>2. /\ FALSE \in Drv!Flags
        /\ FALSE <=> x1 = "extra" /\ al
        /\ x1 \in {"translated", "omnikey"} => 2 = 2
        /\ x1 = "ncd" => 2 = 3
        /\ k.set = Drv!NativeSet /\ ~f /\ ~al /\ x1 # "set2only" => k.set = 2
        /\ ~f /\ ~al /\ x1 \in {"plain", "extra"} => 2 = t
    BY <1>1, <1>5 DEF Drv!NativeSet, Drv!Sets, Drv!Flags
  <2> QED
    BY <1>1, <2>1, <2>2, Zenon DEF Drv!Selection
<1>6. CASE t = 3 /\ x1 = "omnikey"
  <2>1. Drv!SelectSet(k, t, al, f) = [set |-> 2, extra |-> FALSE, kb |-> [k EXCEPT !.set = k.set]]
    BY <1>6 DEF Drv!SelectSet, Drv!Sets, Drv!Flags, Drv!Xl
  <2>2. /\ FALSE \in Drv!Flags
        /\ FALSE <=> x1 = "extra" /\ al
        /\ x1 \in {"translated", "omnikey"} => 2 = 2
        /\ x1 = "ncd" => 2 = 3
        /\ k.set = Drv!NativeSet /\ ~f /\ ~al /\ x1 # "set2only" => k.set = 2
        /\ ~f /\ ~al /\ x1 \in {"plain", "extra"} => 2 = t
    BY <1>1, <1>6 DEF Drv!NativeSet, Drv!Sets, Drv!Flags
  <2> QED
    BY <1>1, <2>1, <2>2, Zenon DEF Drv!Selection
<1>7. CASE t = 3 /\ x1 = "set2only"
  <2>1. Drv!SelectSet(k, t, al, f) = [set |-> 3, extra |-> FALSE, kb |-> [k EXCEPT !.set = 2]]
    BY <1>7 DEF Drv!SelectSet, Drv!Sets, Drv!Flags, Drv!Xl
  <2>2. /\ FALSE \in Drv!Flags
        /\ FALSE <=> x1 = "extra" /\ al
        /\ x1 \in {"translated", "omnikey"} => 3 = 2
        /\ x1 = "ncd" => 3 = 3
        /\ k.set = Drv!NativeSet /\ ~f /\ ~al /\ x1 # "set2only" => 2 = 3
        /\ ~f /\ ~al /\ x1 \in {"plain", "extra"} => 3 = t
    BY <1>1, <1>7 DEF Drv!NativeSet, Drv!Sets, Drv!Flags
  <2> QED
    BY <1>1, <2>1, <2>2, Zenon DEF Drv!Selection
<1>8. CASE t = 3 /\ (x1 = "plain" \/ (x1 = "extra" /\ ~al)) /\ f
  <2>1. Drv!SelectSet(k, t, al, f) = [set |-> 2, extra |-> FALSE, kb |-> [k EXCEPT !.set = 3]]
    BY <1>8 DEF Drv!SelectSet, Drv!Sets, Drv!Flags, Drv!Xl
  <2>2. /\ FALSE \in Drv!Flags
        /\ FALSE <=> x1 = "extra" /\ al
        /\ x1 \in {"translated", "omnikey"} => 2 = 2
        /\ x1 = "ncd" => 2 = 3
        /\ k.set = Drv!NativeSet /\ ~f /\ ~al /\ x1 # "set2only" => 3 = 2
        /\ ~f /\ ~al /\ x1 \in {"plain", "extra"} => 2 = t
    BY <1>1, <1>8 DEF Drv!NativeSet, Drv!Sets, Drv!Flags
  <2> QED
    BY <1>1, <2>1, <2>2, Zenon DEF Drv!Selection
<1>9. CASE t = 3 /\ (x1 = "plain" \/ (x1 = "extra" /\ ~al)) /\ ~f
  <2>1. Drv!SelectSet(k, t, al, f) = [set |-> 3, extra |-> FALSE, kb |-> [k EXCEPT !.set = 3]]
    BY <1>9 DEF Drv!SelectSet, Drv!Sets, Drv!Flags, Drv!Xl
  <2>2. /\ FALSE \in Drv!Flags
        /\ FALSE <=> x1 = "extra" /\ al
        /\ x1 \in {"translated", "omnikey"} => 3 = 2
        /\ x1 = "ncd" => 3 = 3
        /\ k.set = Drv!NativeSet /\ ~f /\ ~al /\ x1 # "set2only" => 3 = 3
        /\ ~f /\ ~al /\ x1 \in {"plain", "extra"} => 3 = t
    BY <1>1, <1>9 DEF Drv!NativeSet, Drv!Sets, Drv!Flags
  <2> QED
    BY <1>1, <2>1, <2>2, Zenon DEF Drv!Selection
<1> QED
  BY <1>1, <1>2, <1>3, <1>4, <1>5, <1>6, <1>7, <1>8, <1>9 DEF Drv!AllKinds, Drv!Sets

LEMMA DrvUnset == Drv!Unset \in Drv!Atkbds
<1>1. PICK c \in Drv!Configs : Drv!Unset = [cfg |-> c, map |-> Drv!Table(c), dev |-> 1]
  BY DEF Drv!Unset, Drv!Config, Drv!Configs
<1> QED
  BY <1>1, DrvMade DEF Drv!Atkbds, Drv!Devs

LEMMA DrvConnectShape ==
  ASSUME Drv!IInv, Drv!Connect
  PROVE  \/ x18' = {"probe"} /\ "probe" \in DrvFailures /\ UNCHANGED <<x2, x3, x5, x7>>
         \/ \E c \in Drv!Configs, k \in Drv!Keyboards :
               /\ x2' = "created" /\ x3' = [cfg |-> c, map |-> Drv!Table(c), dev |-> 1]
               /\ x5' = [x5 EXCEPT ![1] = Drv!NewDev(c)] /\ x7' = k /\ UNCHANGED x18
               /\ c.set # 0 /\ c.extra = FALSE
               /\ Drv!Write => /\ x1 \in {"translated", "omnikey"} => c.set = 2
                               /\ x1 = "ncd" => c.set = 3
                               /\ x1 # "set2only" => k.set = c.set
<1> DEFINE S(p) == IF Drv!Write THEN Drv!SelectSet(Drv!Deactivated(x7), p, FALSE, FALSE)
                   ELSE [set |-> 2, extra |-> FALSE, kb |-> x7]
           C(s) == Drv!Config(s.set, s.extra)
<1>1. PICK p \in DrvParams, no \in Drv!MayFail("probe") :
         IF no /\ Drv!Write
         THEN Drv!Fails("probe", TRUE) /\ UNCHANGED <<x2, x3, x5, x7>>
         ELSE /\ x7' = IF Drv!Write THEN Drv!ResetState(S(p).kb) ELSE x7
              /\ x3' = [cfg |-> C(S(p)), map |-> Drv!Table(C(S(p))), dev |-> 1]
              /\ x5' = [x5 EXCEPT ![1] = Drv!NewDev(C(S(p)))]
              /\ x2' = "created" /\ UNCHANGED x18
  BY Zenon DEF Drv!Connect
<1>2. CASE no /\ Drv!Write
  <2>1. x18' = {"probe"} /\ UNCHANGED <<x2, x3, x5, x7>>
    BY <1>1, <1>2, Zenon DEF Drv!Fails
  <2>2. "probe" \in DrvFailures
    BY <1>2 DEF Drv!MayFail
  <2> QED
    BY <2>1, <2>2
<1>3. CASE ~(no /\ Drv!Write)
  <2>1. PICK s : s = S(p)
    BY Zenon
  <2>2. /\ x7' = IF Drv!Write THEN Drv!ResetState(s.kb) ELSE x7
        /\ x3' = [cfg |-> C(s), map |-> Drv!Table(C(s)), dev |-> 1]
        /\ x5' = [x5 EXCEPT ![1] = Drv!NewDev(C(s))]
        /\ x2' = "created" /\ UNCHANGED x18
    BY <1>1, <1>3, <2>1, Zenon
  <2>3. Drv!Deactivated(x7) \in Drv!Keyboards /\ Drv!Deactivated(x7).set = Drv!NativeSet
    BY DEF Drv!IInv, Drv!DataOK, Drv!Deactivated, Drv!Keyboards, Drv!Sets, Drv!Reps,
       Drv!NativeSet
  <2>4. CASE Drv!Write
    <3>1. x1 \in DrvKinds /\ p \in Drv!Sets
      BY DrvPartAssumption DEF Drv!IInv, Drv!DataOK, Drv!DrvAssumption, Drv!Sets
    <3>2. PICK set \in Drv!Sets, extra \in Drv!Flags, kset \in Drv!Sets :
             /\ s = [set |-> set, extra |-> extra, kb |-> [Drv!Deactivated(x7) EXCEPT !.set = kset]]
             /\ extra <=> x1 = "extra" /\ FALSE
             /\ x1 \in {"translated", "omnikey"} => set = 2
             /\ x1 = "ncd" => set = 3
             /\ Drv!Deactivated(x7).set = Drv!NativeSet /\ ~FALSE /\ ~FALSE /\ x1 # "set2only" =>
                   kset = set
             /\ ~FALSE /\ ~FALSE /\ x1 \in {"plain", "extra"} => set = p
      <4>1. s = Drv!SelectSet(Drv!Deactivated(x7), p, FALSE, FALSE)
        BY <2>1, <2>4, Zenon
      <4>2. FALSE \in Drv!Flags
        BY DEF Drv!Flags
      <4>3. Drv!Selection(s, Drv!Deactivated(x7), p, FALSE, FALSE)
        BY <2>3, <2>4, <3>1, <4>1, <4>2, DrvSelect, Zenon
      <4> QED
        BY <4>3, Zenon DEF Drv!Selection
    <3>3. extra = FALSE
      BY <3>2
    <3>4. PICK c \in Drv!Configs : c = C(s) /\ c.set = set /\ c.extra = FALSE
      <4>1. s.set = set /\ s.extra = FALSE
        BY <3>2, <3>3
      <4>2. C(s) \in Drv!Configs /\ C(s).set = set /\ C(s).extra = FALSE
        BY <4>1 DEF Drv!Config, Drv!Configs, Drv!Sets
      <4> QED
        BY <4>2
    <3>5. PICK k \in Drv!Keyboards : k = Drv!ResetState(s.kb) /\ k.set = kset
      <4> DEFINE d == Drv!Deactivated(x7)
      <4> HIDE DEF d
      <4>1. d \in Drv!Keyboards /\ s.kb = [d EXCEPT !.set = kset]
        BY <2>3, <3>2 DEF d
      <4>2. QED
        <5>1. s.kb \in Drv!Keyboards /\ s.kb.set = kset
          BY <4>1 DEF Drv!Keyboards, Drv!Sets
        <5>2. Drv!ResetState(s.kb) \in Drv!Keyboards /\ Drv!ResetState(s.kb).set = kset
          BY <5>1 DEF Drv!ResetState, Drv!Keyboards, Drv!Sets, Drv!Leds, Drv!Reps
        <5> QED
          BY <5>2
    <3> HIDE DEF S, C
    <3>6. /\ x7' = k /\ x2' = "created" /\ UNCHANGED x18
          /\ x3' = [cfg |-> c, map |-> Drv!Table(c), dev |-> 1]
          /\ x5' = [x5 EXCEPT ![1] = Drv!NewDev(c)]
      BY <2>2, <2>4, <3>4, <3>5
    <3>7. x1 # "set2only" => k.set = c.set
      BY <2>3, <3>2, <3>4, <3>5
    <3>8. /\ c.set # 0
          /\ x1 \in {"translated", "omnikey"} => c.set = 2
          /\ x1 = "ncd" => c.set = 3
      BY <3>2, <3>4 DEF Drv!Sets
    <3> QED
      BY <3>4, <3>6, <3>7, <3>8, Zenon
  <2>5. CASE ~Drv!Write
    <3>1. s = [set |-> 2, extra |-> FALSE, kb |-> x7]
      BY <2>1, <2>5, Zenon
    <3>2. PICK c \in Drv!Configs : c = C(s) /\ c.set = 2 /\ c.extra = FALSE
      <4>1. s.set = 2 /\ s.extra = FALSE
        BY <3>1
      <4>2. C(s) \in Drv!Configs /\ C(s).set = 2 /\ C(s).extra = FALSE
        BY <4>1 DEF Drv!Config, Drv!Configs, Drv!Sets
      <4> QED
        BY <4>2
    <3> HIDE DEF S, C
    <3>3. x7' = x7 /\ x7 \in Drv!Keyboards /\ c.set # 0
      BY <2>2, <2>5, <3>2 DEF Drv!IInv, Drv!DataOK
    <3>4. /\ x2' = "created" /\ UNCHANGED x18
          /\ x3' = [cfg |-> c, map |-> Drv!Table(c), dev |-> 1]
          /\ x5' = [x5 EXCEPT ![1] = Drv!NewDev(c)]
      BY <2>2, <3>2
    <3> QED
      BY <2>5, <3>2, <3>3, <3>4, Zenon
  <2> QED
    BY <2>4, <2>5
<1> QED
  BY <1>2, <1>3

LEMMA DrvConnect ==
  ASSUME Drv!IInv, Drv!Connect
  PROVE  Drv!IInv'
<1>1. /\ x2 = "unbound" /\ UNCHANGED <<x1, x4, x6, x8, x9, x10, x11, x12, x14>>
      /\ UNCHANGED <<x15, x16, x17, x19, x20>>
  BY DEF Drv!Connect, Drv!sysfs
<1>2. CASE x18' = {"probe"} /\ "probe" \in DrvFailures /\ UNCHANGED <<x2, x3, x5, x7>>
  <2>1. Drv!DataOK' /\ Drv!StateOK'
    BY <1>1, <1>2 DEF Drv!IInv, Drv!DataOK, Drv!StateOK
  <2>2. Drv!MutexInv' /\ Drv!WorkInv'
    BY <1>1, <1>2 DEF Drv!IInv, Drv!MutexInv, Drv!WorkInv
  <2>3. Drv!DeviceInv' /\ Drv!RegisterInv'
    BY <1>1, <1>2 DEF Drv!IInv, Drv!MutexInv, Drv!DeviceInv, Drv!RegisterInv, Drv!ExtraIsReal
  <2>4. Drv!SetsInv'
    BY <1>1, <1>2 DEF Drv!SetsInv
  <2> QED
    BY <2>1, <2>2, <2>3, <2>4 DEF Drv!IInv
<1>3. CASE \E c \in Drv!Configs, k \in Drv!Keyboards :
             /\ x2' = "created" /\ x3' = [cfg |-> c, map |-> Drv!Table(c), dev |-> 1]
             /\ x5' = [x5 EXCEPT ![1] = Drv!NewDev(c)] /\ x7' = k /\ UNCHANGED x18
             /\ c.set # 0 /\ c.extra = FALSE
             /\ Drv!Write => /\ x1 \in {"translated", "omnikey"} => c.set = 2
                             /\ x1 = "ncd" => c.set = 3
                             /\ x1 # "set2only" => k.set = c.set
  <2>1. PICK c \in Drv!Configs, k \in Drv!Keyboards :
             /\ x2' = "created" /\ x3' = [cfg |-> c, map |-> Drv!Table(c), dev |-> 1]
             /\ x5' = [x5 EXCEPT ![1] = Drv!NewDev(c)] /\ x7' = k /\ UNCHANGED x18
             /\ c.set # 0 /\ c.extra = FALSE
             /\ Drv!Write => /\ x1 \in {"translated", "omnikey"} => c.set = 2
                             /\ x1 = "ncd" => c.set = 3
                             /\ x1 # "set2only" => k.set = c.set
    BY <1>3
  <2>2. x3' \in Drv!Atkbds /\ x3'.cfg = c /\ x3'.map = Drv!Table(c) /\ x3'.dev = 1
    BY <2>1, DrvMade DEF Drv!Atkbds, Drv!Devs
  <2>3. Drv!DataOK'
    BY <1>1, <2>1, <2>2, DrvMade DEF Drv!IInv, Drv!DataOK, Drv!Devs
  <2>4. Drv!StateOK' /\ Drv!MutexInv' /\ Drv!WorkInv'
    BY <1>1, <2>1 DEF Drv!IInv, Drv!StateOK, Drv!MutexInv, Drv!WorkInv
  <2>5. Drv!DeviceInv'
    <3>1. x5'[1].st = "allocated" /\ x5'[1].attrs = Drv!Attrs(c) /\ x5'[2].st = "none"
      BY <1>1, <2>1 DEF Drv!IInv, Drv!DataOK, Drv!DeviceInv, Drv!Devs, Drv!NewDev
    <3>2. Drv!DeviceIs(x3.dev, "allocated", {})'
      BY <1>1, <2>2, <3>1 DEF Drv!DeviceIs, Drv!Devs, Drv!Attrs, Drv!Table, Drv!Xl
    <3> QED
      BY <1>1, <2>1, <2>2, <3>2 DEF Drv!DeviceInv, Drv!ExtraIsReal
  <2>6. Drv!RegisterInv' /\ Drv!SetsInv'
    BY <1>1, <2>1, <2>2 DEF Drv!IInv, Drv!MutexInv, Drv!RegisterInv, Drv!SetsInv,
       Drv!Undisturbed, Drv!Write
  <2> QED
    BY <2>3, <2>4, <2>5, <2>6 DEF Drv!IInv
<1> QED
  BY <1>2, <1>3, DrvConnectShape

LEMMA DrvSettings ==
  ASSUME Drv!DataOK, NEW k \in Drv!Keyboards
  PROVE  Drv!Settings(k) \in Drv!Keyboards /\ Drv!Settings(k).set = k.set
<1>1. x5[x3.dev].led \in Drv!Leds /\ x5[x3.dev].rep \in Drv!Reps
  BY DEF Drv!DataOK, Drv!Atkbds, Drv!InputDevs
<1> QED
  BY <1>1 DEF Drv!Settings, Drv!Keyboards

LEMMA DrvRestoreShape ==
  ASSUME Drv!IInv, Drv!ReconnectRestore
  PROVE  \/ ~Drv!Write /\ x2' = "reenable" /\ UNCHANGED <<x3, x7>> /\ x18' \subseteq DrvFailures
         \/ /\ Drv!Write /\ x2' = "giveup" /\ UNCHANGED <<x3, x7>>
            /\ x18' = {"probe"} /\ "probe" \in DrvFailures
         \/ /\ Drv!Write
            /\ \E k \in Drv!Keyboards :
                  /\ x3' = x3 /\ x7' = k
                  /\ x2' \in {"reenable", "giveup"}
                  /\ x18' = x18 \/ (x18' = {"getset"} /\ "getset" \in DrvFailures)
                  /\ x18' = x18 /\ ~x3.cfg.extra /\ x1 # "set2only"
                     /\ (x1 \in {"translated", "omnikey"} => x3.cfg.set = 2)
                     /\ (x1 = "ncd" => x3.cfg.set = 3)
                     => x2' = "reenable" /\ k.set = x3.cfg.set
<1> DEFINE S(noset) == Drv!SelectSet(Drv!Deactivated(x7), x3.cfg.set, x3.cfg.extra, noset)
<1>1. PICK no \in Drv!MayFail("probe"), noset \in Drv!MayFail("getset") :
         /\ x18' = IF no THEN {"probe"} ELSE IF noset THEN {"getset"} ELSE x18
         /\ ~(no /\ noset)
         /\ CASE ~Drv!Write -> x2' = "reenable" /\ UNCHANGED <<x3, x7>>
              [] Drv!Write /\ no -> x2' = "giveup" /\ UNCHANGED <<x3, x7>>
              [] Drv!Write /\ ~no ->
                   /\ x3' = [x3 EXCEPT !.cfg.extra = S(noset).extra]
                   /\ IF S(noset).set = x3.cfg.set
                      THEN x2' = "reenable" /\ x7' = Drv!Settings(S(noset).kb)
                      ELSE x2' = "giveup" /\ x7' = S(noset).kb
  BY Zenon DEF Drv!ReconnectRestore
<1> HIDE DEF S
<1>2. /\ no \in BOOLEAN /\ (no => "probe" \in DrvFailures)
      /\ noset \in BOOLEAN /\ (noset => "getset" \in DrvFailures)
  BY DEF Drv!MayFail
<1>3. x18 \subseteq DrvFailures /\ x1 \in DrvKinds
  BY DEF Drv!IInv, Drv!DataOK
<1>4. CASE ~Drv!Write
  BY <1>1, <1>2, <1>3, <1>4
<1>5. CASE Drv!Write /\ no
  BY <1>1, <1>2, <1>5
<1>6. CASE Drv!Write /\ ~no
  <2>1. Drv!Deactivated(x7) \in Drv!Keyboards /\ Drv!Deactivated(x7).set = Drv!NativeSet
    BY DEF Drv!IInv, Drv!DataOK, Drv!Deactivated, Drv!Keyboards, Drv!Sets, Drv!Reps,
       Drv!NativeSet
  <2>2. x3.cfg.set \in Drv!Sets /\ x3.cfg.extra \in BOOLEAN
    BY DEF Drv!ReconnectRestore, Drv!IInv, Drv!DataOK, Drv!DeviceInv, Drv!Atkbds, Drv!Configs,
       Drv!Sets
  <2>21. PICK al \in Drv!Flags : al = x3.cfg.extra
    BY <2>2, Zenon DEF Drv!Flags
  <2>22. PICK t \in Drv!Sets : t = x3.cfg.set
    BY <2>2 DEF Drv!Sets
  <2>3. PICK set \in Drv!Sets, extra \in Drv!Flags, kset \in Drv!Sets :
           /\ S(noset) = [set |-> set, extra |-> extra, kb |-> [Drv!Deactivated(x7) EXCEPT !.set = kset]]
           /\ extra <=> x1 = "extra" /\ x3.cfg.extra
           /\ x1 \in {"translated", "omnikey"} => set = 2
           /\ x1 = "ncd" => set = 3
           /\ Drv!Deactivated(x7).set = Drv!NativeSet /\ ~noset /\ ~x3.cfg.extra /\ x1 # "set2only" => kset = set
           /\ ~noset /\ ~x3.cfg.extra /\ x1 \in {"plain", "extra"} => set = x3.cfg.set
    <3> USE DEF S
    <3>0. al \in Drv!Flags /\ t \in Drv!Sets
      BY <2>21, <2>22
    <3>1. /\ Drv!Write /\ x1 \in DrvKinds /\ noset \in Drv!Flags
          /\ Drv!Deactivated(x7) \in Drv!Keyboards
      BY <1>2, <1>3, <1>6, <2>1 DEF Drv!Flags
    <3>2. Drv!Selection(Drv!SelectSet(Drv!Deactivated(x7), t, al, noset), Drv!Deactivated(x7), t, al, noset)
      BY <3>0, <3>1, DrvSelect, Zenon
    <3>3. Drv!Selection(S(noset), Drv!Deactivated(x7), x3.cfg.set, x3.cfg.extra, noset)
      BY <2>21, <2>22, <3>2, Zenon
    <3> QED
      BY <3>3, Zenon DEF Drv!Selection
  <2>4. PICK s : s = S(noset)
    OBVIOUS
  <2>5. /\ x3' = [x3 EXCEPT !.cfg.extra = s.extra]
        /\ IF s.set = x3.cfg.set THEN x2' = "reenable" /\ x7' = Drv!Settings(s.kb)
                                 ELSE x2' = "giveup" /\ x7' = s.kb
    BY <1>1, <1>6, <2>4, Zenon
  <2>6. s.set = set /\ s.extra = extra /\ s.kb \in Drv!Keyboards /\ s.kb.set = kset
    <3> DEFINE d == Drv!Deactivated(x7)
    <3>1. /\ s = [set |-> set, extra |-> extra, kb |-> [d EXCEPT !.set = kset]]
          /\ d \in Drv!Keyboards
      BY <2>1, <2>3, <2>4
    <3> HIDE DEF d
    <3> QED
      BY <3>1 DEF Drv!Keyboards, Drv!Sets
  <2>7. x7' \in Drv!Keyboards /\ x7'.set = kset
    BY <2>5, <2>6, DrvSettings DEF Drv!IInv
  <2>8. x18' = x18 \/ (x18' = {"getset"} /\ "getset" \in DrvFailures)
    BY <1>1, <1>2, <1>6
  <2>9. x2' \in {"reenable", "giveup"} /\ x3' = [x3 EXCEPT !.cfg.extra = extra]
    BY <2>5, <2>6
  <2>10. x3' = x3
    <3>1. x3.cfg.extra => x1 = "extra"
      BY DEF Drv!IInv, Drv!DeviceInv, Drv!ExtraIsReal
    <3>2. extra <=> x3.cfg.extra
      BY <2>2, <2>3, <3>1
    <3> QED
      BY <2>9, <3>2 DEF Drv!IInv, Drv!DataOK, Drv!Atkbds, Drv!Configs
  <2>11. ASSUME x18' = x18, ~x3.cfg.extra, x1 # "set2only",
                x1 \in {"translated", "omnikey"} => x3.cfg.set = 2, x1 = "ncd" => x3.cfg.set = 3
         PROVE  x2' = "reenable" /\ kset = x3.cfg.set
    <3>1. ~noset
      BY <1>1, <1>2, <1>6, <2>11 DEF Drv!MayFail
    <3>2. kset = set
      BY <2>1, <2>3, <2>11, <3>1
    <3>3. x1 \in {"translated", "plain", "ncd", "extra", "omnikey"}
      BY <1>3, <1>6, <2>11, DrvPartAssumption DEF Drv!DrvAssumption, Drv!AllKinds, Drv!Write
    <3>4. set = x3.cfg.set
      BY <2>3, <2>11, <3>1, <3>3
    <3> QED
      BY <2>5, <2>6, <3>2, <3>4
  <2> QED
    BY <1>6, <2>7, <2>8, <2>9, <2>10, <2>11, Zenon
<1> QED
  BY <1>2, <1>4, <1>5, <1>6

LEMMA DrvReconnectRestore ==
  ASSUME Drv!IInv, Drv!ReconnectRestore
  PROVE  Drv!IInv'
<1>1. /\ x2 = "reconnect" /\ UNCHANGED <<x1, x4, x5, x6, x8, x9, x10, x11, x12, x13, x14>>
      /\ UNCHANGED <<x15, x16, x17, x19, x20>>
  BY DEF Drv!ReconnectRestore, Drv!work, Drv!sysfs
<1>2. x15 # "register"
  BY <1>1 DEF Drv!IInv, Drv!StateOK, Drv!MutexInv
<1>3. CASE UNCHANGED <<x3, x7>> /\ x2' \in {"reenable", "giveup"} /\ x18' \subseteq DrvFailures
           /\ (~Drv!Write \/ "probe" \in x18')
  <2>1. Drv!DataOK' /\ Drv!StateOK' /\ Drv!MutexInv' /\ Drv!WorkInv'
    BY <1>1, <1>3 DEF Drv!IInv, Drv!DataOK, Drv!StateOK, Drv!MutexInv, Drv!Field, Drv!WorkInv
  <2>2. Drv!DeviceInv'
    BY <1>1, <1>2, <1>3 DEF Drv!IInv, Drv!DeviceInv, Drv!DeviceIs, Drv!ExtraIsReal, Drv!Attrs,
       Drv!Table, Drv!Xl
  <2>3. Drv!RegisterInv' /\ Drv!SetsInv'
    BY <1>1, <1>2, <1>3 DEF Drv!RegisterInv, Drv!SetsInv, Drv!Undisturbed, Drv!Write
  <2> QED
    BY <2>1, <2>2, <2>3 DEF Drv!IInv
<1>4. CASE Drv!Write /\ \E k \in Drv!Keyboards :
                  /\ x3' = x3 /\ x7' = k
                  /\ x2' \in {"reenable", "giveup"}
                  /\ x18' = x18 \/ (x18' = {"getset"} /\ "getset" \in DrvFailures)
                  /\ x18' = x18 /\ ~x3.cfg.extra /\ x1 # "set2only"
                     /\ (x1 \in {"translated", "omnikey"} => x3.cfg.set = 2)
                     /\ (x1 = "ncd" => x3.cfg.set = 3)
                     => x2' = "reenable" /\ k.set = x3.cfg.set
  <2>1. PICK k \in Drv!Keyboards :
                  /\ x3' = x3 /\ x7' = k
                  /\ x2' \in {"reenable", "giveup"}
                  /\ x18' = x18 \/ (x18' = {"getset"} /\ "getset" \in DrvFailures)
                  /\ x18' = x18 /\ ~x3.cfg.extra /\ x1 # "set2only"
                     /\ (x1 \in {"translated", "omnikey"} => x3.cfg.set = 2)
                     /\ (x1 = "ncd" => x3.cfg.set = 3)
                     => x2' = "reenable" /\ k.set = x3.cfg.set
    BY <1>4
  <2>2. /\ UNCHANGED x3 /\ x7' \in Drv!Keyboards /\ x2' \in {"reenable", "giveup"}
        /\ x18' \subseteq DrvFailures
    BY <2>1 DEF Drv!IInv, Drv!DataOK
  <2>3. Drv!DataOK'
    BY <1>1, <2>2 DEF Drv!IInv, Drv!DataOK
  <2>4. Drv!StateOK' /\ Drv!MutexInv' /\ Drv!WorkInv'
    BY <1>1, <2>2 DEF Drv!IInv, Drv!StateOK, Drv!MutexInv, Drv!WorkInv, Drv!Field
  <2>5. Drv!DeviceInv' /\ Drv!RegisterInv'
    BY <1>1, <1>2, <2>2 DEF Drv!IInv, Drv!DeviceInv, Drv!RegisterInv, Drv!DeviceIs,
       Drv!ExtraIsReal, Drv!Attrs, Drv!Table, Drv!Xl
  <2>6. Drv!SetsInv'
    <3> SUFFICES ASSUME Drv!Undisturbed'
                 PROVE  x2' # "giveup" /\ ~x3.cfg.extra
                        /\ (x1 \in {"translated", "omnikey"} => x3.cfg.set = 2)
                        /\ (x1 = "ncd" => x3.cfg.set = 3) /\ x7'.set = x3.cfg.set
      BY <1>1, <2>2 DEF Drv!SetsInv
    <3>1. x1 # "set2only" /\ x18' = x18 /\ Drv!Undisturbed
      BY <1>1, <2>1 DEF Drv!Undisturbed, Drv!Write
    <3>2. /\ ~x3.cfg.extra
          /\ x1 \in {"translated", "omnikey"} => x3.cfg.set = 2
          /\ x1 = "ncd" => x3.cfg.set = 3
      BY <1>1, <3>1 DEF Drv!IInv, Drv!DataOK, Drv!Atkbds, Drv!Configs, Drv!SetsInv
    <3> QED
      BY <2>1, <3>1, <3>2
  <2> QED
    BY <2>3, <2>4, <2>5, <2>6 DEF Drv!IInv
<1> QED
  BY <1>3, <1>4, DrvRestoreShape

LEMMA DrvAsked ==
  ASSUME NEW c \in Drv!Configs, NEW k \in Drv!Keyboards, NEW s,
         NEW set \in Drv!Sets, NEW extra \in Drv!Flags, NEW kset \in Drv!Sets,
         s = [set |-> set, extra |-> extra, kb |-> [k EXCEPT !.set = kset]], extra => x1 = "extra"
  PROVE  /\ [c EXCEPT !.set = s.set, !.extra = s.extra] \in Drv!Configs
         /\ [c EXCEPT !.set = s.set, !.extra = s.extra].set # 0
         /\ Drv!ExtraIsReal([c EXCEPT !.set = s.set, !.extra = s.extra])
         /\ s.kb \in Drv!Keyboards
         /\ [Drv!ResetState(s.kb) EXCEPT !.on = TRUE] \in Drv!Keyboards
<1>1. s.set = set /\ (s.extra <=> extra) /\ s.extra \in BOOLEAN /\ s.kb \in Drv!Keyboards
  BY DEF Drv!Keyboards, Drv!Sets, Drv!Flags
<1>2. Drv!ResetState(s.kb) \in Drv!Keyboards
  BY <1>1 DEF Drv!ResetState, Drv!Keyboards, Drv!Leds, Drv!Reps
<1>3. [Drv!ResetState(s.kb) EXCEPT !.on = TRUE] \in Drv!Keyboards
  BY <1>2 DEF Drv!Keyboards
<1>4. /\ [c EXCEPT !.set = s.set, !.extra = s.extra] \in Drv!Configs
      /\ [c EXCEPT !.set = s.set, !.extra = s.extra].set = set
      /\ [c EXCEPT !.set = s.set, !.extra = s.extra].extra = s.extra
  BY <1>1 DEF Drv!Configs, Drv!Sets
<1> QED
  BY <1>1, <1>3, <1>4 DEF Drv!Sets, Drv!ExtraIsReal

LEMMA DrvAltered ==
  ASSUME Drv!IInv, Drv!StoreAlter
  PROVE  /\ Drv!Altered.cfg \in Drv!Configs /\ Drv!Altered.kb \in Drv!Keyboards
         /\ Drv!Altered.cfg.set # 0 /\ Drv!ExtraIsReal(Drv!Altered.cfg)
         /\ Drv!Field \notin {"set", "extra"} =>
               /\ Drv!Altered.kb = x7 /\ Drv!Altered.cfg.set = x3.cfg.set
               /\ Drv!Altered.cfg.extra = x3.cfg.extra
         /\ Drv!Field \in {"softrepeat", "softraw"} => Drv!Altered.cfg.scroll = x3.cfg.scroll
<1>1. /\ x1 \in DrvKinds /\ x3.cfg \in Drv!Configs /\ x7 \in Drv!Keyboards
      /\ x3.cfg.set \in Drv!Sets /\ x3.cfg.extra \in BOOLEAN /\ x3.cfg.softraw \in BOOLEAN
      /\ Drv!ExtraIsReal(x3.cfg) /\ Drv!Field \in Drv!AllAttributes
  <2>1. x1 \in DrvKinds /\ x7 \in Drv!Keyboards /\ x3.cfg \in Drv!Configs
    BY DEF Drv!IInv, Drv!DataOK, Drv!Atkbds
  <2>2. x2 # "unbound" /\ Drv!Field \in Drv!AllAttributes
    BY DEF Drv!IInv, Drv!MutexInv, Drv!StoreAlter
  <2>3. x3.cfg.set # 0 /\ Drv!ExtraIsReal(x3.cfg)
    BY <2>2 DEF Drv!IInv, Drv!DeviceInv
  <2> QED
    BY <2>1, <2>2, <2>3 DEF Drv!Configs, Drv!Sets
<1>2. Drv!Legal /\ (Drv!Write \/ Drv!Field \in {"scroll", "softraw"})
  BY DEF Drv!StoreAlter
<1>3. CASE Drv!Field = "set"
  <2> DEFINE S == Drv!SelectSet(x7, x16[2], x3.cfg.extra, FALSE)
  <2>1. /\ Drv!Altered.cfg = [x3.cfg EXCEPT !.set = S.set, !.extra = S.extra]
        /\ Drv!Altered.kb = [Drv!ResetState(S.kb) EXCEPT !.on = TRUE]
    BY <1>3, Zenon DEF Drv!Altered
  <2>2. PICK t \in Drv!Sets : t = x16[2]
    BY <1>1, <1>2, <1>3 DEF Drv!Legal, Drv!Sets
  <2>3. PICK al \in Drv!Flags : al = x3.cfg.extra
    BY <1>1, <1>2, <1>3 DEF Drv!Value, Drv!Flags
  <2>4. PICK set \in Drv!Sets, extra \in Drv!Flags, kset \in Drv!Sets :
           /\ S = [set |-> set, extra |-> extra, kb |-> [x7 EXCEPT !.set = kset]]
           /\ extra => x1 = "extra"
    <3>1. Drv!Write
      BY <1>2, <1>3 DEF Drv!Write
    <3>2. PICK f \in Drv!Flags : f = FALSE
      BY DEF Drv!Flags
    <3>3. f \in Drv!Flags /\ al \in Drv!Flags /\ t \in Drv!Sets
      BY <2>2, <2>3, <3>2
    <3>4. x1 \in DrvKinds /\ x7 \in Drv!Keyboards
      BY <1>1
    <3>5. Drv!Selection(Drv!SelectSet(x7, t, al, f), x7, t, al, f)
      BY <3>1, <3>3, <3>4, DrvSelect, Zenon
    <3>6. Drv!Selection(S, x7, t, al, f)
      BY <2>2, <2>3, <3>2, <3>5, Zenon
    <3> QED
      BY <3>6, Zenon DEF Drv!Selection
  <2>5. PICK s : s = S
    BY Zenon
  <2> HIDE DEF S
  <2>6. /\ Drv!Altered.cfg = [x3.cfg EXCEPT !.set = s.set, !.extra = s.extra]
        /\ Drv!Altered.kb = [Drv!ResetState(s.kb) EXCEPT !.on = TRUE]
    BY <2>1, <2>5, Zenon
  <2>7. s = [set |-> set, extra |-> extra, kb |-> [x7 EXCEPT !.set = kset]]
    BY <2>4, <2>5, Zenon
  <2>8. /\ [x3.cfg EXCEPT !.set = s.set, !.extra = s.extra] \in Drv!Configs
        /\ [x3.cfg EXCEPT !.set = s.set, !.extra = s.extra].set # 0
        /\ Drv!ExtraIsReal([x3.cfg EXCEPT !.set = s.set, !.extra = s.extra])
        /\ [Drv!ResetState(s.kb) EXCEPT !.on = TRUE] \in Drv!Keyboards
    BY <1>1, <2>4, <2>7, DrvAsked, Zenon
  <2> QED
    BY <1>3, <2>6, <2>8, Zenon
<1>4. CASE Drv!Field = "extra"
  <2> DEFINE S == Drv!SelectSet(x7, x3.cfg.set, Drv!Value, FALSE)
  <2>1. /\ Drv!Altered.cfg = [x3.cfg EXCEPT !.set = S.set, !.extra = S.extra]
        /\ Drv!Altered.kb = [Drv!ResetState(S.kb) EXCEPT !.on = TRUE]
    BY <1>4, Zenon DEF Drv!Altered
  <2>2. PICK t \in Drv!Sets : t = x3.cfg.set
    BY <1>1, <1>2, <1>4 DEF Drv!Legal, Drv!Sets
  <2>3. PICK al \in Drv!Flags : al = Drv!Value
    BY <1>1, <1>2, <1>4 DEF Drv!Value, Drv!Flags
  <2>4. PICK set \in Drv!Sets, extra \in Drv!Flags, kset \in Drv!Sets :
           /\ S = [set |-> set, extra |-> extra, kb |-> [x7 EXCEPT !.set = kset]]
           /\ extra => x1 = "extra"
    <3>1. Drv!Write
      BY <1>2, <1>4 DEF Drv!Write
    <3>2. PICK f \in Drv!Flags : f = FALSE
      BY DEF Drv!Flags
    <3>3. f \in Drv!Flags /\ al \in Drv!Flags /\ t \in Drv!Sets
      BY <2>2, <2>3, <3>2
    <3>4. x1 \in DrvKinds /\ x7 \in Drv!Keyboards
      BY <1>1
    <3>5. Drv!Selection(Drv!SelectSet(x7, t, al, f), x7, t, al, f)
      BY <3>1, <3>3, <3>4, DrvSelect, Zenon
    <3>6. Drv!Selection(S, x7, t, al, f)
      BY <2>2, <2>3, <3>2, <3>5, Zenon
    <3> QED
      BY <3>6, Zenon DEF Drv!Selection
  <2>5. PICK s : s = S
    BY Zenon
  <2> HIDE DEF S
  <2>6. /\ Drv!Altered.cfg = [x3.cfg EXCEPT !.set = s.set, !.extra = s.extra]
        /\ Drv!Altered.kb = [Drv!ResetState(s.kb) EXCEPT !.on = TRUE]
    BY <2>1, <2>5, Zenon
  <2>7. s = [set |-> set, extra |-> extra, kb |-> [x7 EXCEPT !.set = kset]]
    BY <2>4, <2>5, Zenon
  <2>8. /\ [x3.cfg EXCEPT !.set = s.set, !.extra = s.extra] \in Drv!Configs
        /\ [x3.cfg EXCEPT !.set = s.set, !.extra = s.extra].set # 0
        /\ Drv!ExtraIsReal([x3.cfg EXCEPT !.set = s.set, !.extra = s.extra])
        /\ [Drv!ResetState(s.kb) EXCEPT !.on = TRUE] \in Drv!Keyboards
    BY <1>1, <2>4, <2>7, DrvAsked, Zenon
  <2> QED
    BY <1>4, <2>6, <2>8, Zenon
<1>5. CASE Drv!Field = "softrepeat"
  <2>1. PICK v \in BOOLEAN : v = Drv!Value
    BY <1>5 DEF Drv!Value
  <2>2. Drv!Altered = [cfg |-> [x3.cfg EXCEPT !.softrepeat = v, !.softraw = @ \/ v], kb |-> x7]
    BY <1>5, <2>1, Zenon DEF Drv!Altered
  <2>3. PICK w \in BOOLEAN : w = (x3.cfg.softraw \/ v)
    OBVIOUS
  <2>4. Drv!Altered.kb = x7 /\ Drv!Altered.cfg = [x3.cfg EXCEPT !.softrepeat = v, !.softraw = w]
    BY <2>2, <2>3
  <2>5. /\ Drv!Altered.cfg \in Drv!Configs /\ Drv!Altered.cfg.set = x3.cfg.set
        /\ Drv!Altered.cfg.extra = x3.cfg.extra /\ Drv!Altered.cfg.scroll = x3.cfg.scroll
    BY <1>1, <2>4 DEF Drv!Configs
  <2> QED
    BY <1>1, <1>5, <2>4, <2>5 DEF Drv!ExtraIsReal, Drv!Sets
<1>6. CASE Drv!Field \in {"scroll", "softraw"}
  <2>1. PICK v \in BOOLEAN : v = Drv!Value
    BY <1>6 DEF Drv!Value
  <2>2. Drv!Altered = [cfg |-> [x3.cfg EXCEPT ![Drv!Field] = v], kb |-> x7]
    BY <1>6, <2>1, Zenon DEF Drv!Altered
  <2> QED
    BY <1>1, <1>6, <2>2 DEF Drv!Configs, Drv!ExtraIsReal, Drv!Sets
<1> QED
  BY <1>1, <1>3, <1>4, <1>5, <1>6 DEF Drv!AllAttributes

LEMMA DrvStoreAlter ==
  ASSUME Drv!IInv, Drv!StoreAlter
  PROVE  Drv!IInv'
<1>1. /\ x15 = "check" /\ x2 \in {"bound", "removing"}
      /\ UNCHANGED <<x1, x2, x4, x6, x8, x9, x10>>
      /\ UNCHANGED <<x11, x12, x13, x14, x16, x19>> /\ x10 = "sysfs"
      /\ Drv!Write \/ Drv!Field \in {"scroll", "softraw"}
  BY DEF Drv!StoreAlter, Drv!thread, Drv!work, Drv!IInv, Drv!StateOK, Drv!MutexInv
<1>2. Drv!DeviceIs(x3.dev, "registered", {}) /\ x3.cfg.set # 0 /\ Drv!ExtraIsReal(x3.cfg)
  BY <1>1 DEF Drv!IInv, Drv!DeviceInv
<1>3. PICK no \in Drv!MayFail("alloc"), d \in Drv!Devs \ {x3.dev} :
         /\ Drv!Fails("alloc", no)
         /\ IF no THEN x15' = "enable" /\ UNCHANGED <<x3, x5, x7, x17, x20>>
            ELSE /\ x15' = "register" /\ x17' = x3
                 /\ x7' = Drv!Altered.kb
                 /\ x3' = [cfg |-> Drv!Altered.cfg, dev |-> d,
                           map |-> IF Drv!Field \in {"softrepeat", "softraw"} THEN x3.map
                                   ELSE Drv!Table(Drv!Altered.cfg)]
                 /\ x5' = [x5 EXCEPT ![d] = Drv!NewDev(Drv!Altered.cfg)]
                 /\ x20' = (x20 \/ Drv!Field \in {"set", "extra"})
  BY Zenon DEF Drv!StoreAlter
<1>4. no \in BOOLEAN /\ (no => "alloc" \in DrvFailures) /\ x18 \subseteq DrvFailures
  BY DEF Drv!MayFail, Drv!IInv, Drv!DataOK
<1>5. CASE no
  <2>1. /\ x15' = "enable" /\ UNCHANGED <<x3, x5, x7, x17, x20>>
        /\ x18' = {"alloc"} /\ "alloc" \in DrvFailures /\ x18 = {}
    BY <1>3, <1>5 DEF Drv!Fails, Drv!MayFail
  <2>2. Drv!DataOK' /\ Drv!StateOK' /\ Drv!WorkInv'
    BY <1>1, <2>1 DEF Drv!IInv, Drv!DataOK, Drv!StateOK, Drv!WorkInv
  <2>3. Drv!MutexInv'
    BY <1>1, <2>1 DEF Drv!IInv, Drv!MutexInv, Drv!Field
  <2>4. Drv!DeviceInv'
    BY <1>1, <1>2, <2>1 DEF Drv!DeviceInv, Drv!DeviceIs, Drv!ExtraIsReal, Drv!Attrs, Drv!Table,
       Drv!Xl
  <2>5. Drv!RegisterInv' /\ Drv!SetsInv'
    BY <1>1, <2>1 DEF Drv!IInv, Drv!RegisterInv, Drv!SetsInv, Drv!Undisturbed, Drv!Write
  <2> QED
    BY <2>2, <2>3, <2>4, <2>5 DEF Drv!IInv
<1>6. CASE ~no
  <2>1. PICK c \in Drv!Configs, k \in Drv!Keyboards :
           /\ c = Drv!Altered.cfg /\ k = Drv!Altered.kb /\ c.set # 0 /\ Drv!ExtraIsReal(c)
           /\ Drv!Field \notin {"set", "extra"} =>
                 k = x7 /\ c.set = x3.cfg.set /\ c.extra = x3.cfg.extra
           /\ Drv!Field \in {"softrepeat", "softraw"} => c.scroll = x3.cfg.scroll
    BY DrvAltered, Zenon
  <2>2. PICK m : m = IF Drv!Field \in {"softrepeat", "softraw"} THEN x3.map ELSE Drv!Table(c)
    BY Zenon
  <2>3. /\ x15' = "register" /\ x17' = x3 /\ x7' = k
        /\ x3' = [cfg |-> c, dev |-> d, map |-> m]
        /\ x5' = [x5 EXCEPT ![d] = Drv!NewDev(c)]
    BY <1>3, <1>6, <2>1, <2>2, Zenon
  <2>4. /\ x20' = (x20 \/ Drv!Field \in {"set", "extra"}) /\ x18' = x18
    BY <1>3, <1>6, Zenon DEF Drv!Fails
  <2>5. m = Drv!Table(c) /\ m \in Drv!Tables
        /\ (Drv!Field \in {"softrepeat", "softraw"} => m = x3.map)
    <3>1. Drv!Field \in {"softrepeat", "softraw"} => x3.map = Drv!Table(c)
      BY <1>2, <2>1 DEF Drv!DeviceIs, Drv!Table
    <3> QED
      BY <2>2, <3>1, DrvMade
  <2>6. x3' \in Drv!Atkbds /\ x3'.cfg = c /\ x3'.dev = d /\ x3'.map = m
    BY <1>3, <2>3, <2>5 DEF Drv!Atkbds
  <2>7. Drv!DataOK'
    BY <1>1, <2>3, <2>4, <2>6, DrvMade DEF Drv!IInv, Drv!DataOK
  <2>8. Drv!StateOK'
    <3>1. x20' \in BOOLEAN
      BY <2>4 DEF Drv!IInv, Drv!StateOK
    <3> QED
      BY <1>1, <2>3, <3>1 DEF Drv!IInv, Drv!StateOK
  <2>9. Drv!MutexInv' /\ Drv!WorkInv'
    BY <1>1, <2>3 DEF Drv!IInv, Drv!MutexInv, Drv!WorkInv, Drv!Field
  <2>10. Drv!DeviceInv'
    BY <1>1, <2>1, <2>3, <2>6 DEF Drv!DeviceInv, Drv!ExtraIsReal
  <2>11. Drv!RegisterInv'
    <3>1. x5 \in [Drv!Devs -> Drv!InputDevs] /\ x3.dev \in Drv!Devs
      BY DEF Drv!IInv, Drv!DataOK, Drv!Atkbds
    <3>2. x5'[d].st = "allocated" /\ x5'[d].attrs = Drv!Attrs(c)
      BY <2>3, <3>1 DEF Drv!NewDev
    <3>3. \A e \in Drv!Devs \ {d} : x5'[e] = x5[e]
      BY <2>3, <3>1
    <3>4. Drv!DeviceIs(x3.dev, "allocated", {x17.dev})'
      <4>1. Drv!Attrs(c)' = Drv!Attrs(c) /\ Drv!Table(c)' = Drv!Table(c)
        BY <1>1 DEF Drv!Attrs, Drv!Table, Drv!Xl
      <4>2. \A e \in Drv!Devs \ {x3.dev} : e # d => x5'[e].st = "none"
        BY <1>2, <3>3 DEF Drv!DeviceIs
      <4> QED
        BY <1>1, <2>3, <2>5, <2>6, <3>2, <4>2 DEF Drv!DeviceIs, Drv!Attrs, Drv!Table, Drv!Xl
    <3>5. x17'.dev # d /\ x5'[x17'.dev].st = "registered" /\ x17'.cfg = x3.cfg
      BY <1>2, <1>3, <2>3, <3>1, <3>3 DEF Drv!DeviceIs
    <3>6. Drv!Field' \in {"set", "extra"} => x20'
      BY <1>1, <2>4 DEF Drv!Field
    <3>7. Drv!Field' \in {"set", "extra", "softrepeat"} => Drv!Write'
      BY <1>1 DEF Drv!Field, Drv!Write
    <3>8. Drv!Field' \in {"softrepeat", "softraw"} => x3'.map = Drv!Table(x17.cfg)'
      BY <1>1, <1>2, <2>3, <2>5, <2>6 DEF Drv!Field, Drv!DeviceIs, Drv!Table, Drv!Xl
    <3>9. Drv!Field' \notin {"set", "extra"} =>
             c.set = x17'.cfg.set /\ (c.extra <=> x17'.cfg.extra)
      BY <1>1, <2>1, <3>5 DEF Drv!Field
    <3> QED
      BY <1>1, <1>2, <2>6, <3>4, <3>5, <3>6, <3>7, <3>8, <3>9 DEF Drv!RegisterInv,
         Drv!ExtraIsReal
  <2>12. Drv!SetsInv'
    <3> SUFFICES ASSUME Drv!Undisturbed'
                 PROVE  /\ x2' # "giveup" /\ ~c.extra
                        /\ (x1 \in {"translated", "omnikey"} => c.set = 2)
                        /\ (x1 = "ncd" => c.set = 3)
                        /\ (x2' = "bound" => k.set = c.set \/ x8 \/ x9)
      BY <1>1, <2>3, <2>6 DEF Drv!SetsInv
    <3>1. ~x20' /\ Drv!Undisturbed
      BY <1>1, <2>4 DEF Drv!Undisturbed, Drv!Write
    <3>2. Drv!Field \notin {"set", "extra"}
      BY <2>4, <3>1
    <3> QED
      BY <1>1, <2>1, <3>1, <3>2 DEF Drv!IInv, Drv!SetsInv
  <2> QED
    BY <2>7, <2>8, <2>9, <2>10, <2>11, <2>12 DEF Drv!IInv
<1> QED
  BY <1>4, <1>5, <1>6

LEMMA DrvUndone ==
  ASSUME Drv!IInv, x15 = "register"
  PROVE  /\ Drv!Undone.cfg \in Drv!Configs /\ Drv!Undone.kb \in Drv!Keyboards
         /\ Drv!Undone.cfg.set # 0 /\ Drv!ExtraIsReal(Drv!Undone.cfg)
         /\ Drv!Field \notin {"set", "extra"} => Drv!Undone.kb = x7 /\ Drv!Undone.cfg = x17.cfg
<1>1. /\ x1 \in DrvKinds /\ x3.cfg \in Drv!Configs /\ x7 \in Drv!Keyboards
      /\ x17.cfg \in Drv!Configs /\ x17.cfg.set \in Drv!Sets /\ x17.cfg.extra \in BOOLEAN
      /\ Drv!ExtraIsReal(x17.cfg)
  <2>1. /\ x1 \in DrvKinds /\ x7 \in Drv!Keyboards /\ x3.cfg \in Drv!Configs
        /\ x17.cfg \in Drv!Configs
    BY DEF Drv!IInv, Drv!DataOK, Drv!Atkbds
  <2>2. x17.cfg.set # 0 /\ Drv!ExtraIsReal(x17.cfg)
    BY DEF Drv!IInv, Drv!RegisterInv
  <2> QED
    BY <2>1, <2>2 DEF Drv!Configs, Drv!Sets
<1>2. CASE Drv!Field \in {"set", "extra"}
  <2> DEFINE S == Drv!SelectSet(x7, x17.cfg.set, x17.cfg.extra, FALSE)
  <2>1. /\ Drv!Undone.cfg = [x3.cfg EXCEPT !.set = S.set, !.extra = S.extra]
        /\ Drv!Undone.kb = S.kb
    BY <1>2, Zenon DEF Drv!Undone
  <2>2. PICK t \in Drv!Sets : t = x17.cfg.set
    BY <1>1 DEF Drv!Sets
  <2>3. PICK al \in Drv!Flags : al = x17.cfg.extra
    BY <1>1 DEF Drv!Flags
  <2>4. PICK set \in Drv!Sets, extra \in Drv!Flags, kset \in Drv!Sets :
           /\ S = [set |-> set, extra |-> extra, kb |-> [x7 EXCEPT !.set = kset]]
           /\ extra => x1 = "extra"
    <3>1. Drv!Write
      BY <1>2 DEF Drv!IInv, Drv!RegisterInv
    <3>2. PICK f \in Drv!Flags : f = FALSE
      BY DEF Drv!Flags
    <3>3. f \in Drv!Flags /\ al \in Drv!Flags /\ t \in Drv!Sets
      BY <2>2, <2>3, <3>2
    <3>4. x1 \in DrvKinds /\ x7 \in Drv!Keyboards
      BY <1>1
    <3>5. Drv!Selection(Drv!SelectSet(x7, t, al, f), x7, t, al, f)
      BY <3>1, <3>3, <3>4, DrvSelect, Zenon
    <3>6. Drv!Selection(S, x7, t, al, f)
      BY <2>2, <2>3, <3>2, <3>5, Zenon
    <3> QED
      BY <3>6, Zenon DEF Drv!Selection
  <2>5. PICK s : s = S
    BY Zenon
  <2> HIDE DEF S
  <2>6. /\ Drv!Undone.cfg = [x3.cfg EXCEPT !.set = s.set, !.extra = s.extra]
        /\ Drv!Undone.kb = s.kb
    BY <2>1, <2>5, Zenon
  <2>7. s = [set |-> set, extra |-> extra, kb |-> [x7 EXCEPT !.set = kset]]
    BY <2>4, <2>5, Zenon
  <2>8. /\ [x3.cfg EXCEPT !.set = s.set, !.extra = s.extra] \in Drv!Configs
        /\ [x3.cfg EXCEPT !.set = s.set, !.extra = s.extra].set # 0
        /\ Drv!ExtraIsReal([x3.cfg EXCEPT !.set = s.set, !.extra = s.extra])
        /\ s.kb \in Drv!Keyboards
    BY <1>1, <2>4, <2>7, DrvAsked, Zenon
  <2> QED
    BY <1>2, <2>6, <2>8, Zenon
<1>3. CASE Drv!Field \notin {"set", "extra"}
  <2>1. Drv!Undone.cfg = x17.cfg /\ Drv!Undone.kb = x7
    BY <1>3 DEF Drv!Undone
  <2>2. x17.cfg.set # 0
    BY DEF Drv!IInv, Drv!RegisterInv
  <2> QED
    BY <1>1, <1>3, <2>1, <2>2, Zenon
<1> QED
  BY <1>2, <1>3

LEMMA DrvStoreRegister ==
  ASSUME Drv!IInv, Drv!StoreRegister
  PROVE  Drv!IInv'
<1>1. /\ x15 = "register" /\ x15' = "enable" /\ x2 \in {"bound", "removing"}
      /\ UNCHANGED <<x1, x2, x4, x6, x8, x9, x10, x12, x14, x16, x17, x19, x20>>
      /\ x10 = "sysfs"
  BY DEF Drv!StoreRegister, Drv!thread, Drv!IInv, Drv!StateOK, Drv!MutexInv
<1>2. /\ Drv!DeviceIs(x3.dev, "allocated", {x17.dev}) /\ x3.cfg.set # 0
      /\ Drv!ExtraIsReal(x3.cfg)
      /\ x17.dev # x3.dev /\ x5[x17.dev].st = "registered"
      /\ Drv!Field \in {"softrepeat", "softraw"} => x3.map = Drv!Table(x17.cfg)
      /\ Drv!Field \in {"set", "extra"} => x20
      /\ Drv!Field \notin {"set", "extra"} =>
            x3.cfg.set = x17.cfg.set /\ (x3.cfg.extra <=> x17.cfg.extra)
  BY <1>1 DEF Drv!IInv, Drv!DeviceInv, Drv!RegisterInv
<1>3. PICK no \in Drv!MayFail("register") :
         /\ Drv!Fails("register", no)
         /\ IF ~no
            THEN /\ x5' = [Drv!Registered(x5, x3.dev) EXCEPT ![x17.dev] = Drv!NoDev]
                 /\ Drv!Schedule("led") /\ UNCHANGED <<x3, x7>>
            ELSE /\ x3' = [cfg |-> Drv!Undone.cfg, dev |-> x17.dev, map |-> Drv!UndoneMap]
                 /\ x5' = [x5 EXCEPT ![x3.dev] = Drv!NoDev, ![x17.dev].attrs = Drv!Attrs(Drv!Undone.cfg),
                              ![x17.dev].rep = IF Drv!Undone.cfg.softrepeat THEN @ ELSE "fast"]
                 /\ x7' = Drv!Undone.kb
                 /\ UNCHANGED <<x13, x11>>
  BY Zenon DEF Drv!StoreRegister
<1>4. no \in BOOLEAN /\ (no => "register" \in DrvFailures) /\ x18 \subseteq DrvFailures
  BY DEF Drv!MayFail, Drv!IInv, Drv!DataOK
<1>5. /\ x5 \in [Drv!Devs -> Drv!InputDevs] /\ x3.dev \in Drv!Devs /\ x17.dev \in Drv!Devs
      /\ x3 \in Drv!Atkbds /\ x17 \in Drv!Atkbds /\ x6 \in Drv!Leds
      /\ Drv!NoDev \in Drv!InputDevs /\ Drv!NoDev.st = "none"
  BY DrvNoDev DEF Drv!IInv, Drv!DataOK, Drv!Atkbds
<1>6. Drv!RegisterInv' /\ Drv!MutexInv'
  BY <1>1 DEF Drv!IInv, Drv!RegisterInv, Drv!MutexInv, Drv!Field
<1>7. CASE ~no
  <2>1. /\ x5' = [Drv!Registered(x5, x3.dev) EXCEPT ![x17.dev] = Drv!NoDev]
        /\ UNCHANGED <<x3, x7, x18>>
    BY <1>3, <1>7, Zenon DEF Drv!Fails
  <2>2. x11' \in BOOLEAN
    BY <1>3, <1>7 DEF Drv!Schedule, Drv!IInv, Drv!StateOK
  <2>3. x14 => ~x11'
    <3>1. x14 = TRUE => x11' = x11 \/ x11' = FALSE
      BY <1>3, <1>7 DEF Drv!Schedule, Drv!IInv, Drv!StateOK
    <3> QED
      BY <2>2, <3>1 DEF Drv!IInv, Drv!StateOK, Drv!WorkInv
  <2>4. PICK ds : ds = Drv!Registered(x5, x3.dev)
    OBVIOUS
  <2>5. /\ ds \in [Drv!Devs -> Drv!InputDevs]
        /\ ds[x3.dev].st = "registered" /\ ds[x3.dev].attrs = x5[x3.dev].attrs
        /\ \A e \in Drv!Devs \ {x3.dev} : ds[e] = x5[e]
    <3>1. PICK v \in Drv!InputDevs : v = [x5[x3.dev] EXCEPT !.st = "registered", !.led = x6]
                                     /\ v.st = "registered" /\ v.attrs = x5[x3.dev].attrs
      <4>1. PICK r \in Drv!InputDevs : r = x5[x3.dev]
        BY <1>5
      <4>2. /\ [r EXCEPT !.st = "registered", !.led = x6] \in Drv!InputDevs
            /\ [r EXCEPT !.st = "registered", !.led = x6].st = "registered"
            /\ [r EXCEPT !.st = "registered", !.led = x6].attrs = r.attrs
        BY <1>5 DEF Drv!InputDevs
      <4> QED
        BY <4>1, <4>2
    <3>2. ds = [x5 EXCEPT ![x3.dev] = v]
      BY <1>5, <2>4, <3>1 DEF Drv!Registered, Drv!InputDevs
    <3> QED
      BY <1>5, <3>1, <3>2
  <2>6. x5' = [ds EXCEPT ![x17.dev] = Drv!NoDev]
    BY <2>1, <2>4
  <2>7. /\ x5' \in [Drv!Devs -> Drv!InputDevs]
        /\ x5'[x3.dev].st = "registered" /\ x5'[x3.dev].attrs = x5[x3.dev].attrs
        /\ x5'[x17.dev].st = "none"
        /\ \A e \in Drv!Devs \ {x3.dev, x17.dev} : x5'[e] = x5[e]
    BY <1>2, <1>5, <2>5, <2>6
  <2>8. Drv!DataOK' /\ Drv!StateOK' /\ Drv!WorkInv'
    BY <1>1, <2>1, <2>2, <2>3, <2>7 DEF Drv!IInv, Drv!DataOK, Drv!StateOK, Drv!WorkInv
  <2>9. Drv!DeviceInv'
    <3>1. \A e \in Drv!Devs : e # x3.dev => x5'[e].st = "none"
      BY <1>2, <2>7 DEF Drv!DeviceIs
    <3>2. Drv!DeviceIs(x3.dev, "registered", {})'
      BY <1>1, <1>2, <2>1, <2>7, <3>1 DEF Drv!DeviceIs, Drv!Attrs, Drv!Table, Drv!Xl
    <3> QED
      BY <1>1, <1>2, <2>1, <3>2 DEF Drv!DeviceInv, Drv!ExtraIsReal
  <2>10. Drv!SetsInv'
    BY <1>1, <2>1 DEF Drv!IInv, Drv!SetsInv, Drv!Undisturbed, Drv!Write
  <2> QED
    BY <1>6, <2>8, <2>9, <2>10 DEF Drv!IInv
<1>8. CASE no
  <2>1. PICK c \in Drv!Configs, k \in Drv!Keyboards :
           /\ c = Drv!Undone.cfg /\ k = Drv!Undone.kb /\ c.set # 0 /\ Drv!ExtraIsReal(c)
           /\ Drv!Field \notin {"set", "extra"} => k = x7 /\ c = x17.cfg
    BY <1>1, DrvUndone, Zenon
  <2>2. PICK m : m = Drv!UndoneMap
    BY Zenon
  <2>3. /\ x18' = {"register"} /\ x7' = k /\ UNCHANGED <<x13, x11>>
        /\ x3' = [cfg |-> c, dev |-> x17.dev, map |-> m]
        /\ x5' = [x5 EXCEPT ![x3.dev] = Drv!NoDev, ![x17.dev].attrs = Drv!Attrs(c),
                            ![x17.dev].rep = IF c.softrepeat THEN @ ELSE "fast"]
    BY <1>3, <1>8, <2>1, <2>2, Zenon DEF Drv!Fails
  <2>4. m = Drv!Table(c) /\ m \in Drv!Tables
    <3>1. m = IF Drv!Field \in {"softrepeat", "softraw"} THEN x3.map ELSE Drv!Table(c)
      BY <2>1, <2>2, Zenon DEF Drv!UndoneMap
    <3>2. Drv!Field \in {"softrepeat", "softraw"} => x3.map = Drv!Table(c)
      BY <1>2, <2>1
    <3> QED
      BY <3>1, <3>2, DrvMade
  <2>5. x3' \in Drv!Atkbds /\ x3'.cfg = c /\ x3'.dev = x17.dev /\ x3'.map = m
    BY <1>5, <2>3, <2>4 DEF Drv!Atkbds
  <2>6. /\ x5' \in [Drv!Devs -> Drv!InputDevs]
        /\ x5'[x17.dev].st = "registered" /\ x5'[x17.dev].attrs = Drv!Attrs(c)
        /\ x5'[x3.dev].st = "none"
        /\ \A e \in Drv!Devs \ {x3.dev, x17.dev} : x5'[e] = x5[e]
    <3>1. PICK w \in Drv!InputDevs :
             /\ w = [x5[x17.dev] EXCEPT !.attrs = Drv!Attrs(c), !.rep = IF c.softrepeat THEN @ ELSE "fast"]
             /\ w.st = "registered" /\ w.attrs = Drv!Attrs(c)
      <4>1. PICK i \in Drv!Identities : i = Drv!Attrs(c)
        BY DrvMade
      <4>2. PICK r \in Drv!InputDevs : r = x5[x17.dev] /\ r.st = "registered"
        BY <1>2, <1>5
      <4>3. PICK p \in Drv!Reps : p = IF c.softrepeat THEN r.rep ELSE "fast"
        BY <4>2 DEF Drv!InputDevs, Drv!Reps
      <4>4. /\ [r EXCEPT !.attrs = i, !.rep = p] \in Drv!InputDevs
            /\ [r EXCEPT !.attrs = i, !.rep = p].st = "registered"
            /\ [r EXCEPT !.attrs = i, !.rep = p].attrs = i
        BY <4>2 DEF Drv!InputDevs
      <4> QED
        BY <4>1, <4>2, <4>3, <4>4
    <3>2. x5' = [x5 EXCEPT ![x3.dev] = Drv!NoDev, ![x17.dev] = w]
      BY <1>2, <1>5, <2>3, <3>1 DEF Drv!InputDevs
    <3> QED
      BY <1>2, <1>5, <3>1, <3>2
  <2>7. Drv!DataOK' /\ Drv!StateOK' /\ Drv!WorkInv'
    BY <1>1, <1>4, <1>8, <2>3, <2>5, <2>6 DEF Drv!IInv, Drv!DataOK, Drv!StateOK, Drv!WorkInv
  <2>8. Drv!DeviceInv'
    <3>1. \A e \in Drv!Devs : e # x17.dev => x5'[e].st = "none"
      BY <1>2, <2>6 DEF Drv!DeviceIs
    <3>2. Drv!DeviceIs(x3.dev, "registered", {})'
      BY <1>1, <2>4, <2>5, <2>6, <3>1 DEF Drv!DeviceIs, Drv!Attrs, Drv!Table, Drv!Xl
    <3> QED
      BY <1>1, <2>1, <2>5, <3>2 DEF Drv!DeviceInv, Drv!ExtraIsReal
  <2>9. Drv!SetsInv'
    <3> SUFFICES ASSUME Drv!Undisturbed'
                 PROVE  /\ x2' # "giveup" /\ ~c.extra
                        /\ (x1 \in {"translated", "omnikey"} => c.set = 2)
                        /\ (x1 = "ncd" => c.set = 3)
                        /\ (x2' = "bound" => k.set = c.set \/ x8 \/ x9)
      BY <1>1, <2>3, <2>5 DEF Drv!SetsInv
    <3>1. ~x20 /\ Drv!Field \notin {"set", "extra"}
      BY <1>1, <1>2 DEF Drv!Undisturbed
    <3>2. k = x7 /\ c = x17.cfg
      BY <2>1, <3>1
    <3>3. Drv!Undisturbed
      BY <1>1, <1>3, <1>8 DEF Drv!Undisturbed, Drv!Write, Drv!MayFail
    <3> QED
      BY <1>1, <1>2, <3>1, <3>2, <3>3 DEF Drv!IInv, Drv!SetsInv
  <2> QED
    BY <1>6, <2>7, <2>8, <2>9 DEF Drv!IInv
<1> QED
  BY <1>4, <1>7, <1>8

LEMMA DrvWorkFire ==
  ASSUME Drv!IInv, Drv!WorkFire
  PROVE  Drv!IInv'
<1>1. Drv!DataOK'
  BY DEF Drv!WorkFire, Drv!thread, Drv!work, Drv!sysfs, Drv!past, Drv!IInv, Drv!DataOK
<1>2. Drv!StateOK'
  <2>1. /\ x4' \in BOOLEAN /\ x8' \in BOOLEAN /\ x9' \in BOOLEAN /\ x11' \in BOOLEAN
    BY DEF Drv!IInv, Drv!StateOK, Drv!WorkFire, Drv!thread, Drv!work, Drv!sysfs, Drv!past
  <2>2. /\ x14' \in BOOLEAN /\ x19' \in BOOLEAN /\ x20' \in BOOLEAN
    BY DEF Drv!IInv, Drv!StateOK, Drv!WorkFire, Drv!thread, Drv!work, Drv!sysfs, Drv!past
  <2> QED
    BY <2>1, <2>2 DEF Drv!IInv, Drv!StateOK, Drv!WorkFire, Drv!thread, Drv!work, Drv!sysfs,
       Drv!past
<1>3. Drv!MutexInv'
  BY DEF Drv!WorkFire, Drv!thread, Drv!work, Drv!sysfs, Drv!past, Drv!IInv, Drv!StateOK,
     Drv!MutexInv, Drv!Field
<1>4. Drv!WorkInv'
  BY DEF Drv!WorkFire, Drv!thread, Drv!work, Drv!sysfs, Drv!past, Drv!IInv, Drv!StateOK,
     Drv!MutexInv, Drv!WorkInv
<1>5. Drv!DeviceInv'
  BY DEF Drv!WorkFire, Drv!thread, Drv!work, Drv!sysfs, Drv!past, Drv!IInv, Drv!DataOK,
     Drv!StateOK, Drv!Sets, Drv!Atkbds, Drv!Configs, Drv!Tables, Drv!Identities, Drv!InputDevs,
     Drv!Keyboards, Drv!Leds, Drv!Reps, Drv!Devs, Drv!MutexInv, Drv!DeviceInv, Drv!RegisterInv,
     Drv!DeviceIs, Drv!ExtraIsReal, Drv!Attrs, Drv!Table, Drv!Field, Drv!Write, Drv!Xl
<1>6. Drv!RegisterInv'
  BY DEF Drv!WorkFire, Drv!thread, Drv!work, Drv!sysfs, Drv!past, Drv!IInv, Drv!DataOK,
     Drv!StateOK, Drv!Sets, Drv!Atkbds, Drv!Configs, Drv!Tables, Drv!Identities, Drv!InputDevs,
     Drv!Keyboards, Drv!Leds, Drv!Reps, Drv!Devs, Drv!MutexInv, Drv!DeviceInv, Drv!RegisterInv,
     Drv!DeviceIs, Drv!ExtraIsReal, Drv!Attrs, Drv!Table, Drv!Field, Drv!Write, Drv!Xl
<1>7. Drv!SetsInv'
  BY DEF Drv!WorkFire, Drv!thread, Drv!work, Drv!sysfs, Drv!past, Drv!IInv, Drv!DataOK,
     Drv!StateOK, Drv!Sets, Drv!Atkbds, Drv!Configs, Drv!Tables, Drv!Identities, Drv!InputDevs,
     Drv!Keyboards, Drv!Leds, Drv!Reps, Drv!Devs, Drv!MutexInv, Drv!DeviceInv, Drv!SetsInv,
     Drv!Undisturbed, Drv!Write, Drv!Xl
<1> QED
  BY <1>1, <1>2, <1>3, <1>4, <1>5, <1>6, <1>7 DEF Drv!IInv

LEMMA DrvWorkLock ==
  ASSUME Drv!IInv, Drv!WorkLock
  PROVE  Drv!IInv'
<1>1. Drv!DataOK'
  BY DEF Drv!WorkLock, Drv!thread, Drv!work, Drv!sysfs, Drv!past, Drv!IInv, Drv!DataOK
<1>2. Drv!StateOK'
  BY ZenonT(40) DEF Drv!WorkLock, Drv!thread, Drv!work, Drv!sysfs, Drv!past, Drv!IInv, Drv!StateOK
<1>3. Drv!MutexInv'
  BY DEF Drv!WorkLock, Drv!thread, Drv!work, Drv!sysfs, Drv!past, Drv!IInv, Drv!StateOK,
     Drv!MutexInv, Drv!Field
<1>4. Drv!WorkInv'
  BY DEF Drv!WorkLock, Drv!thread, Drv!work, Drv!sysfs, Drv!past, Drv!IInv, Drv!StateOK,
     Drv!MutexInv, Drv!WorkInv
<1>5. Drv!DeviceInv'
  BY DEF Drv!WorkLock, Drv!thread, Drv!work, Drv!sysfs, Drv!past, Drv!IInv, Drv!DataOK,
     Drv!StateOK, Drv!Sets, Drv!Atkbds, Drv!Configs, Drv!Tables, Drv!Identities, Drv!InputDevs,
     Drv!Keyboards, Drv!Leds, Drv!Reps, Drv!Devs, Drv!MutexInv, Drv!DeviceInv, Drv!RegisterInv,
     Drv!DeviceIs, Drv!ExtraIsReal, Drv!Attrs, Drv!Table, Drv!Field, Drv!Write, Drv!Xl
<1>6. Drv!RegisterInv'
  BY DEF Drv!WorkLock, Drv!thread, Drv!work, Drv!sysfs, Drv!past, Drv!IInv, Drv!DataOK,
     Drv!StateOK, Drv!Sets, Drv!Atkbds, Drv!Configs, Drv!Tables, Drv!Identities, Drv!InputDevs,
     Drv!Keyboards, Drv!Leds, Drv!Reps, Drv!Devs, Drv!MutexInv, Drv!DeviceInv, Drv!RegisterInv,
     Drv!DeviceIs, Drv!ExtraIsReal, Drv!Attrs, Drv!Table, Drv!Field, Drv!Write, Drv!Xl
<1>7. Drv!SetsInv'
  BY DEF Drv!WorkLock, Drv!thread, Drv!work, Drv!sysfs, Drv!past, Drv!IInv, Drv!DataOK,
     Drv!StateOK, Drv!Sets, Drv!Atkbds, Drv!Configs, Drv!Tables, Drv!Identities, Drv!InputDevs,
     Drv!Keyboards, Drv!Leds, Drv!Reps, Drv!Devs, Drv!MutexInv, Drv!DeviceInv, Drv!SetsInv,
     Drv!Undisturbed, Drv!Write, Drv!Xl
<1> QED
  BY <1>1, <1>2, <1>3, <1>4, <1>5, <1>6, <1>7 DEF Drv!IInv

LEMMA DrvWorkLeds ==
  ASSUME Drv!IInv, Drv!WorkLeds
  PROVE  Drv!IInv'
<1>1. Drv!DataOK'
  <2>1. x7' \in Drv!Keyboards
    BY DEF Drv!IInv, Drv!DataOK, Drv!WorkLeds, Drv!thread, Drv!work, Drv!sysfs, Drv!past,
       Drv!MayFail, Drv!Fails, Drv!Sets, Drv!Keyboards, Drv!InputDevs, Drv!Atkbds, Drv!Devs,
       Drv!Leds, Drv!Reps
  <2> QED
    BY <2>1 DEF Drv!IInv, Drv!DataOK, Drv!WorkLeds, Drv!thread, Drv!work, Drv!sysfs, Drv!past,
       Drv!MayFail, Drv!Fails
<1>2. Drv!StateOK'
  BY DEF Drv!WorkLeds, Drv!thread, Drv!work, Drv!sysfs, Drv!past, Drv!MayFail, Drv!Fails,
     Drv!IInv, Drv!StateOK
<1>3. Drv!MutexInv'
  BY DEF Drv!WorkLeds, Drv!thread, Drv!work, Drv!sysfs, Drv!past, Drv!MayFail, Drv!Fails,
     Drv!IInv, Drv!StateOK, Drv!MutexInv, Drv!Field
<1>4. Drv!WorkInv'
  BY DEF Drv!WorkLeds, Drv!thread, Drv!work, Drv!sysfs, Drv!past, Drv!MayFail, Drv!Fails,
     Drv!IInv, Drv!StateOK, Drv!MutexInv, Drv!WorkInv
<1>5. Drv!DeviceInv'
  BY DEF Drv!WorkLeds, Drv!thread, Drv!work, Drv!sysfs, Drv!past, Drv!MayFail, Drv!Fails,
     Drv!IInv, Drv!DataOK, Drv!StateOK, Drv!Sets, Drv!Atkbds, Drv!Configs, Drv!Tables,
     Drv!Identities, Drv!InputDevs, Drv!Keyboards, Drv!Leds, Drv!Reps, Drv!Devs, Drv!MutexInv,
     Drv!DeviceInv, Drv!RegisterInv, Drv!DeviceIs, Drv!ExtraIsReal, Drv!Attrs, Drv!Table,
     Drv!Field, Drv!Write, Drv!Xl
<1>6. Drv!RegisterInv'
  BY DEF Drv!WorkLeds, Drv!thread, Drv!work, Drv!sysfs, Drv!past, Drv!MayFail, Drv!Fails,
     Drv!IInv, Drv!DataOK, Drv!StateOK, Drv!Sets, Drv!Atkbds, Drv!Configs, Drv!Tables,
     Drv!Identities, Drv!InputDevs, Drv!Keyboards, Drv!Leds, Drv!Reps, Drv!Devs, Drv!MutexInv,
     Drv!DeviceInv, Drv!RegisterInv, Drv!DeviceIs, Drv!ExtraIsReal, Drv!Attrs, Drv!Table,
     Drv!Field, Drv!Write, Drv!Xl
<1>7. Drv!SetsInv'
  BY ZenonT(40) DEF Drv!WorkLeds, Drv!thread, Drv!work, Drv!sysfs, Drv!past, Drv!MayFail, Drv!Fails,
     Drv!IInv, Drv!DataOK, Drv!StateOK, Drv!Sets, Drv!Atkbds, Drv!Configs, Drv!Tables,
     Drv!Identities, Drv!InputDevs, Drv!Keyboards, Drv!Leds, Drv!Reps, Drv!Devs, Drv!MutexInv,
     Drv!DeviceInv, Drv!SetsInv, Drv!Undisturbed, Drv!Write, Drv!Xl
<1> QED
  BY <1>1, <1>2, <1>3, <1>4, <1>5, <1>6, <1>7 DEF Drv!IInv

LEMMA DrvWorkRep ==
  ASSUME Drv!IInv, Drv!WorkRep
  PROVE  Drv!IInv'
<1>1. Drv!DataOK'
  <2>1. x7' \in Drv!Keyboards
    BY DEF Drv!IInv, Drv!DataOK, Drv!WorkRep, Drv!thread, Drv!work, Drv!sysfs, Drv!past,
       Drv!Sets, Drv!Keyboards, Drv!InputDevs, Drv!Atkbds, Drv!Devs, Drv!Leds, Drv!Reps
  <2> QED
    BY <2>1 DEF Drv!IInv, Drv!DataOK, Drv!WorkRep, Drv!thread, Drv!work, Drv!sysfs, Drv!past
<1>2. Drv!StateOK'
  BY DEF Drv!WorkRep, Drv!thread, Drv!work, Drv!sysfs, Drv!past, Drv!IInv, Drv!StateOK
<1>3. Drv!MutexInv'
  BY DEF Drv!WorkRep, Drv!thread, Drv!work, Drv!sysfs, Drv!past, Drv!IInv, Drv!StateOK,
     Drv!MutexInv, Drv!Field
<1>4. Drv!WorkInv'
  BY DEF Drv!WorkRep, Drv!thread, Drv!work, Drv!sysfs, Drv!past, Drv!IInv, Drv!StateOK,
     Drv!MutexInv, Drv!WorkInv
<1>5. Drv!DeviceInv'
  BY DEF Drv!WorkRep, Drv!thread, Drv!work, Drv!sysfs, Drv!past, Drv!IInv, Drv!DataOK,
     Drv!StateOK, Drv!Sets, Drv!Atkbds, Drv!Configs, Drv!Tables, Drv!Identities, Drv!InputDevs,
     Drv!Keyboards, Drv!Leds, Drv!Reps, Drv!Devs, Drv!MutexInv, Drv!DeviceInv, Drv!RegisterInv,
     Drv!DeviceIs, Drv!ExtraIsReal, Drv!Attrs, Drv!Table, Drv!Field, Drv!Write, Drv!Xl
<1>6. Drv!RegisterInv'
  BY DEF Drv!WorkRep, Drv!thread, Drv!work, Drv!sysfs, Drv!past, Drv!IInv, Drv!DataOK,
     Drv!StateOK, Drv!Sets, Drv!Atkbds, Drv!Configs, Drv!Tables, Drv!Identities, Drv!InputDevs,
     Drv!Keyboards, Drv!Leds, Drv!Reps, Drv!Devs, Drv!MutexInv, Drv!DeviceInv, Drv!RegisterInv,
     Drv!DeviceIs, Drv!ExtraIsReal, Drv!Attrs, Drv!Table, Drv!Field, Drv!Write, Drv!Xl
<1>7. Drv!SetsInv'
  BY DEF Drv!WorkRep, Drv!thread, Drv!work, Drv!sysfs, Drv!past, Drv!IInv, Drv!DataOK,
     Drv!StateOK, Drv!Sets, Drv!Atkbds, Drv!Configs, Drv!Tables, Drv!Identities, Drv!InputDevs,
     Drv!Keyboards, Drv!Leds, Drv!Reps, Drv!Devs, Drv!MutexInv, Drv!DeviceInv, Drv!SetsInv,
     Drv!Undisturbed, Drv!Write, Drv!Xl
<1> QED
  BY <1>1, <1>2, <1>3, <1>4, <1>5, <1>6, <1>7 DEF Drv!IInv

LEMMA DrvConnectEnable ==
  ASSUME Drv!IInv, Drv!ConnectEnable
  PROVE  Drv!IInv'
<1>1. Drv!DataOK'
  <2>1. x7' \in Drv!Keyboards
    BY DEF Drv!IInv, Drv!DataOK, Drv!ConnectEnable, Drv!thread, Drv!work, Drv!sysfs, Drv!past,
       Drv!Sets, Drv!Keyboards, Drv!InputDevs, Drv!Atkbds, Drv!Devs, Drv!Leds, Drv!Reps
  <2> QED
    BY <2>1 DEF Drv!IInv, Drv!DataOK, Drv!ConnectEnable, Drv!thread, Drv!work, Drv!sysfs,
       Drv!past
<1>2. Drv!StateOK'
  BY DEF Drv!ConnectEnable, Drv!thread, Drv!work, Drv!sysfs, Drv!past, Drv!IInv, Drv!StateOK
<1>3. Drv!MutexInv'
  BY DEF Drv!ConnectEnable, Drv!thread, Drv!work, Drv!sysfs, Drv!past, Drv!IInv, Drv!StateOK,
     Drv!MutexInv, Drv!Field
<1>4. Drv!WorkInv'
  BY DEF Drv!ConnectEnable, Drv!thread, Drv!work, Drv!sysfs, Drv!past, Drv!IInv, Drv!StateOK,
     Drv!MutexInv, Drv!WorkInv
<1>5. Drv!DeviceInv'
  BY DEF Drv!ConnectEnable, Drv!thread, Drv!work, Drv!sysfs, Drv!past, Drv!IInv, Drv!DataOK,
     Drv!StateOK, Drv!Sets, Drv!Atkbds, Drv!Configs, Drv!Tables, Drv!Identities, Drv!InputDevs,
     Drv!Keyboards, Drv!Leds, Drv!Reps, Drv!Devs, Drv!MutexInv, Drv!DeviceInv, Drv!RegisterInv,
     Drv!DeviceIs, Drv!ExtraIsReal, Drv!Attrs, Drv!Table, Drv!Field, Drv!Write, Drv!Xl
<1>6. Drv!RegisterInv'
  BY DEF Drv!ConnectEnable, Drv!thread, Drv!work, Drv!sysfs, Drv!past, Drv!IInv, Drv!DataOK,
     Drv!StateOK, Drv!Sets, Drv!Atkbds, Drv!Configs, Drv!Tables, Drv!Identities, Drv!InputDevs,
     Drv!Keyboards, Drv!Leds, Drv!Reps, Drv!Devs, Drv!MutexInv, Drv!DeviceInv, Drv!RegisterInv,
     Drv!DeviceIs, Drv!ExtraIsReal, Drv!Attrs, Drv!Table, Drv!Field, Drv!Write, Drv!Xl
<1>7. Drv!SetsInv'
  BY DEF Drv!ConnectEnable, Drv!thread, Drv!work, Drv!sysfs, Drv!past, Drv!IInv, Drv!DataOK,
     Drv!StateOK, Drv!Sets, Drv!Atkbds, Drv!Configs, Drv!Tables, Drv!Identities, Drv!InputDevs,
     Drv!Keyboards, Drv!Leds, Drv!Reps, Drv!Devs, Drv!MutexInv, Drv!DeviceInv, Drv!SetsInv,
     Drv!Undisturbed, Drv!Write, Drv!Xl
<1> QED
  BY <1>1, <1>2, <1>3, <1>4, <1>5, <1>6, <1>7 DEF Drv!IInv

LEMMA DrvConnectRegister ==
  ASSUME Drv!IInv, Drv!ConnectRegister
  PROVE  Drv!IInv'
<1>1. Drv!DataOK'
  <2>1. x5' \in [Drv!Devs -> Drv!InputDevs]
    BY DrvNoDev DEF Drv!IInv, Drv!DataOK, Drv!ConnectRegister, Drv!thread, Drv!work, Drv!sysfs,
       Drv!past, Drv!MayFail, Drv!Fails, Drv!Registered, Drv!Schedule, Drv!InputDevs, Drv!Devs,
       Drv!Atkbds, Drv!Leds, Drv!Reps
  <2> QED
    BY <2>1 DEF Drv!IInv, Drv!DataOK, Drv!ConnectRegister, Drv!thread, Drv!work, Drv!sysfs,
       Drv!past, Drv!MayFail, Drv!Fails, Drv!Registered, Drv!Schedule
<1>2. Drv!StateOK'
  <2>1. /\ x4' \in BOOLEAN /\ x8' \in BOOLEAN /\ x9' \in BOOLEAN /\ x11' \in BOOLEAN
    BY DEF Drv!IInv, Drv!StateOK, Drv!ConnectRegister, Drv!thread, Drv!work, Drv!sysfs,
       Drv!past, Drv!MayFail, Drv!Fails, Drv!Schedule
  <2>2. /\ x14' \in BOOLEAN /\ x19' \in BOOLEAN /\ x20' \in BOOLEAN
    BY DEF Drv!IInv, Drv!StateOK, Drv!ConnectRegister, Drv!thread, Drv!work, Drv!sysfs,
       Drv!past, Drv!MayFail, Drv!Fails, Drv!Schedule
  <2> QED
    BY <2>1, <2>2 DEF Drv!IInv, Drv!StateOK, Drv!ConnectRegister, Drv!thread, Drv!work,
       Drv!sysfs, Drv!past, Drv!MayFail, Drv!Fails, Drv!Schedule
<1>3. Drv!MutexInv'
  BY DEF Drv!ConnectRegister, Drv!thread, Drv!work, Drv!sysfs, Drv!past, Drv!MayFail,
     Drv!Fails, Drv!Registered, Drv!Schedule, Drv!NoDev, Drv!NewDev, Drv!Config, Drv!IInv,
     Drv!StateOK, Drv!MutexInv, Drv!Field
<1>4. Drv!WorkInv'
  BY DEF Drv!ConnectRegister, Drv!thread, Drv!work, Drv!sysfs, Drv!past, Drv!MayFail,
     Drv!Fails, Drv!Registered, Drv!Schedule, Drv!NoDev, Drv!NewDev, Drv!Config, Drv!IInv,
     Drv!StateOK, Drv!MutexInv, Drv!WorkInv
<1>5. Drv!DeviceInv'
  BY DEF Drv!ConnectRegister, Drv!thread, Drv!work, Drv!sysfs, Drv!past, Drv!MayFail,
     Drv!Fails, Drv!Registered, Drv!Schedule, Drv!NoDev, Drv!NewDev, Drv!Config, Drv!IInv,
     Drv!DataOK, Drv!StateOK, Drv!Sets, Drv!Atkbds, Drv!Configs, Drv!Tables, Drv!Identities,
     Drv!InputDevs, Drv!Keyboards, Drv!Leds, Drv!Reps, Drv!Devs, Drv!MutexInv, Drv!DeviceInv,
     Drv!RegisterInv, Drv!DeviceIs, Drv!ExtraIsReal, Drv!Attrs, Drv!Table, Drv!Field,
     Drv!Write, Drv!Xl
<1>6. Drv!RegisterInv'
  BY DEF Drv!ConnectRegister, Drv!thread, Drv!work, Drv!sysfs, Drv!past, Drv!MayFail,
     Drv!Fails, Drv!Registered, Drv!Schedule, Drv!NoDev, Drv!NewDev, Drv!Config, Drv!IInv,
     Drv!DataOK, Drv!StateOK, Drv!Sets, Drv!Atkbds, Drv!Configs, Drv!Tables, Drv!Identities,
     Drv!InputDevs, Drv!Keyboards, Drv!Leds, Drv!Reps, Drv!Devs, Drv!MutexInv, Drv!DeviceInv,
     Drv!RegisterInv, Drv!DeviceIs, Drv!ExtraIsReal, Drv!Attrs, Drv!Table, Drv!Field,
     Drv!Write, Drv!Xl
<1>7. Drv!SetsInv'
  BY DEF Drv!ConnectRegister, Drv!thread, Drv!work, Drv!sysfs, Drv!past, Drv!MayFail,
     Drv!Fails, Drv!Registered, Drv!Schedule, Drv!NoDev, Drv!NewDev, Drv!Config, Drv!IInv,
     Drv!DataOK, Drv!StateOK, Drv!Sets, Drv!Atkbds, Drv!Configs, Drv!Tables, Drv!Identities,
     Drv!InputDevs, Drv!Keyboards, Drv!Leds, Drv!Reps, Drv!Devs, Drv!MutexInv, Drv!DeviceInv,
     Drv!SetsInv, Drv!Undisturbed, Drv!Write, Drv!Xl
<1> QED
  BY <1>1, <1>2, <1>3, <1>4, <1>5, <1>6, <1>7 DEF Drv!IInv

LEMMA DrvReconnect ==
  ASSUME Drv!IInv, Drv!Reconnect
  PROVE  Drv!IInv'
<1>1. Drv!DataOK'
  BY DEF Drv!Reconnect, Drv!thread, Drv!work, Drv!sysfs, Drv!past, Drv!IInv, Drv!DataOK
<1>2. Drv!StateOK'
  BY DEF Drv!Reconnect, Drv!thread, Drv!work, Drv!sysfs, Drv!past, Drv!IInv, Drv!StateOK
<1>3. Drv!MutexInv'
  BY DEF Drv!Reconnect, Drv!thread, Drv!work, Drv!sysfs, Drv!past, Drv!IInv, Drv!StateOK,
     Drv!MutexInv, Drv!Field
<1>4. Drv!WorkInv'
  BY DEF Drv!Reconnect, Drv!thread, Drv!work, Drv!sysfs, Drv!past, Drv!IInv, Drv!StateOK,
     Drv!MutexInv, Drv!WorkInv
<1>5. Drv!DeviceInv'
  BY DEF Drv!Reconnect, Drv!thread, Drv!work, Drv!sysfs, Drv!past, Drv!IInv, Drv!DataOK,
     Drv!StateOK, Drv!Sets, Drv!Atkbds, Drv!Configs, Drv!Tables, Drv!Identities, Drv!InputDevs,
     Drv!Keyboards, Drv!Leds, Drv!Reps, Drv!Devs, Drv!MutexInv, Drv!DeviceInv, Drv!RegisterInv,
     Drv!DeviceIs, Drv!ExtraIsReal, Drv!Attrs, Drv!Table, Drv!Field, Drv!Write, Drv!Xl
<1>6. Drv!RegisterInv'
  BY DEF Drv!Reconnect, Drv!thread, Drv!work, Drv!sysfs, Drv!past, Drv!IInv, Drv!DataOK,
     Drv!StateOK, Drv!Sets, Drv!Atkbds, Drv!Configs, Drv!Tables, Drv!Identities, Drv!InputDevs,
     Drv!Keyboards, Drv!Leds, Drv!Reps, Drv!Devs, Drv!MutexInv, Drv!DeviceInv, Drv!RegisterInv,
     Drv!DeviceIs, Drv!ExtraIsReal, Drv!Attrs, Drv!Table, Drv!Field, Drv!Write, Drv!Xl
<1>7. Drv!SetsInv'
  BY DEF Drv!Reconnect, Drv!thread, Drv!work, Drv!sysfs, Drv!past, Drv!IInv, Drv!DataOK,
     Drv!StateOK, Drv!Sets, Drv!Atkbds, Drv!Configs, Drv!Tables, Drv!Identities, Drv!InputDevs,
     Drv!Keyboards, Drv!Leds, Drv!Reps, Drv!Devs, Drv!MutexInv, Drv!DeviceInv, Drv!SetsInv,
     Drv!Undisturbed, Drv!Write, Drv!Xl
<1> QED
  BY <1>1, <1>2, <1>3, <1>4, <1>5, <1>6, <1>7 DEF Drv!IInv

LEMMA DrvReconnectEnable ==
  ASSUME Drv!IInv, Drv!ReconnectEnable
  PROVE  Drv!IInv'
<1>1. Drv!DataOK'
  <2>1. x7' \in Drv!Keyboards
    BY DEF Drv!IInv, Drv!DataOK, Drv!ReconnectEnable, Drv!thread, Drv!work, Drv!sysfs,
       Drv!past, Drv!Sets, Drv!Keyboards, Drv!InputDevs, Drv!Atkbds, Drv!Devs, Drv!Leds,
       Drv!Reps
  <2> QED
    BY <2>1 DEF Drv!IInv, Drv!DataOK, Drv!ReconnectEnable, Drv!thread, Drv!work, Drv!sysfs,
       Drv!past
<1>2. Drv!StateOK'
  BY DEF Drv!ReconnectEnable, Drv!thread, Drv!work, Drv!sysfs, Drv!past, Drv!IInv, Drv!StateOK
<1>3. Drv!MutexInv'
  BY DEF Drv!ReconnectEnable, Drv!thread, Drv!work, Drv!sysfs, Drv!past, Drv!IInv, Drv!StateOK,
     Drv!MutexInv, Drv!Field
<1>4. Drv!WorkInv'
  BY DEF Drv!ReconnectEnable, Drv!thread, Drv!work, Drv!sysfs, Drv!past, Drv!IInv, Drv!StateOK,
     Drv!MutexInv, Drv!WorkInv
<1>5. Drv!DeviceInv'
  BY DEF Drv!ReconnectEnable, Drv!thread, Drv!work, Drv!sysfs, Drv!past, Drv!IInv, Drv!DataOK,
     Drv!StateOK, Drv!Sets, Drv!Atkbds, Drv!Configs, Drv!Tables, Drv!Identities, Drv!InputDevs,
     Drv!Keyboards, Drv!Leds, Drv!Reps, Drv!Devs, Drv!MutexInv, Drv!DeviceInv, Drv!RegisterInv,
     Drv!DeviceIs, Drv!ExtraIsReal, Drv!Attrs, Drv!Table, Drv!Field, Drv!Write, Drv!Xl
<1>6. Drv!RegisterInv'
  BY DEF Drv!ReconnectEnable, Drv!thread, Drv!work, Drv!sysfs, Drv!past, Drv!IInv, Drv!DataOK,
     Drv!StateOK, Drv!Sets, Drv!Atkbds, Drv!Configs, Drv!Tables, Drv!Identities, Drv!InputDevs,
     Drv!Keyboards, Drv!Leds, Drv!Reps, Drv!Devs, Drv!MutexInv, Drv!DeviceInv, Drv!RegisterInv,
     Drv!DeviceIs, Drv!ExtraIsReal, Drv!Attrs, Drv!Table, Drv!Field, Drv!Write, Drv!Xl
<1>7. Drv!SetsInv'
  BY DEF Drv!ReconnectEnable, Drv!thread, Drv!work, Drv!sysfs, Drv!past, Drv!IInv, Drv!DataOK,
     Drv!StateOK, Drv!Sets, Drv!Atkbds, Drv!Configs, Drv!Tables, Drv!Identities, Drv!InputDevs,
     Drv!Keyboards, Drv!Leds, Drv!Reps, Drv!Devs, Drv!MutexInv, Drv!DeviceInv, Drv!SetsInv,
     Drv!Undisturbed, Drv!Write, Drv!Xl
<1> QED
  BY <1>1, <1>2, <1>3, <1>4, <1>5, <1>6, <1>7 DEF Drv!IInv

LEMMA DrvDisconnectRequest ==
  ASSUME Drv!IInv, Drv!DisconnectRequest
  PROVE  Drv!IInv'
<1>1. Drv!DataOK'
  BY DEF Drv!DisconnectRequest, Drv!thread, Drv!work, Drv!sysfs, Drv!past, Drv!IInv, Drv!DataOK
<1>2. Drv!StateOK'
  BY DEF Drv!DisconnectRequest, Drv!thread, Drv!work, Drv!sysfs, Drv!past, Drv!IInv, Drv!StateOK
<1>3. Drv!MutexInv'
  BY DEF Drv!DisconnectRequest, Drv!thread, Drv!work, Drv!sysfs, Drv!past, Drv!IInv,
     Drv!StateOK, Drv!MutexInv, Drv!Field
<1>4. Drv!WorkInv'
  BY DEF Drv!DisconnectRequest, Drv!thread, Drv!work, Drv!sysfs, Drv!past, Drv!IInv,
     Drv!StateOK, Drv!MutexInv, Drv!WorkInv
<1>5. Drv!DeviceInv'
  BY DEF Drv!DisconnectRequest, Drv!thread, Drv!work, Drv!sysfs, Drv!past, Drv!IInv,
     Drv!DataOK, Drv!StateOK, Drv!Sets, Drv!Atkbds, Drv!Configs, Drv!Tables, Drv!Identities,
     Drv!InputDevs, Drv!Keyboards, Drv!Leds, Drv!Reps, Drv!Devs, Drv!MutexInv, Drv!DeviceInv,
     Drv!RegisterInv, Drv!DeviceIs, Drv!ExtraIsReal, Drv!Attrs, Drv!Table, Drv!Field,
     Drv!Write, Drv!Xl
<1>6. Drv!RegisterInv'
  BY DEF Drv!DisconnectRequest, Drv!thread, Drv!work, Drv!sysfs, Drv!past, Drv!IInv,
     Drv!DataOK, Drv!StateOK, Drv!Sets, Drv!Atkbds, Drv!Configs, Drv!Tables, Drv!Identities,
     Drv!InputDevs, Drv!Keyboards, Drv!Leds, Drv!Reps, Drv!Devs, Drv!MutexInv, Drv!DeviceInv,
     Drv!RegisterInv, Drv!DeviceIs, Drv!ExtraIsReal, Drv!Attrs, Drv!Table, Drv!Field,
     Drv!Write, Drv!Xl
<1>7. Drv!SetsInv'
  BY DEF Drv!DisconnectRequest, Drv!thread, Drv!work, Drv!sysfs, Drv!past, Drv!IInv,
     Drv!DataOK, Drv!StateOK, Drv!Sets, Drv!Atkbds, Drv!Configs, Drv!Tables, Drv!Identities,
     Drv!InputDevs, Drv!Keyboards, Drv!Leds, Drv!Reps, Drv!Devs, Drv!MutexInv, Drv!DeviceInv,
     Drv!SetsInv, Drv!Undisturbed, Drv!Write, Drv!Xl
<1> QED
  BY <1>1, <1>2, <1>3, <1>4, <1>5, <1>6, <1>7 DEF Drv!IInv

LEMMA DrvDisconnectDisable ==
  ASSUME Drv!IInv, Drv!DisconnectDisable
  PROVE  Drv!IInv'
<1>1. Drv!DataOK'
  BY DEF Drv!DisconnectDisable, Drv!thread, Drv!work, Drv!sysfs, Drv!past, Drv!IInv, Drv!DataOK
<1>2. Drv!StateOK'
  BY DEF Drv!DisconnectDisable, Drv!thread, Drv!work, Drv!sysfs, Drv!past, Drv!IInv, Drv!StateOK
<1>3. Drv!MutexInv'
  BY DEF Drv!DisconnectDisable, Drv!thread, Drv!work, Drv!sysfs, Drv!past, Drv!IInv,
     Drv!StateOK, Drv!MutexInv, Drv!Field
<1>4. Drv!WorkInv'
  BY DEF Drv!DisconnectDisable, Drv!thread, Drv!work, Drv!sysfs, Drv!past, Drv!IInv,
     Drv!StateOK, Drv!MutexInv, Drv!WorkInv
<1>5. Drv!DeviceInv'
  BY DEF Drv!DisconnectDisable, Drv!thread, Drv!work, Drv!sysfs, Drv!past, Drv!IInv,
     Drv!DataOK, Drv!StateOK, Drv!Sets, Drv!Atkbds, Drv!Configs, Drv!Tables, Drv!Identities,
     Drv!InputDevs, Drv!Keyboards, Drv!Leds, Drv!Reps, Drv!Devs, Drv!MutexInv, Drv!DeviceInv,
     Drv!RegisterInv, Drv!DeviceIs, Drv!ExtraIsReal, Drv!Attrs, Drv!Table, Drv!Field,
     Drv!Write, Drv!Xl
<1>6. Drv!RegisterInv'
  BY DEF Drv!DisconnectDisable, Drv!thread, Drv!work, Drv!sysfs, Drv!past, Drv!IInv,
     Drv!DataOK, Drv!StateOK, Drv!Sets, Drv!Atkbds, Drv!Configs, Drv!Tables, Drv!Identities,
     Drv!InputDevs, Drv!Keyboards, Drv!Leds, Drv!Reps, Drv!Devs, Drv!MutexInv, Drv!DeviceInv,
     Drv!RegisterInv, Drv!DeviceIs, Drv!ExtraIsReal, Drv!Attrs, Drv!Table, Drv!Field,
     Drv!Write, Drv!Xl
<1>7. Drv!SetsInv'
  BY DEF Drv!DisconnectDisable, Drv!thread, Drv!work, Drv!sysfs, Drv!past, Drv!IInv,
     Drv!DataOK, Drv!StateOK, Drv!Sets, Drv!Atkbds, Drv!Configs, Drv!Tables, Drv!Identities,
     Drv!InputDevs, Drv!Keyboards, Drv!Leds, Drv!Reps, Drv!Devs, Drv!MutexInv, Drv!DeviceInv,
     Drv!SetsInv, Drv!Undisturbed, Drv!Write, Drv!Xl
<1> QED
  BY <1>1, <1>2, <1>3, <1>4, <1>5, <1>6, <1>7 DEF Drv!IInv

LEMMA DrvDisconnectUnregister ==
  ASSUME Drv!IInv, Drv!DisconnectUnregister
  PROVE  Drv!IInv'
<1>1. Drv!DataOK'
  <2>1. x5' \in [Drv!Devs -> Drv!InputDevs]
    BY DrvNoDev DEF Drv!IInv, Drv!DataOK, Drv!DisconnectUnregister, Drv!thread, Drv!work,
       Drv!sysfs, Drv!past, Drv!InputDevs, Drv!Devs, Drv!Atkbds, Drv!Leds, Drv!Reps
  <2> QED
    BY <2>1 DEF Drv!IInv, Drv!DataOK, Drv!DisconnectUnregister, Drv!thread, Drv!work,
       Drv!sysfs, Drv!past
<1>2. Drv!StateOK'
  BY DEF Drv!DisconnectUnregister, Drv!thread, Drv!work, Drv!sysfs, Drv!past, Drv!NoDev,
     Drv!IInv, Drv!StateOK
<1>3. Drv!MutexInv'
  BY DEF Drv!DisconnectUnregister, Drv!thread, Drv!work, Drv!sysfs, Drv!past, Drv!NoDev,
     Drv!IInv, Drv!StateOK, Drv!MutexInv, Drv!Field
<1>4. Drv!WorkInv'
  BY DEF Drv!DisconnectUnregister, Drv!thread, Drv!work, Drv!sysfs, Drv!past, Drv!NoDev,
     Drv!IInv, Drv!StateOK, Drv!MutexInv, Drv!WorkInv
<1>5. Drv!DeviceInv'
  BY DEF Drv!DisconnectUnregister, Drv!thread, Drv!work, Drv!sysfs, Drv!past, Drv!NoDev,
     Drv!IInv, Drv!DataOK, Drv!StateOK, Drv!Sets, Drv!Atkbds, Drv!Configs, Drv!Tables,
     Drv!Identities, Drv!InputDevs, Drv!Keyboards, Drv!Leds, Drv!Reps, Drv!Devs, Drv!MutexInv,
     Drv!DeviceInv, Drv!RegisterInv, Drv!DeviceIs, Drv!ExtraIsReal, Drv!Attrs, Drv!Table,
     Drv!Field, Drv!Write, Drv!Xl
<1>6. Drv!RegisterInv'
  BY DEF Drv!DisconnectUnregister, Drv!thread, Drv!work, Drv!sysfs, Drv!past, Drv!NoDev,
     Drv!IInv, Drv!DataOK, Drv!StateOK, Drv!Sets, Drv!Atkbds, Drv!Configs, Drv!Tables,
     Drv!Identities, Drv!InputDevs, Drv!Keyboards, Drv!Leds, Drv!Reps, Drv!Devs, Drv!MutexInv,
     Drv!DeviceInv, Drv!RegisterInv, Drv!DeviceIs, Drv!ExtraIsReal, Drv!Attrs, Drv!Table,
     Drv!Field, Drv!Write, Drv!Xl
<1>7. Drv!SetsInv'
  BY DEF Drv!DisconnectUnregister, Drv!thread, Drv!work, Drv!sysfs, Drv!past, Drv!NoDev,
     Drv!IInv, Drv!DataOK, Drv!StateOK, Drv!Sets, Drv!Atkbds, Drv!Configs, Drv!Tables,
     Drv!Identities, Drv!InputDevs, Drv!Keyboards, Drv!Leds, Drv!Reps, Drv!Devs, Drv!MutexInv,
     Drv!DeviceInv, Drv!SetsInv, Drv!Undisturbed, Drv!Write, Drv!Xl
<1> QED
  BY <1>1, <1>2, <1>3, <1>4, <1>5, <1>6, <1>7 DEF Drv!IInv

LEMMA DrvDisconnectCancel ==
  ASSUME Drv!IInv, Drv!DisconnectCancel
  PROVE  Drv!IInv'
<1>1. Drv!DataOK'
  BY DEF Drv!DisconnectCancel, Drv!thread, Drv!work, Drv!sysfs, Drv!past, Drv!IInv, Drv!DataOK
<1>2. Drv!StateOK'
  BY DEF Drv!DisconnectCancel, Drv!thread, Drv!work, Drv!sysfs, Drv!past, Drv!IInv, Drv!StateOK
<1>3. Drv!MutexInv'
  BY DEF Drv!DisconnectCancel, Drv!thread, Drv!work, Drv!sysfs, Drv!past, Drv!IInv,
     Drv!StateOK, Drv!MutexInv, Drv!Field
<1>4. Drv!WorkInv'
  BY DEF Drv!DisconnectCancel, Drv!thread, Drv!work, Drv!sysfs, Drv!past, Drv!IInv,
     Drv!StateOK, Drv!MutexInv, Drv!WorkInv
<1>5. Drv!DeviceInv'
  BY DEF Drv!DisconnectCancel, Drv!thread, Drv!work, Drv!sysfs, Drv!past, Drv!IInv, Drv!DataOK,
     Drv!StateOK, Drv!Sets, Drv!Atkbds, Drv!Configs, Drv!Tables, Drv!Identities, Drv!InputDevs,
     Drv!Keyboards, Drv!Leds, Drv!Reps, Drv!Devs, Drv!MutexInv, Drv!DeviceInv, Drv!RegisterInv,
     Drv!DeviceIs, Drv!ExtraIsReal, Drv!Attrs, Drv!Table, Drv!Field, Drv!Write, Drv!Xl
<1>6. Drv!RegisterInv'
  BY DEF Drv!DisconnectCancel, Drv!thread, Drv!work, Drv!sysfs, Drv!past, Drv!IInv, Drv!DataOK,
     Drv!StateOK, Drv!Sets, Drv!Atkbds, Drv!Configs, Drv!Tables, Drv!Identities, Drv!InputDevs,
     Drv!Keyboards, Drv!Leds, Drv!Reps, Drv!Devs, Drv!MutexInv, Drv!DeviceInv, Drv!RegisterInv,
     Drv!DeviceIs, Drv!ExtraIsReal, Drv!Attrs, Drv!Table, Drv!Field, Drv!Write, Drv!Xl
<1>7. Drv!SetsInv'
  BY DEF Drv!DisconnectCancel, Drv!thread, Drv!work, Drv!sysfs, Drv!past, Drv!IInv, Drv!DataOK,
     Drv!StateOK, Drv!Sets, Drv!Atkbds, Drv!Configs, Drv!Tables, Drv!Identities, Drv!InputDevs,
     Drv!Keyboards, Drv!Leds, Drv!Reps, Drv!Devs, Drv!MutexInv, Drv!DeviceInv, Drv!SetsInv,
     Drv!Undisturbed, Drv!Write, Drv!Xl
<1> QED
  BY <1>1, <1>2, <1>3, <1>4, <1>5, <1>6, <1>7 DEF Drv!IInv

LEMMA DrvDisconnectFree ==
  ASSUME Drv!IInv, Drv!DisconnectFree
  PROVE  Drv!IInv'
<1>1. Drv!DataOK'
  BY DEF Drv!DisconnectFree, Drv!thread, Drv!work, Drv!sysfs, Drv!past, Drv!IInv, Drv!DataOK
<1>2. Drv!StateOK'
  BY DEF Drv!DisconnectFree, Drv!thread, Drv!work, Drv!sysfs, Drv!past, Drv!IInv, Drv!StateOK
<1>3. Drv!MutexInv'
  BY DEF Drv!DisconnectFree, Drv!thread, Drv!work, Drv!sysfs, Drv!past, Drv!IInv, Drv!StateOK,
     Drv!MutexInv, Drv!Field
<1>4. Drv!WorkInv'
  BY DEF Drv!DisconnectFree, Drv!thread, Drv!work, Drv!sysfs, Drv!past, Drv!IInv, Drv!StateOK,
     Drv!MutexInv, Drv!WorkInv
<1>5. Drv!DeviceInv'
  BY DEF Drv!DisconnectFree, Drv!thread, Drv!work, Drv!sysfs, Drv!past, Drv!IInv, Drv!DataOK,
     Drv!StateOK, Drv!Sets, Drv!Atkbds, Drv!Configs, Drv!Tables, Drv!Identities, Drv!InputDevs,
     Drv!Keyboards, Drv!Leds, Drv!Reps, Drv!Devs, Drv!MutexInv, Drv!DeviceInv, Drv!RegisterInv,
     Drv!DeviceIs, Drv!ExtraIsReal, Drv!Attrs, Drv!Table, Drv!Field, Drv!Write, Drv!Xl
<1>6. Drv!RegisterInv'
  BY DEF Drv!DisconnectFree, Drv!thread, Drv!work, Drv!sysfs, Drv!past, Drv!IInv, Drv!DataOK,
     Drv!StateOK, Drv!Sets, Drv!Atkbds, Drv!Configs, Drv!Tables, Drv!Identities, Drv!InputDevs,
     Drv!Keyboards, Drv!Leds, Drv!Reps, Drv!Devs, Drv!MutexInv, Drv!DeviceInv, Drv!RegisterInv,
     Drv!DeviceIs, Drv!ExtraIsReal, Drv!Attrs, Drv!Table, Drv!Field, Drv!Write, Drv!Xl
<1>7. Drv!SetsInv'
  BY DEF Drv!DisconnectFree, Drv!thread, Drv!work, Drv!sysfs, Drv!past, Drv!IInv, Drv!DataOK,
     Drv!StateOK, Drv!Sets, Drv!Atkbds, Drv!Configs, Drv!Tables, Drv!Identities, Drv!InputDevs,
     Drv!Keyboards, Drv!Leds, Drv!Reps, Drv!Devs, Drv!MutexInv, Drv!DeviceInv, Drv!SetsInv,
     Drv!Undisturbed, Drv!Write, Drv!Xl
<1> QED
  BY <1>1, <1>2, <1>3, <1>4, <1>5, <1>6, <1>7 DEF Drv!IInv

LEMMA DrvStoreLock ==
  ASSUME Drv!IInv, Drv!StoreLock
  PROVE  Drv!IInv'
<1>1. Drv!DataOK'
  BY DEF Drv!StoreLock, Drv!thread, Drv!work, Drv!sysfs, Drv!past, Drv!IInv, Drv!DataOK
<1>2. Drv!StateOK'
  BY DEF Drv!StoreLock, Drv!thread, Drv!work, Drv!sysfs, Drv!past, Drv!IInv, Drv!StateOK
<1>3. Drv!MutexInv'
  BY DEF Drv!StoreLock, Drv!thread, Drv!work, Drv!sysfs, Drv!past, Drv!IInv, Drv!StateOK,
     Drv!MutexInv, Drv!Field
<1>4. Drv!WorkInv'
  BY DEF Drv!StoreLock, Drv!thread, Drv!work, Drv!sysfs, Drv!past, Drv!IInv, Drv!StateOK,
     Drv!MutexInv, Drv!WorkInv
<1>5. Drv!DeviceInv'
  BY DEF Drv!StoreLock, Drv!thread, Drv!work, Drv!sysfs, Drv!past, Drv!IInv, Drv!DataOK,
     Drv!StateOK, Drv!Sets, Drv!Atkbds, Drv!Configs, Drv!Tables, Drv!Identities, Drv!InputDevs,
     Drv!Keyboards, Drv!Leds, Drv!Reps, Drv!Devs, Drv!MutexInv, Drv!DeviceInv, Drv!RegisterInv,
     Drv!DeviceIs, Drv!ExtraIsReal, Drv!Attrs, Drv!Table, Drv!Field, Drv!Write, Drv!Xl
<1>6. Drv!RegisterInv'
  BY DEF Drv!StoreLock, Drv!thread, Drv!work, Drv!sysfs, Drv!past, Drv!IInv, Drv!DataOK,
     Drv!StateOK, Drv!Sets, Drv!Atkbds, Drv!Configs, Drv!Tables, Drv!Identities, Drv!InputDevs,
     Drv!Keyboards, Drv!Leds, Drv!Reps, Drv!Devs, Drv!MutexInv, Drv!DeviceInv, Drv!RegisterInv,
     Drv!DeviceIs, Drv!ExtraIsReal, Drv!Attrs, Drv!Table, Drv!Field, Drv!Write, Drv!Xl
<1>7. Drv!SetsInv'
  BY DEF Drv!StoreLock, Drv!thread, Drv!work, Drv!sysfs, Drv!past, Drv!IInv, Drv!DataOK,
     Drv!StateOK, Drv!Sets, Drv!Atkbds, Drv!Configs, Drv!Tables, Drv!Identities, Drv!InputDevs,
     Drv!Keyboards, Drv!Leds, Drv!Reps, Drv!Devs, Drv!MutexInv, Drv!DeviceInv, Drv!SetsInv,
     Drv!Undisturbed, Drv!Write, Drv!Xl
<1> QED
  BY <1>1, <1>2, <1>3, <1>4, <1>5, <1>6, <1>7 DEF Drv!IInv

LEMMA DrvStoreNothing ==
  ASSUME Drv!IInv, Drv!StoreNothing
  PROVE  Drv!IInv'
<1>1. Drv!DataOK'
  BY DEF Drv!StoreNothing, Drv!thread, Drv!work, Drv!sysfs, Drv!past, Drv!IInv, Drv!DataOK
<1>2. Drv!StateOK'
  BY DEF Drv!StoreNothing, Drv!thread, Drv!work, Drv!sysfs, Drv!past, Drv!IInv, Drv!StateOK
<1>3. Drv!MutexInv'
  BY DEF Drv!StoreNothing, Drv!thread, Drv!work, Drv!sysfs, Drv!past, Drv!IInv, Drv!StateOK,
     Drv!MutexInv, Drv!Field
<1>4. Drv!WorkInv'
  BY DEF Drv!StoreNothing, Drv!thread, Drv!work, Drv!sysfs, Drv!past, Drv!IInv, Drv!StateOK,
     Drv!MutexInv, Drv!WorkInv
<1>5. Drv!DeviceInv'
  BY DEF Drv!StoreNothing, Drv!thread, Drv!work, Drv!sysfs, Drv!past, Drv!IInv, Drv!DataOK,
     Drv!StateOK, Drv!Sets, Drv!Atkbds, Drv!Configs, Drv!Tables, Drv!Identities, Drv!InputDevs,
     Drv!Keyboards, Drv!Leds, Drv!Reps, Drv!Devs, Drv!MutexInv, Drv!DeviceInv, Drv!RegisterInv,
     Drv!DeviceIs, Drv!ExtraIsReal, Drv!Attrs, Drv!Table, Drv!Field, Drv!Write, Drv!Xl
<1>6. Drv!RegisterInv'
  BY DEF Drv!StoreNothing, Drv!thread, Drv!work, Drv!sysfs, Drv!past, Drv!IInv, Drv!DataOK,
     Drv!StateOK, Drv!Sets, Drv!Atkbds, Drv!Configs, Drv!Tables, Drv!Identities, Drv!InputDevs,
     Drv!Keyboards, Drv!Leds, Drv!Reps, Drv!Devs, Drv!MutexInv, Drv!DeviceInv, Drv!RegisterInv,
     Drv!DeviceIs, Drv!ExtraIsReal, Drv!Attrs, Drv!Table, Drv!Field, Drv!Write, Drv!Xl
<1>7. Drv!SetsInv'
  BY DEF Drv!StoreNothing, Drv!thread, Drv!work, Drv!sysfs, Drv!past, Drv!IInv, Drv!DataOK,
     Drv!StateOK, Drv!Sets, Drv!Atkbds, Drv!Configs, Drv!Tables, Drv!Identities, Drv!InputDevs,
     Drv!Keyboards, Drv!Leds, Drv!Reps, Drv!Devs, Drv!MutexInv, Drv!DeviceInv, Drv!SetsInv,
     Drv!Undisturbed, Drv!Write, Drv!Xl
<1> QED
  BY <1>1, <1>2, <1>3, <1>4, <1>5, <1>6, <1>7 DEF Drv!IInv

LEMMA DrvStoreEnable ==
  ASSUME Drv!IInv, Drv!StoreEnable
  PROVE  Drv!IInv'
<1>1. Drv!DataOK'
  BY DrvUnset DEF Drv!StoreEnable, Drv!thread, Drv!work, Drv!past, Drv!IInv, Drv!DataOK
<1>2. Drv!StateOK'
  BY DEF Drv!StoreEnable, Drv!thread, Drv!work, Drv!sysfs, Drv!past, Drv!Unset, Drv!Config,
     Drv!IInv, Drv!StateOK
<1>3. Drv!MutexInv'
  BY DEF Drv!StoreEnable, Drv!thread, Drv!work, Drv!sysfs, Drv!past, Drv!Unset, Drv!Config,
     Drv!IInv, Drv!StateOK, Drv!MutexInv, Drv!Field
<1>4. Drv!WorkInv'
  BY DEF Drv!StoreEnable, Drv!thread, Drv!work, Drv!sysfs, Drv!past, Drv!Unset, Drv!Config,
     Drv!IInv, Drv!StateOK, Drv!MutexInv, Drv!WorkInv
<1>5. Drv!DeviceInv'
  BY DEF Drv!StoreEnable, Drv!thread, Drv!work, Drv!sysfs, Drv!past, Drv!Unset, Drv!Config,
     Drv!IInv, Drv!DataOK, Drv!StateOK, Drv!Sets, Drv!Atkbds, Drv!Configs, Drv!Tables,
     Drv!Identities, Drv!InputDevs, Drv!Keyboards, Drv!Leds, Drv!Reps, Drv!Devs, Drv!MutexInv,
     Drv!DeviceInv, Drv!RegisterInv, Drv!DeviceIs, Drv!ExtraIsReal, Drv!Attrs, Drv!Table,
     Drv!Field, Drv!Write, Drv!Xl
<1>6. Drv!RegisterInv'
  BY DEF Drv!StoreEnable, Drv!thread, Drv!work, Drv!sysfs, Drv!past, Drv!Unset, Drv!Config,
     Drv!IInv, Drv!DataOK, Drv!StateOK, Drv!Sets, Drv!Atkbds, Drv!Configs, Drv!Tables,
     Drv!Identities, Drv!InputDevs, Drv!Keyboards, Drv!Leds, Drv!Reps, Drv!Devs, Drv!MutexInv,
     Drv!DeviceInv, Drv!RegisterInv, Drv!DeviceIs, Drv!ExtraIsReal, Drv!Attrs, Drv!Table,
     Drv!Field, Drv!Write, Drv!Xl
<1>7. Drv!SetsInv'
  BY DEF Drv!StoreEnable, Drv!thread, Drv!work, Drv!sysfs, Drv!past, Drv!Unset, Drv!Config,
     Drv!IInv, Drv!DataOK, Drv!StateOK, Drv!Sets, Drv!Atkbds, Drv!Configs, Drv!Tables,
     Drv!Identities, Drv!InputDevs, Drv!Keyboards, Drv!Leds, Drv!Reps, Drv!Devs, Drv!MutexInv,
     Drv!DeviceInv, Drv!SetsInv, Drv!Undisturbed, Drv!Write, Drv!Xl
<1> QED
  BY <1>1, <1>2, <1>3, <1>4, <1>5, <1>6, <1>7 DEF Drv!IInv

LEMMA DrvSetLeds ==
  ASSUME Drv!IInv, Drv!SetLeds
  PROVE  Drv!IInv'
<1>1. Drv!DataOK'
  <2>1. x6' \in Drv!Leds
    BY DEF Drv!SetLeds, Drv!Leds
  <2>2. x5' \in [Drv!Devs -> Drv!InputDevs]
    BY <2>1 DEF Drv!IInv, Drv!DataOK, Drv!SetLeds, Drv!InputDevs
  <2> QED
    BY <2>1, <2>2 DEF Drv!IInv, Drv!DataOK, Drv!SetLeds, Drv!thread, Drv!work, Drv!sysfs,
       Drv!past
<1>2. Drv!StateOK'
  <2>1. /\ x4' \in BOOLEAN /\ x8' \in BOOLEAN /\ x9' \in BOOLEAN /\ x11' \in BOOLEAN
    BY DEF Drv!IInv, Drv!StateOK, Drv!SetLeds, Drv!thread, Drv!work, Drv!sysfs, Drv!past,
       Drv!Schedule
  <2>2. /\ x14' \in BOOLEAN /\ x19' \in BOOLEAN /\ x20' \in BOOLEAN
    BY DEF Drv!IInv, Drv!StateOK, Drv!SetLeds, Drv!thread, Drv!work, Drv!sysfs, Drv!past,
       Drv!Schedule
  <2> QED
    BY <2>1, <2>2 DEF Drv!IInv, Drv!StateOK, Drv!SetLeds, Drv!thread, Drv!work, Drv!sysfs,
       Drv!past, Drv!Schedule
<1>3. Drv!MutexInv'
  BY DEF Drv!SetLeds, Drv!thread, Drv!work, Drv!sysfs, Drv!past, Drv!Schedule, Drv!IInv,
     Drv!StateOK, Drv!MutexInv, Drv!Field
<1>4. Drv!WorkInv'
  <2>1. x14' = x14 /\ (x14 = TRUE => x11' = x11 \/ x11' = FALSE)
    BY DEF Drv!IInv, Drv!StateOK, Drv!WorkInv, Drv!SetLeds, Drv!thread, Drv!work, Drv!sysfs,
       Drv!past, Drv!Schedule
  <2>2. x2 \in {"unbound", "created", "enabled"} => UNCHANGED x11
    BY DEF Drv!IInv, Drv!DataOK, Drv!Atkbds, Drv!Devs, Drv!MutexInv, Drv!DeviceInv,
       Drv!DeviceIs, Drv!SetLeds, Drv!thread, Drv!work, Drv!sysfs, Drv!past, Drv!Schedule
  <2> QED
    BY <2>1, <2>2 DEF Drv!IInv, Drv!StateOK, Drv!WorkInv, Drv!SetLeds, Drv!thread, Drv!work,
       Drv!sysfs, Drv!past
<1>5. Drv!DeviceInv'
  BY DEF Drv!SetLeds, Drv!thread, Drv!work, Drv!sysfs, Drv!past, Drv!Schedule, Drv!IInv,
     Drv!DataOK, Drv!StateOK, Drv!Sets, Drv!Atkbds, Drv!Configs, Drv!Tables, Drv!Identities,
     Drv!InputDevs, Drv!Keyboards, Drv!Leds, Drv!Reps, Drv!Devs, Drv!MutexInv, Drv!DeviceInv,
     Drv!RegisterInv, Drv!DeviceIs, Drv!ExtraIsReal, Drv!Attrs, Drv!Table, Drv!Field,
     Drv!Write, Drv!Xl
<1>6. Drv!RegisterInv'
  BY DEF Drv!SetLeds, Drv!thread, Drv!work, Drv!sysfs, Drv!past, Drv!Schedule, Drv!IInv,
     Drv!DataOK, Drv!StateOK, Drv!Sets, Drv!Atkbds, Drv!Configs, Drv!Tables, Drv!Identities,
     Drv!InputDevs, Drv!Keyboards, Drv!Leds, Drv!Reps, Drv!Devs, Drv!MutexInv, Drv!DeviceInv,
     Drv!RegisterInv, Drv!DeviceIs, Drv!ExtraIsReal, Drv!Attrs, Drv!Table, Drv!Field,
     Drv!Write, Drv!Xl
<1>7. Drv!SetsInv'
  BY DEF Drv!SetLeds, Drv!thread, Drv!work, Drv!sysfs, Drv!past, Drv!Schedule, Drv!IInv,
     Drv!DataOK, Drv!StateOK, Drv!Sets, Drv!Atkbds, Drv!Configs, Drv!Tables, Drv!Identities,
     Drv!InputDevs, Drv!Keyboards, Drv!Leds, Drv!Reps, Drv!Devs, Drv!MutexInv, Drv!DeviceInv,
     Drv!SetsInv, Drv!Undisturbed, Drv!Write, Drv!Xl
<1> QED
  BY <1>1, <1>2, <1>3, <1>4, <1>5, <1>6, <1>7 DEF Drv!IInv

LEMMA DrvSetRep ==
  ASSUME Drv!IInv, Drv!SetRep
  PROVE  Drv!IInv'
<1>1. Drv!DataOK'
  <2>1. x5' \in [Drv!Devs -> Drv!InputDevs]
    BY DrvNoDev DEF Drv!IInv, Drv!DataOK, Drv!SetRep, Drv!thread, Drv!work, Drv!sysfs,
       Drv!past, Drv!InputDevs, Drv!Devs, Drv!Atkbds, Drv!Leds, Drv!Reps
  <2> QED
    BY <2>1 DEF Drv!IInv, Drv!DataOK, Drv!SetRep, Drv!thread, Drv!work, Drv!sysfs, Drv!past
<1>2. Drv!StateOK'
  <2>1. /\ x4' \in BOOLEAN /\ x8' \in BOOLEAN /\ x9' \in BOOLEAN /\ x11' \in BOOLEAN
    BY DEF Drv!IInv, Drv!StateOK, Drv!SetRep, Drv!thread, Drv!work, Drv!sysfs, Drv!past,
       Drv!Schedule
  <2>2. /\ x14' \in BOOLEAN /\ x19' \in BOOLEAN /\ x20' \in BOOLEAN
    BY DEF Drv!IInv, Drv!StateOK, Drv!SetRep, Drv!thread, Drv!work, Drv!sysfs, Drv!past,
       Drv!Schedule
  <2> QED
    BY <2>1, <2>2 DEF Drv!IInv, Drv!StateOK, Drv!SetRep, Drv!thread, Drv!work, Drv!sysfs,
       Drv!past, Drv!Schedule
<1>3. Drv!MutexInv'
  BY DEF Drv!SetRep, Drv!thread, Drv!work, Drv!sysfs, Drv!past, Drv!Schedule, Drv!IInv,
     Drv!StateOK, Drv!MutexInv, Drv!Field
<1>4. Drv!WorkInv'
  <2>1. x14' = x14 /\ (x14 = TRUE => x11' = x11 \/ x11' = FALSE)
    BY DEF Drv!IInv, Drv!StateOK, Drv!WorkInv, Drv!SetRep, Drv!thread, Drv!work, Drv!sysfs,
       Drv!past, Drv!Schedule
  <2>2. x2 \in {"unbound", "created", "enabled"} => UNCHANGED x11
    BY DEF Drv!IInv, Drv!DataOK, Drv!Atkbds, Drv!Devs, Drv!MutexInv, Drv!DeviceInv,
       Drv!DeviceIs, Drv!SetRep, Drv!thread, Drv!work, Drv!sysfs, Drv!past, Drv!Schedule
  <2> QED
    BY <2>1, <2>2 DEF Drv!IInv, Drv!StateOK, Drv!WorkInv, Drv!SetRep, Drv!thread, Drv!work,
       Drv!sysfs, Drv!past
<1>5. Drv!DeviceInv'
  BY DEF Drv!SetRep, Drv!thread, Drv!work, Drv!sysfs, Drv!past, Drv!Schedule, Drv!IInv,
     Drv!DataOK, Drv!StateOK, Drv!Sets, Drv!Atkbds, Drv!Configs, Drv!Tables, Drv!Identities,
     Drv!InputDevs, Drv!Keyboards, Drv!Leds, Drv!Reps, Drv!Devs, Drv!MutexInv, Drv!DeviceInv,
     Drv!RegisterInv, Drv!DeviceIs, Drv!ExtraIsReal, Drv!Attrs, Drv!Table, Drv!Field,
     Drv!Write, Drv!Xl
<1>6. Drv!RegisterInv'
  BY DEF Drv!SetRep, Drv!thread, Drv!work, Drv!sysfs, Drv!past, Drv!Schedule, Drv!IInv,
     Drv!DataOK, Drv!StateOK, Drv!Sets, Drv!Atkbds, Drv!Configs, Drv!Tables, Drv!Identities,
     Drv!InputDevs, Drv!Keyboards, Drv!Leds, Drv!Reps, Drv!Devs, Drv!MutexInv, Drv!DeviceInv,
     Drv!RegisterInv, Drv!DeviceIs, Drv!ExtraIsReal, Drv!Attrs, Drv!Table, Drv!Field,
     Drv!Write, Drv!Xl
<1>7. Drv!SetsInv'
  BY DEF Drv!SetRep, Drv!thread, Drv!work, Drv!sysfs, Drv!past, Drv!Schedule, Drv!IInv,
     Drv!DataOK, Drv!StateOK, Drv!Sets, Drv!Atkbds, Drv!Configs, Drv!Tables, Drv!Identities,
     Drv!InputDevs, Drv!Keyboards, Drv!Leds, Drv!Reps, Drv!Devs, Drv!MutexInv, Drv!DeviceInv,
     Drv!SetsInv, Drv!Undisturbed, Drv!Write, Drv!Xl
<1> QED
  BY <1>1, <1>2, <1>3, <1>4, <1>5, <1>6, <1>7 DEF Drv!IInv

LEMMA DrvReplug ==
  ASSUME Drv!IInv, Drv!Replug
  PROVE  Drv!IInv'
<1>1. Drv!DataOK'
  <2>1. x7' \in Drv!Keyboards
    BY DEF Drv!IInv, Drv!DataOK, Drv!Replug, Drv!thread, Drv!work, Drv!sysfs, Drv!past,
       Drv!PowerOn, Drv!NativeSet, Drv!Sets, Drv!Keyboards, Drv!InputDevs, Drv!Atkbds,
       Drv!Devs, Drv!Leds, Drv!Reps
  <2> QED
    BY <2>1 DEF Drv!IInv, Drv!DataOK, Drv!Replug, Drv!thread, Drv!work, Drv!sysfs, Drv!past,
       Drv!PowerOn, Drv!NativeSet
<1>2. Drv!StateOK'
  BY DEF Drv!Replug, Drv!thread, Drv!work, Drv!sysfs, Drv!past, Drv!PowerOn, Drv!IInv,
     Drv!StateOK
<1>3. Drv!MutexInv'
  BY DEF Drv!Replug, Drv!thread, Drv!work, Drv!sysfs, Drv!past, Drv!PowerOn, Drv!IInv,
     Drv!StateOK, Drv!MutexInv, Drv!Field
<1>4. Drv!WorkInv'
  BY DEF Drv!Replug, Drv!thread, Drv!work, Drv!sysfs, Drv!past, Drv!PowerOn, Drv!IInv,
     Drv!StateOK, Drv!MutexInv, Drv!WorkInv
<1>5. Drv!DeviceInv'
  BY DEF Drv!Replug, Drv!thread, Drv!work, Drv!sysfs, Drv!past, Drv!PowerOn, Drv!IInv,
     Drv!DataOK, Drv!StateOK, Drv!Sets, Drv!Atkbds, Drv!Configs, Drv!Tables, Drv!Identities,
     Drv!InputDevs, Drv!Keyboards, Drv!Leds, Drv!Reps, Drv!Devs, Drv!MutexInv, Drv!DeviceInv,
     Drv!RegisterInv, Drv!DeviceIs, Drv!ExtraIsReal, Drv!Attrs, Drv!Table, Drv!Field,
     Drv!Write, Drv!Xl
<1>6. Drv!RegisterInv'
  BY DEF Drv!Replug, Drv!thread, Drv!work, Drv!sysfs, Drv!past, Drv!PowerOn, Drv!IInv,
     Drv!DataOK, Drv!StateOK, Drv!Sets, Drv!Atkbds, Drv!Configs, Drv!Tables, Drv!Identities,
     Drv!InputDevs, Drv!Keyboards, Drv!Leds, Drv!Reps, Drv!Devs, Drv!MutexInv, Drv!DeviceInv,
     Drv!RegisterInv, Drv!DeviceIs, Drv!ExtraIsReal, Drv!Attrs, Drv!Table, Drv!Field,
     Drv!Write, Drv!Xl
<1>7. Drv!SetsInv'
  BY DEF Drv!Replug, Drv!thread, Drv!work, Drv!sysfs, Drv!past, Drv!PowerOn, Drv!IInv,
     Drv!DataOK, Drv!StateOK, Drv!Sets, Drv!Atkbds, Drv!Configs, Drv!Tables, Drv!Identities,
     Drv!InputDevs, Drv!Keyboards, Drv!Leds, Drv!Reps, Drv!Devs, Drv!MutexInv, Drv!DeviceInv,
     Drv!SetsInv, Drv!Undisturbed, Drv!Write, Drv!Xl
<1> QED
  BY <1>1, <1>2, <1>3, <1>4, <1>5, <1>6, <1>7 DEF Drv!IInv

LEMMA DrvInterruptBat ==
  ASSUME Drv!IInv, Drv!InterruptBat
  PROVE  Drv!IInv'
<1>1. Drv!DataOK'
  BY DEF Drv!InterruptBat, Drv!thread, Drv!work, Drv!sysfs, Drv!past, Drv!IInv, Drv!DataOK
<1>2. Drv!StateOK'
  <2>1. /\ x4' \in BOOLEAN /\ x8' \in BOOLEAN /\ x9' \in BOOLEAN /\ x11' \in BOOLEAN
    BY DEF Drv!IInv, Drv!StateOK, Drv!InterruptBat, Drv!thread, Drv!work, Drv!sysfs, Drv!past
  <2>2. /\ x14' \in BOOLEAN /\ x19' \in BOOLEAN /\ x20' \in BOOLEAN
    BY DEF Drv!IInv, Drv!StateOK, Drv!InterruptBat, Drv!thread, Drv!work, Drv!sysfs, Drv!past
  <2> QED
    BY <2>1, <2>2 DEF Drv!IInv, Drv!StateOK, Drv!InterruptBat, Drv!thread, Drv!work, Drv!sysfs,
       Drv!past
<1>3. Drv!MutexInv'
  BY DEF Drv!InterruptBat, Drv!thread, Drv!work, Drv!sysfs, Drv!past, Drv!IInv, Drv!StateOK,
     Drv!MutexInv, Drv!Field
<1>4. Drv!WorkInv'
  BY DEF Drv!InterruptBat, Drv!thread, Drv!work, Drv!sysfs, Drv!past, Drv!IInv, Drv!StateOK,
     Drv!MutexInv, Drv!WorkInv
<1>5. Drv!DeviceInv'
  BY DEF Drv!InterruptBat, Drv!thread, Drv!work, Drv!sysfs, Drv!past, Drv!IInv, Drv!DataOK,
     Drv!StateOK, Drv!Sets, Drv!Atkbds, Drv!Configs, Drv!Tables, Drv!Identities, Drv!InputDevs,
     Drv!Keyboards, Drv!Leds, Drv!Reps, Drv!Devs, Drv!MutexInv, Drv!DeviceInv, Drv!RegisterInv,
     Drv!DeviceIs, Drv!ExtraIsReal, Drv!Attrs, Drv!Table, Drv!Field, Drv!Write, Drv!Xl
<1>6. Drv!RegisterInv'
  BY DEF Drv!InterruptBat, Drv!thread, Drv!work, Drv!sysfs, Drv!past, Drv!IInv, Drv!DataOK,
     Drv!StateOK, Drv!Sets, Drv!Atkbds, Drv!Configs, Drv!Tables, Drv!Identities, Drv!InputDevs,
     Drv!Keyboards, Drv!Leds, Drv!Reps, Drv!Devs, Drv!MutexInv, Drv!DeviceInv, Drv!RegisterInv,
     Drv!DeviceIs, Drv!ExtraIsReal, Drv!Attrs, Drv!Table, Drv!Field, Drv!Write, Drv!Xl
<1>7. Drv!SetsInv'
  <2>1. /\ x19' = FALSE => x19 = FALSE
        /\ x19' = FALSE /\ x4 = FALSE => x2 = "unbound"
    BY DEF Drv!IInv, Drv!StateOK, Drv!InterruptBat
  <2>2. x4 = TRUE => x9' = TRUE
    BY DEF Drv!IInv, Drv!StateOK, Drv!InterruptBat
  <2>3. UNCHANGED <<x1, x2, x3, x7, x18, x20>>
    BY DEF Drv!InterruptBat, Drv!thread, Drv!past
  <2> QED
    BY <2>1, <2>2, <2>3 DEF Drv!IInv, Drv!StateOK, Drv!SetsInv, Drv!Undisturbed, Drv!Write
<1> QED
  BY <1>1, <1>2, <1>3, <1>4, <1>5, <1>6, <1>7 DEF Drv!IInv

LEMMA DrvSuspend ==
  ASSUME Drv!IInv, Drv!Suspend
  PROVE  Drv!IInv'
<1>1. Drv!DataOK'
  <2>1. x7' \in Drv!Keyboards
    BY DEF Drv!IInv, Drv!DataOK, Drv!Suspend, Drv!thread, Drv!work, Drv!sysfs, Drv!past,
       Drv!PowerOn, Drv!NativeSet, Drv!Sets, Drv!Keyboards, Drv!InputDevs, Drv!Atkbds,
       Drv!Devs, Drv!Leds, Drv!Reps
  <2> QED
    BY <2>1 DEF Drv!IInv, Drv!DataOK, Drv!Suspend, Drv!thread, Drv!work, Drv!sysfs, Drv!past,
       Drv!PowerOn, Drv!NativeSet
<1>2. Drv!StateOK'
  BY DEF Drv!Suspend, Drv!thread, Drv!work, Drv!sysfs, Drv!past, Drv!PowerOn, Drv!IInv,
     Drv!StateOK
<1>3. Drv!MutexInv'
  BY DEF Drv!Suspend, Drv!thread, Drv!work, Drv!sysfs, Drv!past, Drv!PowerOn, Drv!IInv,
     Drv!StateOK, Drv!MutexInv, Drv!Field
<1>4. Drv!WorkInv'
  BY DEF Drv!Suspend, Drv!thread, Drv!work, Drv!sysfs, Drv!past, Drv!PowerOn, Drv!IInv,
     Drv!StateOK, Drv!MutexInv, Drv!WorkInv
<1>5. Drv!DeviceInv'
  BY DEF Drv!Suspend, Drv!thread, Drv!work, Drv!sysfs, Drv!past, Drv!PowerOn, Drv!IInv,
     Drv!DataOK, Drv!StateOK, Drv!Sets, Drv!Atkbds, Drv!Configs, Drv!Tables, Drv!Identities,
     Drv!InputDevs, Drv!Keyboards, Drv!Leds, Drv!Reps, Drv!Devs, Drv!MutexInv, Drv!DeviceInv,
     Drv!RegisterInv, Drv!DeviceIs, Drv!ExtraIsReal, Drv!Attrs, Drv!Table, Drv!Field,
     Drv!Write, Drv!Xl
<1>6. Drv!RegisterInv'
  BY DEF Drv!Suspend, Drv!thread, Drv!work, Drv!sysfs, Drv!past, Drv!PowerOn, Drv!IInv,
     Drv!DataOK, Drv!StateOK, Drv!Sets, Drv!Atkbds, Drv!Configs, Drv!Tables, Drv!Identities,
     Drv!InputDevs, Drv!Keyboards, Drv!Leds, Drv!Reps, Drv!Devs, Drv!MutexInv, Drv!DeviceInv,
     Drv!RegisterInv, Drv!DeviceIs, Drv!ExtraIsReal, Drv!Attrs, Drv!Table, Drv!Field,
     Drv!Write, Drv!Xl
<1>7. Drv!SetsInv'
  BY DEF Drv!Suspend, Drv!thread, Drv!work, Drv!sysfs, Drv!past, Drv!PowerOn, Drv!IInv,
     Drv!DataOK, Drv!StateOK, Drv!Sets, Drv!Atkbds, Drv!Configs, Drv!Tables, Drv!Identities,
     Drv!InputDevs, Drv!Keyboards, Drv!Leds, Drv!Reps, Drv!Devs, Drv!MutexInv, Drv!DeviceInv,
     Drv!SetsInv, Drv!Undisturbed, Drv!Write, Drv!Xl
<1> QED
  BY <1>1, <1>2, <1>3, <1>4, <1>5, <1>6, <1>7 DEF Drv!IInv

LEMMA DrvResume ==
  ASSUME Drv!IInv, Drv!Resume
  PROVE  Drv!IInv'
<1>1. Drv!DataOK'
  BY DEF Drv!Resume, Drv!thread, Drv!work, Drv!sysfs, Drv!past, Drv!IInv, Drv!DataOK
<1>2. Drv!StateOK'
  BY DEF Drv!Resume, Drv!thread, Drv!work, Drv!sysfs, Drv!past, Drv!IInv, Drv!StateOK
<1>3. Drv!MutexInv'
  BY DEF Drv!Resume, Drv!thread, Drv!work, Drv!sysfs, Drv!past, Drv!IInv, Drv!StateOK,
     Drv!MutexInv, Drv!Field
<1>4. Drv!WorkInv'
  BY DEF Drv!Resume, Drv!thread, Drv!work, Drv!sysfs, Drv!past, Drv!IInv, Drv!StateOK,
     Drv!MutexInv, Drv!WorkInv
<1>5. Drv!DeviceInv'
  BY DEF Drv!Resume, Drv!thread, Drv!work, Drv!sysfs, Drv!past, Drv!IInv, Drv!DataOK,
     Drv!StateOK, Drv!Sets, Drv!Atkbds, Drv!Configs, Drv!Tables, Drv!Identities, Drv!InputDevs,
     Drv!Keyboards, Drv!Leds, Drv!Reps, Drv!Devs, Drv!MutexInv, Drv!DeviceInv, Drv!RegisterInv,
     Drv!DeviceIs, Drv!ExtraIsReal, Drv!Attrs, Drv!Table, Drv!Field, Drv!Write, Drv!Xl
<1>6. Drv!RegisterInv'
  BY DEF Drv!Resume, Drv!thread, Drv!work, Drv!sysfs, Drv!past, Drv!IInv, Drv!DataOK,
     Drv!StateOK, Drv!Sets, Drv!Atkbds, Drv!Configs, Drv!Tables, Drv!Identities, Drv!InputDevs,
     Drv!Keyboards, Drv!Leds, Drv!Reps, Drv!Devs, Drv!MutexInv, Drv!DeviceInv, Drv!RegisterInv,
     Drv!DeviceIs, Drv!ExtraIsReal, Drv!Attrs, Drv!Table, Drv!Field, Drv!Write, Drv!Xl
<1>7. Drv!SetsInv'
  BY DEF Drv!Resume, Drv!thread, Drv!work, Drv!sysfs, Drv!past, Drv!IInv, Drv!DataOK,
     Drv!StateOK, Drv!Sets, Drv!Atkbds, Drv!Configs, Drv!Tables, Drv!Identities, Drv!InputDevs,
     Drv!Keyboards, Drv!Leds, Drv!Reps, Drv!Devs, Drv!MutexInv, Drv!DeviceInv, Drv!SetsInv,
     Drv!Undisturbed, Drv!Write, Drv!Xl
<1> QED
  BY <1>1, <1>2, <1>3, <1>4, <1>5, <1>6, <1>7 DEF Drv!IInv

LEMMA DrvStore ==
  ASSUME Drv!IInv, NEW fi \in DrvAttributes, NEW v \in DrvValues, Drv!Store(<<fi, v>>)
  PROVE  Drv!IInv'
<1>1. Drv!DataOK'
  BY DEF Drv!Store, Drv!thread, Drv!work, Drv!sysfs, Drv!past, Drv!IInv, Drv!DataOK
<1>2. Drv!StateOK'
  BY DEF Drv!Store, Drv!thread, Drv!work, Drv!sysfs, Drv!past, Drv!IInv, Drv!StateOK
<1>3. Drv!MutexInv'
  BY DrvPartAssumption DEF Drv!Store, Drv!thread, Drv!work, Drv!sysfs, Drv!past, Drv!IInv,
     Drv!StateOK, Drv!MutexInv, Drv!Field, Drv!DrvAssumption
<1>4. Drv!WorkInv'
  BY DEF Drv!Store, Drv!thread, Drv!work, Drv!sysfs, Drv!past, Drv!IInv, Drv!StateOK,
     Drv!MutexInv, Drv!WorkInv
<1>5. Drv!DeviceInv'
  BY DEF Drv!Store, Drv!thread, Drv!work, Drv!sysfs, Drv!past, Drv!IInv, Drv!DataOK,
     Drv!StateOK, Drv!Sets, Drv!Atkbds, Drv!Configs, Drv!Tables, Drv!Identities, Drv!InputDevs,
     Drv!Keyboards, Drv!Leds, Drv!Reps, Drv!Devs, Drv!MutexInv, Drv!DeviceInv, Drv!RegisterInv,
     Drv!DeviceIs, Drv!ExtraIsReal, Drv!Attrs, Drv!Table, Drv!Field, Drv!Write, Drv!Xl
<1>6. Drv!RegisterInv'
  BY DEF Drv!Store, Drv!thread, Drv!work, Drv!sysfs, Drv!past, Drv!IInv, Drv!DataOK,
     Drv!StateOK, Drv!Sets, Drv!Atkbds, Drv!Configs, Drv!Tables, Drv!Identities, Drv!InputDevs,
     Drv!Keyboards, Drv!Leds, Drv!Reps, Drv!Devs, Drv!MutexInv, Drv!DeviceInv, Drv!RegisterInv,
     Drv!DeviceIs, Drv!ExtraIsReal, Drv!Attrs, Drv!Table, Drv!Field, Drv!Write, Drv!Xl
<1>7. Drv!SetsInv'
  BY DEF Drv!Store, Drv!thread, Drv!work, Drv!sysfs, Drv!past, Drv!IInv, Drv!DataOK,
     Drv!StateOK, Drv!Sets, Drv!Atkbds, Drv!Configs, Drv!Tables, Drv!Identities, Drv!InputDevs,
     Drv!Keyboards, Drv!Leds, Drv!Reps, Drv!Devs, Drv!MutexInv, Drv!DeviceInv, Drv!SetsInv,
     Drv!Undisturbed, Drv!Write, Drv!Xl
<1> QED
  BY <1>1, <1>2, <1>3, <1>4, <1>5, <1>6, <1>7 DEF Drv!IInv

LEMMA DrvInit ==
  ASSUME Drv!Init
  PROVE  Drv!IInv
<1>1. Drv!Unset \in Drv!Atkbds /\ Drv!Unset.cfg.extra = FALSE
  BY DrvUnset DEF Drv!Unset, Drv!Config
<1>2. Drv!PowerOn \in Drv!Keyboards
  BY DEF Drv!PowerOn, Drv!NativeSet, Drv!Keyboards, Drv!Sets, Drv!Leds, Drv!Reps
<1>3. x5 \in [Drv!Devs -> Drv!InputDevs] /\ \A d \in Drv!Devs : x5[d].st = "none"
  BY DrvNoDev DEF Drv!Init
<1>4. Drv!DataOK
  BY <1>1, <1>2, <1>3 DEF Drv!Init, Drv!DataOK, Drv!Leds
<1>5. Drv!StateOK /\ Drv!MutexInv /\ Drv!WorkInv
  BY DEF Drv!Init, Drv!StateOK, Drv!MutexInv, Drv!WorkInv
<1>6. Drv!DeviceInv
  BY <1>1, <1>3 DEF Drv!Init, Drv!DeviceInv, Drv!ExtraIsReal
<1>7. Drv!RegisterInv /\ Drv!SetsInv
  BY DEF Drv!Init, Drv!RegisterInv, Drv!SetsInv
<1> QED
  BY <1>4, <1>5, <1>6, <1>7 DEF Drv!IInv

LEMMA DrvNext ==
  ASSUME Drv!IInv, Drv!Next
  PROVE  Drv!IInv'
<1>1. CASE Drv!Serio
  <2>1. CASE Drv!ConnectEnable \/ Drv!ConnectRegister \/ Drv!Reconnect
             \/ Drv!ReconnectRestore \/ Drv!ReconnectEnable
    BY <2>1, DrvConnectEnable, DrvConnectRegister, DrvReconnect, DrvReconnectRestore,
       DrvReconnectEnable
  <2>2. CASE Drv!DisconnectDisable \/ Drv!DisconnectUnregister \/ Drv!DisconnectCancel
             \/ Drv!DisconnectFree \/ Drv!Resume
    BY <2>2, DrvDisconnectDisable, DrvDisconnectUnregister, DrvDisconnectCancel,
       DrvDisconnectFree, DrvResume
  <2> QED
    BY <1>1, <2>1, <2>2 DEF Drv!Serio
<1>2. CASE Drv!WorkFire \/ Drv!WorkLock \/ Drv!WorkLeds \/ Drv!WorkRep
  BY <1>2, DrvWorkFire, DrvWorkLock, DrvWorkLeds, DrvWorkRep
<1>3. CASE Drv!StoreLock \/ Drv!StoreNothing \/ Drv!StoreAlter \/ Drv!StoreRegister
           \/ Drv!StoreEnable
  BY <1>3, DrvStoreLock, DrvStoreNothing, DrvStoreAlter, DrvStoreRegister, DrvStoreEnable
<1>4. CASE Drv!InterruptBat \/ Drv!Connect \/ Drv!DisconnectRequest \/ Drv!SetLeds
           \/ Drv!SetRep \/ Drv!Replug \/ Drv!Suspend
  BY <1>4, DrvInterruptBat, DrvConnect, DrvDisconnectRequest, DrvSetLeds, DrvSetRep, DrvReplug,
     DrvSuspend
<1>5. CASE \E fi \in DrvAttributes, v \in DrvValues : Drv!Store(<<fi, v>>)
  BY <1>5, DrvStore
<1> QED
  BY <1>1, <1>2, <1>3, <1>4, <1>5 DEF Drv!Next

LEMMA DrvServed ==
  ASSUME Drv!IInv
  PROVE  Drv!ConfigCoherent /\ Drv!FreedIsIdle /\ Drv!SetsAgree
<1>1. Drv!ConfigCoherent
  <2> SUFFICES ASSUME x2 \in {"bound", "removing", "asleep"}, x10 # "sysfs"
               PROVE  /\ {d \in Drv!Devs : x5[d].st # "none"} = {x3.dev}
                      /\ x5[x3.dev].st = "registered"
                      /\ x5[x3.dev].attrs = Drv!Attrs(x3.cfg)
                      /\ x3.map = Drv!Table(x3.cfg)
    BY DEF Drv!ConfigCoherent
  <2>1. Drv!DeviceIs(x3.dev, "registered", {}) /\ x3.dev \in Drv!Devs
    BY DEF Drv!IInv, Drv!MutexInv, Drv!DeviceInv, Drv!DataOK, Drv!Atkbds
  <2> QED
    BY <2>1 DEF Drv!DeviceIs
<1>2. Drv!FreedIsIdle
  BY DEF Drv!IInv, Drv!MutexInv, Drv!WorkInv, Drv!DeviceInv, Drv!FreedIsIdle
<1>3. Drv!SetsAgree
  BY DEF Drv!IInv, Drv!SetsInv, Drv!Undisturbed, Drv!SetsAgree
<1> QED
  BY <1>1, <1>2, <1>3

\* Whatever steps fail and whoever writes an attribute meanwhile: the input
\* device and the key table at rest are those of the configuration, the keyboard
\* is in its set, and the work has ended when the keyboard is freed
\* (atkbd_attr_set_helper, atkbd_set_set, atkbd_reconnect, atkbd_disconnect).
THEOREM KeyboardCoherentAlways == Spec => []KeyboardCoherent
<1> DEFINE Inv == which = "atkbd" => Drv!IInv
<1>1. ASSUME Init PROVE Inv
  BY <1>1, DrvInit DEF Init
<1>2. ASSUME Inv, [Next]_vars PROVE Inv'
  <2>1. CASE which = "atkbd" /\ Next
    <3>1. which' = "atkbd" /\ Drv!Next
      BY <2>1 DEF Next
    <3> QED
      BY <1>2, <2>1, <3>1, DrvNext
  <2>2. CASE which # "atkbd" /\ Next
    BY <2>2 DEF Next
  <2>3. CASE UNCHANGED vars
    <3>1. UNCHANGED <<which, x1, x2, x3, x4, x5, x6, x7, x8, x9, x10, x11, x12, x14, x15, x16, x17,
                      x18, x19, x20>>
      BY <2>3 DEF vars, rest8, rest9, rest10, rest11, rest13, rest15
    <3>2. Drv!IInv => Drv!DataOK' /\ Drv!StateOK' /\ Drv!MutexInv' /\ Drv!WorkInv'
      BY <3>1 DEF Drv!IInv, Drv!DataOK, Drv!StateOK, Drv!MutexInv, Drv!WorkInv, Drv!Field
    <3>3. Drv!IInv => Drv!DeviceInv' /\ Drv!RegisterInv' /\ Drv!SetsInv'
      BY <3>1 DEF Drv!IInv, Drv!DeviceInv, Drv!RegisterInv, Drv!SetsInv, Drv!Undisturbed,
         Drv!DeviceIs, Drv!ExtraIsReal, Drv!Attrs, Drv!Table, Drv!Xl, Drv!Write, Drv!Field
    <3> QED
      BY <1>2, <3>1, <3>2, <3>3 DEF Drv!IInv
  <2> QED
    BY <1>2, <2>1, <2>2, <2>3
<1>3. ASSUME Inv PROVE KeyboardCoherent
  BY <1>3, DrvServed DEF KeyboardCoherent
<1> QED
  BY <1>1, <1>2, <1>3, PTL DEF Spec

=============================================================================
