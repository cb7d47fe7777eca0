---------------------------- MODULE ToplelProofs ----------------------------
(***************************************************************************)
(* The open() hook of Toplel for any number of opening tasks and any path  *)
(* of the module: as long as no two tasks write to foo at once, whoever is *)
(* in the hook finds the real open, and unloading restores the table.      *)
(***************************************************************************)
EXTENDS Toplel, TLAPS

LEMMA ThreadSplit ==
    /\ \A t \in Threads : t \in Writers \/ t = Exit
    /\ \A w \in Writers : w \in Threads /\ w # Exit
    /\ Exit \in Threads
BY ExitAssumption DEF Threads

LEMMA InitInv == Init => IInv
<1> SUFFICES ASSUME Init PROVE IInv
  OBVIOUS
<1>1. TypeOK
  <2>1. wpc \in [Threads -> Labels]
    BY DEF Init, Labels
  <2>2. cwd \in 0 .. Depth /\ dir \in [Openers -> 0 .. Depth]
    BY DepthAssumption DEF Init
  <2>3. /\ opc \in [Openers -> InHook \cup {"idle", "sys_open", "oops"}]
        /\ back \in [Openers -> {"task", "my_sys_open"}]
    BY DEF Init
  <2> QED BY <2>1, <2>2, <2>3 DEF Init, TypeOK
<1>2. ThreadInv /\ TableInv /\ BackInv /\ HookReachesOpen
  BY DEF Init, ThreadInv, TableInv, BackInv, HookReachesOpen, Threads, InToplel, InHook, At
<1> QED BY <1>1, <1>2 DEF IInv

\* A thread in toplel.c is alone there.
LEMMA Alone ==
    ASSUME IInv, NEW t \in Threads, wpc[t] \in InToplel
    PROVE  /\ \A u \in Threads \ {t} : wpc[u] \notin InToplel
           /\ t # Exit => wpc[Exit] \in {"idle", "drain"}
BY ThreadSplit DEF IInv, ThreadInv, InToplel, At

LEMMA GotoThread ==
    ASSUME TypeOK, NEW t \in Threads, NEW l \in Labels, Goto(t, l)
    PROVE  /\ wpc'[t] = l /\ \A u \in Threads \ {t} : wpc'[u] = wpc[u]
           /\ wpc' \in [Threads -> Labels]
BY DEF Goto, TypeOK

\* A thread in toplel.c may go on there, or return to its caller.
LEMMA ThreadKeeps ==
    ASSUME IInv, NEW t \in Threads, wpc[t] \in InToplel,
           NEW l \in InToplel \cup {Caller(t)}, Goto(t, l),
           t = Exit => l \notin {"insert", "save", "hook", "installed"},
           UNCHANGED <<sysfs, module>>
    PROVE  ThreadInv'
<1> USE DEF IInv
<1>d. l \in InToplel \/ (t = Exit /\ l = "free") \/ (t # Exit /\ l = "idle")
  BY DEF Caller
<1>b. wpc'[t] = l /\ \A u \in Threads \ {t} : wpc'[u] = wpc[u]
  BY <1>d, GotoThread DEF InToplel, Labels
<1>c. Exit \in Threads /\ \A w \in Writers : w \in Threads /\ w # Exit
  BY ThreadSplit
<1>1. \A u, v \in Threads : wpc'[u] \in InToplel /\ wpc'[v] \in InToplel => u = v
  BY <1>b, Alone
<1>2. wpc'[Exit] # "idle" => ~sysfs'
  <2>1. wpc[Exit] = "idle" => wpc'[Exit] = "idle"
    BY <1>b, <1>c DEF InToplel
  <2> QED BY <2>1 DEF ThreadInv
<1>3. wpc'[Exit] \notin {"idle", "drain"} => \A w \in Writers : wpc'[w] = "idle"
  <2>1. CASE t = Exit
    BY <2>1, <1>b, <1>c DEF ThreadInv, InToplel, At
  <2>2. CASE t # Exit
    BY <2>2, <1>b, <1>c, Alone
  <2> QED BY <2>1, <2>2
<1>4. \A w \in Writers : wpc'[w] \notin {"drain", "free", "gone"}
  BY <1>b, <1>c, <1>d DEF ThreadInv, InToplel
<1>5. wpc'[Exit] \notin {"switch", "insert", "save", "hook", "installed"}
  BY <1>b, <1>c, <1>d DEF ThreadInv, InToplel
<1>6. module' = "freed" => wpc'[Exit] = "gone"
  BY <1>b, <1>c, Alone DEF ThreadInv, InToplel, At
<1> QED BY <1>1, <1>2, <1>3, <1>4, <1>5, <1>6 DEF ThreadInv, At

\* With one thread in toplel.c at most, TableInv speaks of that one.
LEMMA TableFrom ==
    ASSUME NEW t \in Threads,
           \A u \in Threads \ {t} : wpc'[u] \notin InToplel,
           wpc'[t] = "save" => ~installed',
           wpc'[t] = "hook" => ~installed' /\ orig' = "sys_open" /\ table' = "sys_open",
           wpc'[t] = "installed" => ~installed' /\ table' = "my_sys_open",
           wpc'[t] = "unhook" => installed',
           wpc'[t] = "removed" => installed' /\ table' = "sys_open",
           wpc'[t] \notin {"installed", "removed"} => (installed' <=> table' = "my_sys_open"),
           orig' # "my_sys_open",
           installed' => orig' = "sys_open",
           wpc'[Exit] \in {"free", "gone"} => ~installed'
    PROVE  TableInv'
<1>1. \A u \in Threads : u = t \/ wpc'[u] \notin InToplel
  OBVIOUS
<1> QED BY <1>1 DEF TableInv, At, InToplel

\* What TableInv says while t is the thread in toplel.c, or none is.
LEMMA TableThen ==
    ASSUME IInv, NEW t \in Threads, \A u \in Threads \ {t} : wpc[u] \notin InToplel
    PROVE  /\ wpc[t] \notin {"installed", "removed"} => (installed <=> table = "my_sys_open")
           /\ wpc[t] \in {"installed", "hook"} => ~installed
           /\ wpc[t] \in {"unhook", "removed"} => installed
<1>1. \A u \in Threads : u = t \/ wpc[u] \notin {"installed", "removed"}
  BY DEF InToplel
<1> QED BY <1>1 DEF IInv, TableInv, At

\* foo_store.
LEMMA StoreStep ==
    ASSUME IInv, OneWriter, NEW w \in Writers, StoreScan(w) \/ StoreSwitch(w)
    PROVE  IInv'
<1> USE DEF IInv, hookVars, modVars, openVars
<1>a. w \in Threads /\ w # Exit
  BY ThreadSplit
<1>b. PICK l \in {"switch", "insert", "remove", "idle"} : Goto(w, l)
  BY DEF StoreScan, StoreSwitch
<1>c. /\ wpc'[w] = l /\ \A u \in Threads \ {w} : wpc'[u] = wpc[u]
      /\ wpc' \in [Threads -> Labels]
  BY <1>a, <1>b, GotoThread DEF Labels
<1>d. wpc[w] \in {"idle", "switch"} /\ UNCHANGED <<table, orig, installed, sysfs, module, openVars>>
  BY DEF StoreScan, StoreSwitch, At
<1>e. wpc[Exit] \in {"idle", "drain"}
  BY DEF StoreScan, StoreSwitch, ThreadInv, At
<1>f. \A u \in Threads \ {w} : u = Exit
  BY ThreadSplit DEF OneWriter
<1>g. \A u \in Threads \ {w} : wpc[u] \notin InToplel
  BY <1>e, <1>f DEF InToplel
<1>1. TypeOK'
  BY <1>c, <1>d DEF TypeOK, StoreScan, StoreSwitch
<1>2. ThreadInv'
  <2>1. \A u, v \in Threads : wpc'[u] \in InToplel /\ wpc'[v] \in InToplel => u = v
    BY <1>c, <1>g
  <2>2. wpc'[Exit] = wpc[Exit]
    BY <1>a, <1>c, ThreadSplit
  <2>3. \A v \in Writers : wpc'[v] \notin {"drain", "free", "gone"}
    BY <1>c DEF OneWriter
  <2>4. module = "loaded" /\ module' = "loaded"
    BY <1>d, <1>e DEF ThreadInv, At, TypeOK
  <2> QED BY <1>d, <1>e, <2>1, <2>2, <2>3, <2>4 DEF ThreadInv, At
<1>3. TableInv'
  <2>1. installed <=> table = "my_sys_open"
    BY <1>a, <1>d, <1>g, TableThen
  <2>2. wpc'[Exit] \notin {"free", "gone"}
    BY <1>a, <1>c, <1>e, ThreadSplit
  <2> QED BY <1>a, <1>c, <1>d, <1>g, <2>1, <2>2, TableFrom DEF TableInv
<1>4. HookReachesOpen'
  BY <1>d DEF HookReachesOpen
<1>5. BackInv'
  BY <1>d DEF BackInv
<1> QED BY <1>5, <1>1, <1>2, <1>3, <1>4

LEMMA InsertCheckStep ==
    ASSUME IInv, NEW t \in Threads, InsertCheck(t)
    PROVE  IInv'
<1> USE DEF IInv, hookVars, modVars, openVars
<1>a. wpc[t] = "insert" /\ wpc[t] \in InToplel
  BY DEF InsertCheck, At, InToplel
<1>b. PICK l \in {"save", Caller(t)} : Goto(t, l) /\ (l = "save" => ~installed)
  BY DEF InsertCheck, Caller
<1>c. /\ wpc'[t] = l /\ \A u \in Threads \ {t} : wpc'[u] = wpc[u]
      /\ wpc' \in [Threads -> Labels]
  BY <1>b, GotoThread DEF Caller, Labels
<1>d. /\ \A u \in Threads \ {t} : wpc[u] \notin InToplel
      /\ t # Exit => wpc[Exit] \in {"idle", "drain"}
  BY <1>a, Alone
<1>e. l \in InToplel \cup {Caller(t)}
  BY DEF InToplel
<1>1. TypeOK'
  BY <1>a, <1>c DEF TypeOK, InsertCheck, TableInv, At
<1>2. ThreadInv'
  <2>1. t = Exit => l \notin {"insert", "save", "hook", "installed"}
    BY <1>a DEF ThreadInv, Caller
  <2> QED BY <1>a, <1>b, <1>e, <2>1, ThreadKeeps DEF InsertCheck
<1>3. TableInv'
  <2>1. wpc'[Exit] \in {"free", "gone"} => ~installed'
    BY <1>a, <1>b, <1>c, <1>d, ThreadSplit DEF InsertCheck, ThreadInv, Caller
  <2>2. \A u \in Threads \ {t} : wpc'[u] \notin InToplel
    BY <1>c, <1>d
  <2>3. l \notin {"idle", "free"} => l = "save"
    BY <1>b DEF Caller
  <2> QED BY <1>a, <1>b, <1>c, <1>d, <2>1, <2>2, <2>3, TableThen, TableFrom
       DEF InsertCheck, TableInv, TypeOK, Caller, At, HookReachesOpen
<1>4. HookReachesOpen'
  BY <1>a, <1>d, TableThen DEF HookReachesOpen, TableInv, TypeOK, InsertCheck, At
<1>5. BackInv'
  BY <1>a DEF BackInv, InsertCheck
<1> QED BY <1>5, <1>1, <1>2, <1>3, <1>4

LEMMA InsertSaveStep ==
    ASSUME IInv, NEW t \in Threads, InsertSave(t)
    PROVE  IInv'
<1> USE DEF IInv, hookVars, modVars, openVars
<1>a. wpc[t] = "save" /\ wpc[t] \in InToplel
  BY DEF InsertSave, At, InToplel
<1>b. Goto(t, "hook")
  BY DEF InsertSave
<1>c. /\ wpc'[t] = "hook" /\ \A u \in Threads \ {t} : wpc'[u] = wpc[u]
      /\ wpc' \in [Threads -> Labels]
  BY <1>b, GotoThread DEF Caller, Labels
<1>d. /\ \A u \in Threads \ {t} : wpc[u] \notin InToplel
      /\ t # Exit => wpc[Exit] \in {"idle", "drain"}
  BY <1>a, Alone
<1>e. "hook" \in InToplel \cup {Caller(t)}
  BY DEF InToplel
<1>1. TypeOK'
  BY <1>a, <1>c DEF TypeOK, InsertSave, TableInv, At
<1>2. ThreadInv'
  <2>1. t = Exit => "hook" \notin {"insert", "save", "hook", "installed"}
    BY <1>a DEF ThreadInv, Caller
  <2> QED BY <1>a, <1>b, <1>e, <2>1, ThreadKeeps DEF InsertSave
<1>3. TableInv'
  <2>1. wpc'[Exit] \in {"free", "gone"} => ~installed'
    BY <1>a, <1>b, <1>c, <1>d, ThreadSplit DEF InsertSave, ThreadInv, Caller
  <2>2. \A u \in Threads \ {t} : wpc'[u] \notin InToplel
    BY <1>c, <1>d
  <2>3. "hook" \notin {"idle", "free"} => "hook" = "hook"
    BY <1>b DEF Caller
  <2> QED BY <1>a, <1>b, <1>c, <1>d, <2>1, <2>2, <2>3, TableThen, TableFrom
       DEF InsertSave, TableInv, TypeOK, Caller, At, HookReachesOpen
<1>4. HookReachesOpen'
  BY <1>a, <1>d, TableThen DEF HookReachesOpen, TableInv, TypeOK, InsertSave, At
<1>5. BackInv'
  BY <1>a, <1>d, TableThen DEF BackInv, InsertSave, TableInv, TypeOK, At
<1> QED BY <1>5, <1>1, <1>2, <1>3, <1>4

LEMMA InsertHookStep ==
    ASSUME IInv, NEW t \in Threads, InsertHook(t)
    PROVE  IInv'
<1> USE DEF IInv, hookVars, modVars, openVars
<1>a. wpc[t] = "hook" /\ wpc[t] \in InToplel
  BY DEF InsertHook, At, InToplel
<1>b. Goto(t, "installed")
  BY DEF InsertHook
<1>c. /\ wpc'[t] = "installed" /\ \A u \in Threads \ {t} : wpc'[u] = wpc[u]
      /\ wpc' \in [Threads -> Labels]
  BY <1>b, GotoThread DEF Caller, Labels
<1>d. /\ \A u \in Threads \ {t} : wpc[u] \notin InToplel
      /\ t # Exit => wpc[Exit] \in {"idle", "drain"}
  BY <1>a, Alone
<1>e. "installed" \in InToplel \cup {Caller(t)}
  BY DEF InToplel
<1>1. TypeOK'
  BY <1>a, <1>c DEF TypeOK, InsertHook, TableInv, At
<1>2. ThreadInv'
  <2>1. t = Exit => "installed" \notin {"insert", "save", "hook", "installed"}
    BY <1>a DEF ThreadInv, Caller
  <2> QED BY <1>a, <1>b, <1>e, <2>1, ThreadKeeps DEF InsertHook
<1>3. TableInv'
  <2>1. wpc'[Exit] \in {"free", "gone"} => ~installed'
    BY <1>a, <1>b, <1>c, <1>d, ThreadSplit DEF InsertHook, ThreadInv, Caller
  <2>2. \A u \in Threads \ {t} : wpc'[u] \notin InToplel
    BY <1>c, <1>d
  <2>3. "installed" \notin {"idle", "free"} => "installed" = "installed"
    BY <1>b DEF Caller
  <2> QED BY <1>a, <1>b, <1>c, <1>d, <2>1, <2>2, <2>3, TableThen, TableFrom
       DEF InsertHook, TableInv, TypeOK, Caller, At, HookReachesOpen
<1>4. HookReachesOpen'
  BY <1>a, <1>d, TableThen DEF HookReachesOpen, TableInv, TypeOK, InsertHook, At
<1>5. BackInv'
  BY <1>a DEF BackInv, InsertHook
<1> QED BY <1>5, <1>1, <1>2, <1>3, <1>4

LEMMA InsertDoneStep ==
    ASSUME IInv, NEW t \in Threads, InsertDone(t)
    PROVE  IInv'
<1> USE DEF IInv, hookVars, modVars, openVars
<1>a. wpc[t] = "installed" /\ wpc[t] \in InToplel
  BY DEF InsertDone, At, InToplel
<1>b. Goto(t, Caller(t))
  BY DEF InsertDone
<1>c. /\ wpc'[t] = Caller(t) /\ \A u \in Threads \ {t} : wpc'[u] = wpc[u]
      /\ wpc' \in [Threads -> Labels]
  BY <1>b, GotoThread DEF Caller, Labels
<1>d. /\ \A u \in Threads \ {t} : wpc[u] \notin InToplel
      /\ t # Exit => wpc[Exit] \in {"idle", "drain"}
  BY <1>a, Alone
<1>e. Caller(t) \in InToplel \cup {Caller(t)}
  BY DEF InToplel
<1>1. TypeOK'
  BY <1>a, <1>c DEF TypeOK, InsertDone, TableInv, At
<1>2. ThreadInv'
  <2>1. t = Exit => Caller(t) \notin {"insert", "save", "hook", "installed"}
    BY <1>a DEF ThreadInv, Caller
  <2> QED BY <1>a, <1>b, <1>e, <2>1, ThreadKeeps DEF InsertDone
<1>3. TableInv'
  <2>1. wpc'[Exit] \in {"free", "gone"} => ~installed'
    BY <1>a, <1>b, <1>c, <1>d, ThreadSplit DEF InsertDone, ThreadInv, Caller
  <2>2. \A u \in Threads \ {t} : wpc'[u] \notin InToplel
    BY <1>c, <1>d
  <2>3. Caller(t) \notin {"idle", "free"} => Caller(t) = Caller(t)
    BY <1>b DEF Caller
  <2> QED BY <1>a, <1>b, <1>c, <1>d, <2>1, <2>2, <2>3, TableThen, TableFrom
       DEF InsertDone, TableInv, TypeOK, Caller, At, HookReachesOpen
<1>4. HookReachesOpen'
  BY <1>a, <1>d, TableThen DEF HookReachesOpen, TableInv, TypeOK, InsertDone, At
<1>5. BackInv'
  BY <1>a DEF BackInv, InsertDone
<1> QED BY <1>5, <1>1, <1>2, <1>3, <1>4

LEMMA RemoveCheckStep ==
    ASSUME IInv, NEW t \in Threads, RemoveCheck(t)
    PROVE  IInv'
<1> USE DEF IInv, hookVars, modVars, openVars
<1>a. wpc[t] = "remove" /\ wpc[t] \in InToplel
  BY DEF RemoveCheck, At, InToplel
<1>b. PICK l \in {"unhook", Caller(t)} : Goto(t, l) /\ (l = "unhook" <=> installed)
  BY DEF RemoveCheck, Caller
<1>c. /\ wpc'[t] = l /\ \A u \in Threads \ {t} : wpc'[u] = wpc[u]
      /\ wpc' \in [Threads -> Labels]
  BY <1>b, GotoThread DEF Caller, Labels
<1>d. /\ \A u \in Threads \ {t} : wpc[u] \notin InToplel
      /\ t # Exit => wpc[Exit] \in {"idle", "drain"}
  BY <1>a, Alone
<1>e. l \in InToplel \cup {Caller(t)}
  BY DEF InToplel
<1>1. TypeOK'
  BY <1>a, <1>c DEF TypeOK, RemoveCheck, TableInv, At
<1>2. ThreadInv'
  <2>1. t = Exit => l \notin {"insert", "save", "hook", "installed"}
    BY <1>a DEF ThreadInv, Caller
  <2> QED BY <1>a, <1>b, <1>e, <2>1, ThreadKeeps DEF RemoveCheck
<1>3. TableInv'
  <2>1. wpc'[Exit] \in {"free", "gone"} => ~installed'
    BY <1>a, <1>b, <1>c, <1>d, ThreadSplit DEF RemoveCheck, ThreadInv, Caller
  <2>2. \A u \in Threads \ {t} : wpc'[u] \notin InToplel
    BY <1>c, <1>d
  <2>3. l \notin {"idle", "free"} => l = "unhook"
    BY <1>b DEF Caller
  <2> QED BY <1>a, <1>b, <1>c, <1>d, <2>1, <2>2, <2>3, TableThen, TableFrom
       DEF RemoveCheck, TableInv, TypeOK, Caller, At, HookReachesOpen
<1>4. HookReachesOpen'
  BY <1>a, <1>d, TableThen DEF HookReachesOpen, TableInv, TypeOK, RemoveCheck, At
<1>5. BackInv'
  BY <1>a DEF BackInv, RemoveCheck
<1> QED BY <1>5, <1>1, <1>2, <1>3, <1>4

LEMMA RemoveUnhookStep ==
    ASSUME IInv, NEW t \in Threads, RemoveUnhook(t)
    PROVE  IInv'
<1> USE DEF IInv, hookVars, modVars, openVars
<1>a. wpc[t] = "unhook" /\ wpc[t] \in InToplel
  BY DEF RemoveUnhook, At, InToplel
<1>b. Goto(t, "removed")
  BY DEF RemoveUnhook
<1>c. /\ wpc'[t] = "removed" /\ \A u \in Threads \ {t} : wpc'[u] = wpc[u]
      /\ wpc' \in [Threads -> Labels]
  BY <1>b, GotoThread DEF Caller, Labels
<1>d. /\ \A u \in Threads \ {t} : wpc[u] \notin InToplel
      /\ t # Exit => wpc[Exit] \in {"idle", "drain"}
  BY <1>a, Alone
<1>e. "removed" \in InToplel \cup {Caller(t)}
  BY DEF InToplel
<1>1. TypeOK'
  BY <1>a, <1>c DEF TypeOK, RemoveUnhook, TableInv, At
<1>2. ThreadInv'
  <2>1. t = Exit => "removed" \notin {"insert", "save", "hook", "installed"}
    BY <1>a DEF ThreadInv, Caller
  <2> QED BY <1>a, <1>b, <1>e, <2>1, ThreadKeeps DEF RemoveUnhook
<1>3. TableInv'
  <2>1. wpc'[Exit] \in {"free", "gone"} => ~installed'
    BY <1>a, <1>b, <1>c, <1>d, ThreadSplit DEF RemoveUnhook, ThreadInv, Caller
  <2>2. \A u \in Threads \ {t} : wpc'[u] \notin InToplel
    BY <1>c, <1>d
  <2>3. "removed" \notin {"idle", "free"} => "removed" = "removed"
    BY <1>b DEF Caller
  <2> QED BY <1>a, <1>b, <1>c, <1>d, <2>1, <2>2, <2>3, TableThen, TableFrom
       DEF RemoveUnhook, TableInv, TypeOK, Caller, At, HookReachesOpen
<1>4. HookReachesOpen'
  BY <1>a, <1>d, TableThen DEF HookReachesOpen, TableInv, TypeOK, RemoveUnhook, At
<1>5. BackInv'
  BY <1>a DEF BackInv, RemoveUnhook
<1> QED BY <1>5, <1>1, <1>2, <1>3, <1>4

LEMMA RemoveDoneStep ==
    ASSUME IInv, NEW t \in Threads, RemoveDone(t)
    PROVE  IInv'
<1> USE DEF IInv, hookVars, modVars, openVars
<1>a. wpc[t] = "removed" /\ wpc[t] \in InToplel
  BY DEF RemoveDone, At, InToplel
<1>b. Goto(t, Caller(t))
  BY DEF RemoveDone
<1>c. /\ wpc'[t] = Caller(t) /\ \A u \in Threads \ {t} : wpc'[u] = wpc[u]
      /\ wpc' \in [Threads -> Labels]
  BY <1>b, GotoThread DEF Caller, Labels
<1>d. /\ \A u \in Threads \ {t} : wpc[u] \notin InToplel
      /\ t # Exit => wpc[Exit] \in {"idle", "drain"}
  BY <1>a, Alone
<1>e. Caller(t) \in InToplel \cup {Caller(t)}
  BY DEF InToplel
<1>1. TypeOK'
  BY <1>a, <1>c DEF TypeOK, RemoveDone, TableInv, At
<1>2. ThreadInv'
  <2>1. t = Exit => Caller(t) \notin {"insert", "save", "hook", "installed"}
    BY <1>a DEF ThreadInv, Caller
  <2> QED BY <1>a, <1>b, <1>e, <2>1, ThreadKeeps DEF RemoveDone
<1>3. TableInv'
  <2>1. wpc'[Exit] \in {"free", "gone"} => ~installed'
    BY <1>a, <1>b, <1>c, <1>d, ThreadSplit DEF RemoveDone, ThreadInv, Caller
  <2>2. \A u \in Threads \ {t} : wpc'[u] \notin InToplel
    BY <1>c, <1>d
  <2>3. Caller(t) \notin {"idle", "free"} => Caller(t) = Caller(t)
    BY <1>b DEF Caller
  <2> QED BY <1>a, <1>b, <1>c, <1>d, <2>1, <2>2, <2>3, TableThen, TableFrom
       DEF RemoveDone, TableInv, TypeOK, Caller, At, HookReachesOpen
<1>4. HookReachesOpen'
  BY <1>a, <1>d, TableThen DEF HookReachesOpen, TableInv, TypeOK, RemoveDone, At
<1>5. BackInv'
  BY <1>a DEF BackInv, RemoveDone
<1> QED BY <1>5, <1>1, <1>2, <1>3, <1>4

\* toplel_insert and toplel_remove, called by a writer or by rmmod.
LEMMA HookStep ==
    ASSUME IInv, NEW t \in Threads, Hook(t)
    PROVE  IInv'
BY InsertCheckStep, InsertSaveStep, InsertHookStep, InsertDoneStep, RemoveCheckStep,
   RemoveUnhookStep, RemoveDoneStep DEF Hook

\* rmmod.
LEMMA ExitStep ==
    ASSUME IInv, ExitLeave \/ ExitDrain \/ ExitFree
    PROVE  IInv'
<1> USE DEF IInv, hookVars, modVars, openVars
<1>a. Exit \in Threads
  BY ThreadSplit
<1>b. PICK l \in {"drain", "remove", "gone"} : Goto(Exit, l)
  BY DEF ExitLeave, ExitDrain, ExitFree
<1>c. /\ wpc'[Exit] = l /\ \A u \in Threads \ {Exit} : wpc'[u] = wpc[u]
      /\ wpc' \in [Threads -> Labels]
  BY <1>a, <1>b, GotoThread DEF Labels
<1>1. TypeOK'
  BY <1>c DEF TypeOK, ExitLeave, ExitDrain, ExitFree
<1>2. ThreadInv' /\ TableInv'
  <2>1. CASE ExitLeave
    <3>1. wpc[Exit] = "idle" /\ wpc'[Exit] = "drain"
      BY <2>1, <1>a DEF ExitLeave, At, Goto, TypeOK
    <3>2. ThreadInv'
      BY <2>1, <3>1, <1>c, ThreadSplit DEF ThreadInv, InToplel, ExitLeave, At
    <3>3. TableInv'
      BY <2>1, <3>1, <1>a, <1>c, ThreadSplit DEF TableInv, ExitLeave, At
    <3> QED BY <3>2, <3>3
  <2>2. CASE ExitDrain
    <3>1. wpc[Exit] = "drain" /\ wpc'[Exit] = "remove" /\ \A w \in Writers : wpc[w] = "idle"
      BY <2>2, <1>a DEF ExitDrain, At, Goto, TypeOK
    <3>2. \A u \in Threads \ {Exit} : wpc'[u] = "idle"
      BY <3>1, <1>c, ThreadSplit
    <3>3. ThreadInv'
      BY <2>2, <3>1, <3>2, ThreadSplit DEF ThreadInv, InToplel, ExitDrain, At
    <3>4. TableInv'
      BY <2>2, <3>1, <1>a, <1>c, ThreadSplit DEF TableInv, ExitDrain, At
    <3> QED BY <3>3, <3>4
  <2>3. CASE ExitFree
    <3>1. wpc[Exit] = "free" /\ wpc'[Exit] = "gone" /\ \A w \in Writers : wpc[w] = "idle"
      BY <2>3, <1>a DEF ExitFree, At, Goto, TypeOK, ThreadInv
    <3>2. \A u \in Threads \ {Exit} : wpc'[u] = "idle"
      BY <3>1, <1>c, ThreadSplit
    <3>3. ThreadInv'
      BY <2>3, <3>1, <3>2, ThreadSplit DEF ThreadInv, InToplel, ExitFree, At
    <3>4. TableInv'
      BY <2>3, <3>1, <1>a, <1>c, ThreadSplit DEF TableInv, ExitFree, At
    <3> QED BY <3>3, <3>4
  <2> QED BY <2>1, <2>2, <2>3
<1>3. HookReachesOpen'
  BY DEF HookReachesOpen, ExitLeave, ExitDrain, ExitFree
<1>4. BackInv'
  BY <1>b DEF BackInv, ExitLeave, ExitDrain, ExitFree
<1> QED BY <1>4, <1>1, <1>2, <1>3

\* A task in open().
LEMMA OpenStep ==
    ASSUME IInv, NEW o \in Openers,
           Open(o) \/ Crash(o) \/ Hooked(o) \/ SysOpen(o) \/ HookReturn(o)
    PROVE  IInv'
<1> USE DEF IInv, hookVars, modVars
<1>a. UNCHANGED <<table, orig, installed, foo, sysfs, module, wpc>>
  BY DEF Open, Crash, Hooked, HookPlain, HookGetcwd, HookPath, HookCall, SysOpen, HookReturn
<1>b. PICK l \in InHook \cup {"idle", "sys_open", "oops"} : Step(o, l)
  BY DEF Open, Crash, Hooked, HookPlain, HookGetcwd, HookPath, HookCall, SysOpen, HookReturn,
         CallOpen, InHook
<1>c. opc'[o] = l /\ \A u \in Openers \ {o} : opc'[u] = opc[u]
  BY <1>b DEF Step, TypeOK
<1>1. TypeOK'
  <2>1. opc' \in [Openers -> InHook \cup {"idle", "sys_open", "oops"}]
    BY <1>b DEF Step, TypeOK
  <2>2. back' \in [Openers -> {"task", "my_sys_open"}]
    BY DEF TypeOK, Open, Crash, Hooked, HookPlain, HookGetcwd, HookPath, HookCall, SysOpen,
           HookReturn, CallOpen
  <2>3. cwd' \in 0 .. Depth
    BY DepthAssumption DEF TypeOK, Open, Crash, Hooked, HookPlain, HookGetcwd, HookPath, HookCall,
           SysOpen, HookReturn
  <2>5. dir' \in [Openers -> 0 .. Depth]
    BY DepthAssumption DEF TypeOK, Open, Crash, Hooked, HookPlain, HookGetcwd, HookPath,
           HookCall, SysOpen, HookReturn
  <2> QED BY <1>a, <2>1, <2>2, <2>3, <2>5 DEF TypeOK
<1>2. ThreadInv'
  BY <1>a DEF ThreadInv, At
<1>3. TableInv'
  BY <1>a DEF TableInv, At
<1>4. BackInv'
  <2>1. back'[o] = "my_sys_open" => orig = "sys_open"
    BY DEF TypeOK, BackInv, HookReachesOpen, Open, Crash, Hooked, HookPlain, HookGetcwd, HookPath,
           HookCall, SysOpen, HookReturn, CallOpen, InHook
  <2>2. \A u \in Openers \ {o} : back'[u] = back[u]
    BY DEF TypeOK, Open, Crash, Hooked, HookPlain, HookGetcwd, HookPath, HookCall, SysOpen,
           HookReturn, CallOpen
  <2> QED BY <1>a, <2>1, <2>2 DEF BackInv
<1>5. HookReachesOpen'
  <2>1. l \in InHook => table = "my_sys_open" \/ opc[o] \in InHook \/ back[o] = "my_sys_open"
    <3>1. CASE Open(o)
      BY <3>1, <1>c DEF Open, CallOpen, Step, TypeOK, InHook
    <3>2. CASE Crash(o) \/ Hooked(o) \/ HookReturn(o)
      BY <3>2 DEF Crash, Hooked, HookPlain, HookGetcwd, HookPath, HookCall, HookReturn, InHook
    <3>3. CASE SysOpen(o)
      BY <3>3, <1>c DEF SysOpen, Step, TypeOK, InHook
    <3> QED BY <3>1, <3>2, <3>3
  <2> QED BY <1>a, <1>c, <2>1 DEF HookReachesOpen, BackInv
<1> QED BY <1>1, <1>2, <1>3, <1>4, <1>5

LEMMA NextInv == OneWriter /\ IInv /\ [Next]_vars => IInv'
<1> SUFFICES ASSUME OneWriter, IInv, [Next]_vars PROVE IInv'
  OBVIOUS
<1>1. CASE \E w \in Writers : StoreScan(w) \/ StoreSwitch(w)
  BY <1>1, StoreStep
<1>2. CASE \E t \in Threads : Hook(t)
  BY <1>2, HookStep
<1>3. CASE ExitLeave \/ ExitDrain \/ ExitFree
  BY <1>3, ExitStep
<1>4. CASE \E o \in Openers : Open(o) \/ Crash(o) \/ Hooked(o) \/ SysOpen(o) \/ HookReturn(o)
  BY <1>4, OpenStep
<1>5. CASE UNCHANGED vars
  BY <1>5 DEF IInv, TypeOK, ThreadInv, TableInv, BackInv, HookReachesOpen, At, vars, hookVars, modVars,
              openVars
<1> QED BY <1>1, <1>2, <1>3, <1>4, <1>5 DEF Next

\* With one writer the inductive invariant holds in every reachable state: the
\* table, orig_sys_open and toplel_installed agree (toplel.c:99-145).
THEOREM HookInductive == ASSUME OneWriter PROVE Spec => []IInv
<1>1. OneWriter
  OBVIOUS
<1> QED BY <1>1, InitInv, NextInv, PTL DEF Spec

\* A task that is in my_sys_open, or can get there through the table, finds
\* sys_open behind it (toplel.c:68 and 90), also after the hook is removed.
THEOREM HookSound == ASSUME OneWriter PROVE Spec => []HookReachesOpen
<1>1. IInv => HookReachesOpen
  BY DEF IInv
<1> QED BY <1>1, HookInductive, PTL

\* The table does not point into a module that is gone (main.c:54-56): the
\* file is removed, and its last writer waited for, before the hook is.
THEOREM FreedTable == ASSUME OneWriter PROVE Spec => []FreedIsUnhooked
<1>1. IInv => FreedIsUnhooked
  <2> SUFFICES ASSUME IInv, module = "freed" PROVE table = "sys_open"
    BY DEF FreedIsUnhooked
  <2>1. At(Exit, "gone") /\ \A w \in Writers : At(w, "idle")
    BY DEF IInv, ThreadInv, At
  <2>2. \A t \in Threads : wpc[t] \notin {"installed", "removed"}
    BY <2>1, ThreadSplit DEF At
  <2>3. ~installed
    BY <2>1 DEF IInv, TableInv, At
  <2> QED BY <2>2, <2>3 DEF IInv, TableInv, TypeOK
<1> QED BY <1>1, HookInductive, PTL

\* toplel_remove puts the real open back whenever it clears toplel_installed
\* (toplel.c:141-143).
THEOREM RemoveSound == ASSUME OneWriter PROVE Spec => RemoveRestores
<1>1. IInv /\ [Next]_vars => [installed /\ ~installed' => table' = "sys_open"]_vars
  <2> SUFFICES ASSUME IInv, Next, installed, ~installed' PROVE table' = "sys_open"
    OBVIOUS
  <2>1. PICK t \in Threads : RemoveDone(t)
    BY DEF Next, StoreScan, StoreSwitch, Hook, InsertCheck, InsertSave, InsertHook, InsertDone,
           RemoveCheck, RemoveUnhook, ExitLeave, ExitDrain, ExitFree, Open, Crash, Hooked,
           HookPlain, HookGetcwd, HookPath, HookCall, SysOpen, HookReturn, hookVars
  <2> QED BY <2>1 DEF RemoveDone, IInv, TableInv, At
<1> QED BY <1>1, HookInductive, PTL DEF Spec, RemoveRestores

\* Nobody takes the hook out, or says it is in, before orig_sys_open is set.
NullInv == orig = "null" =>
    ~installed /\ \A t \in Threads : wpc[t] \notin {"hook", "installed", "unhook", "removed"}

\* The hook's variables keep their types, however many tasks write to foo at
\* once: above all, toplel_remove never puts the initial null of orig_sys_open
\* into the system call table (toplel.c:141), and an opener never finds more of
\* the getcwd buffer than there is (util.h).
THEOREM HookTypeCorrect == Spec => []TypeOK
<1>1. Init => TypeOK /\ NullInv
  BY InitInv DEF IInv, Init, NullInv
<1>2. ASSUME TypeOK, NullInv, [Next]_vars
      PROVE  TypeOK' /\ NullInv'
  <2> USE DEF hookVars, modVars, openVars
  <2>1. ASSUME NEW w \in Writers, StoreScan(w) \/ StoreSwitch(w)
        PROVE  TypeOK' /\ NullInv'
    <3>1. PICK l \in {"switch", "insert", "remove", "idle"} : Goto(w, l)
      BY <2>1 DEF StoreScan, StoreSwitch
    <3>2. wpc' \in [Threads -> Labels] /\ wpc'[w] = l /\ \A u \in Threads \ {w} : wpc'[u] = wpc[u]
      BY <1>2, <3>1, ThreadSplit, GotoThread DEF Labels
    <3>3. TypeOK'
      BY <1>2, <2>1, <3>2 DEF TypeOK, StoreScan, StoreSwitch
    <3> QED BY <1>2, <2>1, <3>2, <3>3 DEF NullInv, StoreScan, StoreSwitch
  <2>2. ASSUME NEW t \in Threads, Hook(t)
        PROVE  TypeOK' /\ NullInv'
    <3>1. \A l \in Labels : Goto(t, l) =>
            wpc' \in [Threads -> Labels] /\ wpc'[t] = l /\ \A u \in Threads \ {t} : wpc'[u] = wpc[u]
      BY <1>2, GotoThread
    <3>2. Caller(t) \in {"idle", "free"}
      BY DEF Caller
    <3>3. CASE InsertCheck(t)
      BY <1>2, <3>1, <3>2, <3>3 DEF InsertCheck, TypeOK, NullInv, Labels
    <3>4. CASE InsertSave(t)
      BY <1>2, <3>1, <3>4 DEF InsertSave, TypeOK, NullInv, Labels
    <3>5. CASE InsertHook(t)
      BY <1>2, <3>1, <3>5 DEF InsertHook, TypeOK, NullInv, Labels, At
    <3>6. CASE InsertDone(t)
      BY <1>2, <3>1, <3>2, <3>6 DEF InsertDone, TypeOK, NullInv, Labels, At
    <3>7. CASE RemoveCheck(t)
      BY <1>2, <3>1, <3>2, <3>7 DEF RemoveCheck, TypeOK, NullInv, Labels
    <3>8. CASE RemoveUnhook(t)
      BY <1>2, <3>1, <3>8 DEF RemoveUnhook, TypeOK, NullInv, Labels, At
    <3>9. CASE RemoveDone(t)
      BY <1>2, <3>1, <3>2, <3>9 DEF RemoveDone, TypeOK, NullInv, Labels
    <3> QED BY <2>2, <3>3, <3>4, <3>5, <3>6, <3>7, <3>8, <3>9 DEF Hook
  <2>3. ASSUME ExitLeave \/ ExitDrain \/ ExitFree
        PROVE  TypeOK' /\ NullInv'
    <3>1. PICK l \in {"drain", "remove", "gone"} : Goto(Exit, l)
      BY <2>3 DEF ExitLeave, ExitDrain, ExitFree
    <3>2. wpc' \in [Threads -> Labels] /\ wpc'[Exit] = l /\ \A u \in Threads \ {Exit} : wpc'[u] = wpc[u]
      BY <1>2, <3>1, ThreadSplit, GotoThread DEF Labels
    <3>3. TypeOK'
      BY <1>2, <2>3, <3>2 DEF TypeOK, ExitLeave, ExitDrain, ExitFree
    <3> QED BY <1>2, <2>3, <3>2, <3>3 DEF NullInv, ExitLeave, ExitDrain, ExitFree
  <2>4. ASSUME NEW o \in Openers,
               Open(o) \/ Crash(o) \/ Hooked(o) \/ SysOpen(o) \/ HookReturn(o)
        PROVE  TypeOK' /\ NullInv'
    <3>1. opc' \in [Openers -> InHook \cup {"idle", "sys_open", "oops"}]
      BY <1>2, <2>4 DEF TypeOK, Open, Crash, Hooked, HookPlain, HookGetcwd, HookPath, HookCall,
                        SysOpen, HookReturn, CallOpen, Step, InHook
    <3>2. back' \in [Openers -> {"task", "my_sys_open"}]
      BY <1>2, <2>4 DEF TypeOK, Open, Crash, Hooked, HookPlain, HookGetcwd, HookPath, HookCall,
                        SysOpen, HookReturn, CallOpen
    <3>3. cwd' \in 0 .. Depth /\ dir' \in [Openers -> 0 .. Depth]
      BY <1>2, <2>4, DepthAssumption
      DEF TypeOK, Open, Crash, Hooked, HookPlain, HookGetcwd, HookPath, HookCall, SysOpen, HookReturn
    <3>4. UNCHANGED <<hookVars, modVars, wpc>>
      BY <2>4 DEF Open, Crash, Hooked, HookPlain, HookGetcwd, HookPath, HookCall, SysOpen, HookReturn
    <3> QED BY <1>2, <3>1, <3>2, <3>3, <3>4 DEF TypeOK, NullInv
  <2>5. CASE UNCHANGED vars
    BY <1>2, <2>5 DEF vars, TypeOK, NullInv
  <2> QED BY <1>2, <2>1, <2>2, <2>3, <2>4, <2>5 DEF Next
<1> QED BY <1>1, <1>2, PTL DEF Spec
=============================================================================
