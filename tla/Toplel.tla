------------------------------- MODULE Toplel -------------------------------
(***************************************************************************)
(* The open() hook of the meta module (7-meta): toplel.c replaces the      *)
(* entry of open in the system call table, sysfs.c lets a user install and *)
(* remove the hook by writing a number to a file, main.c removes both when *)
(* the module is unloaded; meanwhile tasks go through the table and the    *)
(* hook with no lock and no count of who is inside.                        *)
(*                                                                         *)
(* A step ends where another task can see or change what it did.           *)
(***************************************************************************)
EXTENDS Integers

CONSTANTS
    Writers,    \* the tasks that write to /sys/kernel/<module>/foo
    Openers,    \* the tasks that call open()
    Depth,      \* how many '/' the module's __FILE__ has
    Exit        \* rmmod

ASSUME ExitAssumption == Exit \notin Writers
ASSUME DepthAssumption == Depth \in Nat \ {0}

VARIABLES
    foo,        \* what was written last: "1337", "1338" or another number
    table,      \* syscall_table[__NR_open]
    orig,       \* orig_sys_open
    installed,  \* toplel_installed
    sysfs,      \* the file is there
    module,     \* the module's text: loaded, or freed
    cwd,        \* how many '/' the getcwd macro's static buffer has left
    wpc,        \* per writer and for rmmod: where in sysfs.c, toplel.c, main.c
    opc,        \* per opener: where it is
    back,       \* per opener: who called sys_open
    dir         \* per opener: the directory of its hookfile, as a number of '/'

hookVars == <<table, orig, installed>>
modVars  == <<foo, sysfs, module>>
openVars == <<cwd, opc, back, dir>>
vars     == <<hookVars, modVars, openVars, wpc>>

Threads == Writers \cup {Exit}

At(t, l) == wpc[t] = l
Goto(t, l) == wpc' = [wpc EXCEPT ![t] = l]

\* Where a thread is when toplel_insert or toplel_remove returns to it.
Caller(t) == IF t = Exit THEN "free" ELSE "idle"

(***************************************************************************)
(* sysfs.c: foo_store. 666 restarts the machine and ends the behaviour.    *)
(***************************************************************************)

\* sscanf leaves foo as it is when the text is no number.
StoreScan(w) ==
    /\ sysfs /\ At(w, "idle")
    /\ \/ foo' \in {"1337", "1338", "other"}
       \/ UNCHANGED foo
    /\ Goto(w, "switch")
    /\ UNCHANGED <<hookVars, sysfs, module, openVars>>

StoreSwitch(w) ==
    /\ At(w, "switch")
    /\ Goto(w, CASE foo = "1337" -> "insert"
                 [] foo = "1338" -> "remove"
                 [] OTHER -> "idle")
    /\ UNCHANGED <<hookVars, modVars, openVars>>

(***************************************************************************)
(* toplel.c: toplel_insert and toplel_remove                               *)
(***************************************************************************)

\* Mutant: toplel_installed is not looked at.
InsertCheckNone(t) ==
    /\ At(t, "insert")
    /\ Goto(t, "save") \/ Goto(t, Caller(t))
    /\ UNCHANGED <<hookVars, modVars, openVars>>

\* Nothing to do, or no table found by find_sys_call_table.
InsertCheck(t) ==
    /\ At(t, "insert")
    /\ \/ ~installed /\ Goto(t, "save")
       \/ Goto(t, Caller(t))
    /\ UNCHANGED <<hookVars, modVars, openVars>>

InsertSave(t) ==
    /\ At(t, "save")
    /\ orig' = table
    /\ Goto(t, "hook")
    /\ UNCHANGED <<table, installed, modVars, openVars>>

InsertHook(t) ==
    /\ At(t, "hook")
    /\ table' = "my_sys_open"
    /\ Goto(t, "installed")
    /\ UNCHANGED <<orig, installed, modVars, openVars>>

InsertDone(t) ==
    /\ At(t, "installed")
    /\ installed' = TRUE
    /\ Goto(t, Caller(t))
    /\ UNCHANGED <<table, orig, modVars, openVars>>

RemoveCheck(t) ==
    /\ At(t, "remove")
    /\ Goto(t, IF installed THEN "unhook" ELSE Caller(t))
    /\ UNCHANGED <<hookVars, modVars, openVars>>

RemoveUnhook(t) ==
    /\ At(t, "unhook")
    /\ table' = orig
    /\ Goto(t, "removed")
    /\ UNCHANGED <<orig, installed, modVars, openVars>>

\* Mutant: orig_sys_open is forgotten as well.
RemoveDoneForget(t) ==
    /\ At(t, "removed")
    /\ installed' = FALSE
    /\ orig' = "null"
    /\ Goto(t, Caller(t))
    /\ UNCHANGED <<table, modVars, openVars>>

RemoveDone(t) ==
    /\ At(t, "removed")
    /\ installed' = FALSE
    /\ Goto(t, Caller(t))
    /\ UNCHANGED <<table, orig, modVars, openVars>>

Hook(t) ==
    \/ InsertCheck(t) \/ InsertSave(t) \/ InsertHook(t) \/ InsertDone(t)
    \/ RemoveCheck(t) \/ RemoveUnhook(t) \/ RemoveDone(t)

(***************************************************************************)
(* main.c: kmod_exit, which the exit hook calls too                        *)
(***************************************************************************)

\* sysfs_leave: no new foo_store begins.
ExitLeave ==
    /\ At(Exit, "idle")
    /\ sysfs' = FALSE
    /\ Goto(Exit, "drain")
    /\ UNCHANGED <<hookVars, foo, module, openVars>>

\* Mutant: the module does not wait for the writers.
ExitDrainNone ==
    /\ At(Exit, "drain")
    /\ Goto(Exit, "remove")
    /\ UNCHANGED <<hookVars, modVars, openVars>>

\* kobject_put returns once every foo_store has; then toplel_remove.
ExitDrain ==
    /\ At(Exit, "drain")
    /\ \A w \in Writers : At(w, "idle")
    /\ Goto(Exit, "remove")
    /\ UNCHANGED <<hookVars, modVars, openVars>>

\* delete_module frees the text; nothing asks who is still in my_sys_open.
ExitFree ==
    /\ At(Exit, "free")
    /\ module' = "freed"
    /\ Goto(Exit, "gone")
    /\ UNCHANGED <<hookVars, foo, sysfs, openVars>>

(***************************************************************************)
(* A task in open(): my_sys_open with the getcwd macro of util.h           *)
(***************************************************************************)

InHook == {"plain", "fun", "path", "call", "return"}

Step(o, l) == opc' = [opc EXCEPT ![o] = l]

\* A call of f by b for a plain file or one of a "fun" type: sys_open, the hook,
\* or a jump nowhere.
CallOpen(o, f, b, kind) ==
    /\ Step(o, CASE f = "sys_open" -> "sys_open"
                 [] f = "my_sys_open" -> kind
                 [] OTHER -> "oops")
    /\ back' = [back EXCEPT ![o] = b]

Open(o) ==
    /\ opc[o] = "idle"
    /\ \E kind \in {"plain", "fun"} : CallOpen(o, table, "task", kind)
    /\ UNCHANGED <<hookVars, modVars, cwd, dir, wpc>>

\* The text the task runs in, or returns to, is gone.
Crash(o) ==
    /\ module = "freed"
    /\ opc[o] \in InHook
    /\ Step(o, "oops")
    /\ UNCHANGED <<hookVars, modVars, cwd, back, dir, wpc>>

\* A file of a type the hook does not care for.
HookPlain(o) ==
    /\ module = "loaded" /\ opc[o] = "plain"
    /\ CallOpen(o, orig, "my_sys_open", "plain")
    /\ UNCHANGED <<hookVars, modVars, cwd, dir, wpc>>

\* Mutant: strrchr's result is not looked at, and does not fault.
HookGetcwdPast(o) ==
    /\ module = "loaded" /\ opc[o] = "fun"
    /\ Step(o, "path")
    /\ cwd' = cwd - 1
    /\ UNCHANGED <<hookVars, modVars, back, dir, wpc>>

\* getcwd cuts its static buffer at the last '/'; strrchr finds none at last.
HookGetcwd(o) ==
    /\ module = "loaded" /\ opc[o] = "fun"
    /\ IF cwd = 0
       THEN Step(o, "oops") /\ UNCHANGED cwd
       ELSE Step(o, "path") /\ cwd' = cwd - 1
    /\ UNCHANGED <<hookVars, modVars, back, dir, wpc>>

\* snprintf of the buffer into the task's own hookfile.
HookPath(o) ==
    /\ module = "loaded" /\ opc[o] = "path"
    /\ dir' = [dir EXCEPT ![o] = cwd]
    /\ Step(o, "call")
    /\ UNCHANGED <<hookVars, modVars, cwd, back, wpc>>

\* The hookfile is of a fun type itself.
HookCall(o) ==
    /\ module = "loaded" /\ opc[o] = "call"
    /\ CallOpen(o, orig, "my_sys_open", "fun")
    /\ UNCHANGED <<hookVars, modVars, cwd, dir, wpc>>

\* sys_open returns, to the task or into the hook.
SysOpen(o) ==
    /\ opc[o] = "sys_open"
    /\ Step(o, IF back[o] = "task" THEN "idle" ELSE "return")
    /\ UNCHANGED <<hookVars, modVars, cwd, back, dir, wpc>>

HookReturn(o) ==
    /\ module = "loaded" /\ opc[o] = "return"
    /\ Step(o, "idle")
    /\ UNCHANGED <<hookVars, modVars, cwd, back, dir, wpc>>

Hooked(o) == HookPlain(o) \/ HookGetcwd(o) \/ HookPath(o) \/ HookCall(o)

(***************************************************************************)

\* After kmod_init.
Init ==
    /\ foo = "other"
    /\ table = "sys_open" /\ orig = "null" /\ installed = FALSE
    /\ sysfs = TRUE /\ module = "loaded"
    /\ cwd = Depth
    /\ wpc = [t \in Threads |-> "idle"]
    /\ opc = [o \in Openers |-> "idle"]
    /\ back = [o \in Openers |-> "task"]
    /\ dir = [o \in Openers |-> Depth - 1]

Next ==
    \/ \E w \in Writers : StoreScan(w) \/ StoreSwitch(w)
    \/ \E t \in Threads : Hook(t)
    \/ ExitLeave \/ ExitDrain \/ ExitFree
    \/ \E o \in Openers : Open(o) \/ Crash(o) \/ Hooked(o) \/ SysOpen(o) \/ HookReturn(o)

Spec == Init /\ [][Next]_vars

\* A task in the hook runs on, or dies; sys_open itself may block for ever.
FairSpec == Spec /\ \A o \in Openers : WF_vars(Hooked(o) \/ Crash(o))

(***************************************************************************)
(* Properties                                                              *)
(***************************************************************************)

Labels == {"idle", "switch", "insert", "save", "hook", "installed", "remove", "unhook",
           "removed", "drain", "free", "gone"}

TypeOK ==
    /\ foo \in {"1337", "1338", "other"}
    /\ table \in {"sys_open", "my_sys_open"}
    /\ orig \in {"null", "sys_open", "my_sys_open"}
    /\ installed \in BOOLEAN /\ sysfs \in BOOLEAN /\ module \in {"loaded", "freed"}
    /\ cwd \in 0 .. Depth
    /\ wpc \in [Threads -> Labels]
    /\ opc \in [Openers -> InHook \cup {"idle", "sys_open", "oops"}]
    /\ back \in [Openers -> {"task", "my_sys_open"}]
    /\ dir \in [Openers -> 0 .. Depth]

\* Whoever is in the hook, or will get there, finds the real open behind it:
\* while the table points to the hook and as long after as a task is in it.
HookReachesOpen ==
    table = "my_sys_open" \/ (\E o \in Openers : opc[o] \in InHook) => orig = "sys_open"

\* A freed module leaves the system call table as it found it, although a
\* write to foo may be under way when rmmod begins.
FreedIsUnhooked == module = "freed" => table = "sys_open"

\* Only one thread is in toplel.c: there is one writer, and rmmod waits for it.
OneWriter == \A v, w \in Writers : v = w

InToplel == {"insert", "save", "hook", "installed", "remove", "unhook", "removed"}

ThreadInv ==
    /\ \A t, u \in Threads : wpc[t] \in InToplel /\ wpc[u] \in InToplel => t = u
    /\ wpc[Exit] # "idle" => ~sysfs
    /\ wpc[Exit] \notin {"idle", "drain"} => \A w \in Writers : At(w, "idle")
    /\ \A w \in Writers : wpc[w] \notin {"drain", "free", "gone"}
    /\ wpc[Exit] \notin {"switch", "insert", "save", "hook", "installed"}
    /\ module = "freed" => At(Exit, "gone")

\* toplel_installed says whether the hook is in the table, except in the middle
\* of an insert or a remove; orig_sys_open is never the hook.
TableInv ==
    /\ \A t \in Threads :
        /\ At(t, "save") => ~installed
        /\ At(t, "hook") => ~installed /\ orig = "sys_open" /\ table = "sys_open"
        /\ At(t, "installed") => ~installed /\ table = "my_sys_open"
        /\ At(t, "unhook") => installed
        /\ At(t, "removed") => installed /\ table = "sys_open"
    /\ (\A t \in Threads : wpc[t] \notin {"installed", "removed"}) =>
            (installed <=> table = "my_sys_open")
    /\ orig # "my_sys_open"
    /\ installed => orig = "sys_open"
    /\ wpc[Exit] \in {"free", "gone"} => ~installed

\* Who calls sys_open from the hook has it in orig_sys_open.
BackInv == \A o \in Openers : back[o] = "my_sys_open" => orig = "sys_open"

IInv == TypeOK /\ ThreadInv /\ TableInv /\ BackInv /\ HookReachesOpen

\* "restore the syscall table to its original state" (toplel.c:133): whenever
\* the hook counts as removed, the real open is back in the table.
RemoveRestores == [][installed /\ ~installed' => table' = "sys_open"]_vars

\* A task that enters the hook gets to the real open or dies with the module,
\* also when the hook is removed under it; it does not go round in the hook.
HookedGetsThrough ==
    \A o \in Openers : opc[o] \in {"plain", "fun"} ~> opc[o] \in {"sys_open", "oops"}

\* "a string containing the hookfile data dir" (toplel.c:73): the hookfile is
\* under the directory of the module's source.
HookfileInDataDir == \A o \in Openers : opc[o] = "call" => dir[o] = Depth - 1
=============================================================================
