-------------------------------- MODULE Hooks --------------------------------
(***************************************************************************)
(* The system call hooks (4-hooks/1..3, toplel.c): a module that, while it *)
(* is loaded, replaces entries of the system call table, and the programs  *)
(* that make system calls meanwhile. The table is read-only for a CPU with *)
(* the WP bit of its CR0 set, unless version 1 has made its pages writable.*)
(***************************************************************************)
EXTENDS Integers, FiniteSets

CONSTANTS
    Versions,  \* subset of 1 .. 3: the three directories
    Cpus, Programs,
    MaxCalls   \* bound: system calls, insmods

VARIABLES
    version,
    pc, cpu,     \* insmod or rmmod: where it is, and on which CPU
    wp,          \* per CPU: its WP bit
    rw,          \* the pages of the table are writable
    table,       \* per entry: "orig" or "hook"
    saved,       \* the entries whose original is in orig_sys_*
    call,        \* per program: its system call
    crashed,
    moved,       \* history: the task went to another CPU with write protection off
    calls

vars == <<version, pc, cpu, wp, rw, table, saved, call, crashed, moved, calls>>

Entries == {"open", "mkdir", "rmdir"}
Hooked == IF version = 3 THEN Entries ELSE {"open"}
\* What a program gives a call: a name that ends so, or a pointer to nothing.
Files == {"mp3", "jpg", "other", "wild"}

\* file: what the program opens; fs: its address limit; stale: the module it
\* is in has been unloaded.
Outside == [pc |-> "out", file |-> "none", fs |-> "user", stale |-> FALSE]

(***************************************************************************)
(* toplel_init and toplel_exit                                             *)
(***************************************************************************)

\* find_sys_call_table may find none, and insmod is over.
Insmod ==
    /\ pc = "unloaded" /\ calls < MaxCalls /\ calls' = calls + 1
    /\ pc' \in {"unprotect", "unloaded"}
    /\ UNCHANGED <<version, cpu, wp, rw, table, saved, call, crashed, moved>>

\* DISABLE_WRITE_PROTECTION, and in version 1 set_memory_rw, which may fail
\* and is never undone.
Unprotect ==
    /\ pc \in {"unprotect", "exit_unprotect"}
    /\ wp' = [wp EXCEPT ![cpu] = FALSE]
    /\ IF pc = "unprotect" THEN pc' = "save" /\ rw' \in {rw, version = 1}
                           ELSE pc' = "restore" /\ UNCHANGED rw
    /\ UNCHANGED <<version, cpu, table, saved, call, crashed, moved, calls>>

\* The task is preempted; it goes on on another CPU.
Migrate ==
    /\ pc \notin {"unloaded", "loaded", "gone"} /\ ~moved
    /\ \E c \in Cpus \ {cpu} : cpu' = c
    /\ moved' = (pc \notin {"unprotect", "exit_unprotect"})
    /\ UNCHANGED <<version, pc, wp, rw, table, saved, call, crashed, calls>>

\* A variant that saves what it finds after it has hooked.
SaveLate ==
    /\ pc = "save" /\ pc' = "install"
    /\ UNCHANGED <<version, cpu, wp, rw, table, saved, call, crashed, moved, calls>>

Save ==
    /\ pc = "save" /\ pc' = "install"
    /\ saved' = Hooked
    /\ UNCHANGED <<version, cpu, wp, rw, table, call, crashed, moved, calls>>

\* An entry is written, which oopses if it is read-only.
Write(e, to) ==
    /\ table' = IF wp[cpu] /\ ~rw THEN table ELSE [table EXCEPT ![e] = to]
    /\ crashed' = (crashed \/ (wp[cpu] /\ ~rw))

Install ==
    /\ pc = "install"
    /\ \/ \E e \in Hooked : table[e] = "orig" /\ Write(e, "hook") /\ UNCHANGED pc
       \/ (\A e \in Hooked : table[e] = "hook") /\ pc' = "protect" /\ UNCHANGED <<table, crashed>>
    /\ UNCHANGED <<version, cpu, wp, rw, saved, call, moved, calls>>

Protect ==
    /\ pc \in {"protect", "exit_protect"}
    /\ wp' = [wp EXCEPT ![cpu] = TRUE]
    /\ pc' = IF pc = "protect" THEN "loaded" ELSE "gone"
    /\ UNCHANGED <<version, cpu, rw, table, saved, call, crashed, moved, calls>>

Rmmod ==
    /\ pc = "loaded" /\ pc' = "exit_unprotect"
    /\ UNCHANGED <<version, cpu, wp, rw, table, saved, call, crashed, moved, calls>>

\* A variant that forgets the calls version 3 has added.
RestoreOpen ==
    /\ pc = "restore" /\ Write("open", "orig") /\ pc' = "exit_protect"
    /\ UNCHANGED <<version, cpu, wp, rw, saved, call, moved, calls>>

Restore ==
    /\ pc = "restore"
    /\ \/ \E e \in Hooked : table[e] = "hook" /\ Write(e, "orig") /\ UNCHANGED pc
       \/ (\A e \in Hooked : table[e] = "orig") /\ pc' = "exit_protect" /\ UNCHANGED <<table, crashed>>
    /\ UNCHANGED <<version, cpu, wp, rw, saved, call, moved, calls>>

\* The memory of the module is freed. Nothing counts the programs in it.
Unload ==
    /\ pc = "gone" /\ pc' = "unloaded" /\ saved' = {}
    /\ call' = [p \in Programs |-> [call[p] EXCEPT !.stale = @ \/ call[p].pc # "out"]]
    /\ UNCHANGED <<version, cpu, wp, rw, table, crashed, moved, calls>>

(***************************************************************************)
(* A system call                                                           *)
(***************************************************************************)

\* The program is in the hook; one whose entry is not hooked is not followed.
Call(p, e, f) ==
    /\ call[p].pc = "out" /\ calls < MaxCalls /\ calls' = calls + 1
    /\ table[e] = "hook"
    /\ call' = [call EXCEPT ![p] = [Outside EXCEPT !.pc = e, !.file = f]]
    /\ UNCHANGED <<version, pc, cpu, wp, rw, table, saved, crashed, moved>>

\* Another file is opened in place of this one.
Replaced(f) == \/ version \in {2, 3} /\ f = "mp3"
               \/ version = 2 /\ f = "jpg"

\* my_sys_open, my_sys_mkdir, my_sys_rmdir up to the original call. Those of
\* versions 2 and 3 look at the user's name themselves, without copying it. The
\* name of the replacement is in the kernel: set_fs.
Hook(p) ==
    LET old == call[p] IN
    /\ old.pc \in Entries
    /\ crashed' = (old.stale \/ old.pc \notin saved \/ (version # 1 /\ old.file = "wild"))
    /\ call' = [call EXCEPT ![p] = [old EXCEPT !.pc = "orig",
                   !.fs = IF old.pc = "open" /\ Replaced(old.file) THEN "kernel" ELSE "user"]]
    /\ UNCHANGED <<version, pc, cpu, wp, rw, table, saved, moved, calls>>

\* Back in the hook, which puts fs back and returns; version 1 prints the name
\* first. A hook that returns what the original does may have left the stack
\* already.
HookReturn(p) ==
    /\ call[p].pc = "orig"
    /\ \/ call[p].stale /\ crashed' = TRUE /\ UNCHANGED call
       \/ version = 1 /\ call[p].file = "wild" /\ crashed' = TRUE /\ UNCHANGED call
       \/ /\ IF version = 1 THEN ~call[p].stale /\ call[p].file # "wild"
                            ELSE call[p].stale => call[p].fs = "user"
          /\ call' = [call EXCEPT ![p] = Outside] /\ UNCHANGED crashed
    /\ UNCHANGED <<version, pc, cpu, wp, rw, table, saved, moved, calls>>

(***************************************************************************)
(* Specification                                                           *)
(***************************************************************************)

Init ==
    /\ version \in Versions /\ pc = "unloaded" /\ cpu = CHOOSE c \in Cpus : TRUE
    /\ wp = [c \in Cpus |-> TRUE] /\ rw = FALSE
    /\ table = [e \in Entries |-> "orig"] /\ saved = {}
    /\ call = [p \in Programs |-> Outside]
    /\ crashed = FALSE /\ moved = FALSE /\ calls = 0

\* A CPU that has crashed goes no further.
Next ==
    /\ ~crashed
    /\ \/ Insmod \/ Unprotect \/ Migrate \/ Save \/ Install \/ Protect
       \/ Rmmod \/ Restore \/ Unload
       \/ \E p \in Programs : Hook(p) \/ HookReturn(p)
                              \/ \E e \in Entries, f \in Files : Call(p, e, f)

Spec == Init /\ [][Next]_vars

(***************************************************************************)
(* Properties                                                              *)
(***************************************************************************)

\* A program in a system call reaches the original, whenever insmod and rmmod
\* hook and unhook its entry: only a module unloaded under a program, a task
\* moved between the two writes of CR0, or a name that the original would have
\* refused crashes.
CrashesOnlyIfMisused ==
    crashed => moved \/ \E p \in Programs : call[p].stale \/ call[p].file = "wild"

\* Loaded or not, every CPU is write-protected, the table is all hooks or all
\* originals, and no program keeps the address limit of the kernel.
RestsProtected ==
    /\ pc \in {"loaded", "unloaded"} /\ ~moved => \A c \in Cpus : wp[c]
    /\ ~crashed /\ pc = "unloaded" => \A e \in Entries : table[e] = "orig"
    /\ ~crashed /\ pc = "loaded" => \A e \in Hooked : table[e] = "hook"
    /\ \A p \in Programs : call[p].pc = "out" => call[p].fs = "user"

(***************************************************************************)
(* The inductive invariant                                                 *)
(***************************************************************************)

CallStates == [pc : Entries \cup {"out", "orig"}, file : Files \cup {"none"},
               fs : {"user", "kernel"}, stale : BOOLEAN]

TypeOK ==
    /\ cpu \in Cpus /\ wp \in [Cpus -> BOOLEAN] /\ crashed \in BOOLEAN /\ moved \in BOOLEAN
    /\ pc \in {"unloaded", "unprotect", "save", "install", "protect", "loaded",
               "exit_unprotect", "restore", "exit_protect", "gone"}
    /\ table \in [Entries -> {"orig", "hook"}]
    /\ call \in [Programs -> CallStates]

\* A task that has not moved has cleared the WP bit of its own CPU, between the
\* two writes of CR0 and no longer.
WpInv ==
    ~moved => \A c \in Cpus :
        ~wp[c] <=> c = cpu /\ pc \in {"save", "install", "protect", "restore", "exit_protect"}

\* The originals are saved before the first entry is hooked and until after the
\* last is restored.
TableInv ==
    ~crashed =>
        /\ \A e \in Entries :
              table[e] = "hook" => e \in Hooked /\ pc \in {"install", "protect", "loaded",
                                                         "exit_unprotect", "restore"}
        /\ pc \in {"protect", "loaded", "exit_unprotect"} => \A e \in Hooked : table[e] = "hook"
        /\ pc \in {"install", "protect", "loaded", "exit_unprotect", "restore", "exit_protect",
                   "gone"} => saved = Hooked

\* A program in a hook of the module that is loaded finds the original.
CallInv ==
    \A p \in Programs :
        /\ call[p].pc = "out" => call[p].fs = "user" /\ ~call[p].stale
        /\ ~crashed /\ call[p].pc # "out" /\ ~call[p].stale =>
              /\ pc \notin {"unloaded", "unprotect", "save"}
              /\ call[p].pc \in Entries => call[p].pc \in saved

IInv == TypeOK /\ WpInv /\ TableInv /\ CallInv /\ CrashesOnlyIfMisused

=============================================================================
