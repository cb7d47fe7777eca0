------------------------------ MODULE CharDevs ------------------------------
(***************************************************************************)
(* The devices and the proc file that keep what is written to them in a    *)
(* buffer: 1-memory/memory.c, its minimal version, 0-earliest/2-character, *)
(* the parallel port of 0-earliest/3-parlelport and 5-procfs, as the shell *)
(* uses them: "echo text > file" and "cat file", which call write and read *)
(* until they are done. The calls of two tasks follow one another in any   *)
(* order, each in one step; what does not fit runs over the end, and the   *)
(* module may go while a device is open: file_operations has no owner.     *)
(***************************************************************************)
EXTENDS Integers, Sequences, FiniteSets, SequencesExt, FiniteSetsExt

CONSTANTS
    Tasks,
    Texts,     \* what is written: sequences of bytes
    BufSize,   \* BUFSIZE
    Failures,  \* what insmod may not get: some of "major", "buffer", "region", "proc"
    MaxCalls   \* bound: how many commands are given

AllDevices == {"memory", "minimal", "single", "parlelport", "procfs"}

VARIABLES
    dev,        \* which of them it is
    loaded,     \* the module is in the kernel
    held,       \* what it holds: "major", "buffer", "region", "proc"
    buf, loc,   \* memory_buffer, kbuf or parlelport_buffer, and loc
    port,       \* the data register of the parallel port
    file,       \* per task: its command, *f_pos, what it has to write and has read
    log,        \* history: the bytes written since the device was last emptied, the latest text
    shared,     \* history: two tasks have had it open at once
    calls,
    crashed     \* the kernel used memory it should not have

vars == <<dev, loaded, held, buf, loc, port, file, log, shared, calls, crashed>>

NUL == "nul"
Null == "(null)"   \* what %s makes of a NULL pointer
Zeroes == [i \in 1 .. BufSize |-> NUL]
IsMemory == dev \in {"memory", "minimal"}
Blank == [bytes |-> <<>>, latest |-> <<>>]
Closed == [cmd |-> "none", pos |-> 0, rest |-> <<>>, text |-> <<>>, got |-> <<>>]

(***************************************************************************)
(* insmod and rmmod                                                        *)
(***************************************************************************)

\* What insmod asks for.
Wants == CASE dev \in {"memory", "minimal", "single"} -> {"major", "buffer"}
           [] dev = "parlelport" -> {"major", "region"}
           [] dev = "procfs" -> {"buffer", "proc"}

\* What it gives up without.
Checked == IF dev \in {"minimal", "procfs"} THEN {} ELSE Wants

\* What it goes on without, and returns 0: the region is checked with
\* check_region, and then request_region is not.
Unchecked == CASE dev = "minimal" -> {"major"}
               [] dev = "procfs" -> {"buffer", "proc"}
               [] dev = "parlelport" -> {"region"}
               [] OTHER -> {}

\* What the buffer begins with. That of the proc file is not cleared, and may
\* hold any text (one that ends inside it); the memory devices' is.
Fresh(has) == CASE IsMemory -> {Zeroes}
                [] dev = "procfs" -> IF "buffer" \in has THEN Texts \cup {<<>>} ELSE {<<Null>>}
                [] OTHER -> {<<NUL>>}

LoadWhole ==
    \E lost \in SUBSET (Unchecked \cap Failures) :
        /\ held' = Wants \ lost /\ loaded' = TRUE
        /\ buf' \in Fresh(Wants \ lost)
        /\ UNCHANGED crashed

\* memset clears a buffer that is not there.
LoadCrash ==
    /\ dev = "minimal" /\ "buffer" \in Failures
    /\ crashed' = TRUE /\ UNCHANGED <<held, loaded, buf>>

\* A variant that leaves the major number to a module that is not loaded.
LoadKeepsMajor ==
    \/ LoadWhole \/ LoadCrash
    \/ Checked \cap Failures # {} /\ held' = {"major"} /\ UNCHANGED <<loaded, buf, crashed>>

\* The first failure that is checked undoes what was done before it.
Load ==
    \/ LoadWhole \/ LoadCrash
    \/ Checked \cap Failures # {} /\ held' = {} /\ UNCHANGED <<loaded, buf, crashed>>

Insmod ==
    /\ ~loaded /\ calls < MaxCalls /\ calls' = calls + 1
    /\ Load
    /\ loc' = 0 /\ log' = Blank
    /\ UNCHANGED <<dev, port, file, shared>>

\* memory_exit, parlelport_exit, procfs_exit: all is given back, also a major
\* or a region that insmod did not get and that another driver may have (its
\* loss is not followed). A task that has a device open is left with the code
\* gone; one that has the proc file open gets an error, and closes it.
Rmmod ==
    /\ loaded /\ loaded' = FALSE /\ held' = {}
    /\ file' = [t \in Tasks |-> IF dev = "procfs" \/ file[t].cmd = "none" THEN Closed
                               ELSE [file[t] EXCEPT !.cmd = "gone"]]
    /\ UNCHANGED <<dev, buf, loc, port, log, shared, calls, crashed>>

\* Its next read, write or close calls what was the module's (one that has been
\* loaded again, at the very place it had, is left out).
Stale(t) ==
    /\ file[t].cmd = "gone" /\ crashed' = TRUE
    /\ UNCHANGED <<dev, loaded, held, buf, loc, port, file, log, shared, calls>>

(***************************************************************************)
(* open, read and write                                                    *)
(***************************************************************************)

Busy(t) == file[t].cmd \notin {"none", "gone"}

\* There is a device, or a file, as long as insmod got the number, or the entry.
OpenFor(t, cmd, text) ==
    /\ loaded /\ held \cap {"major", "proc"} # {}
    /\ file[t].cmd = "none" /\ calls < MaxCalls /\ calls' = calls + 1
    /\ file' = [file EXCEPT ![t] = [Closed EXCEPT !.cmd = cmd, !.text = text, !.rest = text]]
    /\ shared' = (shared \/ \E u \in Tasks : Busy(u))
    /\ UNCHANGED <<dev, loaded, held, buf, loc, port, log, crashed>>

Unwritten(t, n) == [file EXCEPT ![t].rest = SubSeq(@, n + 1, Len(@))]

Writes(t) == file[t].cmd = "echo" /\ file[t].rest # <<>>

\* memory_write: a byte behind the one before it, whoever wrote that; behind
\* the buffer, it may or may not hit what the kernel needs.
MemoryWrite(t) ==
    /\ Writes(t) /\ IsMemory
    /\ \/ loc < BufSize /\ buf' = [buf EXCEPT ![loc + 1] = Head(file[t].rest)] /\ UNCHANGED crashed
       \/ loc >= BufSize /\ UNCHANGED buf /\ crashed' \in BOOLEAN
    /\ loc' = loc + 1
    /\ file' = Unwritten(t, 1)
    /\ UNCHANGED <<dev, loaded, held, port, log, shared, calls>>

\* memory_write of 2-character takes the last byte and says it took the first.
SingleWrite(t) ==
    /\ Writes(t) /\ dev = "single"
    /\ buf' = <<Last(file[t].rest)>>
    /\ file' = Unwritten(t, 1)
    /\ UNCHANGED <<dev, loaded, held, loc, port, log, shared, calls, crashed>>

\* parlelport_write: loc never goes back, so only the first byte since insmod
\* gets to the buffer, and the others to what lies behind it; the port is given
\* the buffer each time.
ParlelportWrite(t) ==
    /\ Writes(t) /\ dev = "parlelport"
    /\ \/ loc = 0 /\ buf' = <<Head(file[t].rest)>> /\ UNCHANGED crashed
       \/ loc # 0 /\ UNCHANGED buf /\ crashed' \in BOOLEAN
    /\ loc' = loc + 1 /\ port' = buf'[1]
    /\ file' = Unwritten(t, 1)
    /\ UNCHANGED <<dev, loaded, held, log, shared, calls>>

\* procfs_writer: the text, as much of it as fits with its NUL.
ProcfsWrite(t) ==
    /\ Writes(t) /\ dev = "procfs" /\ "buffer" \in held
    /\ buf' = SubSeq(file[t].rest, 1, Min({Len(file[t].rest), BufSize - 1}))
    /\ file' = [Unwritten(t, Len(file[t].rest)) EXCEPT ![t].pos = 0]
    /\ UNCHANGED <<dev, loaded, held, loc, port, log, shared, calls, crashed>>

\* snprintf writes to NULL.
ProcfsWriteCrash(t) ==
    /\ Writes(t) /\ dev = "procfs" /\ "buffer" \notin held /\ crashed' = TRUE
    /\ UNCHANGED <<dev, loaded, held, buf, loc, port, file, log, shared, calls>>

Reads(t) == file[t].cmd = "cat"

\* A read that returns bytes, and one that returns 0: cat is done.
Gives(t, bytes, pos) ==
    file' = [file EXCEPT ![t].got = @ \o bytes, ![t].pos = pos]
Ends(t) == file' = [file EXCEPT ![t].cmd = "done"]

\* A variant of memory_cleanup that leaves loc where it is.
MemoryCleanupLoc == buf' = Zeroes /\ UNCHANGED loc

MemoryCleanup == buf' = Zeroes /\ loc' = 0

\* memory_read: the whole buffer, then nothing, and the buffer is emptied.
MemoryRead(t) ==
    /\ Reads(t) /\ IsMemory
    /\ \/ file[t].pos = 0 /\ Gives(t, buf, BufSize) /\ UNCHANGED <<buf, loc, log>>
       \/ file[t].pos # 0 /\ Ends(t) /\ MemoryCleanup /\ log' = Blank
    /\ UNCHANGED <<dev, loaded, held, port, shared, calls, crashed>>

SingleRead(t) ==
    /\ Reads(t) /\ dev = "single"
    /\ \/ file[t].pos = 0 /\ Gives(t, buf, 1)
       \/ file[t].pos # 0 /\ Ends(t)
    /\ UNCHANGED <<dev, loaded, held, buf, loc, port, log, shared, calls, crashed>>

\* parlelport_read takes the byte from the port, and always returns 0.
ParlelportRead(t) ==
    /\ Reads(t) /\ dev = "parlelport"
    /\ buf' = <<port>> /\ Ends(t)
    /\ UNCHANGED <<dev, loaded, held, loc, port, log, shared, calls, crashed>>

ProcfsRead(t) ==
    /\ Reads(t) /\ dev = "procfs"
    /\ \/ file[t].pos = 0 /\ buf # <<>> /\ Gives(t, buf, Len(buf))
       \/ (file[t].pos # 0 \/ buf = <<>>) /\ Ends(t)
    /\ UNCHANGED <<dev, loaded, held, buf, loc, port, log, shared, calls, crashed>>

\* The command is done, or a reader has read enough.
Close(t) ==
    /\ \/ file[t].cmd = "echo" /\ file[t].rest = <<>>
       \/ file[t].cmd = "done"
       \/ file[t].cmd = "cat" /\ file[t].pos # 0
    /\ log' = IF file[t].cmd # "echo" THEN log
              ELSE [bytes |-> log.bytes \o file[t].text, latest |-> file[t].text]
    /\ file' = [file EXCEPT ![t] = Closed]
    /\ UNCHANGED <<dev, loaded, held, buf, loc, port, shared, calls, crashed>>

(***************************************************************************)
(* Specification                                                           *)
(***************************************************************************)

Init ==
    /\ dev \in AllDevices /\ loaded = FALSE /\ held = {}
    /\ buf = <<NUL>> /\ loc = 0 /\ port = NUL
    /\ file = [t \in Tasks |-> Closed]
    /\ log = Blank /\ shared = FALSE /\ calls = 0 /\ crashed = FALSE

Next ==
    /\ ~crashed
    /\ \/ Insmod \/ Rmmod
       \/ \E t \in Tasks :
           \/ OpenFor(t, "cat", <<>>) \/ \E s \in Texts : OpenFor(t, "echo", s)
           \/ MemoryWrite(t) \/ SingleWrite(t) \/ ParlelportWrite(t)
           \/ ProcfsWrite(t) \/ ProcfsWriteCrash(t)
           \/ MemoryRead(t) \/ SingleRead(t) \/ ParlelportRead(t) \/ ProcfsRead(t)
           \/ Close(t) \/ Stale(t)

Spec == Init /\ [][Next]_vars

(***************************************************************************)
(* Properties                                                              *)
(***************************************************************************)

\* What these bytes amount to in the memory and in the single byte device, and
\* what a text amounts to in the proc file. The rest is cut off.
Filled(all) == [i \in 1 .. BufSize |-> IF i <= Len(all) THEN all[i] ELSE NUL]
Final(all) == <<IF all = <<>> THEN NUL ELSE Last(all)>>
Cut(text) == SubSeq(text, 1, Min({Len(text), BufSize - 1}))

Kept == CASE IsMemory -> Filled(log.bytes)
          [] dev = "single" -> Final(log.bytes)
          [] dev = "procfs" -> Cut(log.latest)

\* "echo 'boop beep boop bwarp!' > /dev/memory && cat /dev/memory"
\* (1-memory/my-setup.sh:6): over any sequence of commands one after another,
\* cat gets what was written since the last cat emptied the memory device, the
\* last byte from the one of a single byte, the last text from the proc file.
CatGetsEcho ==
    \A t \in Tasks :
        Reads(t) /\ file[t].pos # 0 /\ ~shared /\ (dev = "procfs" => log # Blank) =>
            file[t].got = Kept

\* Whatever fails at insmod or in use, a module that is not in the kernel holds
\* nothing, and one that is lacks at most what its insmod does not check.
LoadAllOrNothing ==
    IF loaded THEN held \subseteq Wants /\ Wants \ Unchecked \subseteq held ELSE held = {}

\* How many bytes have gone to the memory device since it was last emptied.
Written(r) == SubSeq(r.text, 1, Len(r.text) - Len(r.rest))
Flooded == \/ Len(log.bytes) > BufSize
           \/ \E t \in Tasks : file[t].cmd = "echo" /\ Len(log.bytes \o Written(file[t])) > BufSize

\* What it takes to crash the kernel with one of these modules: a device open
\* while its module is removed; more bytes to the memory than fit since a cat
\* last emptied it (by two tasks at once: since loc was last 0), or a second
\* one to the port; or no memory for the buffer, where nobody checks.
CrashesOnlyIfMisused ==
    crashed =>
        \/ dev # "procfs" /\ \E t \in Tasks : file[t].cmd = "gone"
        \/ IsMemory /\ loc > BufSize /\ (shared \/ Flooded)
        \/ dev = "parlelport" /\ loc > 1
        \/ dev \in {"minimal", "procfs"} /\ "buffer" \in Failures \ held

(***************************************************************************)
(* The inductive invariant                                                 *)
(***************************************************************************)

Bytes == {NUL, Null} \cup UNION {{s[i] : i \in DOMAIN s} : s \in Texts}

\* A shell writes a line feed at least.
ChrAssumption ==
    /\ BufSize \in Nat \ {0}
    /\ \A s \in Texts : s \in Seq(Bytes) /\ s # <<>>

Files == [cmd : {"none", "echo", "cat", "done", "gone"}, pos : Nat, rest : Seq(Bytes),
          text : Seq(Bytes), got : Seq(Bytes)]
Logs == [bytes : Seq(Bytes), latest : Seq(Bytes)]

TypeOK ==
    /\ dev \in AllDevices /\ loaded \in BOOLEAN /\ shared \in BOOLEAN /\ crashed \in BOOLEAN
    /\ buf \in Seq(Bytes) /\ loc \in Nat /\ port \in Bytes
    /\ dev = "parlelport" => Len(buf) = 1
    /\ log \in Logs /\ file \in [Tasks -> Files]

\* A command that has not written anything of its text.
Untouched(r) == r.cmd = "echo" => r.rest = r.text

FileOK(r) ==
    /\ ~loaded => r.cmd \in {"none", "gone"}
    /\ r.cmd = "gone" => dev # "procfs"
    /\ r.cmd = "echo" =>
         /\ r.text \in Texts
         /\ \E k \in 0 .. Len(r.text) : r.rest = SubSeq(r.text, k + 1, Len(r.text))
         /\ dev = "procfs" => r.rest \in {<<>>, r.text}

FilesInv == \A t \in Tasks : FileOK(file[t])

AloneInv == ~shared => \A t, u \in Tasks : Busy(t) /\ Busy(u) => t = u

\* What the buffer holds while no two tasks have had the device open at once.
Holds(all) == buf = Filled(all) /\ loc = Len(all)

MemoryInv ==
    IsMemory /\ loaded =>
        /\ Len(buf) = BufSize
        /\ ~shared => /\ \A t \in Tasks : file[t].cmd = "echo" => Holds(log.bytes \o Written(file[t]))
                      /\ (\A t \in Tasks : file[t].cmd # "echo") => Holds(log.bytes)

SingleInv ==
    dev = "single" /\ loaded /\ ~shared =>
        /\ (\A t \in Tasks : Untouched(file[t])) => buf = Final(log.bytes)
        /\ \A t \in Tasks : ~Untouched(file[t]) => buf = <<Last(file[t].text)>>

ProcfsInv ==
    dev = "procfs" /\ loaded /\ ~shared =>
        /\ (\A t \in Tasks : Untouched(file[t])) => log = Blank \/ buf = Cut(log.latest)
        /\ \A t \in Tasks : ~Untouched(file[t]) => buf = Cut(file[t].text)

\* What a reader has got is what is in the buffer.
ReaderOK(r) ==
    r.cmd = "cat" => /\ r.pos = 0 => r.got = <<>>
                     /\ r.pos # 0 => dev # "parlelport" /\ (~shared => r.got = buf)

ReadersInv == \A t \in Tasks : ReaderOK(file[t])

CrashInv ==
    crashed =>
        \/ dev # "procfs" /\ \E t \in Tasks : file[t].cmd = "gone"
        \/ IsMemory /\ loaded /\ loc > BufSize
        \/ dev = "parlelport" /\ loc > 1
        \/ dev \in {"minimal", "procfs"} /\ "buffer" \in Failures \ held

\* A proc file without its buffer.
NullInv == dev = "procfs" /\ loaded /\ "buffer" \notin held => "buffer" \in Failures

IInv ==
    /\ TypeOK /\ LoadAllOrNothing /\ FilesInv /\ AloneInv /\ CrashInv /\ NullInv
    /\ MemoryInv /\ SingleInv /\ ProcfsInv /\ ReadersInv

=============================================================================
