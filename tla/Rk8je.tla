-------------------------------- MODULE Rk8je --------------------------------
(***************************************************************************)
(* The RK8JE disk controller: the registers in the FPGA (pdp8lrk8je.v),    *)
(* which the PDP-8/L works with i/o instructions, and the thread of        *)
(* z8lrk8je.cc that does what they ask for with a file and dma.            *)
(*                                                                         *)
(* The two sides share the registers and nothing else: every access of the *)
(* thread to one is a step of its own.  A dmacycle that writes leaves its  *)
(* word on the way to memory until the next dmacycle or dmaflush (CmDma).  *)
(* A word of 256 or 128 in a block is one of BlockWords or HalfWords.      *)
(***************************************************************************)
EXTENDS Integers, Sequences

CONSTANTS Words,          \* values of a word; 0 among them
          MemSize,        \* words in the memory field (4096)
          BlockWords,     \* words in a block (256)
          HalfWords,      \* words in a half block (128)
          NBLKS,          \* blocks on the disk
          DiskAddrs,      \* disk addresses the program uses, invalid ones too
          MemAddrs,       \* memory addresses it loads
          Commands,       \* commands it uses: [func, half]
          Hasty,          \* bound: whether the program goes on at once after it
                          \* used DCLR 1 or 3, or the operator START, or only
                          \* when the thread sleeps again
          InitMem, InitDisk

Funcs == 0 .. 7
Addrs == 0 .. MemSize - 1
Blocks == 0 .. NBLKS - 1
Command == [func : Funcs, half : BOOLEAN]

ASSUME SizeAssumption ==
    /\ MemSize \in Nat \ {0} /\ NBLKS \in Nat \ {0}
    /\ BlockWords \in 1 .. MemSize /\ HalfWords \in 1 .. BlockWords
ASSUME UseAssumption ==
    /\ 0 \in Words /\ DiskAddrs \subseteq Nat /\ Commands \subseteq Command
    /\ MemAddrs \subseteq Addrs /\ Hasty \in BOOLEAN
ASSUME ContentsAssumption ==
    /\ InitMem \in [Addrs -> Words]
    /\ InitDisk \in [Blocks -> [1 .. BlockWords -> Words]]

VARIABLES command, diskaddr, memaddr, status,   \* registers 1 to 4
          startio, stbusy                       \* register 5

VARIABLES apc,            \* where the thread is
          acmd, adad, amem, asts,               \* its copies of the registers
          icnt, temp,     \* words moved so far; the block being gathered
          loaded, ro      \* fds[] and ros[] of the drive

VARIABLES mem, inflight,  \* memory; the word on its way to it
          disk            \* the file

VARIABLES asked,          \* history: the registers as they were when it started
          waiting,        \* history: the program waits for a transfer to be done
          manners         \* history: how the program has treated the transfer

registers == <<command, diskaddr, memaddr, status, startio, stbusy>>
copies == <<acmd, adad, amem, asts>>
drive == <<loaded, ro>>
memory == <<mem, inflight>>
history == <<asked, waiting, manners>>
vars == <<registers, apc, copies, icnt, temp, drive, memory, disk, history>>

NoWord == <<>>            \* no word on its way
NoCommand == [func |-> 0, half |-> FALSE]
NoTemp == [i \in 1 .. BlockWords |-> 0]
Nothing == [cmd |-> NoCommand, dad |-> 0, mem |-> 0]

\* manners is "polite": the program started the transfer on an idle controller
\* and only waits; "told": it gave instructions meanwhile; "aborted": DCLR 1 or 3
\* while the thread waited for the drive; "lost": it used these, or the operator
\* START, at another time.

Init ==
    /\ command = NoCommand /\ diskaddr = 0 /\ memaddr = 0 /\ status = {}
    /\ startio = FALSE /\ stbusy = FALSE
    /\ apc = "sleep"
    /\ acmd = NoCommand /\ adad = 0 /\ amem = 0 /\ asts = {}
    /\ icnt = 0 /\ temp = NoTemp
    /\ loaded = FALSE /\ ro = FALSE
    /\ mem = InitMem /\ inflight = NoWord /\ disk = InitDisk
    /\ asked = Nothing
    /\ waiting = FALSE /\ manners = "polite"

-----------------------------------------------------------------------------
(***************************************************************************)
(* The instructions (pdp8lrk8je.v), in any order and at any time.  A polite *)
(* program starts a transfer, waits with DSKP until it is done, and only   *)
(* then touches the controller again; and it does not use DCLR 1 and 3,    *)
(* which start something too.                                              *)
(***************************************************************************)
others == <<apc, copies, icnt, temp, drive, memory, disk>>

Spoilt(m) == manners' = m /\ asked' = Nothing /\ waiting' = FALSE
Rude == Spoilt(IF manners = "polite" THEN "told" ELSE manners)
Asks == IF waiting THEN Rude ELSE UNCHANGED history
Clears == Spoilt(IF apc = "delay" THEN "aborted" ELSE "lost")

\* stskip
Skip == status \ {"CBSY"} # {}

\* DSKP, when it skips: the program goes on.
DSKP ==
    /\ waiting /\ Skip
    /\ waiting' = FALSE /\ asked' = Nothing
    /\ UNCHANGED <<registers, others, manners>>

\* The controller is busy and takes no notice but for CBSY.
TellBusy == status' = status \cup {"CBSY"}

\* 6742 with AC = 0: clear status, unless busy.
DCLR0 ==
    /\ IF stbusy THEN TellBusy ELSE status' = {}
    /\ Asks
    /\ UNCHANGED <<command, diskaddr, memaddr, startio, stbusy, others>>

\* 6742 with AC = 1: clear controller.
DCLR1 ==
    /\ command' = NoCommand /\ memaddr' = 0 /\ status' = {}
    /\ startio' = TRUE /\ stbusy' = TRUE
    /\ Clears
    /\ UNCHANGED <<diskaddr, others>>

\* A transfer was started: what was asked for is in the registers now (the
\* memory address since before).
Started ==
    /\ IF ~ waiting /\ apc = "sleep" /\ ~ startio /\ status' = {}
       THEN /\ manners' = "polite"
            /\ waiting' = TRUE
            /\ asked' = [cmd |-> command', dad |-> diskaddr', mem |-> memaddr]
       ELSE Rude

\* 6742 with AC = 2: reset drive, a seek to cylinder 0.  It leaves the status as
\* it is, so a polite program clears the one before first.
DCLR2 ==
    /\ \/ /\ stbusy
          /\ TellBusy
          /\ Asks
          /\ UNCHANGED <<command, diskaddr, startio, stbusy>>
       \/ /\ ~ stbusy
          /\ command' = [func |-> 3, half |-> FALSE]
          /\ diskaddr' = 0
          /\ startio' = TRUE /\ stbusy' = TRUE
          /\ UNCHANGED status
          /\ Started
    /\ UNCHANGED <<memaddr, others>>

\* 6742 with AC = 3: clear status.
DCLR3 ==
    /\ startio' = TRUE
    /\ status' = {}
    /\ Clears
    /\ UNCHANGED <<command, diskaddr, memaddr, stbusy, others>>

\* 6743: load disk address and start.
DLAG ==
    /\ UNCHANGED command
    /\ \/ /\ stbusy
          /\ TellBusy
          /\ Asks
          /\ UNCHANGED <<diskaddr, startio, stbusy>>
       \/ /\ ~ stbusy
          /\ diskaddr' \in DiskAddrs
          /\ status' = {}
          /\ startio' = TRUE /\ stbusy' = TRUE
          /\ Started
    /\ UNCHANGED <<memaddr, others>>

\* 6744: load memory address.
DLCA ==
    /\ IF stbusy THEN TellBusy /\ UNCHANGED memaddr
       ELSE memaddr' \in MemAddrs /\ UNCHANGED status
    /\ Asks
    /\ UNCHANGED <<command, diskaddr, startio, stbusy, others>>

\* 6746: load command.
DLDC ==
    /\ IF stbusy THEN TellBusy /\ UNCHANGED command
       ELSE command' \in Commands /\ status' = {}
    /\ Asks
    /\ UNCHANGED <<diskaddr, memaddr, startio, stbusy, others>>

\* BINIT, by the START key; the program begins anew.
Reset ==
    /\ command' = NoCommand /\ diskaddr' = 0 /\ memaddr' = 0 /\ status' = {}
    /\ startio' = FALSE /\ stbusy' = FALSE
    /\ Spoilt("lost")
    /\ UNCHANGED others

Pdp ==
    /\ manners \in {"polite", "told"} \/ apc = "sleep" \/ Hasty
    /\ DSKP \/ DCLR0 \/ DCLR1 \/ DCLR2 \/ DCLR3 \/ DLAG \/ DLCA \/ DLDC \/ Reset

-----------------------------------------------------------------------------
(***************************************************************************)
(* The thread (z8lrk8je.cc).  It has the lock but while it sleeps or waits *)
(* for the drive.                                                          *)
(***************************************************************************)
HasLock == apc \notin {"sleep", "delay"}

Go(stage) == apc' = stage

\* What the thread has read and counted means nothing the next time around.
Forget ==
    /\ acmd' = NoCommand /\ adad' = 0 /\ amem' = 0
    /\ icnt' = 0 /\ temp' = NoTemp

BadBlock == adad >= NBLKS

wcnt == IF acmd.half THEN HalfWords ELSE BlockWords
xaddr(i) == (amem + i) % MemSize

\* SETST
SetSt(flags) == asts' = (asts \cap {"CBSY"}) \cup flags

\* if (rkat[RK_FLG] & F_STRTIO)
Poll ==
    /\ apc = "sleep"
    /\ startio
    /\ Go("claim")
    /\ UNCHANGED <<registers, copies, icnt, temp, drive, memory, disk, history>>

\* rkat[RK_FLG] = F_ENABLE | F_STBUSY
Claim ==
    /\ apc = "claim"
    /\ startio' = FALSE /\ stbusy' = TRUE
    /\ Go("sts")
    /\ UNCHANGED <<command, diskaddr, memaddr, status, copies, icnt, temp, drive, memory,
                   disk, history>>

\* The registers are read, one after the other.
ReadRegister ==
    /\ \/ apc = "sts" /\ asts' = status /\ Go("cmd") /\ UNCHANGED <<acmd, adad, amem>>
       \/ apc = "cmd" /\ acmd' = command /\ Go("dad") /\ UNCHANGED <<asts, adad, amem>>
       \/ apc = "dad" /\ adad' = diskaddr /\ Go("mem") /\ UNCHANGED <<asts, acmd, amem>>
       \/ apc = "mem" /\ amem' = memaddr /\ Go("check") /\ UNCHANGED <<asts, acmd, adad>>
    /\ UNCHANGED <<registers, icnt, temp, drive, memory, disk, history>>

\* Function 2 sets the write lock (the file's lock may fail to be changed, and
\* does when there is none); a bad block number is an error; all else waits for
\* the drive.
Check ==
    /\ apc = "check"
    /\ icnt' = 0
    /\ \/ /\ acmd.func = 2
          /\ ro' = TRUE
          /\ \/ (ro \/ loaded) /\ SetSt({"DONE"})
             \/ ~ ro /\ SetSt({"DONE", "FLNR"})
          /\ Go("wmem")
       \/ /\ acmd.func # 2 /\ BadBlock
          /\ SetSt({"DONE", "CYLR"})
          /\ Go("wmem")
          /\ UNCHANGED ro
       \/ /\ acmd.func # 2 /\ ~ BadBlock
          /\ Go("delay")
          /\ UNCHANGED <<asts, ro>>
    /\ UNCHANGED <<registers, acmd, adad, amem, temp, loaded, memory, disk, history>>

\* The end of the delay; the lock is taken again.  Register 5 is looked at.
Wake ==
    /\ apc = "delay"
    /\ IF stbusy THEN Go("go") /\ UNCHANGED <<copies, icnt, temp>> ELSE Go("sleep") /\ Forget /\ asts' = {}
    /\ UNCHANGED <<registers, drive, memory, disk, history>>

\* The switch over the function.
Dispatch ==
    /\ apc = "go"
    /\ \/ ~ loaded /\ SetSt({"DONE", "FLNR"}) /\ Go("wmem")
       \/ loaded /\ acmd.func = 3 /\ SetSt({"DONE"}) /\ Go("wmem")
       \/ loaded /\ acmd.func \in {6, 7} /\ SetSt({"DONE", "TMER"}) /\ Go("wmem")
       \/ loaded /\ acmd.func \in {0, 1, 4, 5} /\ ~ (acmd.func \in {4, 5} /\ ro)
            /\ Go(IF acmd.func \in {0, 1} THEN "read" ELSE "write") /\ UNCHANGED asts
       \/ loaded /\ acmd.func \in {4, 5} /\ ro /\ SetSt({"DONE", "WLER"}) /\ Go("wmem")
       \/ loaded /\ acmd.func \in {0, 1} /\ SetSt({"DONE", "CRCR"}) /\ Go("wmem")
    /\ temp' = IF apc' = "read" THEN disk[adad] ELSE NoTemp
    /\ UNCHANGED <<registers, acmd, adad, amem, icnt, drive, memory, disk, history>>

Landed == IF inflight = NoWord THEN mem ELSE [mem EXCEPT ![inflight[1]] = inflight[2]]

\* The word on its way reaches memory.
Land ==
    /\ inflight # NoWord
    /\ mem' = Landed
    /\ inflight' = NoWord
    /\ UNCHANGED <<registers, apc, copies, icnt, temp, drive, disk, history>>

\* dmacycle, writing a word to memory.
ReadWord ==
    /\ apc = "read"
    /\ mem' = Landed
    /\ inflight' = <<xaddr(icnt), temp[icnt + 1]>>
    /\ icnt' = icnt + 1
    /\ \/ icnt' = wcnt /\ amem' = xaddr(wcnt) /\ Go("flush")
       \/ icnt' < wcnt /\ UNCHANGED <<amem, apc>>
    /\ UNCHANGED <<registers, acmd, adad, asts, temp, drive, disk, history>>

\* Mutant: dmaflush is not called.
FlushNot ==
    /\ apc = "flush"
    /\ UNCHANGED <<mem, inflight>>
    /\ SetSt({"DONE"})
    /\ Go("wmem")
    /\ UNCHANGED <<registers, acmd, adad, amem, icnt, temp, drive, disk, history>>

\* Mutant: the status is not set.
FlushSilent ==
    /\ apc = "flush"
    /\ mem' = Landed /\ inflight' = NoWord
    /\ Go("wmem")
    /\ UNCHANGED <<registers, copies, icnt, temp, drive, disk, history>>

\* dmaflush
Flush ==
    /\ apc = "flush"
    /\ mem' = Landed /\ inflight' = NoWord
    /\ SetSt({"DONE"})
    /\ Go("wmem")
    /\ UNCHANGED <<registers, acmd, adad, amem, icnt, temp, drive, disk, history>>

\* dmacycle, reading a word from memory.
WriteWord ==
    /\ apc = "write"
    /\ mem' = Landed /\ inflight' = NoWord
    /\ temp' = [temp EXCEPT ![icnt + 1] = mem'[xaddr(icnt)]]
    /\ icnt' = icnt + 1
    /\ IF icnt' = wcnt THEN Go("pwrite") ELSE UNCHANGED apc
    /\ UNCHANGED <<registers, copies, drive, disk, history>>

\* pwrite, which may fail having written any part.
Pwrite ==
    /\ apc = "pwrite"
    /\ \/ /\ disk' = [disk EXCEPT ![adad] = temp]
          /\ amem' = xaddr(wcnt)
          /\ SetSt({"DONE"})
       \/ /\ \E n \in 0 .. BlockWords - 1 :
                disk' = [disk EXCEPT ![adad] = [i \in 1 .. BlockWords |->
                                                  IF i <= n THEN temp[i] ELSE @[i]]]
          /\ SetSt({"DONE", "CRCR"})
          /\ UNCHANGED amem
    /\ Go("wmem")
    /\ UNCHANGED <<registers, acmd, adad, icnt, temp, drive, memory, history>>

\* iodone: three register writes, the status last.
WriteMem ==
    /\ apc = "wmem"
    /\ memaddr' = amem
    /\ Go("wflg") /\ Forget
    /\ UNCHANGED <<command, diskaddr, status, startio, stbusy, asts, drive, memory, disk,
                   history>>

WriteFlg ==
    /\ apc = "wflg"
    /\ startio' = FALSE /\ stbusy' = FALSE
    /\ Go("wsts")
    /\ UNCHANGED <<command, diskaddr, memaddr, status, copies, icnt, temp, drive, memory,
                   disk, history>>

\* Mutant: register 4 is written whole.
StatusWrittenWhole == asts

\* Register 4 keeps its own CBSY.
StatusWritten == (asts \ {"CBSY"}) \cup (status \cap {"CBSY"})

WriteSts ==
    /\ apc = "wsts"
    /\ status' = StatusWritten
    /\ Go("sleep") /\ asts' = {}
    /\ UNCHANGED <<command, diskaddr, memaddr, startio, stbusy, acmd, adad, amem, icnt, temp,
                   drive, memory, disk, history>>

Thread ==
    \/ Poll \/ Claim \/ ReadRegister \/ Check \/ Wake \/ Dispatch
    \/ ReadWord \/ Flush \/ WriteWord \/ Pwrite
    \/ WriteMem \/ WriteFlg \/ WriteSts

\* Mutant: the commands do not take the lock.
HostUnlocked ==
    /\ \/ loaded' = TRUE /\ ro' \in BOOLEAN
       \/ loaded' = FALSE /\ UNCHANGED ro
    /\ UNCHANGED <<registers, apc, copies, icnt, temp, memory, disk, history>>

\* rkloadro, rkloadrw and rkunload, under the lock.
Host ==
    /\ ~ HasLock
    /\ \/ loaded' = TRUE /\ ro' \in BOOLEAN
       \/ loaded' = FALSE /\ UNCHANGED ro
    /\ UNCHANGED <<registers, apc, copies, icnt, temp, memory, disk, history>>

Next == Pdp \/ Thread \/ Land \/ Host

Spec == Init /\ [][Next]_vars

\* The thread polls every millisecond and its delays end; a dma access ends.
FairSpec == Spec /\ WF_vars(Thread) /\ WF_vars(Land)

-----------------------------------------------------------------------------
(***************************************************************************)
(* Properties.                                                             *)
(***************************************************************************)
Count(c) == IF c.half THEN HalfWords ELSE BlockWords
Cell(i) == (asked.mem + i) % MemSize

\* When a polite program sees its transfer done without error, the words are
\* where they belong, all of them, a half block zero filled on disk, and the
\* memory address register is past them.
TransferRight ==
    manners = "polite" /\ waiting /\ status = {"DONE"} /\ asked.cmd.func \in {0, 1, 4, 5} =>
       LET n == Count(asked.cmd)
       IN  /\ \A i \in 0 .. n - 1 : mem[Cell(i)] = disk[asked.dad][i + 1]
           /\ asked.cmd.func \in {4, 5} => \A i \in n + 1 .. BlockWords : disk[asked.dad][i] = 0
           /\ memaddr = Cell(n)

\* The errors of what was asked, by the drive as it is: function 2 must set the write
\* lock; the others want a good disk address first, then a file, then a function there
\* is, and a write a drive not protected.  Only reading and writing the file can fail.
Bad == asked.dad >= NBLKS
Works(funcs) == asked.cmd.func \in funcs /\ ~ Bad /\ loaded
Fits(errors) ==
    \/ asked.cmd.func = 2 /\ ro /\ errors \subseteq {"FLNR"}
    \/ asked.cmd.func # 2 /\ Bad /\ errors = {"CYLR"}
    \/ asked.cmd.func # 2 /\ ~ Bad /\ ~ loaded /\ errors = {"FLNR"}
    \/ Works({3}) /\ errors = {}
    \/ Works({6, 7}) /\ errors = {"TMER"}
    \/ Works({4, 5}) /\ ro /\ errors = {"WLER"}
    \/ (Works({0, 1}) \/ (Works({4, 5}) /\ ~ ro)) /\ errors \subseteq {"CRCR"}

\* A polite program is told how its command ended just when the drive is so, whatever
\* the operator did while the thread waited; after an error the memory address is what
\* it was; and no word moves, in memory or on disk, for a command that cannot be done.
ErrorRight ==
    [][manners = "polite" /\ waiting =>
          /\ ~ Skip /\ Skip' => /\ "DONE" \in status' /\ Fits(status' \ {"DONE"})
                                /\ status' # {"DONE"} => memaddr' = asked.mem
          /\ mem' # mem => Works({0, 1})
          /\ disk' # disk => Works({4, 5}) /\ ~ ro]_vars

\* CBSY is the mark of an instruction that the busy controller took no notice of.  The
\* thread neither loses it when it reports the end, nor makes it up: only instructions
\* and START that clear the status take it away.
CbsyKept ==
    [][/\ "CBSY" \in status /\ "CBSY" \notin status' => Pdp /\ status' = {}
       /\ "CBSY" \notin status /\ "CBSY" \in status' =>
             stbusy /\ UNCHANGED <<command, diskaddr, memaddr, startio, stbusy, others>>]_vars

\* The disk changes only in the block the thread works on, by a write command, while it
\* is loaded and not write protected; and under a polite program that is the command
\* and the block it waits for.
WriteProtected ==
    [][disk' # disk =>
          /\ loaded /\ ~ ro /\ acmd.func \in {4, 5}
          /\ \A b \in Blocks \ {adad} : disk'[b] = disk[b]
          /\ manners = "polite" => waiting /\ acmd = asked.cmd /\ adad = asked.dad]_vars

\* Every transfer a polite program starts is done some time, well or not.
TransferEnds == (waiting /\ manners = "polite") ~> (Skip \/ manners # "polite")

\* pdp8lrk8je.v, z8lrk8je.cc: DCLR 1 or 3 aborts an i/o in progress while the
\* thread waits for the drive.
AbortStops == [][apc = "delay" /\ manners = "aborted" => apc' # "go"]_vars
=============================================================================
