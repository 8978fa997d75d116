-------------------------------- MODULE Tc08 --------------------------------
(***************************************************************************)
(* The TC08 DECtape controller: one register in the FPGA (pdp8ltc08.v)     *)
(* with both status words, which the PDP-8/L works with i/o instructions,  *)
(* and the thread of z8ltc08.cc that moves a tape (a file) and transfers   *)
(* words by 3-cycle dma.                                                   *)
(*                                                                         *)
(* The thread changes the register by reading it, and writing it back as a *)
(* whole: two accesses, with instructions of the program between.  A dma   *)
(* access is one step (CmDma; a program that has seen the flag has also    *)
(* seen the last word, for the processor itself stored it).                *)
(*                                                                         *)
(* One drive is modelled.  Left out: the dma field, interrupt enable, the  *)
(* lengths of the delays.                                                  *)
(***************************************************************************)
EXTENDS Integers, Sequences

CONSTANTS Base,           \* words have two digits (four) to this base (8)
          BlockWords,     \* words in a block (129)
          Blocks,         \* blocks on a tape (1474)
          MemSize,        \* words in the memory field, where a word count overflows
                          \* too (4096)
          Commands,       \* what the program puts in status A
          WordCounts,     \* and in the word count, as numbers of words
          MaxStarts,      \* bound: operations the program starts
          InitMem, InitTape

WordSize == Base * Base
Words == 0 .. WordSize - 1
Addrs == 0 .. MemSize - 1
BlockNos == 0 .. Blocks - 1
TapeEnd == Blocks * 4 - 1
Block == [1 .. BlockWords -> Words]

Move == 0
Search == 1
ReadData == 2
ReadAll == 3
WriteData == 4
StatusA == [func : 0 .. 7, contin : BOOLEAN, go : BOOLEAN, rev : BOOLEAN]

ASSUME SizeAssumption ==
    /\ Base \in Nat \ {0} /\ BlockWords \in Nat \ {0} /\ Blocks \in 1 .. WordSize
    /\ MemSize \in Nat \ {0}
ASSUME UseAssumption ==
    /\ Commands \subseteq StatusA /\ MaxStarts \in Nat
    /\ WordCounts \subseteq 1 .. MemSize
ASSUME ContentsAssumption ==
    InitMem \in [Addrs -> Words] /\ InitTape \in [BlockNos -> Block]

VARIABLES status_a, status_b, iopend            \* the register

VARIABLES apc,            \* where the thread is
          ta, tb,         \* its status_a, status_b
          old,            \* what it has read of the register
          buff, wcovf     \* words to transfer; the word count has overflowed

VARIABLES loaded, rdonly, \* dtfd, rdonly of the drive
          tapepos, locked,
          tape            \* the file

VARIABLES mem, wc, ca     \* memory; the words IDWC and IDCA

VARIABLES asked,          \* history: what the program asked for
          waiting,        \* history: it waits for the flags
          polite,         \* history: it only waits
          starts,         \* history: how many operations it started
          last            \* history: the block last passed

register == <<status_a, status_b, iopend>>
thread == <<apc, ta, tb, old, buff, wcovf>>
drive == <<loaded, rdonly, tapepos, locked>>
memory == <<mem, wc, ca>>
history == <<asked, waiting, polite, starts, last>>
vars == <<register, thread, drive, tape, memory, history>>

NoCommand == [func |-> 0, contin |-> FALSE, go |-> FALSE, rev |-> FALSE]
NoRegister == [a |-> NoCommand, b |-> {}, pend |-> FALSE]
Nothing == [cmd |-> NoCommand, count |-> 1, addr |-> 0]

Init ==
    /\ status_a = NoCommand /\ status_b = {} /\ iopend = FALSE
    /\ apc = "sleep"
    /\ ta = NoCommand /\ tb = {} /\ old = NoRegister
    /\ buff = <<>> /\ wcovf = FALSE
    /\ loaded = FALSE /\ rdonly = FALSE /\ tapepos = 0 /\ locked = FALSE
    /\ tape = InitTape
    /\ mem = InitMem /\ wc = 0 /\ ca = 0
    /\ asked = Nothing /\ waiting = FALSE /\ polite = TRUE /\ starts = 0
    /\ last = 0

-----------------------------------------------------------------------------
(***************************************************************************)
(* The program.  A polite one sets up the word count and the current       *)
(* address, starts with the flags cleared, and waits for a flag before it  *)
(* touches the controller again.                                           *)
(***************************************************************************)
Spoil == polite' = FALSE /\ waiting' = FALSE /\ asked' = Nothing

Skip == status_b \cap {"ERR", "SUC"} # {}

\* The thread will not touch the register before it is asked to.
Quiet == apc \in {"sleep", "unlock", "aborted"} /\ ~ iopend

\* Words IDWC and IDCA: minus the count, and the address before the first word.
SetUp ==
    /\ ~ waiting /\ Quiet
    /\ \E n \in WordCounts : wc' = (MemSize - n) % MemSize
    /\ ca' = MemSize - 1
    /\ UNCHANGED <<register, thread, drive, tape, mem, history>>

\* Mutant: only a GO bit that was clear before wakes the thread.
WakesIfNew(c) == iopend' = (iopend \/ (c.go /\ ~ status_a.go))

Wakes(c) == iopend' = (iopend \/ c.go)

\* DTXA, DTLA: change status A, clear the success and the error bits or not.
DTXA ==
    \E c \in Commands, keeps, keepe \in BOOLEAN :
       /\ starts' = IF c.go THEN starts + 1 ELSE starts
       /\ starts' <= MaxStarts
       /\ status_a' = c
       /\ status_b' = status_b \cap ((IF keeps THEN {"SUC"} ELSE {}) \cup
                                     (IF keepe THEN {"ERR", "EOT", "SEL"} ELSE {}))
       /\ Wakes(c)
       /\ \/ /\ Quiet /\ ~ waiting /\ ~ keeps /\ ~ keepe
             /\ polite' = TRUE
             /\ waiting' = c.go
             /\ asked' = IF c.go THEN [cmd |-> c, count |-> MemSize - wc, addr |-> ca]
                         ELSE Nothing
          \/ /\ ~ (Quiet /\ ~ waiting /\ ~ keeps /\ ~ keepe)
             /\ Spoil
       /\ UNCHANGED <<thread, drive, tape, memory, last>>

\* DTCA: clear status A.
DTCA ==
    /\ status_a' = NoCommand
    /\ IF waiting \/ ~ Quiet THEN Spoil ELSE UNCHANGED <<asked, waiting, polite>>
    /\ UNCHANGED <<status_b, iopend, thread, drive, tape, memory, starts, last>>

\* DTSF, when it skips.
DTSF ==
    /\ waiting /\ Skip
    /\ waiting' = FALSE /\ asked' = Nothing /\ last' = 0
    /\ UNCHANGED <<register, thread, drive, tape, memory, polite, starts>>

\* BINIT, by the START key.
Reset ==
    /\ status_a' = NoCommand /\ status_b' = {} /\ iopend' = FALSE
    /\ Spoil
    /\ UNCHANGED <<thread, drive, tape, memory, starts, last>>

Pdp == SetUp \/ DTXA \/ DTCA \/ DTSF \/ Reset

-----------------------------------------------------------------------------
(***************************************************************************)
(* Tape motion.  A block has four positions: a before its forward mark,    *)
(* b before its data, c after them, d after its reverse mark; a is d of    *)
(* the block before, seen from the other side.                             *)
(***************************************************************************)
\* Result: the new position, and whether it is the end of the tape.
Result(pos) ==
    IF pos > TapeEnd THEN [pos |-> TapeEnd, end |-> TRUE] ELSE [pos |-> pos, end |-> FALSE]

AtStart == [pos |-> 0, end |-> TRUE]

\* To just before the data of the next block.
stepskip(pos, rev) ==
    IF ~ rev THEN Result(pos + <<1, 4, 3, 2>>[(pos % 4) + 1])
    ELSE IF pos <= 2 THEN AtStart ELSE Result(pos - <<2, 3, 4, 1>>[(pos % 4) + 1])

\* Mutant: the limit in reverse is that of stepskip, so the first block is never met.
stepxferEarly(pos, rev) ==
    IF ~ rev THEN Result(pos + <<2, 1, 4, 3>>[(pos % 4) + 1])
    ELSE IF pos <= 2 THEN AtStart ELSE Result(pos - <<3, 4, 1, 2>>[(pos % 4) + 1])

\* To just after the data of the next block.
stepxfer(pos, rev) ==
    IF ~ rev THEN Result(pos + <<2, 1, 4, 3>>[(pos % 4) + 1])
    ELSE IF pos <= 1 THEN AtStart ELSE Result(pos - <<3, 4, 1, 2>>[(pos % 4) + 1])

\* Obverse complement: what a word written in one direction reads in the other.
ocarray(w) == WordSize - 1 - ((w % Base) * Base + w \div Base)

\* Words in the order and the form in which the head meets them.
Oriented(s, rev) ==
    IF rev THEN [i \in DOMAIN s |-> ocarray(s[Len(s) + 1 - i])] ELSE s

\* READ ALL has words around the data; those that say which block it is.
Framed(blk, s) == <<blk>> \o s \o <<ocarray(blk)>>

-----------------------------------------------------------------------------
(***************************************************************************)
(* The thread.                                                             *)
(***************************************************************************)
Go(stage) == apc' = stage
ReadAs == old' = [a |-> status_a, b |-> status_b, pend |-> iopend]
WriteRegister(r) ==
    /\ status_a' = r.a /\ status_b' = r.b /\ iopend' = r.pend
    /\ old' = NoRegister

Error(bits) == tb' = tb \cup {"ERR"} \cup bits /\ Go("goff")
Success == tb' = tb \cup {"SUC"} /\ Go("fin")

\* status = tcat[1]
Poll ==
    /\ apc = "sleep" /\ iopend
    /\ ReadAs
    /\ Go("claim")
    /\ UNCHANGED <<register, ta, tb, buff, wcovf, drive, tape, memory, history>>

\* tcat[1] = status &= ~ TC_IOPEND
Claim ==
    /\ apc = "claim"
    /\ WriteRegister([old EXCEPT !.pend = FALSE])
    /\ ta' = old.a /\ tb' = old.b
    /\ wcovf' = FALSE
    /\ Go("lock")
    /\ UNCHANGED <<buff, drive, tape, memory, history>>

LockDrive ==
    /\ apc = "lock"
    /\ locked' = TRUE
    /\ Go("decode")
    /\ UNCHANGED <<register, ta, tb, old, buff, wcovf, loaded, rdonly, tapepos, tape, memory,
                   history>>

Decode ==
    /\ apc = "decode"
    /\ \/ ~ loaded /\ Error({"SEL"})
       \/ loaded /\ ~ ta.go /\ Go("unlock") /\ UNCHANGED tb
       \/ loaded /\ ta.go /\ ta.func > WriteData /\ Error({"SEL"})
       \/ loaded /\ ta.go /\ ta.func = WriteData /\ rdonly /\ Error({"SEL"})
       \/ /\ loaded /\ ta.go
          /\ ta.func < WriteData \/ (ta.func = WriteData /\ ~ rdonly)
          /\ Go("delay")
          /\ UNCHANGED tb
    /\ UNCHANGED <<register, ta, old, buff, wcovf, drive, tape, memory, history>>

\* The end of a delay, MOVE or SEARCH: the tape is moved past a block mark, and
\* a search has the number put in memory, where the word count is counted.
Skipping ==
    /\ apc = "delay" /\ ta.func \in {Move, Search}
    /\ LET new == stepskip(tapepos, ta.rev)
           counts == ta.func = Search /\ ~ new.end
       IN  /\ tapepos' = new.pos
           /\ last' = new.pos \div 4
           /\ wc' = IF counts THEN (wc + 1) % MemSize ELSE wc
           /\ wcovf' = (counts /\ wc = MemSize - 1)
           /\ mem' = IF counts THEN [mem EXCEPT ![ca] = new.pos \div 4] ELSE mem
           /\ \/ new.end /\ Error({"EOT"})
              \/ counts /\ (ta.contin => wcovf') /\ Success
              \/ ~ new.end /\ (counts => ta.contin /\ ~ wcovf') /\ UNCHANGED <<apc, tb>>
    /\ UNCHANGED <<register, ta, old, buff, loaded, rdonly, locked, tape, ca, asked, waiting,
                   polite, starts>>

\* pread and pwrite need a file: without one the program aborts.
Abort ==
    /\ apc \in {"delay", "pwrite"} /\ ~ loaded
    /\ apc = "delay" => ta.func \in {ReadData, ReadAll}
                          /\ ~ stepxfer(tapepos, ta.rev).end
    /\ Go("aborted")
    /\ UNCHANGED <<register, ta, tb, old, buff, wcovf, drive, tape, memory, history>>

\* The end of a delay, the other functions: the tape is moved past the data of a
\* block, and a READ reads them.
Passing ==
    /\ apc = "delay" /\ ta.func \notin {Move, Search}
    /\ LET new == stepxfer(tapepos, ta.rev)
           blk == new.pos \div 4
       IN  /\ tapepos' = new.pos
           /\ last' = blk
           /\ \/ /\ new.end
                 /\ Error({"EOT"})
                 /\ UNCHANGED buff
              \/ /\ ~ new.end /\ loaded /\ ta.func \in {ReadData, ReadAll}
                 /\ buff' = Oriented(IF ta.func = ReadAll THEN Framed(blk, tape[blk])
                                     ELSE tape[blk], ta.rev)
                 /\ Go("send")
                 /\ UNCHANGED tb
              \/ /\ ~ new.end /\ ta.func = WriteData
                 /\ buff' = <<>>
                 /\ Go("gather")
                 /\ UNCHANGED tb
    /\ UNCHANGED <<register, ta, old, wcovf, loaded, rdonly, locked, tape, memory, asked,
                   waiting, polite, starts>>

\* Another block, or the end.
Continue(overflow) ==
    \/ ta.contin /\ ~ overflow /\ Go("delay") /\ UNCHANGED tb
    \/ ~ (ta.contin /\ ~ overflow) /\ Success

\* A 3-cycle dma counts the word count and increments the current address.
Counts ==
    /\ wc' = (wc + 1) % MemSize
    /\ wcovf' = (wc = MemSize - 1)
    /\ ca' = (ca + 1) % MemSize

Send ==
    /\ apc = "send"
    /\ Counts
    /\ mem' = [mem EXCEPT ![ca'] = Head(buff)]
    /\ IF wcovf' \/ Tail(buff) = <<>>
       THEN buff' = <<>> /\ Continue(wcovf')
       ELSE buff' = Tail(buff) /\ UNCHANGED <<apc, tb>>
    /\ UNCHANGED <<register, ta, old, drive, tape, history>>

\* Mutant: the words count as they stand, whatever the direction.
PaddedRaw(s) == s \o [i \in 1 .. BlockWords - Len(s) |-> 0]

\* The rest of a block is zeros, as met in forward direction or in reverse.
Padded(s) == Oriented(s \o [i \in 1 .. BlockWords - Len(s) |-> 0], ta.rev)

Gather ==
    /\ apc = "gather"
    /\ Counts
    /\ buff' = Append(buff, mem[ca'])
    /\ IF wcovf' \/ Len(buff') = BlockWords THEN Go("pwrite") ELSE UNCHANGED apc
    /\ UNCHANGED <<register, ta, tb, old, drive, tape, mem, history>>

Pwrite ==
    /\ apc = "pwrite" /\ loaded
    /\ tape' = [tape EXCEPT ![tapepos \div 4] = Padded(buff)]
    /\ buff' = <<>>
    /\ Continue(wcovf)
    /\ UNCHANGED <<register, ta, old, wcovf, drive, memory, history>>

\* tcat[1] &= ~ GO
GoOffRead ==
    /\ apc = "goff"
    /\ ReadAs
    /\ Go("goffw")
    /\ UNCHANGED <<register, ta, tb, buff, wcovf, drive, tape, memory, history>>

GoOffWrite ==
    /\ apc = "goffw"
    /\ WriteRegister([old EXCEPT !.a.go = FALSE])
    /\ Go("fin")
    /\ UNCHANGED <<ta, tb, buff, wcovf, drive, tape, memory, history>>

\* tcat[1] = (tcat[1] & ~ flags) | (status_b & flags)
FinRead ==
    /\ apc = "fin"
    /\ ReadAs
    /\ Go("finw")
    /\ UNCHANGED <<register, ta, tb, buff, wcovf, drive, tape, memory, history>>

\* Mutant: status A is written from the thread's copy.
FinWriteStale ==
    /\ apc = "finw"
    /\ WriteRegister([old EXCEPT !.b = tb, !.a = ta])
    /\ ta' = NoCommand /\ tb' = {} /\ wcovf' = FALSE
    /\ Go("unlock")
    /\ UNCHANGED <<buff, drive, tape, memory, history>>

FinWrite ==
    /\ apc = "finw"
    /\ WriteRegister([old EXCEPT !.b = tb])
    /\ ta' = NoCommand /\ tb' = {} /\ wcovf' = FALSE
    /\ Go("unlock")
    /\ UNCHANGED <<buff, drive, tape, memory, history>>

\* The thread's copies mean nothing from here on.
UnlockDrive ==
    /\ apc = "unlock"
    /\ locked' = FALSE
    /\ Go("sleep")
    /\ ta' = NoCommand /\ tb' = {} /\ wcovf' = FALSE
    /\ UNCHANGED <<register, old, buff, loaded, rdonly, tapepos, tape, memory, history>>

Thread ==
    \/ Poll \/ Claim \/ LockDrive \/ Decode \/ Skipping \/ Passing \/ Abort
    \/ Send \/ Gather \/ Pwrite
    \/ GoOffRead \/ GoOffWrite \/ FinRead \/ FinWrite \/ UnlockDrive

(***************************************************************************)
(* The operator's commands.                                                *)
(***************************************************************************)
\* Mutant: the drive is not waited for.
LoadTapeAtOnce ==
    /\ loaded' = TRUE /\ rdonly' \in BOOLEAN /\ tapepos' = 0
    /\ UNCHANGED <<register, thread, locked, tape, memory, asked, waiting, polite, starts, last>>

\* tcloadro, tcloadrw: wait for the drive to be unlocked.
LoadTape ==
    /\ ~ locked /\ apc # "aborted"
    /\ loaded' = TRUE /\ rdonly' \in BOOLEAN /\ tapepos' = 0
    /\ UNCHANGED <<register, thread, locked, tape, memory, asked, waiting, polite, starts, last>>

\* tcunload: does not.
UnloadTape ==
    /\ loaded /\ apc # "aborted"
    /\ loaded' = FALSE
    /\ UNCHANGED <<register, thread, rdonly, tapepos, locked, tape, memory, history>>

Next == Pdp \/ Thread \/ LoadTape \/ UnloadTape

Spec == Init /\ [][Next]_vars

\* The thread polls every millisecond and its delays end.
FairSpec == Spec /\ WF_vars(Thread)

-----------------------------------------------------------------------------
(***************************************************************************)
(* Properties.                                                             *)
(***************************************************************************)
\* What the head passes going forward from the start of the tape to a position:
\* so many forward marks, blocks of data, reverse marks.
FwdMarks(pos) == (pos + 3) \div 4
DataParts(pos) == (pos + 2) \div 4
RevMarks(pos) == (pos + 1) \div 4

\* How many of them are ahead of it, in its direction.
MarksLeft == IF ta.rev THEN RevMarks(tapepos) ELSE Blocks - FwdMarks(tapepos)
DataLeft == IF ta.rev THEN DataParts(tapepos) ELSE Blocks - DataParts(tapepos)

\* The end of the tape is reported as an error, the head standing at that end.
EndReported ==
    /\ apc' = "goff" /\ {"ERR", "EOT"} \subseteq tb'
    /\ tapepos' = IF ta.rev THEN 0 ELSE TapeEnd

\* stepskip, stepxfer: a search passes exactly one mark of its direction, a
\* transfer the data of exactly one block, the one it goes on to transfer, as long
\* as one is left, and then no end is reported; when none is left, one is.
HeadRight ==
    [][/\ Skipping =>
             IF MarksLeft = 0 THEN EndReported
             ELSE /\ apc' # "goff"
                  /\ IF ta.rev THEN RevMarks(tapepos') = RevMarks(tapepos) - 1
                     ELSE FwdMarks(tapepos') = FwdMarks(tapepos) + 1
       /\ Passing =>
             IF DataLeft = 0 THEN EndReported
             ELSE /\ apc' # "goff"
                  /\ IF ta.rev
                     THEN DataParts(tapepos') = last' /\ DataParts(tapepos) = last' + 1
                     ELSE DataParts(tapepos') = last' + 1 /\ DataParts(tapepos) = last']_vars

\* The words transferred: at most a block, or one with its frame, unless
\* continuous; i runs from 0, and the last block passed is the last transferred.
PerBlock == IF asked.cmd.func = ReadAll THEN BlockWords + 2 ELSE BlockWords
Total ==
    IF asked.cmd.contin \/ asked.count <= PerBlock THEN asked.count ELSE PerBlock
BlockOf(i) ==
    LET back == (Total - 1) \div PerBlock - i \div PerBlock
    IN  IF asked.cmd.rev THEN last + back ELSE last - back
Passed(blk) ==
    Oriented(IF asked.cmd.func = ReadAll THEN Framed(blk, tape[blk]) ELSE tape[blk],
             asked.cmd.rev)
TapeWord(i) == Passed(BlockOf(i))[(i % PerBlock) + 1]

\* When a polite program sees success, the words are where they belong, in the
\* order and form in which the head met them, the rest of a written block is
\* zeros so met, and word count and current address tell how far it went.
TransferRight ==
    waiting /\ "SUC" \in status_b /\ asked.cmd.func \in {ReadData, ReadAll, WriteData} =>
       /\ \A i \in 0 .. Total - 1 : mem[(asked.addr + 1 + i) % MemSize] = TapeWord(i)
       /\ asked.cmd.func = WriteData =>
             \A i \in Total .. BlockWords - 1 :
                Total < BlockWords => Passed(last)[i + 1] = 0
       /\ ca = (asked.addr + Total) % MemSize
       /\ (wc + asked.count) % MemSize = Total % MemSize

\* The program that waits is told of a success or of an error, and of an error with
\* one reason; and what the thread wrote back meanwhile left status A as the program
\* put it, but for the GO bit, which an error has cleared before it is seen.
ErrorRight ==
    waiting /\ Skip =>
       IF "ERR" \in status_b
       THEN /\ "SUC" \notin status_b
            /\ "EOT" \in status_b <=> "SEL" \notin status_b
            /\ status_a = [asked.cmd EXCEPT !.go = FALSE]
       ELSE status_a = asked.cmd

\* No tape changes but one that is loaded for writing and locked.
WriteProtected == [][tape' # tape => loaded /\ locked /\ ~ rdonly]_vars

\* A polite program's operation ends, unless the file is taken away.
OperationEnds == (waiting /\ polite) ~> (Skip \/ ~ polite \/ apc = "aborted")

\* z8ltc08.cc: the file is not unloaded while the thread uses it.
LockedStays == [][locked /\ locked' => loaded' = loaded]_vars
=============================================================================
