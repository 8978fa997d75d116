----------------------------- MODULE Tc08Proofs -----------------------------
(***************************************************************************)
(* For tapes of any length, blocks and memory of any size: a search passes *)
(* exactly one block mark, a transfer the data of exactly one block, and   *)
(* the end of the tape is reported when and only when none is left in that *)
(* direction; only a tape loaded for writing is written; what a program    *)
(* that waits is told; and the words of a transfer, in both directions,    *)
(* forward and in reverse, are the ones that were asked for.               *)
(***************************************************************************)
EXTENDS Tc08, TLAPS

USE SizeAssumption DEF TapeEnd

\* The two steps, from every position and in both directions.
LEMMA SkipStep ==
    ASSUME NEW pos \in 0 .. TapeEnd, NEW rev, Blocks \in Nat \ {0}
    PROVE  /\ stepskip(pos, rev).pos \in 0 .. TapeEnd
           /\ ~ rev => IF FwdMarks(pos) = Blocks THEN stepskip(pos, rev) = Result(TapeEnd + 1)
                       ELSE /\ ~ stepskip(pos, rev).end
                            /\ FwdMarks(stepskip(pos, rev).pos) = FwdMarks(pos) + 1
           /\ rev => IF RevMarks(pos) = 0 THEN stepskip(pos, rev) = AtStart
                     ELSE /\ ~ stepskip(pos, rev).end
                          /\ RevMarks(stepskip(pos, rev).pos) = RevMarks(pos) - 1
<1>1. pos % 4 \in {0, 1, 2, 3}
  OBVIOUS
<1>2. CASE pos % 4 = 0
  BY <1>2 DEF stepskip, Result, AtStart, FwdMarks, RevMarks
<1>3. CASE pos % 4 = 1
  BY <1>3 DEF stepskip, Result, AtStart, FwdMarks, RevMarks
<1>4. CASE pos % 4 = 2
  BY <1>4 DEF stepskip, Result, AtStart, FwdMarks, RevMarks
<1>5. CASE pos % 4 = 3
  BY <1>5 DEF stepskip, Result, AtStart, FwdMarks, RevMarks
<1> QED BY <1>1, <1>2, <1>3, <1>4, <1>5

LEMMA XferStep ==
    ASSUME NEW pos \in 0 .. TapeEnd, NEW rev, Blocks \in Nat \ {0}
    PROVE  /\ stepxfer(pos, rev).pos \in 0 .. TapeEnd
           /\ ~ rev => IF DataParts(pos) = Blocks THEN stepxfer(pos, rev) = Result(TapeEnd + 1)
                       ELSE /\ ~ stepxfer(pos, rev).end
                            /\ DataParts(stepxfer(pos, rev).pos) = stepxfer(pos, rev).pos \div 4 + 1
                            /\ DataParts(pos) = stepxfer(pos, rev).pos \div 4
           /\ rev => IF DataParts(pos) = 0 THEN stepxfer(pos, rev) = AtStart
                     ELSE /\ ~ stepxfer(pos, rev).end
                          /\ DataParts(stepxfer(pos, rev).pos) = stepxfer(pos, rev).pos \div 4
                          /\ DataParts(pos) = stepxfer(pos, rev).pos \div 4 + 1
<1>1. pos % 4 \in {0, 1, 2, 3}
  OBVIOUS
<1>2. CASE pos % 4 = 0
  BY <1>2 DEF stepxfer, Result, AtStart, DataParts
<1>3. CASE pos % 4 = 1
  BY <1>3 DEF stepxfer, Result, AtStart, DataParts
<1>4. CASE pos % 4 = 2
  BY <1>4 DEF stepxfer, Result, AtStart, DataParts
<1>5. CASE pos % 4 = 3
  BY <1>5 DEF stepxfer, Result, AtStart, DataParts
<1> QED BY <1>1, <1>2, <1>3, <1>4, <1>5

\* The tape stays on its reels.
OnTape == tapepos \in 0 .. TapeEnd

LEMMA BlocksNat == Blocks \in Nat \ {0}
BY DEF Words, WordSize

LEMMA SkippingMoves ==
    ASSUME OnTape, Skipping
    PROVE  /\ tapepos' = stepskip(tapepos, ta.rev).pos
           /\ IF stepskip(tapepos, ta.rev).end THEN {"ERR", "EOT"} \subseteq tb' /\ apc' = "goff"
              ELSE apc' # "goff"
  BY DEF Skipping, Error, Success, Go

LEMMA PassingMoves ==
    ASSUME OnTape, Passing
    PROVE  /\ tapepos' = stepxfer(tapepos, ta.rev).pos
           /\ last' = stepxfer(tapepos, ta.rev).pos \div 4
           /\ IF stepxfer(tapepos, ta.rev).end THEN {"ERR", "EOT"} \subseteq tb' /\ apc' = "goff"
              ELSE apc' # "goff"
  BY DEF Passing, Error, Go

LEMMA OnTapeStep == OnTape /\ [Next]_vars => OnTape'
<1> SUFFICES ASSUME OnTape, [Next]_vars PROVE OnTape'
  OBVIOUS
<1> USE DEF OnTape, drive, thread, register, memory, history
<1>1. CASE Pdp
  BY <1>1 DEF Pdp, SetUp, DTXA, DTCA, DTSF, Reset
<1>2. CASE Skipping
  BY <1>2, SkippingMoves, SkipStep, BlocksNat
<1>3. CASE Passing
  BY <1>3, PassingMoves, XferStep, BlocksNat
<1>4. CASE Poll \/ Claim \/ LockDrive \/ Decode \/ Abort
  BY <1>4 DEF Poll, Claim, LockDrive, Decode, Abort
<1>5. CASE Send \/ Gather \/ Pwrite
  BY <1>5 DEF Send, Gather, Pwrite
<1>6. CASE GoOffRead \/ GoOffWrite \/ FinRead \/ FinWrite \/ UnlockDrive
  BY <1>6 DEF GoOffRead, GoOffWrite, FinRead, FinWrite, UnlockDrive
<1>7. CASE LoadTape \/ UnloadTape
  BY <1>7, BlocksNat DEF LoadTape, UnloadTape
<1>8. CASE UNCHANGED vars
  BY <1>8 DEF vars
<1> QED BY <1>1, <1>2, <1>3, <1>4, <1>5, <1>6, <1>7, <1>8 DEF Next, Thread

LEMMA AlwaysOnTape == Spec => []OnTape
<1>1. Init => OnTape
  BY BlocksNat DEF Init, OnTape
<1> QED BY <1>1, OnTapeStep, PTL DEF Spec

\* stepskip, stepxfer: one mark, or the data of one block, at a time, as long as one is
\* left in the tape's direction, and then no end is reported; when none is, the end of the
\* tape is reported as an error with the head at that end.
THEOREM HeadIsRight == Spec => HeadRight
<1> DEFINE Skips ==
      Skipping =>
         IF MarksLeft = 0 THEN EndReported
         ELSE /\ apc' # "goff"
              /\ IF ta.rev THEN RevMarks(tapepos') = RevMarks(tapepos) - 1
                 ELSE FwdMarks(tapepos') = FwdMarks(tapepos) + 1
<1> DEFINE Passes ==
      Passing =>
         IF DataLeft = 0 THEN EndReported
         ELSE /\ apc' # "goff"
              /\ IF ta.rev THEN DataParts(tapepos') = last' /\ DataParts(tapepos) = last' + 1
                 ELSE DataParts(tapepos') = last' + 1 /\ DataParts(tapepos) = last'
<1> USE BlocksNat DEF OnTape
<1>1. Result(TapeEnd + 1) = [pos |-> TapeEnd, end |-> TRUE] /\ AtStart = [pos |-> 0, end |-> TRUE]
  BY DEF Result, AtStart, TapeEnd
<1>2. OnTape => /\ FwdMarks(tapepos) \in Int /\ RevMarks(tapepos) \in Int
                /\ DataParts(tapepos) \in Int
  BY DEF FwdMarks, RevMarks, DataParts, TapeEnd
<1>3. OnTape => Skips
  <2> SUFFICES ASSUME OnTape, Skipping PROVE Skips
    OBVIOUS
  <2> DEFINE new == stepskip(tapepos, ta.rev)
  <2>1. /\ tapepos' = new.pos
        /\ IF new.end THEN {"ERR", "EOT"} \subseteq tb' /\ apc' = "goff" ELSE apc' # "goff"
    BY SkippingMoves
  <2>2. CASE ta.rev
    <3>1. IF RevMarks(tapepos) = 0 THEN new = AtStart
          ELSE ~ new.end /\ RevMarks(new.pos) = RevMarks(tapepos) - 1
      BY <2>2, SkipStep
    <3> HIDE DEF new
    <3> QED BY <1>1, <2>1, <2>2, <3>1 DEF MarksLeft, EndReported
  <2>3. CASE ~ ta.rev
    <3>1. IF FwdMarks(tapepos) = Blocks THEN new = Result(TapeEnd + 1)
          ELSE ~ new.end /\ FwdMarks(new.pos) = FwdMarks(tapepos) + 1
      BY <2>3, SkipStep
    <3>2. MarksLeft = 0 <=> FwdMarks(tapepos) = Blocks
      BY <1>2, <2>3 DEF MarksLeft
    <3> HIDE DEF new
    <3> QED BY <1>1, <2>1, <2>3, <3>1, <3>2 DEF EndReported
  <2> QED BY <2>2, <2>3
<1>4. OnTape => Passes
  <2> SUFFICES ASSUME OnTape, Passing PROVE Passes
    OBVIOUS
  <2> DEFINE new == stepxfer(tapepos, ta.rev)
  <2>1. /\ tapepos' = new.pos /\ last' = new.pos \div 4
        /\ IF new.end THEN {"ERR", "EOT"} \subseteq tb' /\ apc' = "goff" ELSE apc' # "goff"
    BY PassingMoves
  <2>2. CASE ta.rev
    <3>1. IF DataParts(tapepos) = 0 THEN new = AtStart
          ELSE /\ ~ new.end /\ DataParts(new.pos) = new.pos \div 4
               /\ DataParts(tapepos) = new.pos \div 4 + 1
      BY <2>2, XferStep
    <3> HIDE DEF new
    <3> QED BY <1>1, <2>1, <2>2, <3>1 DEF DataLeft, EndReported
  <2>3. CASE ~ ta.rev
    <3>1. IF DataParts(tapepos) = Blocks THEN new = Result(TapeEnd + 1)
          ELSE /\ ~ new.end /\ DataParts(new.pos) = new.pos \div 4 + 1
               /\ DataParts(tapepos) = new.pos \div 4
      BY <2>3, XferStep
    <3>2. DataLeft = 0 <=> DataParts(tapepos) = Blocks
      BY <1>2, <2>3 DEF DataLeft
    <3> HIDE DEF new
    <3> QED BY <1>1, <2>1, <2>3, <3>1, <3>2 DEF EndReported
  <2> QED BY <2>2, <2>3
<1>5. OnTape => [Skips /\ Passes]_vars
  BY <1>3, <1>4
<1> QED BY <1>5, AlwaysOnTape, PTL DEF HeadRight

-----------------------------------------------------------------------------
(* Whatever the program does: only a tape loaded for writing is written. *)

\* The drive is locked from before its tape is looked at until after the last
\* write, and what Decode saw of the tape holds as long.
Writable ==
    /\ apc \in {"decode", "delay", "send", "gather", "pwrite"} => locked
    /\ apc \in {"delay", "send", "gather", "pwrite"} /\ ta.func = WriteData => ~ rdonly
    /\ apc \in {"gather", "pwrite"} => ta.func = WriteData
    /\ apc = "send" => ta.func # WriteData

LEMMA WritableStep == Writable /\ [Next]_vars => Writable'
<1> SUFFICES ASSUME Writable, [Next]_vars PROVE Writable'
  OBVIOUS
<1> USE DEF Writable, drive, thread, register, memory, history, Go
<1>1. CASE Pdp
  BY <1>1 DEF Pdp, SetUp, DTXA, DTCA, DTSF, Reset
<1>2. CASE Skipping
  BY <1>2 DEF Skipping, Error, Success
<1>3. CASE Passing
  BY <1>3 DEF Passing, Error, ReadData, ReadAll, WriteData
<1>4. CASE Poll \/ Claim \/ LockDrive \/ Abort
  BY <1>4 DEF Poll, Claim, LockDrive, Abort
<1>5. CASE Decode
  BY <1>5 DEF Decode, Error, WriteData
<1>6. CASE Send \/ Gather \/ Pwrite
  BY <1>6 DEF Send, Gather, Pwrite, Continue, Success
<1>7. CASE GoOffRead \/ GoOffWrite \/ FinRead \/ FinWrite \/ UnlockDrive
  BY <1>7 DEF GoOffRead, GoOffWrite, FinRead, FinWrite, UnlockDrive
<1>8. CASE LoadTape \/ UnloadTape
  BY <1>8 DEF LoadTape, UnloadTape
<1>9. CASE UNCHANGED vars
  BY <1>9 DEF vars
<1> QED BY <1>1, <1>2, <1>3, <1>4, <1>5, <1>6, <1>7, <1>8, <1>9 DEF Next, Thread

\* z8ltc08.cc: a tape loaded read-only, or none, is not written, whatever the
\* program starts or changes in the middle and whatever the operator does.
THEOREM OnlyWritableWritten == Spec => WriteProtected
<1>1. Init => Writable
  BY DEF Init, Writable
<1>2. ASSUME Writable, [Next]_vars, tape' # tape PROVE loaded /\ locked /\ ~ rdonly
  <2>1. Pwrite
    BY <1>2 DEF Next, Pdp, SetUp, DTXA, DTCA, DTSF, Reset, Thread, Poll, Claim, LockDrive, Decode,
                Skipping, Passing, Abort, Send, Gather, GoOffRead, GoOffWrite, FinRead, FinWrite,
                UnlockDrive, LoadTape, UnloadTape, vars
  <2> QED BY <1>2, <2>1 DEF Pwrite, Writable
<1>3. Writable /\ [Next]_vars => [tape' # tape => loaded /\ locked /\ ~ rdonly]_vars
  BY <1>2
<1> QED BY <1>1, <1>3, WritableStep, PTL DEF Spec, WriteProtected

-----------------------------------------------------------------------------
(* What a program that waits is told. *)

Bits == {"SUC", "ERR", "EOT", "SEL"}

RegisterTyped ==
    /\ status_a \in StatusA /\ status_b \in SUBSET Bits /\ iopend \in BOOLEAN
    /\ old \in [a : StatusA, b : SUBSET Bits, pend : BOOLEAN]
    /\ ta \in StatusA /\ tb \in SUBSET Bits

Outcome(b) == b = {"SUC"} \/ b = {"ERR", "EOT"} \/ b = {"ERR", "SEL"}
Stopped(b, a) == "ERR" \in b => ~ a.go

\* While the program waits only the thread touches the register: the flags stay
\* clear until it writes the outcome, and an error's only after GO is off.
Answering ==
    waiting =>
       /\ apc \in {"sleep", "unlock"} =>
             \/ status_b = {}
             \/ ~ iopend /\ Outcome(status_b) /\ Stopped(status_b, status_a)
       /\ apc \notin {"sleep", "unlock"} => status_b = {}
       /\ apc \in {"claim", "goffw"} => old.b = {}
       /\ apc \in {"lock", "decode", "delay", "send", "gather", "pwrite"} => tb = {}
       /\ apc \in {"goff", "goffw", "fin", "finw"} => Outcome(tb)
       /\ apc \notin {"sleep", "unlock", "claim", "aborted"} => ~ iopend
       /\ apc \in {"goffw", "finw"} => ~ old.pend
       /\ apc = "fin" => Stopped(tb, status_a)
       /\ apc = "finw" => Stopped(tb, old.a)

LEMMA RegisterStep == RegisterTyped /\ [Next]_vars => RegisterTyped'
<1> SUFFICES ASSUME RegisterTyped, [Next]_vars PROVE RegisterTyped'
  OBVIOUS
<1> USE DEF RegisterTyped, drive, thread, register, memory, history, Go
<1>1. NoCommand \in StatusA /\ NoRegister \in [a : StatusA, b : SUBSET Bits, pend : BOOLEAN]
  BY DEF NoCommand, NoRegister, StatusA
<1>2. CASE SetUp \/ DTCA \/ DTSF \/ Reset
  BY <1>1, <1>2 DEF SetUp, DTCA, DTSF, Reset
<1>3. CASE DTXA
  <2>1. status_a' \in StatusA /\ status_b' \in SUBSET Bits
    BY <1>3, UseAssumption DEF DTXA
  <2>2. iopend' \in BOOLEAN
    BY Zenon, <1>3 DEF DTXA, Wakes
  <2> QED BY <1>3, <2>1, <2>2 DEF DTXA
<1>4. CASE Skipping
  BY <1>4 DEF Skipping, Error, Success, Bits
<1>5. CASE Passing
  BY <1>5 DEF Passing, Error, Bits
<1>6. CASE Decode
  BY <1>6 DEF Decode, Error, Bits
<1>7. CASE Send \/ Gather \/ Pwrite
  BY <1>7 DEF Send, Gather, Pwrite, Continue, Success, Bits
<1>8. CASE LockDrive \/ Abort \/ LoadTape \/ UnloadTape
  BY <1>8 DEF LockDrive, Abort, LoadTape, UnloadTape
<1>9. CASE Poll \/ GoOffRead \/ FinRead
  BY <1>9 DEF Poll, GoOffRead, FinRead, ReadAs
<1>10. CASE Claim \/ GoOffWrite \/ FinWrite \/ UnlockDrive
  BY <1>1, <1>10 DEF Claim, GoOffWrite, FinWrite, UnlockDrive, WriteRegister, StatusA
<1>11. CASE UNCHANGED vars
  BY <1>11 DEF vars
<1> QED BY <1>2, <1>3, <1>4, <1>5, <1>6, <1>7, <1>8, <1>9, <1>10, <1>11 DEF Next, Pdp, Thread

LEMMA AnsweringStep == RegisterTyped /\ Answering /\ [Next]_vars => Answering'
<1> SUFFICES ASSUME RegisterTyped, Answering, [Next]_vars, waiting' PROVE Answering'
  BY DEF Answering
<1> USE DEF Answering, drive, thread, register, memory, history, Go
<1>1. CASE SetUp \/ DTCA \/ DTSF \/ Reset
  BY <1>1 DEF SetUp, DTCA, DTSF, Reset, Spoil
<1>2. CASE DTXA
  <2>1. status_b' = {} /\ apc' = apc /\ apc \in {"sleep", "unlock", "aborted"}
    BY <1>2 DEF DTXA, Spoil, Quiet
  <2> QED BY <2>1
<1>3. CASE Skipping
  BY <1>3 DEF Skipping, Error, Success, Outcome, Stopped
<1>4. CASE Passing
  BY <1>4 DEF Passing, Error, Outcome
<1>5. CASE Decode
  BY <1>5 DEF Decode, Error, Outcome
<1>6. CASE Send \/ Gather \/ Pwrite
  <2>1. tb = {} /\ status_b = {} /\ ~ iopend /\ waiting
    BY <1>6 DEF Send, Gather, Pwrite
  <2>2. \/ apc' \in {"send", "gather", "pwrite", "delay"} /\ tb' = tb
        \/ apc' = "fin" /\ tb' = {"SUC"}
    BY <1>6, <2>1 DEF Send, Gather, Pwrite, Continue, Success
  <2>3. UNCHANGED <<status_b, iopend>>
    BY <1>6 DEF Send, Gather, Pwrite
  <2> QED BY <2>1, <2>2, <2>3 DEF Outcome, Stopped
<1>7. CASE LockDrive \/ Abort \/ LoadTape \/ UnloadTape
  BY <1>7 DEF LockDrive, Abort, LoadTape, UnloadTape
<1>8. CASE Poll \/ GoOffRead \/ FinRead
  <2>1. old'.a = status_a /\ old'.b = status_b /\ (old'.pend <=> iopend)
    <3>1. old' = [a |-> status_a, b |-> status_b, pend |-> iopend]
      BY <1>8 DEF Poll, GoOffRead, FinRead, ReadAs
    <3>2. old'.a = status_a /\ old'.b = status_b
      BY <3>1
    <3>3. CASE iopend
      BY <3>1, <3>3
    <3>4. CASE ~ iopend
      BY <3>1, <3>4 DEF RegisterTyped
    <3> QED BY <3>2, <3>3, <3>4
  <2> QED BY <1>8, <2>1 DEF Poll, GoOffRead, FinRead
<1>9. CASE Claim
  <2>1. status_b' = old.b /\ ~ iopend' /\ tb' = old.b
    BY <1>9 DEF Claim, WriteRegister, RegisterTyped
  <2> QED BY <1>9, <2>1 DEF Claim
<1>10. CASE GoOffWrite
  <2>1. status_b' = old.b /\ iopend' = old.pend /\ ~ status_a'.go
    BY <1>10 DEF GoOffWrite, WriteRegister, RegisterTyped, StatusA
  <2> QED BY <1>10, <2>1 DEF GoOffWrite, Stopped
<1>11. CASE FinWrite
  <2>1. status_b' = tb /\ iopend' = old.pend /\ status_a' = old.a
    BY <1>11 DEF FinWrite, WriteRegister, RegisterTyped
  <2> QED BY <1>11, <2>1 DEF FinWrite
<1>12. CASE UnlockDrive
  BY <1>12 DEF UnlockDrive
<1>13. CASE UNCHANGED vars
  BY <1>13 DEF vars
<1> QED BY <1>1, <1>2, <1>3, <1>4, <1>5, <1>6, <1>7, <1>8, <1>9, <1>10, <1>11, <1>12, <1>13
        DEF Next, Pdp, Thread

\* What status A is to be beside the flags b: as the program put it, but for GO.
GoOff(c) == [c EXCEPT !.go = FALSE]
Left(b) == IF "ERR" \in b THEN GoOff(asked.cmd) ELSE asked.cmd

\* While the program waits, what the thread writes back is what was there: it puts no
\* copy into status A that is older than the command.
LeftAlone ==
    waiting =>
       /\ apc \in {"sleep", "unlock"} => status_a = Left(status_b)
       /\ apc \notin {"sleep", "unlock", "fin", "finw"} => status_a = asked.cmd
       /\ apc \in {"claim", "goffw"} => old.a = asked.cmd
       /\ apc \in {"goff", "goffw"} => "ERR" \in tb
       /\ apc = "fin" => status_a = Left(tb)
       /\ apc = "finw" => old.a = Left(tb)

LEMMA LeftStep ==
    ASSUME RegisterTyped, Answering, LeftAlone, [Next]_vars, waiting'
    PROVE  LeftAlone'
<1> USE DEF Answering, LeftAlone, Left, drive, thread, register, memory, history, Go
<1>1. CASE SetUp \/ DTCA \/ DTSF \/ Reset
  BY <1>1 DEF SetUp, DTCA, DTSF, Reset, Spoil
<1>2. CASE DTXA
  <2>1. /\ status_b' = {} /\ apc' = apc /\ apc \in {"sleep", "unlock", "aborted"}
        /\ asked'.cmd = status_a'
    <3>1. PICK c \in Commands, keeps, keepe \in BOOLEAN :
            /\ status_a' = c /\ ~ keeps /\ ~ keepe /\ Quiet /\ waiting' = c.go
            /\ status_b' = status_b \cap ((IF keeps THEN {"SUC"} ELSE {}) \cup
                                          (IF keepe THEN {"ERR", "EOT", "SEL"} ELSE {}))
            /\ asked' = IF c.go THEN [cmd |-> c, count |-> MemSize - wc, addr |-> ca]
                        ELSE Nothing
            /\ apc' = apc
      BY <1>2 DEF DTXA, Spoil
    <3>2. asked' = [cmd |-> status_a', count |-> MemSize - wc, addr |-> ca]
      BY <3>1
    <3> QED BY <3>1, <3>2 DEF Quiet
  <2> QED BY <2>1
<1>4. CASE Decode \/ Skipping \/ Passing \/ Send \/ Gather \/ Pwrite
  <2>1. /\ apc \in {"decode", "delay", "send", "gather", "pwrite"} /\ waiting /\ asked' = asked
        /\ UNCHANGED <<status_a, status_b>>
    BY <1>4 DEF Decode, Skipping, Passing, Send, Gather, Pwrite
  <2>2. tb = {} /\ status_a = asked.cmd /\ status_b = {}
    BY <2>1
  <2>3. \/ apc' \in {"delay", "send", "gather", "pwrite"}
        \/ apc' = "unlock"
        \/ apc' = "goff" /\ "ERR" \in tb'
        \/ apc' = "fin" /\ tb' = {"SUC"}
    BY <1>4, <2>1, <2>2 DEF Decode, Skipping, Passing, Send, Gather, Pwrite, Error, Success, Continue
  <2> QED BY <2>1, <2>2, <2>3
<1>5. CASE LockDrive \/ Abort \/ LoadTape \/ UnloadTape
  BY <1>5 DEF LockDrive, Abort, LoadTape, UnloadTape
<1>6. CASE Poll \/ GoOffRead \/ FinRead
  <2>0. old' = [a |-> status_a, b |-> status_b, pend |-> iopend]
    BY <1>6 DEF Poll, GoOffRead, FinRead, ReadAs
  <2>1. old'.a = status_a /\ UNCHANGED <<status_a, status_b, tb>>
    BY <1>6, <2>0 DEF Poll, GoOffRead, FinRead
  <2>2. apc = "sleep" => iopend
    BY <1>6 DEF Poll, GoOffRead, FinRead
  <2>3. apc = "sleep" => status_a = asked.cmd
    BY <1>6, <2>2 DEF Poll, GoOffRead, FinRead
  <2> QED BY <1>6, <2>1, <2>3 DEF Poll, GoOffRead, FinRead
<1>7. CASE Claim
  <2>1. status_a' = old.a
    BY <1>7 DEF Claim, WriteRegister, RegisterTyped
  <2> QED BY <1>7, <2>1 DEF Claim
<1>8. CASE GoOffWrite
  <2>1. status_a' = GoOff(old.a)
    BY <1>8 DEF GoOffWrite, WriteRegister, RegisterTyped, GoOff
  <2> QED BY <1>8, <2>1 DEF GoOffWrite
<1>9. CASE FinWrite
  <2>1. status_b' = tb /\ status_a' = old.a
    BY <1>9 DEF FinWrite, WriteRegister, RegisterTyped
  <2> QED BY <1>9, <2>1 DEF FinWrite
<1>10. CASE UnlockDrive \/ UNCHANGED vars
  BY <1>10 DEF UnlockDrive, vars
<1> QED BY <1>1, <1>2, <1>4, <1>5, <1>6, <1>7, <1>8, <1>9, <1>10 DEF Next, Pdp, Thread

\* z8ltc08.cc: whoever waits for the flags sees a success, or an error with exactly one
\* reason, and status A as he put it, with GO off after an error: the thread's reading and
\* writing back of the whole register has undone nothing of his.
THEOREM ErrorIsRight == Spec => []ErrorRight
<1>1. Init => RegisterTyped /\ Answering /\ LeftAlone
  <2>1. NoCommand \in StatusA /\ NoRegister \in [a : StatusA, b : SUBSET Bits, pend : BOOLEAN]
    BY DEF NoCommand, NoRegister, StatusA
  <2> QED BY <2>1 DEF Init, RegisterTyped, Answering, LeftAlone
<1>2. RegisterTyped /\ Answering /\ LeftAlone => ErrorRight
  BY DEF Answering, LeftAlone, Left, GoOff, ErrorRight, Skip, Outcome
<1>3. RegisterTyped /\ Answering /\ LeftAlone /\ [Next]_vars => LeftAlone'
  BY LeftStep DEF LeftAlone
<1> QED BY <1>1, <1>2, <1>3, RegisterStep, AnsweringStep, PTL DEF Spec

-----------------------------------------------------------------------------
(* The words of a transfer.  While it lasts, Done of them have been counted; the   *)
(* ones of the blocks passed are alike in memory and on the tape, and the others   *)
(* are in the buffer.                                                              *)

Transfers == {ReadData, ReadAll, WriteData}
Asked == [cmd : StatusA, count : 1 .. MemSize, addr : Addrs]

StoresTyped ==
    /\ mem \in [Addrs -> Words] /\ wc \in Addrs /\ ca \in Addrs
    /\ tape \in [BlockNos -> Block] /\ last \in BlockNos
    /\ buff \in Seq(Words) /\ wcovf \in BOOLEAN
    /\ asked \in Asked /\ waiting \in BOOLEAN
    /\ apc = "send" => buff # <<>>
    /\ apc = "gather" => Len(buff) < BlockWords
    /\ apc = "pwrite" => Len(buff) <= BlockWords
    /\ apc \in {"gather", "pwrite"} => tapepos \div 4 = last

\* The words of a block for command c, the cell of word i of a transfer that was asked
\* for with address addr, and the block passed b blocks before block l.
Per(c) == IF c.func = ReadAll THEN BlockWords + 2 ELSE BlockWords
Cell(addr, i) == (addr + 1 + i) % MemSize
Back(c, l, b) == IF c.rev THEN l + b ELSE l - b

\* Block blk of tape t as the head meets it.
Seen(c, t, blk) == Oriented(IF c.func = ReadAll THEN Framed(blk, t[blk]) ELSE t[blk], c.rev)

\* The first k words are alike in memory m and on tape t, when l is its block n.
Alike(k, n, a, m, t, l) ==
    \A i \in 0 .. k - 1 :
       LET blk == Back(a.cmd, l, n - i \div Per(a.cmd))
       IN  blk \in BlockNos /\ m[Cell(a.addr, i)] = Seen(a.cmd, t, blk)[(i % Per(a.cmd)) + 1]

Done == IF wcovf THEN asked.count ELSE wc + asked.count - MemSize

\* The block last passed is the one behind the head.
Headed(c, pos, l) == DataParts(pos) = IF c.rev THEN l ELSE l + 1

\* All is as the program left it.
Untouched == wc + asked.count = MemSize /\ ca = asked.addr

\* Between two blocks.
Between(k, a) ==
    /\ ~ wcovf /\ k \in 0 .. a.count - 1 /\ k % Per(a.cmd) = 0
    /\ k > 0 => a.cmd.contin /\ Alike(k, (k \div Per(a.cmd)) - 1, a, mem, tape, last)
                             /\ Headed(a.cmd, tapepos, last)

\* The rest of the block is in the buffer.
Sending(k, a) ==
    /\ ~ wcovf /\ k \in 0 .. a.count - 1 /\ (k >= Per(a.cmd) => a.cmd.contin)
    /\ Alike(k, k \div Per(a.cmd), a, mem, tape, last)
    /\ Headed(a.cmd, tapepos, last)
    /\ Len(buff) = Per(a.cmd) - (k % Per(a.cmd))
    /\ \A j \in 1 .. Len(buff) : buff[j] = Seen(a.cmd, tape, last)[(k % Per(a.cmd)) + j]

\* The words of the block from base on are in the buffer.
Gathered(base, n, a) ==
    /\ Alike(base, n, a, mem, tape, last)
    /\ Headed(a.cmd, tapepos, last)
    /\ base = Per(a.cmd) * n
    /\ n > 0 => a.cmd.contin
    /\ \A j \in 1 .. Len(buff) : buff[j] = mem[Cell(a.addr, base + j - 1)]

Gathering(k, a) ==
    /\ ~ wcovf /\ k \in 0 .. a.count - 1
    /\ Len(buff) = k % Per(a.cmd)
    /\ Gathered(k - Len(buff), k \div Per(a.cmd), a)

ToWrite(k, a) ==
    /\ k \in 1 .. a.count
    /\ Len(buff) = ((k - 1) % Per(a.cmd)) + 1
    /\ Len(buff) < Per(a.cmd) => wcovf
    /\ wcovf => wc = 0
    /\ Gathered(k - Len(buff), (k - 1) \div Per(a.cmd), a)

\* What TransferRight wants.
TotalOf(a) == IF a.cmd.contin \/ a.count <= Per(a.cmd) THEN a.count ELSE Per(a.cmd)
Finished(a, m, t, l, addr, count) ==
    a.cmd.func \in Transfers =>
       /\ Alike(TotalOf(a), (TotalOf(a) - 1) \div Per(a.cmd), a, m, t, l)
       /\ a.cmd.func = WriteData =>
             \A i \in TotalOf(a) .. BlockWords - 1 :
                TotalOf(a) < BlockWords => Seen(a.cmd, t, l)[i + 1] = 0
       /\ addr = (a.addr + TotalOf(a)) % MemSize
       /\ (count + a.count) % MemSize = TotalOf(a) % MemSize

Served ==
    waiting =>
       /\ asked.cmd.go
       /\ apc \in {"sleep", "unlock"} /\ status_b = {} => status_a = asked.cmd /\ Untouched
       /\ apc = "claim" => old.a = asked.cmd
       /\ apc \in {"claim", "lock", "decode"} => Untouched
       /\ apc \in {"lock", "decode", "delay", "send", "gather", "pwrite"} => ta = asked.cmd
       /\ apc \in {"lock", "decode"} => ~ wcovf
       /\ apc \in {"send", "gather", "pwrite"} => asked.cmd.func \in Transfers
       /\ apc \in {"delay", "send", "gather", "pwrite"} /\ asked.cmd.func \in Transfers =>
             ca = (asked.addr + Done) % MemSize
       /\ apc = "delay" /\ asked.cmd.func \in Transfers => Between(Done, asked)
       /\ apc = "send" => Sending(Done, asked)
       /\ apc = "gather" => Gathering(Done, asked)
       /\ apc = "pwrite" => ToWrite(Done, asked)
       /\ apc \in {"goff", "goffw", "fin", "finw"} /\ "SUC" \in tb =>
             Finished(asked, mem, tape, last, ca, wc)
       /\ apc \in {"sleep", "unlock"} /\ "SUC" \in status_b =>
             Finished(asked, mem, tape, last, ca, wc)

Typed == OnTape /\ Writable /\ RegisterTyped /\ Answering /\ StoresTyped
WordsInv == Typed /\ Served

-----------------------------------------------------------------------------
(* Quotients and remainders. *)

LEMMA DivMod ==
    ASSUME NEW x \in Nat, NEW p \in Nat \ {0}
    PROVE  /\ x \div p \in Nat /\ x % p \in 0 .. p - 1
           /\ x = p * (x \div p) + (x % p)
  BY SMTT(30)

LEMMA DivModUnique ==
    ASSUME NEW p \in Nat \ {0}, NEW q \in Nat, NEW r \in 0 .. p - 1,
           NEW u \in Nat, NEW v \in 0 .. p - 1, p * q + r = p * u + v
    PROVE  q = u /\ r = v
<1>1. ASSUME NEW a \in Nat, NEW b \in Nat, a < b PROVE p * a + p =< p * b
  <2>1. p * (a + 1) =< p * b
    BY <1>1, SMTT(30)
  <2>2. p * (a + 1) = p * a + p
    BY SMTT(30)
  <2> QED BY <2>1, <2>2
<1>2. p * q \in Nat /\ p * u \in Nat
  BY SMTT(30)
<1>3. ~ q < u
  <2> SUFFICES ASSUME q < u PROVE FALSE
    OBVIOUS
  <2>1. p * q + p =< p * u
    BY <1>1
  <2> QED BY <2>1, <1>2
<1>4. ~ u < q
  <2> SUFFICES ASSUME u < q PROVE FALSE
    OBVIOUS
  <2>1. p * u + p =< p * q
    BY <1>1
  <2> QED BY <2>1, <1>2
<1>5. q = u
  BY <1>3, <1>4
<1> QED BY <1>2, <1>5

LEMMA DivModIs ==
    ASSUME NEW p \in Nat \ {0}, NEW q \in Nat, NEW r \in 0 .. p - 1
    PROVE  (p * q + r) \div p = q /\ (p * q + r) % p = r
<1> DEFINE x == p * q + r
<1>1. x \in Nat
  <2>1. p * q \in Nat
    BY SMTT(30)
  <2> QED BY <2>1
<1>2. /\ x \div p \in Nat /\ x % p \in 0 .. p - 1 /\ x = p * (x \div p) + (x % p)
  BY <1>1, DivMod
<1> DEFINE u == x \div p
           v == x % p
<1>3. p * q + r = p * u + v
  BY <1>2
<1>4. u \in Nat /\ v \in 0 .. p - 1
  BY <1>2
<1> HIDE DEF u, v
<1>5. q = u /\ r = v
  BY <1>3, <1>4, DivModUnique
<1> QED BY <1>5 DEF u, v

\* Counting on
LEMMA NextDivMod ==
    ASSUME NEW x \in Nat, NEW p \in Nat \ {0}
    PROVE  IF x % p = p - 1 THEN (x + 1) \div p = (x \div p) + 1 /\ (x + 1) % p = 0
           ELSE (x + 1) \div p = x \div p /\ (x + 1) % p = (x % p) + 1
<1> DEFINE q == x \div p
           r == x % p
<1>1. q \in Nat /\ r \in 0 .. p - 1 /\ x = p * q + r
  BY DivMod
<1> HIDE DEF q, r
<1>2. CASE r = p - 1
  <2>1. p * (q + 1) + 0 = p * q + p /\ p * q \in Nat
    BY <1>1, SMTT(30)
  <2>2. x + 1 = p * (q + 1) + 0
    BY <1>1, <1>2, <2>1
  <2>3. (p * (q + 1) + 0) \div p = q + 1 /\ (p * (q + 1) + 0) % p = 0
    BY <1>1, DivModIs
  <2>4. (x + 1) \div p = q + 1 /\ (x + 1) % p = 0
    BY <2>2, <2>3
  <2> QED BY <1>2, <2>4 DEF q, r
<1>3. CASE r # p - 1
  <2>1. p * q \in Nat
    BY <1>1, SMTT(30)
  <2>2. x + 1 = p * q + (r + 1)
    BY <1>1, <2>1
  <2>3. r + 1 \in 0 .. p - 1
    BY <1>1, <1>3
  <2>4. (p * q + (r + 1)) \div p = q /\ (p * q + (r + 1)) % p = r + 1
    BY <1>1, <2>3, DivModIs
  <2>5. (x + 1) \div p = q /\ (x + 1) % p = r + 1
    BY <2>2, <2>4
  <2> QED BY <1>3, <2>5 DEF q, r
<1> QED BY <1>2, <1>3

LEMMA SmallDivMod ==
    ASSUME NEW p \in Nat \ {0}, NEW x \in 0 .. p - 1
    PROVE  x \div p = 0 /\ x % p = x
<1>1. p * 0 + x = x
  OBVIOUS
<1>2. (p * 0 + x) \div p = 0 /\ (p * 0 + x) % p = x
  BY DivModIs
<1> QED BY <1>1, <1>2

LEMMA DivMonotone ==
    ASSUME NEW p \in Nat \ {0}, NEW x \in Nat, NEW n \in Nat
    PROVE  x < p * n <=> x \div p < n
<1> DEFINE q == x \div p
           r == x % p
<1>1. q \in Nat /\ r \in 0 .. p - 1 /\ x = p * q + r
  BY DivMod
<1> HIDE DEF q, r
<1>2. p * q \in Nat /\ p * n \in Nat
  BY <1>1, SMTT(30)
<1>3. ASSUME q < n PROVE x < p * n
  <2>1. p * (q + 1) =< p * n
    BY <1>1, <1>3, SMTT(30)
  <2>2. p * (q + 1) = p * q + p
    BY <1>1, SMTT(30)
  <2> QED BY <1>1, <1>2, <2>1, <2>2
<1>4. ASSUME ~ q < n PROVE ~ x < p * n
  <2>1. p * n =< p * q
    BY <1>1, <1>4, SMTT(30)
  <2> QED BY <1>1, <1>2, <2>1
<1> QED BY <1>3, <1>4 DEF q

LEMMA ModSuccessor ==
    ASSUME NEW x \in Nat, NEW p \in Nat \ {0}
    PROVE  ((x % p) + 1) % p = (x + 1) % p
<1> DEFINE r == x % p
<1>1. r \in 0 .. p - 1
  BY DivMod
<1>2. CASE r = p - 1
  <2>1. (x + 1) % p = 0
    BY <1>2, NextDivMod
  <2>2. (p * 1 + 0) % p = 0 /\ p * 1 + 0 = p
    BY DivModIs
  <2>3. r + 1 = p
    BY <1>2
  <2> HIDE DEF r
  <2>4. (r + 1) % p = 0
    BY <2>2, <2>3
  <2> QED BY <2>1, <2>4 DEF r
<1>3. CASE r # p - 1
  <2>1. (x + 1) % p = r + 1
    BY <1>3, NextDivMod
  <2>2. r + 1 \in 0 .. p - 1
    BY <1>1, <1>3
  <2> HIDE DEF r
  <2>3. (r + 1) % p = r + 1
    BY <2>2, SmallDivMod
  <2> QED BY <2>1, <2>3 DEF r
<1> QED BY <1>2, <1>3

LEMMA OnceAround ==
    ASSUME NEW x \in Nat, NEW p \in Nat \ {0}, x < p + p
    PROVE  x % p = IF x < p THEN x ELSE x - p
<1>1. CASE x < p
  BY <1>1, SmallDivMod
<1>2. CASE ~ x < p
  <2>1. x - p \in 0 .. p - 1
    BY <1>2
  <2>2. p * 1 + (x - p) = x
    BY <1>2
  <2>3. (p * 1 + (x - p)) % p = x - p
    BY <2>1, DivModIs
  <2>4. x % p = x - p
    BY <2>2, <2>3
  <2> QED BY <1>2, <2>4
<1> QED BY <1>1, <1>2

-----------------------------------------------------------------------------
(* The cells of a transfer of at most all of memory are different ones. *)

LEMMA CellIs ==
    ASSUME NEW a \in Addrs, NEW i \in 0 .. MemSize - 1
    PROVE  /\ Cell(a, i) \in Addrs
           /\ Cell(a, i) = IF a + 1 + i < MemSize THEN a + 1 + i ELSE a + 1 + i - MemSize
<1>1. ASSUME NEW x \in Nat, x = a + 1 + i
      PROVE  x % MemSize = IF a + 1 + i < MemSize THEN a + 1 + i ELSE a + 1 + i - MemSize
  <2>1. x < MemSize + MemSize
    BY <1>1 DEF Addrs
  <2>2. x % MemSize = IF x < MemSize THEN x ELSE x - MemSize
    BY <2>1, OnceAround
  <2> QED BY <1>1, <2>2 DEF Addrs
<1>2. a + 1 + i \in Nat
  BY DEF Addrs
<1>3. (a + 1 + i) % MemSize = IF a + 1 + i < MemSize THEN a + 1 + i ELSE a + 1 + i - MemSize
  BY <1>1, <1>2
<1> QED BY <1>2, <1>3 DEF Cell, Addrs

LEMMA CellsApart ==
    ASSUME NEW a \in Addrs, NEW i \in 0 .. MemSize - 1, NEW j \in 0 .. MemSize - 1, i # j
    PROVE  Cell(a, i) # Cell(a, j)
<1>1. Cell(a, i) = IF a + 1 + i < MemSize THEN a + 1 + i ELSE a + 1 + i - MemSize
  BY CellIs
<1>2. Cell(a, j) = IF a + 1 + j < MemSize THEN a + 1 + j ELSE a + 1 + j - MemSize
  BY CellIs
<1> QED BY <1>1, <1>2 DEF Addrs

\* The next cell is the one that the incremented current address points to.
LEMMA CellNext ==
    ASSUME NEW a \in Addrs, NEW k \in Nat
    PROVE  /\ (((a + k) % MemSize) + 1) % MemSize = Cell(a, k)
           /\ (((a + k) % MemSize) + 1) % MemSize = (a + (k + 1)) % MemSize
<1>1. a + k \in Nat
  BY DEF Addrs
<1>2. (((a + k) % MemSize) + 1) % MemSize = ((a + k) + 1) % MemSize
  BY <1>1, ModSuccessor
<1>3. (a + k) + 1 = a + 1 + k /\ (a + k) + 1 = a + (k + 1)
  BY DEF Addrs
<1> QED BY <1>2, <1>3 DEF Cell

-----------------------------------------------------------------------------
(* A block turned around twice is the block. *)

LEMMA WordSplit ==
    ASSUME NEW w \in Words
    PROVE  /\ w % Base \in 0 .. Base - 1 /\ w \div Base \in 0 .. Base - 1
           /\ w = Base * (w \div Base) + (w % Base)
<1>1. w \in Nat /\ w < Base * Base
  <2>1. Base * Base \in Nat
    BY SMTT(30)
  <2> QED BY <2>1 DEF Words, WordSize
<1>2. w \div Base < Base
  BY <1>1, DivMonotone
<1>3. /\ w % Base \in 0 .. Base - 1 /\ w \div Base \in Nat
      /\ w = Base * (w \div Base) + (w % Base)
  BY <1>1, DivMod
<1>4. w \div Base \in 0 .. Base - 1
  BY <1>2, <1>3
<1> QED BY <1>3, <1>4

LEMMA OcarrayIs ==
    ASSUME NEW h \in 0 .. Base - 1, NEW l \in 0 .. Base - 1, NEW w, w = Base * h + l
    PROVE  /\ w \in Words
           /\ ocarray(w) = Base * (Base - 1 - l) + (Base - 1 - h)
<1>1. w \div Base = h /\ w % Base = l
  BY DivModIs
<1>2. ocarray(w) = WordSize - 1 - (l * Base + h)
  BY <1>1 DEF ocarray
<1>3. Base * (Base - 1 - l) = Base * Base - Base - l * Base
  BY SMTT(30)
<1>4. Base * Base \in Nat /\ l * Base \in Nat /\ Base * (Base - 1 - l) \in Int
  BY SMTT(30)
<1>5. Base * h + Base =< Base * Base /\ Base * h \in Nat
  <2>1. Base * (h + 1) =< Base * Base
    BY SMTT(30)
  <2>2. Base * (h + 1) = Base * h + Base /\ Base * h \in Nat
    BY SMTT(30)
  <2> QED BY <2>1, <2>2, <1>4
<1>6. ocarray(w) = Base * (Base - 1 - l) + (Base - 1 - h)
  BY <1>2, <1>3, <1>4 DEF WordSize
<1>7. w \in Words
  BY <1>4, <1>5 DEF Words, WordSize
<1> QED BY <1>6, <1>7

LEMMA OcarrayTwice ==
    ASSUME NEW w \in Words
    PROVE  ocarray(w) \in Words /\ ocarray(ocarray(w)) = w
<1> DEFINE h == w \div Base
           l == w % Base
           v == ocarray(w)
           m == Base - 1 - l
           n == Base - 1 - h
<1>1. h \in 0 .. Base - 1 /\ l \in 0 .. Base - 1 /\ w = Base * h + l
  BY WordSplit
<1> HIDE DEF h, l
<1>2. v = Base * m + n
  BY <1>1, OcarrayIs
<1>3. m \in 0 .. Base - 1 /\ n \in 0 .. Base - 1 /\ Base - 1 - n = h /\ Base - 1 - m = l
  BY <1>1
<1> HIDE DEF m, n, v
<1>4. v \in Words /\ ocarray(v) = Base * (Base - 1 - n) + (Base - 1 - m)
  BY <1>2, <1>3, OcarrayIs
<1>5. ocarray(v) = w
  BY <1>1, <1>3, <1>4
<1> QED BY <1>4, <1>5 DEF v

LEMMA OrientedTyped ==
    ASSUME NEW s \in Seq(Words), NEW rev \in BOOLEAN
    PROVE  /\ Oriented(s, rev) \in Seq(Words) /\ Len(Oriented(s, rev)) = Len(s)
           /\ rev => \A i \in 1 .. Len(s) : Oriented(s, rev)[i] = ocarray(s[Len(s) + 1 - i])
<1>1. CASE ~ rev
  BY <1>1 DEF Oriented
<1>2. CASE rev
  <2>1. Oriented(s, rev) = [i \in 1 .. Len(s) |-> ocarray(s[Len(s) + 1 - i])]
    BY <1>2 DEF Oriented
  <2>2. \A i \in 1 .. Len(s) : ocarray(s[Len(s) + 1 - i]) \in Words
    <3> SUFFICES ASSUME NEW i \in 1 .. Len(s) PROVE ocarray(s[Len(s) + 1 - i]) \in Words
      OBVIOUS
    <3>1. s[Len(s) + 1 - i] \in Words
      OBVIOUS
    <3> QED BY <3>1, OcarrayTwice
  <2>3. Len(s) \in Nat
    OBVIOUS
  <2> HIDE DEF Oriented
  <2> QED BY <2>1, <2>2, <2>3
<1> QED BY <1>1, <1>2

LEMMA OrientedTwice ==
    ASSUME NEW s \in Seq(Words), NEW rev \in BOOLEAN
    PROVE  Oriented(Oriented(s, rev), rev) = s
<1>1. CASE ~ rev
  BY <1>1 DEF Oriented
<1>2. CASE rev
  <2> DEFINE u == Oriented(s, rev)
             v == Oriented(u, rev)
  <2>1. /\ u \in Seq(Words) /\ Len(u) = Len(s)
        /\ \A i \in 1 .. Len(s) : u[i] = ocarray(s[Len(s) + 1 - i])
    BY <1>2, OrientedTyped
  <2> HIDE DEF u
  <2>2. /\ v \in Seq(Words) /\ Len(v) = Len(u)
        /\ \A i \in 1 .. Len(u) : v[i] = ocarray(u[Len(u) + 1 - i])
    BY <1>2, <2>1, OrientedTyped
  <2> HIDE DEF v
  <2>3. ASSUME NEW i \in 1 .. Len(s) PROVE v[i] = s[i]
    <3> DEFINE j == Len(s) + 1 - i
    <3>1. j \in 1 .. Len(s) /\ Len(s) + 1 - j = i /\ s[i] \in Words
      OBVIOUS
    <3>2. v[i] = ocarray(u[j])
      BY <2>1, <2>2
    <3> HIDE DEF j
    <3>3. u[j] = ocarray(s[i])
      BY <2>1, <3>1
    <3> QED BY <3>1, <3>2, <3>3, OcarrayTwice
  <2>4. v = s
    BY <2>1, <2>2, <2>3
  <2> QED BY <2>4 DEF u, v
<1> QED BY <1>1, <1>2

LEMMA PerNat == ASSUME NEW c PROVE Per(c) \in Nat \ {0}
  BY DEF Per

LEMMA SeenTyped ==
    ASSUME NEW c \in StatusA, NEW t \in [BlockNos -> Block], NEW blk \in BlockNos
    PROVE  Seen(c, t, blk) \in Seq(Words) /\ Len(Seen(c, t, blk)) = Per(c)
<1>1. t[blk] \in Seq(Words) /\ Len(t[blk]) = BlockWords
  <2>1. t[blk] \in [1 .. BlockWords -> Words]
    BY DEF Block
  <2> QED BY <2>1
<1>2. blk \in Words /\ ocarray(blk) \in Words
  <2>1. WordSize \in Nat
    BY SMTT(30) DEF WordSize
  <2>2. blk \in Words
    BY <2>1 DEF BlockNos, Words
  <2> QED BY <2>2, OcarrayTwice
<1> DEFINE s == IF c.func = ReadAll THEN Framed(blk, t[blk]) ELSE t[blk]
<1>3. s \in Seq(Words) /\ Len(s) = Per(c)
  <2>1. CASE c.func = ReadAll
    BY <1>1, <1>2, <2>1 DEF Framed, Per
  <2>2. CASE c.func # ReadAll
    BY <1>1, <2>2 DEF Per
  <2> QED BY <2>1, <2>2
<1>4. c.rev \in BOOLEAN
  BY DEF StatusA
<1> HIDE DEF s
<1>5. Oriented(s, c.rev) \in Seq(Words) /\ Len(Oriented(s, c.rev)) = Per(c)
  BY <1>3, <1>4, OrientedTyped
<1> QED BY <1>5 DEF Seen, s

-----------------------------------------------------------------------------
(* The words and the places of words that are kept. *)

LEMMA WordsIn ==
    /\ 0 \in Words /\ BlockNos \subseteq Words /\ WordSize \in Nat /\ 0 \in BlockNos
    /\ 0 \in Addrs /\ NoCommand \in StatusA /\ Nothing \in Asked
<1>1. WordSize \in Nat
  BY SMTT(30) DEF WordSize
<1>2. 0 \in Words /\ BlockNos \subseteq Words /\ 0 \in BlockNos
  BY <1>1 DEF Words, BlockNos
<1>3. 0 \in Addrs /\ NoCommand \in StatusA
  BY DEF Addrs, NoCommand, StatusA
<1>4. Nothing \in Asked
  BY <1>3 DEF Nothing, Asked
<1> QED BY <1>1, <1>2, <1>3, <1>4

LEMMA Counted ==
    ASSUME Counts, wc \in Addrs, ca \in Addrs
    PROVE  /\ wc' \in Addrs /\ ca' \in Addrs /\ wcovf' \in BOOLEAN
           /\ wc' = IF wcovf' THEN 0 ELSE wc + 1
           /\ wcovf' <=> wc = MemSize - 1
<1>1. wc' = (wc + 1) % MemSize /\ ca' = (ca + 1) % MemSize /\ wcovf' = (wc = MemSize - 1)
  BY DEF Counts
<1>2. ASSUME NEW x \in Addrs PROVE (x + 1) % MemSize \in Addrs
  <2>1. x + 1 \in Nat
    BY DEF Addrs
  <2>2. (x + 1) % MemSize \in 0 .. MemSize - 1
    BY <2>1, DivMod
  <2> QED BY <2>2 DEF Addrs
<1>3. (wc + 1) % MemSize = IF wc = MemSize - 1 THEN 0 ELSE wc + 1
  <2>1. wc % MemSize = wc /\ wc \in Nat
    BY SmallDivMod DEF Addrs
  <2>2. CASE wc = MemSize - 1
    BY <2>1, <2>2, NextDivMod
  <2>3. CASE wc # MemSize - 1
    BY <2>1, <2>3, NextDivMod
  <2> QED BY <2>2, <2>3
<1> QED BY <1>1, <1>2, <1>3

LEMMA BlockOfPosition == ASSUME NEW pos \in 0 .. TapeEnd PROVE pos \div 4 \in BlockNos
  BY BlocksNat DEF BlockNos

LEMMA PaddedTyped ==
    ASSUME NEW s \in Seq(Words), Len(s) <= BlockWords, ta \in StatusA
    PROVE  /\ Padded(s) \in Block
           /\ Oriented(Padded(s), ta.rev) = s \o [i \in 1 .. BlockWords - Len(s) |-> 0]
<1> DEFINE z == [i \in 1 .. BlockWords - Len(s) |-> 0]
           f == s \o z
<1>1. z \in Seq(Words) /\ Len(z) = BlockWords - Len(s)
  BY WordsIn
<1> HIDE DEF z
<1>2. f \in Seq(Words) /\ Len(f) = BlockWords
  BY <1>1
<1>3. ta.rev \in BOOLEAN
  BY DEF StatusA
<1> HIDE DEF f
<1>4. Oriented(f, ta.rev) \in Seq(Words) /\ Len(Oriented(f, ta.rev)) = BlockWords
  BY <1>2, <1>3, OrientedTyped
<1>5. Oriented(Oriented(f, ta.rev), ta.rev) = f
  BY <1>2, <1>3, OrientedTwice
<1>6. Padded(s) = Oriented(f, ta.rev)
  BY DEF Padded, f, z
<1> HIDE DEF Oriented
<1>7. Oriented(f, ta.rev) \in Block
  BY <1>4 DEF Block
<1> QED BY <1>5, <1>6, <1>7 DEF f, z

LEMMA PassingStores ==
    ASSUME Typed, Passing
    PROVE  /\ tapepos' \in 0 .. TapeEnd /\ last' = tapepos' \div 4 /\ last' \in BlockNos
           /\ \/ apc' = "goff" /\ tb' = tb \cup {"ERR", "EOT"} /\ buff' = buff
              \/ /\ apc' = "send" /\ ta.func \in {ReadData, ReadAll}
                 /\ buff' = Seen(ta, tape, last') /\ ~ stepxfer(tapepos, ta.rev).end
              \/ apc' = "gather" /\ ta.func = WriteData /\ buff' = <<>>
                 /\ ~ stepxfer(tapepos, ta.rev).end
<1>1. tapepos' = stepxfer(tapepos, ta.rev).pos /\ last' = tapepos' \div 4
  BY PassingMoves DEF Typed, Passing
<1>2. tapepos' \in 0 .. TapeEnd
  BY <1>1, XferStep, BlocksNat DEF Typed, OnTape
<1>3. last' \in BlockNos
  BY <1>1, <1>2, BlockOfPosition
<1>4. \/ apc' = "goff" /\ tb' = tb \cup {"ERR"} \cup {"EOT"} /\ buff' = buff
      \/ /\ apc' = "send" /\ ta.func \in {ReadData, ReadAll}
         /\ buff' = Oriented(IF ta.func = ReadAll THEN Framed(last', tape[last']) ELSE tape[last'], ta.rev)
         /\ ~ stepxfer(tapepos, ta.rev).end
      \/ apc' = "gather" /\ ta.func = WriteData /\ buff' = <<>>
         /\ ~ stepxfer(tapepos, ta.rev).end
  BY DEF Passing, Error, Go
<1> QED BY <1>1, <1>2, <1>3, <1>4 DEF Seen

LEMMA StoresStep == ASSUME Typed, [Next]_vars PROVE StoresTyped'
<1> USE DEF drive, thread, register, memory, history
<1>1. /\ mem \in [Addrs -> Words] /\ wc \in Addrs /\ ca \in Addrs
      /\ tape \in [BlockNos -> Block] /\ last \in BlockNos
      /\ buff \in Seq(Words) /\ wcovf \in BOOLEAN
      /\ asked \in Asked /\ waiting \in BOOLEAN
      /\ apc = "send" => buff # <<>>
      /\ apc = "gather" => Len(buff) < BlockWords
      /\ apc = "pwrite" => Len(buff) <= BlockWords
      /\ apc \in {"gather", "pwrite"} => tapepos \div 4 = last
  BY DEF Typed, StoresTyped
<1>2. CASE SetUp
  <2>1. wc' \in Addrs
    <3>1. PICK n \in WordCounts : wc' = (MemSize - n) % MemSize
      BY <1>2 DEF SetUp
    <3>2. MemSize - n \in Nat
      BY UseAssumption
    <3>3. (MemSize - n) % MemSize \in 0 .. MemSize - 1
      BY <3>2, DivMod
    <3> QED BY <3>1, <3>3 DEF Addrs
  <2>2. ca' \in Addrs
    BY <1>2 DEF SetUp, Addrs
  <2> QED BY <1>1, <1>2, <2>1, <2>2 DEF SetUp, StoresTyped
<1>3. CASE DTXA
  <2>1. asked' \in Asked /\ waiting' \in BOOLEAN
    <3>1. PICK c \in Commands :
            \/ waiting' = c.go /\ asked' = IF c.go THEN [cmd |-> c, count |-> MemSize - wc, addr |-> ca]
                                           ELSE Nothing
            \/ waiting' = FALSE /\ asked' = Nothing
      BY <1>3 DEF DTXA, Spoil
    <3>2. c \in StatusA /\ c.go \in BOOLEAN
      BY UseAssumption DEF StatusA
    <3>3. MemSize - wc \in 1 .. MemSize
      BY <1>1 DEF Addrs
    <3>4. [cmd |-> c, count |-> MemSize - wc, addr |-> ca] \in Asked
      BY <1>1, <3>2, <3>3 DEF Asked
    <3> QED BY <3>1, <3>2, <3>4, WordsIn
  <2> QED BY <1>1, <1>3, <2>1 DEF DTXA, StoresTyped
<1>4. CASE DTSF
  <2>1. apc \notin {"gather", "pwrite"}
    BY <1>4 DEF DTSF, Skip, Typed, Answering
  <2> QED BY <1>1, <1>4, <2>1, WordsIn DEF DTSF, StoresTyped
<1>5. CASE DTCA \/ Reset
  BY <1>1, <1>5, WordsIn DEF DTCA, Reset, Spoil, StoresTyped
<1>6. CASE Poll \/ Claim \/ LockDrive \/ Decode \/ Abort
  BY <1>1, <1>6 DEF Poll, Claim, LockDrive, Decode, Abort, StoresTyped, Go, Error
<1>7. CASE GoOffRead \/ GoOffWrite \/ FinRead \/ FinWrite \/ UnlockDrive
  BY <1>1, <1>7 DEF GoOffRead, GoOffWrite, FinRead, FinWrite, UnlockDrive, StoresTyped, Go
<1>8. CASE Skipping
  <2> DEFINE new == stepskip(tapepos, ta.rev)
             counts == ta.func = Search /\ ~ new.end
  <2>1. new.pos \in 0 .. TapeEnd
    BY SkipStep, BlocksNat DEF Typed, OnTape
  <2>2. new.pos \div 4 \in BlockNos /\ new.pos \div 4 \in Words
    BY <2>1, BlockOfPosition, WordsIn
  <2> HIDE DEF new
  <2>3. /\ last' = new.pos \div 4 /\ wcovf' \in BOOLEAN /\ apc' \in {"goff", "fin", "delay"}
        /\ wc' = (IF counts THEN (wc + 1) % MemSize ELSE wc)
        /\ mem' = IF counts THEN [mem EXCEPT ![ca] = new.pos \div 4] ELSE mem
        /\ UNCHANGED <<buff, tape, ca, asked, waiting>>
    BY <1>8 DEF Skipping, Error, Success, Go, new
  <2>4. wc' \in Addrs
    <3>1. wc + 1 \in Nat
      BY <1>1 DEF Addrs
    <3>2. (wc + 1) % MemSize \in 0 .. MemSize - 1
      BY <3>1, DivMod
    <3> QED BY <1>1, <2>3, <3>2 DEF Addrs
  <2>5. mem' \in [Addrs -> Words]
    BY <1>1, <2>2, <2>3
  <2> QED BY <1>1, <2>2, <2>3, <2>4, <2>5 DEF StoresTyped
<1>9. CASE Passing
  <2>1. /\ last' = tapepos' \div 4 /\ last' \in BlockNos
        /\ \/ apc' = "goff" /\ buff' = buff
           \/ apc' = "send" /\ buff' = Seen(ta, tape, last')
           \/ apc' = "gather" /\ buff' = <<>>
    BY <1>9, PassingStores
  <2>2. Seen(ta, tape, last') \in Seq(Words) /\ Len(Seen(ta, tape, last')) = Per(ta)
    BY <1>1, <2>1, SeenTyped DEF Typed, RegisterTyped
  <2>3. Seen(ta, tape, last') # <<>>
    BY <2>2, PerNat
  <2>4. UNCHANGED <<mem, wc, ca, tape, wcovf, asked, waiting>>
    BY <1>9 DEF Passing
  <2>5. buff' \in Seq(Words) /\ (apc' = "send" => buff' # <<>>)
    <3>1. <<>> \in Seq(Words)
      OBVIOUS
    <3>2. buff' \in {buff, Seen(ta, tape, last'), <<>>}
          /\ (apc' = "send" => buff' = Seen(ta, tape, last'))
      BY <2>1
    <3> HIDE DEF Seen
    <3> QED BY <1>1, <2>2, <2>3, <3>1, <3>2
  <2>6. apc' = "gather" => Len(buff') < BlockWords
    BY <2>1
  <2>7. apc' # "pwrite"
    BY <2>1
  <2> QED BY <1>1, <2>1, <2>4, <2>5, <2>6, <2>7 DEF StoresTyped
<1>10. CASE Send
  <2>1. wc' \in Addrs /\ ca' \in Addrs /\ wcovf' \in BOOLEAN
    BY <1>1, <1>10, Counted DEF Send
  <2>2. Head(buff) \in Words /\ Tail(buff) \in Seq(Words)
    BY <1>1, <1>10 DEF Send
  <2>3. mem' \in [Addrs -> Words]
    BY <1>1, <1>10, <2>1, <2>2 DEF Send
  <2>4. \/ apc' \in {"delay", "fin"} /\ buff' = <<>>
        \/ apc' = "send" /\ buff' = Tail(buff) /\ Tail(buff) # <<>>
    BY <1>10 DEF Send, Continue, Success, Go
  <2>5. buff' \in Seq(Words) /\ (apc' = "send" => buff' # <<>>) /\ apc' \notin {"gather", "pwrite"}
    <3>1. <<>> \in Seq(Words)
      OBVIOUS
    <3> QED BY <2>2, <2>4, <3>1, Zenon
  <2>6. UNCHANGED <<tape, last, asked, waiting>>
    BY <1>10 DEF Send
  <2> QED BY <1>1, <2>1, <2>3, <2>5, <2>6 DEF StoresTyped
<1>11. CASE Gather
  <2>1. wc' \in Addrs /\ ca' \in Addrs /\ wcovf' \in BOOLEAN
    BY <1>1, <1>11, Counted DEF Gather
  <2>2. buff' \in Seq(Words) /\ Len(buff') = Len(buff) + 1
    <3>1. mem[ca'] \in Words
      BY <1>1, <2>1
    <3> QED BY <1>1, <1>11, <3>1 DEF Gather
  <2>3. apc = "gather" /\ (apc' = "pwrite" \/ (apc' = "gather" /\ Len(buff') # BlockWords))
    BY <1>11 DEF Gather, Go
  <2>4. Len(buff) \in Nat
    BY <1>1
  <2> QED BY <1>1, <1>11, <2>1, <2>2, <2>3, <2>4 DEF Gather, StoresTyped
<1>12. CASE Pwrite
  <2>1. Padded(buff) \in Block
    BY <1>1, <1>12, PaddedTyped DEF Pwrite, Typed, RegisterTyped
  <2>2. tape' \in [BlockNos -> Block]
    BY <1>1, <1>12, <2>1 DEF Pwrite
  <2>3. apc' \in {"delay", "fin"}
    BY <1>12 DEF Pwrite, Continue, Success, Go
  <2> QED BY <1>1, <1>12, <2>2, <2>3 DEF Pwrite, StoresTyped
<1>13. CASE LoadTape \/ UnloadTape
  BY <1>1, <1>13 DEF LoadTape, UnloadTape, StoresTyped, Typed, Writable
<1>14. CASE UNCHANGED vars
  BY <1>1, <1>14 DEF vars, StoresTyped
<1> QED BY <1>2, <1>3, <1>4, <1>5, <1>6, <1>7, <1>8, <1>9, <1>10, <1>11, <1>12, <1>13, <1>14
        DEF Next, Pdp, Thread

-----------------------------------------------------------------------------
(* Words alike stay alike. *)

LEMMA AlikeMore ==
    ASSUME NEW a \in Asked, NEW k \in 0 .. a.count - 1, NEW m \in [Addrs -> Words],
           NEW t, NEW l \in BlockNos, NEW w, w = Seen(a.cmd, t, l)[(k % Per(a.cmd)) + 1],
           Alike(k, k \div Per(a.cmd), a, m, t, l)
    PROVE  Alike(k + 1, k \div Per(a.cmd), a, [m EXCEPT ![Cell(a.addr, k)] = w], t, l)
<1> DEFINE p == Per(a.cmd)
           M == [m EXCEPT ![Cell(a.addr, k)] = w]
<1>1. /\ p \in Nat \ {0} /\ k \in Nat /\ k \in 0 .. MemSize - 1 /\ a.addr \in Addrs
      /\ a.count \in 1 .. MemSize
  BY PerNat DEF Asked
<1>2. k \div p \in Nat
  BY <1>1, DivMod
<1> SUFFICES ASSUME NEW i \in 0 .. k
             PROVE  LET blk == Back(a.cmd, l, (k \div p) - i \div p)
                    IN  blk \in BlockNos /\ M[Cell(a.addr, i)] = Seen(a.cmd, t, blk)[(i % p) + 1]
  BY <1>1 DEF Alike
<1>3. i \in 0 .. MemSize - 1
  BY <1>1
<1>4. Cell(a.addr, k) \in Addrs /\ Cell(a.addr, i) \in Addrs
  BY <1>1, <1>3, CellIs
<1>5. CASE i = k
  <2>1. (k \div p) - i \div p = 0
    BY <1>2, <1>5
  <2>2. Back(a.cmd, l, 0) = l
    BY DEF Back, BlockNos
  <2>3. M[Cell(a.addr, i)] = w
    BY <1>4, <1>5
  <2> HIDE DEF p, M
  <2> QED BY <1>5, <2>1, <2>2, <2>3 DEF p
<1>6. CASE i # k
  <2>1. i \in 0 .. k - 1
    BY <1>1, <1>6
  <2>2. LET blk == Back(a.cmd, l, (k \div p) - i \div p)
        IN  blk \in BlockNos /\ m[Cell(a.addr, i)] = Seen(a.cmd, t, blk)[(i % p) + 1]
    BY <2>1 DEF Alike
  <2>3. Cell(a.addr, i) # Cell(a.addr, k)
    BY <1>1, <1>3, <1>6, CellsApart
  <2>4. M[Cell(a.addr, i)] = m[Cell(a.addr, i)]
    BY <1>4, <2>3
  <2> HIDE DEF p, M
  <2> QED BY <2>2, <2>4
<1> QED BY <1>5, <1>6

LEMMA NextBlock ==
    ASSUME NEW l \in BlockNos, NEW l2 \in BlockNos, NEW rev,
           (IF rev THEN l ELSE l + 1) = IF rev THEN l2 + 1 ELSE l2
    PROVE  l2 = IF rev THEN l - 1 ELSE l + 1
<1>1. l \in Nat /\ l2 \in Nat
  BY BlocksNat DEF BlockNos
<1> QED BY <1>1

\* The next block is passed.
LEMMA AlikeShift ==
    ASSUME NEW a \in Asked, NEW k \in Nat, NEW n \in Nat, NEW m, NEW t,
           NEW l \in BlockNos, NEW l2 \in BlockNos, l2 = IF a.cmd.rev THEN l - 1 ELSE l + 1,
           Alike(k, n - 1, a, m, t, l)
    PROVE  Alike(k, n, a, m, t, l2)
<1>1. ASSUME NEW x \in Nat PROVE Back(a.cmd, l2, n - x) = Back(a.cmd, l, n - 1 - x)
  BY DEF Back, BlockNos
<1>2. ASSUME NEW i \in 0 .. k - 1 PROVE i \div Per(a.cmd) \in Nat
  BY PerNat, DivMod
<1> SUFFICES ASSUME NEW i \in 0 .. k - 1
             PROVE  LET blk == Back(a.cmd, l2, n - i \div Per(a.cmd))
                    IN  blk \in BlockNos
                        /\ m[Cell(a.addr, i)] = Seen(a.cmd, t, blk)[(i % Per(a.cmd)) + 1]
  BY DEF Alike
<1>3. LET blk == Back(a.cmd, l, n - 1 - i \div Per(a.cmd))
      IN  blk \in BlockNos
          /\ m[Cell(a.addr, i)] = Seen(a.cmd, t, blk)[(i % Per(a.cmd)) + 1]
  BY DEF Alike
<1>4. Back(a.cmd, l2, n - i \div Per(a.cmd)) = Back(a.cmd, l, n - 1 - i \div Per(a.cmd))
  BY <1>1, <1>2
<1> QED BY <1>3, <1>4

\* The block last passed is written from the words s, which are those in memory from
\* word base on.
LEMMA AlikeWritten ==
    ASSUME NEW a \in Asked, a.cmd.func = WriteData, NEW n \in Nat, NEW m,
           NEW t \in [BlockNos -> Block], NEW l \in BlockNos, NEW b \in Block,
           NEW u, u = [t EXCEPT ![l] = b], NEW p, p = Per(a.cmd), NEW base, base = p * n,
           NEW s \in Seq(Words), Len(s) <= BlockWords, NEW z,
           z = [i \in 1 .. BlockWords - Len(s) |-> 0],
           Oriented(b, a.cmd.rev) = s \o z,
           Alike(base, n, a, m, t, l),
           \A j \in 1 .. Len(s) : s[j] = m[Cell(a.addr, base + j - 1)]
    PROVE  Alike(base + Len(s), n, a, m, u, l)
<1>1. p = BlockWords /\ p \in Nat \ {0}
  BY DEF Per, WriteData, ReadAll
<1>2. base \in Nat /\ Len(s) \in Nat
  BY <1>1, SMTT(30)
<1>3. Seen(a.cmd, u, l) = s \o z
  <2>1. u[l] = b
    OBVIOUS
  <2>2. a.cmd.func # ReadAll
    BY DEF WriteData, ReadAll
  <2> QED BY <2>1, <2>2 DEF Seen
<1>4. ASSUME NEW blk \in BlockNos, blk # l PROVE Seen(a.cmd, u, blk) = Seen(a.cmd, t, blk)
  <2>1. u[blk] = t[blk]
    BY <1>4
  <2> QED BY <2>1 DEF Seen
<1>5. ASSUME NEW i \in 0 .. (base + Len(s)) - 1
      PROVE  LET blk == Back(a.cmd, l, n - i \div p)
             IN  blk \in BlockNos /\ m[Cell(a.addr, i)] = Seen(a.cmd, u, blk)[(i % p) + 1]
  <2>5. CASE i < base
    <3>1. i \in 0 .. base - 1 /\ i \in Nat
      BY <1>2, <2>5
    <3>2. LET blk == Back(a.cmd, l, n - i \div p)
          IN  blk \in BlockNos /\ m[Cell(a.addr, i)] = Seen(a.cmd, t, blk)[(i % p) + 1]
      BY <3>1 DEF Alike
    <3>3. i \div p \in Nat /\ i \div p < n
      BY <1>1, <2>5, <3>1, DivMod, DivMonotone
    <3>4. Back(a.cmd, l, n - i \div p) # l
      BY <3>3 DEF Back, BlockNos
    <3> QED BY <1>4, <3>2, <3>4
  <2>6. CASE ~ i < base
    <3>1. i - base \in 0 .. p - 1 /\ i - base \in 0 .. Len(s) - 1 /\ base + (i - base) = i
      BY <1>1, <1>2, <2>6
    <3> DEFINE r == i - base
    <3>2. (base + r) \div p = n /\ (base + r) % p = r
      <4>1. r \in 0 .. p - 1
        BY <3>1
      <4> HIDE DEF r
      <4>2. (p * n + r) \div p = n /\ (p * n + r) % p = r
        BY <1>1, <4>1, DivModIs
      <4> QED BY <4>2
    <3>3. i \div p = n /\ i % p = r
      BY <3>1, <3>2
    <3>4. Back(a.cmd, l, n - i \div p) = l
      BY <3>3 DEF Back, BlockNos
    <3>5. r + 1 \in 1 .. Len(s) /\ base + (r + 1) - 1 = i
      <4>1. r \in 0 .. Len(s) - 1 /\ base + r = i
        BY <3>1
      <4> HIDE DEF r
      <4> QED BY <1>2, <4>1
    <3> HIDE DEF r
    <3>6. s[r + 1] = m[Cell(a.addr, i)]
      <4>1. s[r + 1] = m[Cell(a.addr, base + (r + 1) - 1)]
        BY <3>5
      <4> QED BY <3>5, <4>1
    <3>7. (s \o z)[r + 1] = s[r + 1]
      <4>1. z \in Seq(Words)
        <5>1. BlockWords - Len(s) \in Nat /\ 0 \in Words
          BY <1>1, <1>2, WordsIn
        <5> QED BY <5>1
      <4> QED BY <3>5, <4>1
    <3> QED BY <1>3, <3>3, <3>4, <3>6, <3>7
  <2> QED BY <2>5, <2>6
<1> QED BY <1>5 DEF Alike

-----------------------------------------------------------------------------
(* The program's steps and the thread's, but for the transfer of words. *)

LEMMA ServedPdp == ASSUME Typed, Served, Pdp PROVE Served'
<1> SUFFICES ASSUME waiting' PROVE Served'
  BY DEF Served
<1>1. waiting \in BOOLEAN
  BY DEF Typed, StoresTyped
<1>2. DTXA
  BY <1>1 DEF Pdp, SetUp, DTCA, DTSF, Reset, Spoil, history
<1>3. PICK c \in Commands :
        /\ status_a' = c /\ status_b' = {} /\ c.go
        /\ asked' = [cmd |-> c, count |-> MemSize - wc, addr |-> ca]
        /\ apc \in {"sleep", "unlock", "aborted"} /\ apc' = apc /\ UNCHANGED <<wc, ca>>
  <2>1. PICK c \in Commands, keeps \in BOOLEAN, keepe \in BOOLEAN :
          /\ status_a' = c
          /\ status_b' = status_b \cap ((IF keeps THEN {"SUC"} ELSE {}) \cup
                                        (IF keepe THEN {"ERR", "EOT", "SEL"} ELSE {}))
          /\ Quiet /\ ~ waiting /\ ~ keeps /\ ~ keepe
          /\ waiting' = c.go
          /\ asked' = IF c.go THEN [cmd |-> c, count |-> MemSize - wc, addr |-> ca] ELSE Nothing
    BY <1>2 DEF DTXA, Spoil
  <2>2. UNCHANGED <<thread, memory>>
    BY <1>2 DEF DTXA
  <2>3. status_b' = {} /\ c.go
    BY <2>1
  <2> QED BY <2>1, <2>2, <2>3 DEF thread, memory, Quiet
<1>4. asked'.cmd = c /\ asked'.count = MemSize - wc /\ asked'.addr = ca
  BY <1>3
<1>5. Untouched'
  <2>1. wc + (MemSize - wc) = MemSize
    BY DEF Typed, StoresTyped, Addrs
  <2> QED BY <1>3, <1>4, <2>1 DEF Untouched
<1> QED BY <1>3, <1>4, <1>5 DEF Served

LEMMA ServedOperator == ASSUME Typed, Served, LoadTape \/ UnloadTape PROVE Served'
<1>1. /\ UNCHANGED <<register, thread, tape, memory, asked, waiting, last>>
      /\ UNCHANGED tapepos \/ apc \notin {"delay", "send", "gather", "pwrite"}
  BY DEF LoadTape, UnloadTape, history, Typed, Writable
<1> QED BY <1>1 DEF Served, Untouched, Between, Sending, Gathering, Gathered, ToWrite, Done,
                    register, thread, memory

LEMMA ServedStutter == ASSUME Typed, Served, UNCHANGED vars PROVE Served'
  BY DEF Served, Untouched, Between, Sending, Gathering, Gathered, ToWrite, Done,
         vars, register, thread, memory, drive, history

\* Before the tape moves
LEMMA ServedBegin ==
    ASSUME Typed, Served, Poll \/ Claim \/ LockDrive \/ Decode, waiting'
    PROVE  Served'
<1>0. /\ waiting /\ UNCHANGED <<asked, waiting, tape, mem, wc, ca, last>>
      /\ asked \in Asked /\ wc \in Addrs /\ wcovf \in BOOLEAN
  BY DEF Poll, Claim, LockDrive, Decode, history, memory, Typed, StoresTyped
<1>1. CASE Poll
  <2>1. apc = "sleep" /\ apc' = "claim" /\ status_b = {}
    BY <1>0, <1>1 DEF Poll, Go, Typed, Answering
  <2>2. old'.a = status_a
    <3>1. old' = [a |-> status_a, b |-> status_b, pend |-> iopend]
      BY <1>1 DEF Poll, ReadAs
    <3> QED BY <3>1
  <2> QED BY <1>0, <2>1, <2>2 DEF Served, Untouched
<1>2. CASE Claim
  <2>1. apc = "claim" /\ apc' = "lock" /\ ta' = old.a /\ ~ wcovf'
    BY <1>2 DEF Claim, Go
  <2> QED BY <1>0, <2>1 DEF Served, Untouched
<1>3. CASE LockDrive
  <2>1. apc = "lock" /\ apc' = "decode" /\ ta' = ta /\ wcovf' = wcovf
    BY <1>3 DEF LockDrive, Go
  <2> QED BY <1>0, <2>1 DEF Served, Untouched
<1>4. CASE Decode
  <2>1. /\ apc = "decode" /\ ta = asked.cmd /\ asked.cmd.go /\ Untouched /\ ~ wcovf /\ tb = {}
    BY <1>0, <1>4 DEF Decode, Served, Typed, Answering
  <2>2. \/ apc' = "goff" /\ tb' = tb \cup {"ERR"} \cup {"SEL"}
        \/ apc' = "delay" /\ tb' = tb
    BY <1>4, <2>1 DEF Decode, Error, Go
  <2>3. UNCHANGED <<ta, buff, wcovf, wc>>
    BY <1>0, <1>4 DEF Decode
  <2>4. Done = 0
    BY <1>0, <2>1 DEF Done, Untouched, Asked, Addrs
  <2>5. asked.addr = (asked.addr + 0) % MemSize
    <3>1. asked.addr \in 0 .. MemSize - 1
      BY <1>0 DEF Asked, Addrs
    <3>2. asked.addr % MemSize = asked.addr /\ asked.addr + 0 = asked.addr
      BY <3>1, SmallDivMod
    <3> QED BY <3>2
  <2>6. ~ wcovf' /\ 0 \in 0 .. asked.count - 1 /\ 0 % Per(asked.cmd) = 0
    <3>1. asked.count \in 1 .. MemSize /\ Per(asked.cmd) \in Nat \ {0}
      BY <1>0, PerNat DEF Asked
    <3>2. 0 \in 0 .. Per(asked.cmd) - 1
      BY <3>1
    <3> QED BY <2>1, <2>3, <3>1, <3>2, SmallDivMod
  <2>7. Done' = 0
    BY <1>0, <2>3, <2>4 DEF Done
  <2>8. Between(0, asked)'
    BY <1>0, <2>6 DEF Between
  <2>9. CASE apc' = "delay"
    <3>1. ca' = (asked.addr + 0) % MemSize
      BY <1>0, <2>1, <2>5 DEF Untouched
    <3>2. Between(Done, asked)'
      BY <1>0, <2>7, <2>8 DEF Between
    <3> QED BY <1>0, <2>1, <2>3, <2>7, <2>9, <3>1, <3>2 DEF Served
  <2>10. CASE apc' = "goff"
    <3>1. "SUC" \notin tb'
      BY <2>1, <2>2, <2>10
    <3> QED BY <1>0, <2>1, <2>10, <3>1 DEF Served
  <2> QED BY <2>2, <2>9, <2>10
<1> QED BY <1>1, <1>2, <1>3, <1>4

\* After it has
LEMMA ServedEnd ==
    ASSUME Typed, Served, waiting',
           GoOffRead \/ GoOffWrite \/ FinRead \/ FinWrite \/ UnlockDrive \/ Abort
    PROVE  Served'
<1>0. waiting /\ UNCHANGED <<asked, waiting, tape, mem, wc, ca, last>>
  BY DEF GoOffRead, GoOffWrite, FinRead, FinWrite, UnlockDrive, Abort, history, memory
<1>1. CASE GoOffRead \/ GoOffWrite \/ FinRead
  <2>1. /\ apc \in {"goff", "goffw", "fin"} /\ apc' \in {"goffw", "fin", "finw"} /\ tb' = tb
    BY <1>1 DEF GoOffRead, GoOffWrite, FinRead, Go
  <2> QED BY <1>0, <2>1 DEF Served
<1>2. CASE FinWrite
  <2>1. apc = "finw" /\ apc' = "unlock" /\ status_b' = tb
    BY <1>2 DEF FinWrite, Go, WriteRegister, Typed, RegisterTyped
  <2>2. tb # {}
    BY <1>0, <2>1 DEF Typed, Answering, Outcome
  <2> QED BY <1>0, <2>1, <2>2 DEF Served
<1>3. CASE UnlockDrive
  <2>1. apc = "unlock" /\ apc' = "sleep" /\ UNCHANGED <<status_a, status_b>>
    BY <1>3 DEF UnlockDrive, Go, register
  <2> QED BY <1>0, <2>1 DEF Served, Untouched
<1>4. CASE Abort
  <2>1. apc' = "aborted"
    BY <1>4 DEF Abort, Go
  <2> QED BY <1>0, <2>1 DEF Served
<1> QED BY <1>1, <1>2, <1>3, <1>4

LEMMA ServedSkipping == ASSUME Typed, Served, Skipping, waiting' PROVE Served'
<1>1. /\ apc = "delay" /\ ta.func \in {Move, Search} /\ apc' \in {"delay", "goff", "fin"}
      /\ UNCHANGED <<ta, asked, waiting>>
  BY DEF Skipping, Error, Success, Go
<1>2. ta = asked.cmd /\ asked.cmd.func \notin Transfers
  BY <1>1 DEF Served, Transfers, Move, Search, ReadData, ReadAll, WriteData
<1> QED BY <1>1, <1>2 DEF Served, Finished

-----------------------------------------------------------------------------
(* The words one by one. *)

LEMMA ServedPassing == ASSUME Typed, Served, Passing, waiting' PROVE Served'
<1> DEFINE k == Done
           c == asked.cmd
           p == Per(asked.cmd)
<1>0. /\ waiting /\ apc = "delay" /\ ta = c /\ asked.cmd.go /\ asked \in Asked /\ tb = {}
      /\ UNCHANGED <<ta, wcovf, tape, mem, wc, ca, asked, waiting>>
      /\ ta.func \notin {Move, Search}
  BY DEF Passing, memory, Served, Typed, Answering, StoresTyped
<1>1. /\ tapepos' \in 0 .. TapeEnd /\ last' = tapepos' \div 4 /\ last' \in BlockNos
      /\ last \in BlockNos
      /\ \/ apc' = "goff" /\ tb' = tb \cup {"ERR", "EOT"} /\ buff' = buff
         \/ /\ apc' = "send" /\ ta.func \in {ReadData, ReadAll}
            /\ buff' = Seen(ta, tape, last') /\ ~ stepxfer(tapepos, ta.rev).end
         \/ apc' = "gather" /\ ta.func = WriteData /\ buff' = <<>>
            /\ ~ stepxfer(tapepos, ta.rev).end
  BY PassingStores DEF Typed, StoresTyped
<1>2. CASE apc' = "goff"
  <2>1. "SUC" \notin tb'
    BY <1>0, <1>1, <1>2
  <2> QED BY <1>0, <1>2, <2>1 DEF Served
<1>3. CASE apc' # "goff"
  <2>1. c.func \in Transfers /\ ~ stepxfer(tapepos, ta.rev).end
    BY <1>0, <1>1, <1>3 DEF Transfers
  <2>2. Between(k, asked) /\ ca = (asked.addr + k) % MemSize
    BY <1>0, <2>1 DEF Served
  <2>3. /\ ~ wcovf /\ k \in 0 .. asked.count - 1 /\ k % p = 0 /\ p \in Nat \ {0}
        /\ k > 0 => c.contin /\ Alike(k, (k \div p) - 1, asked, mem, tape, last)
                             /\ Headed(c, tapepos, last)
    BY <2>2, PerNat DEF Between
  <2>4. k \in Nat /\ k \div p \in Nat /\ k = p * (k \div p) + (k % p) /\ Done' = k
    <3>1. k \in Nat /\ Done' = k
      BY <1>0, <2>3 DEF Asked, Done
    <3> HIDE DEF k, p
    <3> QED BY <2>3, <3>1, DivMod
  <2>5. Headed(c, tapepos', last')
        /\ DataParts(tapepos) = IF c.rev THEN last' + 1 ELSE last'
    <3>1. tapepos' = stepxfer(tapepos, ta.rev).pos
      BY PassingMoves DEF Typed
    <3>2. c.rev \in BOOLEAN
      BY <1>0 DEF Asked, StatusA
    <3>3. DataParts(tapepos) # IF c.rev THEN 0 ELSE Blocks
      BY <1>0, <2>1, <3>1, <3>2, XferStep, BlocksNat DEF Typed, OnTape, Result, AtStart
    <3>4. CASE c.rev
      BY <1>0, <1>1, <2>1, <3>1, <3>3, <3>4, XferStep, BlocksNat DEF Typed, OnTape, Headed
    <3>5. CASE ~ c.rev
      BY <1>0, <1>1, <2>1, <3>1, <3>3, <3>5, XferStep, BlocksNat DEF Typed, OnTape, Headed
    <3> QED BY <3>4, <3>5
  <2>6. Alike(k, k \div p, asked, mem, tape, last')
    <3>1. CASE k = 0
      BY <3>1 DEF Alike
    <3>2. CASE k # 0
      <4>1. Alike(k, (k \div p) - 1, asked, mem, tape, last) /\ Headed(c, tapepos, last)
        BY <2>3, <2>4, <3>2
      <4>2. last' = IF c.rev THEN last - 1 ELSE last + 1
        <5>1. (IF c.rev THEN last ELSE last + 1) = IF c.rev THEN last' + 1 ELSE last'
          BY <2>5, <4>1 DEF Headed
        <5> QED BY <1>1, <5>1, NextBlock
      <4> HIDE DEF k, p
      <4> QED BY <1>0, <1>1, <2>4, <4>1, <4>2, AlikeShift
    <3> QED BY <3>1, <3>2
  <2>7. k > 0 => c.contin
    BY <2>3
  <2>8. CASE apc' = "send"
    <3>1. buff' = Seen(c, tape, last') /\ Len(buff') = p
      BY <1>0, <1>1, <2>8, SeenTyped DEF Asked, Typed, StoresTyped
    <3> HIDE DEF k, p
    <3>2. Len(buff') = p - (k % p) /\ \A j \in 1 .. Len(buff') : (k % p) + j = j
      BY <2>3, <3>1
    <3>3. k >= p => c.contin
      BY <2>3, <2>4, <2>7
    <3>4. Sending(Done, asked)'
      BY <1>0, <2>3, <2>4, <2>5, <2>6, <3>1, <3>2, <3>3 DEF Sending, p
    <3>5. ca' = (asked.addr + k) % MemSize
      BY <1>0, <2>2 DEF k
    <3> QED BY <1>0, <2>1, <2>4, <2>8, <3>4, <3>5 DEF Served
  <2>9. CASE apc' = "gather"
    <3>1. Len(buff') = 0
      BY <1>1, <2>9
    <3> HIDE DEF k, p
    <3>2. k \div p > 0 => c.contin
      <4>1. k = 0 => k \div p = 0
        BY <2>3, SmallDivMod
      <4> QED BY <2>4, <2>7, <4>1
    <3>3. k - Len(buff') = k /\ k = p * (k \div p)
      <4>1. p * (k \div p) \in Nat
        BY <2>3, <2>4, SMTT(30)
      <4> QED BY <2>3, <2>4, <3>1, <4>1
    <3>4. Gathering(Done, asked)'
      BY <1>0, <2>3, <2>4, <2>5, <2>6, <3>1, <3>2, <3>3 DEF Gathering, Gathered, p
    <3>5. ca' = (asked.addr + k) % MemSize
      BY <1>0, <2>2 DEF k
    <3> QED BY <1>0, <2>1, <2>4, <2>9, <3>4, <3>5 DEF Served
  <2> QED BY <1>1, <1>3, <2>8, <2>9
<1> QED BY <1>2, <1>3

\* One more is counted.
LEMMA DoneNext ==
    ASSUME StoresTyped, Counts, ~ wcovf, UNCHANGED asked, Done \in 0 .. asked.count - 1,
           ca = (asked.addr + Done) % MemSize
    PROVE  /\ Done' = Done + 1
           /\ wcovf' <=> Done + 1 = asked.count
           /\ wcovf' => wc' = 0
           /\ (wc' + asked.count) % MemSize = (Done + 1) % MemSize
           /\ ca' = Cell(asked.addr, Done) /\ ca' = (asked.addr + (Done + 1)) % MemSize
<1>1. /\ wc' = (IF wcovf' THEN 0 ELSE wc + 1) /\ (wcovf' <=> wc = MemSize - 1)
      /\ wc \in Addrs /\ asked \in Asked
  BY Counted DEF StoresTyped
<1>2. /\ asked.count \in 1 .. MemSize /\ asked.addr \in Addrs /\ wc \in 0 .. MemSize - 1
      /\ Done = wc + asked.count - MemSize
  BY <1>1 DEF Done, Asked, Addrs
<1>3. wcovf' <=> Done + 1 = asked.count
  BY <1>1, <1>2
<1>4. Done' = Done + 1
  <2>1. CASE wcovf'
    BY <1>3, <2>1 DEF Done
  <2>2. CASE ~ wcovf'
    <3>1. Done' = wc' + asked.count - MemSize
      BY <2>2 DEF Done
    <3> QED BY <1>1, <1>2, <2>2, <3>1
  <2> QED BY <2>1, <2>2
<1>5. (wc' + asked.count) % MemSize = (Done + 1) % MemSize
  <2>1. CASE wcovf'
    <3>1. wc' + asked.count = Done + 1
      BY <1>1, <1>2, <1>3, <2>1
    <3> QED BY <3>1
  <2>2. CASE ~ wcovf'
    <3> DEFINE d == Done + 1
    <3>1. wc' + asked.count = MemSize + d /\ d \in 0 .. MemSize - 1
      BY <1>1, <1>2, <1>3, <2>2
    <3> HIDE DEF d
    <3>2. (MemSize * 1 + d) % MemSize = d
      BY <3>1, DivModIs, SizeAssumption
    <3>3. MemSize * 1 + d = MemSize + d
      BY <3>1
    <3>4. d % MemSize = d
      BY <3>1, SmallDivMod, SizeAssumption
    <3> QED BY <3>1, <3>2, <3>3, <3>4 DEF d
  <2> QED BY <2>1, <2>2
<1>6. ca' = (ca + 1) % MemSize
  BY DEF Counts
<1>7. ca' = Cell(asked.addr, Done) /\ ca' = (asked.addr + (Done + 1)) % MemSize
  <2>1. Done \in Nat
    BY <1>2
  <2>2. ASSUME NEW k \in Nat, k = Done
        PROVE  ca' = Cell(asked.addr, k) /\ ca' = (asked.addr + (k + 1)) % MemSize
    BY <1>2, <1>6, <2>2, CellNext
  <2> QED BY <2>1, <2>2
<1> QED BY <1>1, <1>3, <1>4, <1>5, <1>7

LEMMA EmptySeq == ASSUME NEW s \in Seq(Words) PROVE s = <<>> <=> Len(s) = 0
  OBVIOUS

\* The last word
LEMMA TotalIs ==
    ASSUME NEW a \in Asked, NEW k \in 0 .. a.count - 1, k >= Per(a.cmd) => a.cmd.contin,
           k + 1 = a.count \/ (~ a.cmd.contin /\ k + 1 = Per(a.cmd))
    PROVE  TotalOf(a) = k + 1
<1>1. Per(a.cmd) \in Nat /\ a.count \in Nat
  BY PerNat DEF Asked
<1>2. CASE a.cmd.contin
  BY <1>2 DEF TotalOf
<1>3. CASE ~ a.cmd.contin
  <2>1. k < Per(a.cmd)
    BY <1>1, <1>3
  <2> QED BY <1>1, <1>3, <2>1 DEF TotalOf
<1> QED BY <1>2, <1>3

LEMMA ServedSend == ASSUME Typed, Served, Send, waiting' PROVE Served'
<1> DEFINE k == Done
           c == asked.cmd
           p == Per(asked.cmd)
<1>0. /\ waiting /\ apc = "send" /\ ta = c /\ c.go /\ asked \in Asked /\ tb = {}
      /\ UNCHANGED <<ta, tape, tapepos, last, asked, waiting>>
      /\ c.func \in Transfers /\ c.func # WriteData
  BY DEF Send, drive, history, Served, Typed, Answering, StoresTyped, Writable
<1>1. Sending(k, asked) /\ ca = (asked.addr + k) % MemSize
  BY <1>0 DEF Served
<1>2. /\ ~ wcovf /\ k \in 0 .. asked.count - 1 /\ (k >= p => c.contin) /\ p \in Nat \ {0}
      /\ Alike(k, k \div p, asked, mem, tape, last) /\ Headed(c, tapepos, last)
      /\ Len(buff) = p - (k % p)
      /\ \A j \in 1 .. Len(buff) : buff[j] = Seen(c, tape, last)[(k % p) + j]
  BY <1>1, PerNat DEF Sending
<1>3. /\ Done' = k + 1 /\ (wcovf' <=> k + 1 = asked.count) /\ (wcovf' => wc' = 0)
      /\ (wc' + asked.count) % MemSize = (k + 1) % MemSize
      /\ ca' = Cell(asked.addr, k) /\ ca' = (asked.addr + (k + 1)) % MemSize
  BY <1>0, <1>1, <1>2, DoneNext DEF Typed, Send
<1>4. /\ buff \in Seq(Words) /\ buff # <<>> /\ mem \in [Addrs -> Words]
      /\ mem' = [mem EXCEPT ![ca'] = Head(buff)] /\ last \in BlockNos /\ wcovf' \in BOOLEAN
      /\ \/ /\ wcovf' \/ Tail(buff) = <<>>
            /\ \/ ta.contin /\ ~ wcovf' /\ apc' = "delay" /\ tb' = tb
               \/ ~ (ta.contin /\ ~ wcovf') /\ tb' = tb \cup {"SUC"} /\ apc' = "fin"
         \/ /\ ~ (wcovf' \/ Tail(buff) = <<>>)
            /\ buff' = Tail(buff) /\ apc' = apc /\ tb' = tb
  BY <1>0, Counted DEF Send, Continue, Success, Go, Typed, StoresTyped
<1> HIDE DEF k, p
<1>5. /\ k \in Nat /\ k + 1 \in 1 .. asked.count /\ asked.count \in Nat
      /\ k \div p \in Nat /\ k % p \in 0 .. p - 1 /\ k = p * (k \div p) + (k % p)
  <2>1. asked.count \in Nat
    BY <1>0 DEF Asked
  <2>2. k \in Nat /\ k + 1 \in 1 .. asked.count
    BY <1>2, <2>1
  <2> QED BY <1>2, <2>1, <2>2, DivMod
<1>6. Len(buff) \in Nat \ {0} /\ Head(buff) = buff[1]
  BY <1>4
<1>7. Head(buff) = Seen(c, tape, last)[(k % p) + 1]
  <2>1. 1 \in 1 .. Len(buff)
    BY <1>6
  <2> QED BY <1>2, <1>6, <2>1
<1>8. Alike(k + 1, k \div p, asked, mem', tape, last)
  <2>1. mem' = [mem EXCEPT ![Cell(asked.addr, k)] = Head(buff)]
    BY <1>3, <1>4
  <2>2. /\ Alike(k, k \div Per(asked.cmd), asked, mem, tape, last)
        /\ Head(buff) = Seen(asked.cmd, tape, last)[(k % Per(asked.cmd)) + 1]
    BY <1>2, <1>7 DEF p
  <2>3. Alike(k + 1, k \div Per(asked.cmd), asked, [mem EXCEPT ![Cell(asked.addr, k)] = Head(buff)],
              tape, last)
    BY <1>0, <1>2, <1>4, <2>2, AlikeMore
  <2> QED BY <2>1, <2>3 DEF p
<1>9. Tail(buff) = <<>> <=> k % p = p - 1
  <2>1. Len(Tail(buff)) = Len(buff) - 1 /\ Tail(buff) \in Seq(Words)
    BY <1>4, <1>6
  <2>2. Tail(buff) = <<>> <=> Len(Tail(buff)) = 0
    BY <2>1, EmptySeq
  <2>3. Len(Tail(buff)) = 0 <=> k % p = p - 1
    <3> DEFINE r == k % p
               n == Len(buff)
               u == Len(Tail(buff))
    <3>1. u = n - 1 /\ n = p - r /\ r \in 0 .. p - 1 /\ p \in Nat
      BY <1>2, <1>5, <2>1
    <3> HIDE DEF r, n, u
    <3>2. u = 0 <=> r = p - 1
      BY <3>1
    <3> QED BY <3>2 DEF r, u
  <2> QED BY <2>2, <2>3
<1>10. CASE ta.contin /\ ~ wcovf' /\ apc' = "delay" /\ Tail(buff) = <<>>
  <2>1. (k + 1) \div p = (k \div p) + 1 /\ (k + 1) % p = 0
    BY <1>2, <1>5, <1>9, <1>10, NextDivMod
  <2>2. k + 1 \in 0 .. asked.count - 1
    BY <1>3, <1>5, <1>10
  <2>3. ((k + 1) \div p) - 1 = k \div p
    BY <1>5, <2>1
  <2>4. Between(Done, asked)'
    BY <1>0, <1>2, <1>3, <1>8, <1>10, <2>1, <2>2, <2>3 DEF Between, p
  <2> QED BY <1>0, <1>3, <1>10, <2>4 DEF Served
<1>11. CASE ~ (ta.contin /\ ~ wcovf') /\ apc' = "fin" /\ (wcovf' \/ Tail(buff) = <<>>)
  <2>1. k + 1 = asked.count \/ (~ c.contin /\ k + 1 = p)
    <3>1. CASE wcovf'
      BY <1>3, <3>1
    <3>2. CASE ~ wcovf'
      <4>1. ~ c.contin /\ k % p = p - 1
        BY <1>0, <1>9, <1>11, <3>2
      <4>2. k \in 0 .. p - 1
        BY <1>2, <1>5, <4>1
      <4>3. k % p = k
        BY <1>2, <4>2, SmallDivMod
      <4> QED BY <1>2, <4>1, <4>3
    <3> QED BY <3>1, <3>2
  <2>2. TotalOf(asked) = k + 1
    BY <1>0, <1>2, <2>1, TotalIs DEF p
  <2>3. TotalOf(asked) - 1 = k
    BY <1>5, <2>2
  <2>4. Finished(asked, mem', tape, last, ca', wc')
    BY <1>0, <1>3, <1>8, <2>2, <2>3 DEF Finished, p
  <2> QED BY <1>0, <1>11, <2>4 DEF Served
<1>12. CASE ~ (wcovf' \/ Tail(buff) = <<>>) /\ buff' = Tail(buff) /\ apc' = apc
  <2>1. (k + 1) \div p = k \div p /\ (k + 1) % p = (k % p) + 1
    BY <1>2, <1>5, <1>9, <1>12, NextDivMod
  <2>2. k + 1 \in 0 .. asked.count - 1
    BY <1>3, <1>5, <1>12
  <2>3. k + 1 >= p => c.contin
    <3>1. CASE k >= p
      BY <1>2, <3>1
    <3>2. CASE ~ k >= p
      <4>1. k \in 0 .. p - 1
        BY <1>2, <1>5, <3>2
      <4>2. k % p = k /\ k % p # p - 1
        BY <1>2, <1>9, <1>12, <4>1, SmallDivMod
      <4>3. ~ k + 1 >= p
        BY <1>2, <4>1, <4>2
      <4> QED BY <4>3
    <3> QED BY <3>1, <3>2
  <2>4. Len(buff') = p - ((k + 1) % p)
    <3>1. Len(buff') = Len(buff) - 1
      BY <1>4, <1>6, <1>12
    <3> QED BY <1>2, <1>5, <2>1, <3>1
  <2>5. ASSUME NEW j \in 1 .. Len(buff') PROVE buff'[j] = Seen(c, tape, last)[((k + 1) % p) + j]
    <3>1. Len(buff') = Len(buff) - 1 /\ buff'[j] = buff[j + 1] /\ j + 1 \in 1 .. Len(buff)
      BY <1>4, <1>6, <1>12
    <3>2. (k % p) + (j + 1) = ((k + 1) % p) + j
      BY <1>5, <2>1
    <3> QED BY <1>2, <3>1, <3>2
  <2>6. Sending(Done, asked)'
    BY <1>0, <1>2, <1>3, <1>8, <1>12, <2>1, <2>2, <2>3, <2>4, <2>5 DEF Sending, p
  <2> QED BY <1>0, <1>3, <1>12, <2>6 DEF Served
<1> QED BY <1>4, <1>10, <1>11, <1>12

LEMMA ServedGather == ASSUME Typed, Served, Gather, waiting' PROVE Served'
<1> DEFINE k == Done
           c == asked.cmd
           p == Per(asked.cmd)
           n == k \div p
           base == k - Len(buff)
<1>0. /\ waiting /\ apc = "gather" /\ ta = c /\ c.go /\ asked \in Asked /\ tb = {}
      /\ UNCHANGED <<ta, tape, tapepos, last, asked, waiting, mem, tb>>
      /\ c.func = WriteData
  BY DEF Gather, drive, history, Served, Typed, Answering, StoresTyped, Writable
<1>1. Gathering(k, asked) /\ ca = (asked.addr + k) % MemSize /\ c.func \in Transfers
  BY <1>0 DEF Served
<1>2. /\ ~ wcovf /\ k \in 0 .. asked.count - 1 /\ p \in Nat \ {0} /\ p = BlockWords
      /\ Len(buff) = k % p /\ Gathered(base, n, asked)
  BY <1>0, <1>1, PerNat DEF Gathering, Per, WriteData, ReadAll
<1>3. /\ Done' = k + 1 /\ (wcovf' <=> k + 1 = asked.count) /\ (wcovf' => wc' = 0)
      /\ ca' = Cell(asked.addr, k) /\ ca' = (asked.addr + (k + 1)) % MemSize
  BY <1>0, <1>1, <1>2, DoneNext DEF Typed, Gather
<1>4. /\ buff \in Seq(Words) /\ Len(buff) \in Nat /\ mem \in [Addrs -> Words] /\ ca' \in Addrs
      /\ buff' = Append(buff, mem[ca'])
      /\ \/ (wcovf' \/ Len(buff') = BlockWords) /\ apc' = "pwrite"
         \/ ~ (wcovf' \/ Len(buff') = BlockWords) /\ apc' = "gather"
  BY <1>0, Counted DEF Gather, Go, Typed, StoresTyped
<1>5. mem[ca'] \in Words
  BY <1>4
<1>6. Len(buff') = Len(buff) + 1
  BY <1>4, <1>5
<1> HIDE DEF k, p
<1>7. /\ k \in Nat /\ k + 1 \in 1 .. asked.count /\ asked.count \in Nat
      /\ n \in Nat /\ k % p \in 0 .. p - 1 /\ k = p * n + (k % p)
  <2>1. asked.count \in Nat
    BY <1>0 DEF Asked
  <2>2. k \in Nat /\ k + 1 \in 1 .. asked.count
    BY <1>2, <2>1
  <2> QED BY <1>2, <2>1, <2>2, DivMod
<1>8. (k + 1) - Len(buff') = base
  BY <1>4, <1>6, <1>7
<1>9. base + Len(buff) = k /\ base \in Int
  BY <1>4, <1>7
<1> HIDE DEF n, base
<1>10. /\ Alike(base, n, asked, mem, tape, last) /\ Headed(c, tapepos, last) /\ base = p * n
       /\ (n > 0 => c.contin)
       /\ \A j \in 1 .. Len(buff) : buff[j] = mem[Cell(asked.addr, base + j - 1)]
  BY <1>2 DEF Gathered, p
<1>11. ASSUME NEW j \in 1 .. Len(buff') PROVE buff'[j] = mem[Cell(asked.addr, base + j - 1)]
  <2>1. CASE j \in 1 .. Len(buff)
    <3>1. buff'[j] = buff[j]
      BY <1>4, <1>5, <2>1
    <3> QED BY <1>10, <2>1, <3>1
  <2>2. CASE j = Len(buff) + 1
    <3>1. buff'[j] = mem[ca']
      BY <1>4, <1>5, <2>2
    <3>2. base + j - 1 = k
      BY <1>4, <1>9, <2>2
    <3> QED BY <1>3, <3>1, <3>2
  <2> QED BY <1>4, <1>6, <2>1, <2>2
<1>12. /\ Alike(base, n, asked', mem', tape', last') /\ Headed(asked'.cmd, tapepos', last')
       /\ base = Per(asked'.cmd) * n /\ (n > 0 => asked'.cmd.contin)
       /\ \A j \in 1 .. Len(buff') : buff'[j] = mem'[Cell(asked'.addr, base + j - 1)]
  BY <1>0, <1>10, <1>11 DEF p
<1>13. CASE apc' = "pwrite" /\ (wcovf' \/ Len(buff') = BlockWords)
  <2>1. ((k + 1) - 1) % p = k % p /\ ((k + 1) - 1) \div p = n
    BY <1>7 DEF n
  <2>2. Len(buff') < p => wcovf'
    BY <1>2, <1>13
  <2>3. Len(buff') = (((k + 1) - 1) % p) + 1
    BY <1>2, <1>6, <2>1
  <2>4. Done' - Len(buff') = base /\ (Done' - 1) \div Per(asked'.cmd) = n
    BY <1>0, <1>3, <1>8, <2>1 DEF p
  <2>5. Gathered(Done - Len(buff), (Done - 1) \div Per(asked.cmd), asked)'
    BY <1>12, <2>4 DEF Gathered
  <2>6. ToWrite(Done, asked)'
    BY <1>0, <1>3, <1>7, <2>2, <2>3, <2>5 DEF ToWrite, p
  <2> QED BY <1>0, <1>1, <1>3, <1>13, <2>6 DEF Served
<1>14. CASE apc' = "gather" /\ ~ (wcovf' \/ Len(buff') = BlockWords)
  <2>1. k % p # p - 1
    BY <1>2, <1>6, <1>7, <1>14
  <2>2. (k + 1) \div p = n /\ (k + 1) % p = (k % p) + 1
    BY <1>2, <1>7, <2>1, NextDivMod DEF n
  <2>3. k + 1 \in 0 .. asked.count - 1
    BY <1>3, <1>7, <1>14
  <2>4. Len(buff') = (k + 1) % p
    BY <1>2, <1>6, <2>2
  <2>5. Done' - Len(buff') = base /\ Done' \div Per(asked'.cmd) = n
    BY <1>0, <1>3, <1>8, <2>2 DEF p
  <2>6. Gathered(Done - Len(buff), Done \div Per(asked.cmd), asked)'
    BY <1>12, <2>5 DEF Gathered
  <2>7. Gathering(Done, asked)'
    BY <1>0, <1>3, <1>14, <2>3, <2>4, <2>6 DEF Gathering, p
  <2> QED BY <1>0, <1>1, <1>3, <1>14, <2>7 DEF Served
<1> QED BY <1>4, <1>13, <1>14

LEMMA ServedPwrite == ASSUME Typed, Served, Pwrite, waiting' PROVE Served'
<1> DEFINE k == Done
           c == asked.cmd
           p == Per(asked.cmd)
           n == (k - 1) \div p
           base == k - Len(buff)
           z == [i \in 1 .. BlockWords - Len(buff) |-> 0]
<1>0. /\ waiting /\ apc = "pwrite" /\ ta = c /\ c.go /\ asked \in Asked
      /\ UNCHANGED <<ta, wcovf, tapepos, last, asked, waiting, mem, wc, ca>>
      /\ c.func = WriteData /\ tapepos \div 4 = last
      /\ tape' = [tape EXCEPT ![tapepos \div 4] = Padded(buff)]
      /\ wc \in Addrs /\ last \in BlockNos /\ tape \in [BlockNos -> Block]
      /\ buff \in Seq(Words) /\ Len(buff) \in Nat /\ Len(buff) <= BlockWords
      /\ ta \in StatusA
      /\ \/ ta.contin /\ ~ wcovf /\ apc' = "delay"
         \/ ~ (ta.contin /\ ~ wcovf) /\ apc' = "fin"
  BY DEF Pwrite, drive, memory, history, Served, Typed, StoresTyped, RegisterTyped, Writable,
         Continue, Success, Go
<1>1. /\ ToWrite(k, asked) /\ ca = (asked.addr + k) % MemSize /\ c.func \in Transfers
  BY <1>0 DEF Served
<1>2. /\ k \in 1 .. asked.count /\ p \in Nat \ {0} /\ p = BlockWords
      /\ Len(buff) = ((k - 1) % p) + 1 /\ (Len(buff) < p => wcovf) /\ (wcovf => wc = 0)
      /\ Gathered(base, n, asked)
  BY <1>0, <1>1, PerNat DEF ToWrite, Per, WriteData, ReadAll
<1>3. Done' = k /\ k = IF wcovf THEN asked.count ELSE wc + asked.count - MemSize
  BY <1>0 DEF Done
<1> HIDE DEF k, p
<1>4. /\ k - 1 \in Nat /\ k \in Nat /\ asked.count \in 1 .. MemSize
      /\ n \in Nat /\ (k - 1) % p \in 0 .. p - 1
  <2>1. asked.count \in 1 .. MemSize
    BY <1>0 DEF Asked
  <2>2. k - 1 \in Nat /\ k \in Nat
    BY <1>2, <2>1
  <2> QED BY <1>2, <2>1, <2>2, DivMod
<1>5. base + Len(buff) = k
  BY <1>0, <1>4
<1>6. (k - 1) + 1 = k
  BY <1>4
<1> HIDE DEF n, base
<1>7. /\ Alike(base, n, asked, mem, tape, last) /\ Headed(c, tapepos, last) /\ base = p * n
      /\ (n > 0 => c.contin)
      /\ \A j \in 1 .. Len(buff) : buff[j] = mem[Cell(asked.addr, base + j - 1)]
  BY <1>2 DEF Gathered, p
<1>8. Padded(buff) \in Block /\ Oriented(Padded(buff), c.rev) = buff \o z
  BY <1>0, PaddedTyped
<1>9. tape' = [tape EXCEPT ![last] = Padded(buff)]
  BY <1>0
<1>10. Seen(c, tape', last) = buff \o z
  <2>1. tape'[last] = Padded(buff)
    BY <1>0, <1>9
  <2>2. c.func # ReadAll
    BY <1>0 DEF WriteData, ReadAll
  <2> QED BY <1>8, <2>1, <2>2 DEF Seen
<1> HIDE DEF z
<1>11. Alike(k, n, asked, mem, tape', last)
  <2>1. z = [i \in 1 .. BlockWords - Len(buff) |-> 0]
    BY DEF z
  <2>2. p = Per(asked.cmd) /\ asked.cmd.func = WriteData
    BY <1>0 DEF p
  <2>3. /\ asked \in Asked /\ n \in Nat /\ tape \in [BlockNos -> Block] /\ last \in BlockNos
        /\ buff \in Seq(Words) /\ Len(buff) <= BlockWords /\ base = p * n
    BY <1>0, <1>4, <1>7
  <2>4. /\ Padded(buff) \in Block /\ Oriented(Padded(buff), asked.cmd.rev) = buff \o z
        /\ Alike(base, n, asked, mem, tape, last)
        /\ \A j \in 1 .. Len(buff) : buff[j] = mem[Cell(asked.addr, base + j - 1)]
    BY <1>7, <1>8
  <2> HIDE DEF c
  <2>5. Alike(base + Len(buff), n, asked, mem, tape', last)
    BY <1>9, <2>1, <2>2, <2>3, <2>4, AlikeWritten
  <2> QED BY <1>5, <2>5
<1>12. CASE ta.contin /\ ~ wcovf /\ apc' = "delay"
  <2>1. (k - 1) % p = p - 1
    BY <1>0, <1>2, <1>4, <1>12
  <2>2. ((k - 1) + 1) \div p = n + 1 /\ ((k - 1) + 1) % p = 0
    BY <1>2, <1>4, <2>1, NextDivMod DEF n
  <2>3. k \div p = n + 1 /\ k % p = 0
    BY <1>6, <2>2
  <2>4. (k \div p) - 1 = n
    BY <1>4, <2>3
  <2>5. k \in 0 .. asked.count - 1
    <3>1. k = wc + asked.count - MemSize
      BY <1>3, <1>12
    <3>2. wc \in 0 .. MemSize - 1
      BY <1>0 DEF Addrs
    <3> QED BY <1>4, <3>1, <3>2
  <2>6. Between(Done, asked)'
    BY <1>0, <1>3, <1>7, <1>11, <1>12, <2>3, <2>4, <2>5 DEF Between, p
  <2> QED BY <1>0, <1>1, <1>3, <1>12, <2>6 DEF Served
<1>13. CASE ~ (ta.contin /\ ~ wcovf) /\ apc' = "fin"
  <2>1. ASSUME k - 1 < p PROVE n = 0 /\ base = 0 /\ Len(buff) = k
    <3>1. k - 1 \in 0 .. p - 1
      BY <1>2, <1>4, <2>1
    <3>2. n = 0
      BY <1>2, <3>1, SmallDivMod DEF n
    <3>3. base = 0
      BY <1>2, <1>7, <3>2
    <3> QED BY <1>0, <1>5, <3>2, <3>3
  <2>2. k - 1 >= p => c.contin
    <3> SUFFICES ASSUME k - 1 >= p PROVE c.contin
      OBVIOUS
    <3>1. ~ k - 1 < p * 1
      BY <1>2, <1>4
    <3>2. ~ n < 1
      BY <1>2, <1>4, <3>1, DivMonotone DEF n
    <3>3. n > 0
      BY <1>4, <3>2
    <3> QED BY <1>7, <3>3
  <2>3. (k - 1) + 1 = asked.count \/ (~ c.contin /\ (k - 1) + 1 = p)
    <3>1. CASE wcovf
      BY <1>3, <1>6, <3>1
    <3>2. CASE ~ wcovf
      <4>1. ~ c.contin /\ Len(buff) = p
        BY <1>0, <1>2, <1>13, <3>2
      <4>2. k - 1 < p
        BY <1>2, <1>4, <2>2, <4>1
      <4> QED BY <1>6, <2>1, <4>1, <4>2
    <3> QED BY <3>1, <3>2
  <2>4. TotalOf(asked) = k
    <3>1. k - 1 \in 0 .. asked.count - 1
      BY <1>2, <1>4
    <3>2. TotalOf(asked) = (k - 1) + 1
      BY <1>0, <2>2, <2>3, <3>1, TotalIs DEF p
    <3> QED BY <1>6, <3>2
  <2>5. ASSUME NEW i \in k .. BlockWords - 1, k < BlockWords
        PROVE  Seen(c, tape', last)[i + 1] = 0
    <3>1. Len(buff) = k
      BY <1>2, <1>4, <2>1, <2>5
    <3>2. z \in Seq(Words) /\ Len(z) = BlockWords - Len(buff)
      BY <1>0, WordsIn DEF z
    <3>3. /\ i + 1 - k \in 1 .. BlockWords - Len(buff) /\ i + 1 \in Nat /\ i + 1 > Len(buff)
          /\ i + 1 <= Len(buff) + Len(z)
      BY <1>4, <2>5, <3>1, <3>2
    <3>4. (buff \o z)[i + 1] = z[i + 1 - Len(buff)]
      BY <1>0, <3>2, <3>3
    <3>5. z[i + 1 - Len(buff)] = 0
      BY <3>1, <3>3 DEF z
    <3> QED BY <1>10, <3>4, <3>5
  <2>6. (wc + asked.count) % MemSize = k % MemSize
    <3>1. CASE wcovf
      <4>1. wc + asked.count = k
        BY <1>2, <1>3, <1>4, <3>1
      <4> QED BY <4>1
    <3>2. CASE ~ wcovf
      <4>1. wc + asked.count = MemSize * 1 + k /\ k \in 0 .. MemSize - 1
        <5>1. k = wc + asked.count - MemSize
          BY <1>3, <3>2
        <5>2. wc \in 0 .. MemSize - 1
          BY <1>0 DEF Addrs
        <5> QED BY <1>4, <5>1, <5>2
      <4>2. (MemSize * 1 + k) % MemSize = k
        BY <4>1, DivModIs
      <4>3. k % MemSize = k
        BY <4>1, SmallDivMod
      <4> QED BY <4>1, <4>2, <4>3
    <3> QED BY <3>1, <3>2
  <2>7. Finished(asked, mem, tape', last, ca, wc)
    BY <1>1, <1>11, <2>4, <2>5, <2>6 DEF Finished, n, p
  <2> QED BY <1>0, <1>13, <2>7 DEF Served
<1> QED BY <1>0, <1>12, <1>13

LEMMA ServedStep == ASSUME Typed, Served, [Next]_vars PROVE Served'
<1> SUFFICES ASSUME waiting' PROVE Served'
  BY DEF Served
<1> QED BY ServedPdp, ServedBegin, ServedSkipping, ServedPassing, ServedSend, ServedGather,
           ServedPwrite, ServedEnd, ServedOperator, ServedStutter DEF Next, Thread

LEMMA WordsInit == Init => WordsInv
<1> SUFFICES ASSUME Init PROVE WordsInv
  OBVIOUS
<1>1. OnTape /\ Writable
  BY BlocksNat DEF Init, OnTape, Writable
<1>2. RegisterTyped /\ Answering
  <2>1. NoCommand \in StatusA /\ NoRegister \in [a : StatusA, b : SUBSET Bits, pend : BOOLEAN]
    BY DEF NoCommand, NoRegister, StatusA
  <2> QED BY <2>1 DEF Init, RegisterTyped, Answering
<1>3. StoresTyped
  <2>1. <<>> \in Seq(Words)
    OBVIOUS
  <2> QED BY <2>1, WordsIn, ContentsAssumption DEF Init, StoresTyped
<1> QED BY <1>1, <1>2, <1>3 DEF WordsInv, Typed, Served, Init

LEMMA WordsStep == WordsInv /\ [Next]_vars => WordsInv'
<1> SUFFICES ASSUME Typed, Served, [Next]_vars PROVE Typed' /\ Served'
  BY DEF WordsInv
<1>1. OnTape' /\ Writable' /\ RegisterTyped' /\ Answering'
  BY OnTapeStep, WritableStep, RegisterStep, AnsweringStep DEF Typed
<1>2. StoresTyped' /\ Served'
  BY StoresStep, ServedStep
<1> QED BY <1>1, <1>2 DEF Typed

\* What is served is what TransferRight wants.
LEMMA ServedRight == WordsInv => TransferRight
<1> SUFFICES ASSUME Typed, Served, waiting, "SUC" \in status_b,
                    asked.cmd.func \in {ReadData, ReadAll, WriteData}
             PROVE  /\ \A i \in 0 .. Total - 1 : mem[(asked.addr + 1 + i) % MemSize] = TapeWord(i)
                    /\ asked.cmd.func = WriteData =>
                          \A i \in Total .. BlockWords - 1 :
                             Total < BlockWords => Passed(last)[i + 1] = 0
                    /\ ca = (asked.addr + Total) % MemSize
                    /\ (wc + asked.count) % MemSize = Total % MemSize
  BY DEF WordsInv, TransferRight
<1>1. apc \in {"sleep", "unlock"}
  BY DEF Typed, Answering
<1>2. Finished(asked, mem, tape, last, ca, wc)
  BY <1>1 DEF Served
<1>3. Total = TotalOf(asked) /\ PerBlock = Per(asked.cmd)
  BY DEF Total, TotalOf, PerBlock, Per
<1>4. \A blk : Passed(blk) = Seen(asked.cmd, tape, blk)
  BY DEF Passed, Seen
<1>5. /\ Alike(Total, (Total - 1) \div PerBlock, asked, mem, tape, last)
      /\ asked.cmd.func = WriteData =>
            \A i \in Total .. BlockWords - 1 :
               Total < BlockWords => Seen(asked.cmd, tape, last)[i + 1] = 0
      /\ ca = (asked.addr + Total) % MemSize
      /\ (wc + asked.count) % MemSize = Total % MemSize
  BY <1>2, <1>3 DEF Finished, Transfers
<1>6. ASSUME NEW i \in 0 .. Total - 1
      PROVE  mem[(asked.addr + 1 + i) % MemSize] = TapeWord(i)
  <2>1. mem[Cell(asked.addr, i)]
          = Seen(asked.cmd, tape, BlockOf(i))[(i % PerBlock) + 1]
    BY <1>3, <1>5 DEF Alike, Back, BlockOf
  <2> QED BY <1>4, <2>1 DEF Cell, TapeWord
<1> QED BY <1>4, <1>5, <1>6

\* z8ltc08.cc: when a polite program sees success, the words read or written are the
\* ones it asked for, in order and in the form the head meets them in its direction,
\* however many blocks they fill and wherever they wrap around in memory; the rest of a
\* written block is zeros; the word count and the current address tell how far it went.
THEOREM TransferIsRight == Spec => []TransferRight
<1> QED BY WordsInit, WordsStep, ServedRight, PTL DEF Spec
=============================================================================
