----------------------------- MODULE Rk8jeProofs -----------------------------
(***************************************************************************)
(* The proof that a program that waits for its transfers finds the words   *)
(* where they belong, or the right error; that the disk changes only for a *)
(* write that may be done; and that the thread leaves CBSY as it is.       *)
(***************************************************************************)
EXTENDS Rk8je, TLAPS

Flags == {"CBSY", "DONE", "FLNR", "CYLR", "TMER", "WLER", "CRCR"}
Block == [1 .. BlockWords -> Words]
Asked == [cmd : Command, dad : Nat, mem : Addrs]
Stages == {"sleep", "claim", "sts", "cmd", "dad", "mem", "check", "delay", "go", "read", "flush",
           "write", "pwrite", "wmem", "wflg", "wsts"}

RegistersTyped ==
    /\ command \in Command /\ diskaddr \in Nat /\ memaddr \in Addrs /\ status \subseteq Flags
    /\ startio \in BOOLEAN /\ stbusy \in BOOLEAN

ThreadTyped ==
    /\ apc \in Stages
    /\ acmd \in Command /\ adad \in Nat /\ amem \in Addrs /\ asts \subseteq Flags
    /\ icnt \in Nat /\ temp \in Block

StoresTyped ==
    /\ loaded \in BOOLEAN /\ ro \in BOOLEAN
    /\ mem \in [Addrs -> Words] /\ disk \in [Blocks -> Block]
    /\ inflight = NoWord \/ \E a \in Addrs, w \in Words : inflight = <<a, w>>

HistoryTyped ==
    /\ asked \in Asked /\ waiting \in BOOLEAN
    /\ manners \in {"polite", "told", "aborted", "lost"}

TypeOK == RegistersTyped /\ ThreadTyped /\ StoresTyped /\ HistoryTyped

-----------------------------------------------------------------------------
(* The stages of a transfer, by what the thread has done. *)

Working == {"go", "read", "flush", "write", "pwrite"}
\* until the thread gives the registers back
Taken == {"sts", "cmd", "dad", "mem", "check", "delay", "wmem"} \cup Working
HasSts == {"cmd", "dad", "mem", "check", "delay"} \cup Working
HasCmd == {"dad", "mem", "check", "delay"} \cup Working
HasDad == {"mem", "check", "delay"} \cup Working
HasMem == {"check", "delay", "go", "read", "write", "pwrite"}

\* However the program behaves: the thread works on a block that there is, counts to
\* the end of it, writes only what it may write, and leaves no word on its way.
AtStage ==
    /\ apc \in Working \cup {"delay"} => adad \in Blocks /\ acmd.func # 2
    /\ apc \in {"delay", "go"} => icnt = 0
    /\ apc \in {"read", "write"} => icnt < wcnt
    /\ apc \in {"flush", "pwrite"} => icnt = wcnt
    /\ apc \in {"read", "flush"} => acmd.func \in {0, 1} /\ loaded
    /\ apc \in {"write", "pwrite"} => acmd.func \in {4, 5} /\ loaded /\ ~ ro
    /\ inflight # NoWord => apc \in {"read", "flush"}

\* The cell i words on from a, around the end of the field
Wrap(a, i) == (a + i) % MemSize

\* The first n words of the block t are in memory m at a; the rest of it is zero.
Arrived(n, a, m, t) == \A i \in 0 .. n - 1 : m[Wrap(a, i)] = t[i + 1]
Zeros(n, t) == \A i \in n + 1 .. BlockWords : t[i] = 0

\* Memory m and disk d agree as what was asked wants it, and ma is past the words.
Moved(ma, a, m, d) ==
    /\ Arrived(Count(a.cmd), a.mem, m, d[a.dad])
    /\ a.cmd.func \in {4, 5} => Zeros(Count(a.cmd), d[a.dad])
    /\ ma = Wrap(a.mem, Count(a.cmd))

\* The flags s and the memory address ma are what the transfer is to end with.
Outcome(s, ma, a, m, d) ==
    /\ "DONE" \in s /\ "CBSY" \notin s
    /\ s # {"DONE"} => ma = a.mem
    /\ s = {"DONE"} /\ a.cmd.func \in {0, 1, 4, 5} => Moved(ma, a, m, d)

\* The program has asked and the registers are as it left them.
InRegisters ==
    apc \in Taken \cup {"claim"} \/ (apc = "sleep" /\ startio) =>
       /\ stbusy /\ status = {}
       /\ command = asked.cmd /\ diskaddr = asked.dad /\ memaddr = asked.mem

\* What the thread has read of them so far.
Copied ==
    /\ apc \in HasSts => asts = {}
    /\ apc \in HasCmd => acmd = asked.cmd
    /\ apc \in HasDad => adad = asked.dad
    /\ apc \in HasMem => amem = asked.mem
    /\ apc = "flush" => amem = Wrap(asked.mem, wcnt)

\* What it has moved so far: a word on its way counts.
MovedSoFar ==
    /\ apc \in {"read", "flush"} =>
          temp = disk[asked.dad] /\ Arrived(icnt, asked.mem, Landed, temp)
    /\ apc \in {"write", "pwrite"} =>
          Arrived(icnt, asked.mem, mem, temp) /\ Zeros(icnt, temp)

\* What it will report, reports and has reported.
Reported ==
    /\ apc = "wmem" => Outcome(asts, amem, asked, mem, disk)
    /\ apc \in {"wflg", "wsts"} => Outcome(asts, memaddr, asked, mem, disk) /\ status = {}
    /\ apc = "wsts" => ~ startio
    /\ apc = "sleep" /\ ~ startio => Outcome(status, memaddr, asked, mem, disk)

Served == manners = "polite" /\ waiting => InRegisters /\ Copied /\ MovedSoFar /\ Reported

TransferInv == TypeOK /\ AtStage /\ Served

-----------------------------------------------------------------------------
(* Addresses wrap around at the end of the field. *)

LEMMA Wrapped ==
    ASSUME NEW m \in Nat \ {0}, NEW x \in Nat, x < m + m
    PROVE  x % m = IF x < m THEN x ELSE x - m
<1> DEFINE q == x \div m
           r == x % m
<1>1. q \in Nat /\ r \in 0 .. m - 1
  BY SMTT(30)
<1>2. x = m * q + r
  BY SMTT(30)
<1> HIDE DEF q, r
<1>3. q < 2
  <2> SUFFICES ASSUME q >= 2 PROVE FALSE
    BY <1>1
  <2>1. m * q >= m * 2
    BY <1>1, SMTT(30)
  <2> QED BY <2>1, <1>1, <1>2
<1>4. q = 0 \/ q = 1
  BY <1>1, <1>3
<1>5. m * 0 = 0 /\ m * 1 = m
  OBVIOUS
<1>6. r = IF x < m THEN x ELSE x - m
  <2>1. CASE q = 0
    BY <2>1, <1>1, <1>2, <1>5
  <2>2. CASE q = 1
    BY <2>2, <1>1, <1>2, <1>5
  <2> QED BY <2>1, <2>2, <1>4
<1> QED BY <1>6 DEF r

LEMMA WrapIs ==
    ASSUME NEW a \in Addrs, NEW i \in 0 .. MemSize
    PROVE  Wrap(a, i) = IF a + i < MemSize THEN a + i ELSE a + i - MemSize
<1>1. MemSize \in Nat \ {0} /\ a + i \in Nat /\ a + i < MemSize + MemSize
  BY SizeAssumption DEF Addrs
<1>2. ASSUME NEW x \in Nat, x = a + i
      PROVE  x % MemSize = IF a + i < MemSize THEN a + i ELSE a + i - MemSize
  <2>1. x % MemSize = IF x < MemSize THEN x ELSE x - MemSize
    BY <1>1, <1>2, Wrapped
  <2> QED BY <2>1, <1>2, <1>1 DEF Addrs
<1>3. (a + i) % MemSize = IF a + i < MemSize THEN a + i ELSE a + i - MemSize
  BY <1>1, <1>2
<1> QED BY <1>3 DEF Wrap

LEMMA WrapIn ==
    ASSUME NEW a \in Addrs, NEW i \in 0 .. MemSize
    PROVE  Wrap(a, i) \in Addrs
  BY WrapIs, SizeAssumption DEF Addrs

\* Less than a field apart, two words of a block have cells of their own.
LEMMA CellsApart ==
    ASSUME NEW a \in Addrs, NEW i \in 0 .. MemSize - 1, NEW j \in 0 .. MemSize - 1, i # j
    PROVE  Wrap(a, i) # Wrap(a, j)
<1>1. MemSize \in Nat \ {0}
  BY SizeAssumption
<1>2. Wrap(a, i) = IF a + i < MemSize THEN a + i ELSE a + i - MemSize
  BY <1>1, WrapIs
<1>3. Wrap(a, j) = IF a + j < MemSize THEN a + j ELSE a + j - MemSize
  BY <1>1, WrapIs
<1> QED BY <1>1, <1>2, <1>3 DEF Addrs

-----------------------------------------------------------------------------
(* One word more. *)

LEMMA ArrivedMore ==
    ASSUME NEW a \in Addrs, NEW n \in 0 .. BlockWords - 1, NEW m \in [Addrs -> Words],
           NEW t \in Block, Arrived(n, a, m, t)
    PROVE  Arrived(n + 1, a, [m EXCEPT ![Wrap(a, n)] = t[n + 1]], t)
<1>1. n \in 0 .. MemSize - 1 /\ MemSize \in Nat
  BY SizeAssumption
<1> SUFFICES ASSUME NEW i \in 0 .. n
             PROVE  [m EXCEPT ![Wrap(a, n)] = t[n + 1]][Wrap(a, i)] = t[i + 1]
  BY <1>1 DEF Arrived
<1>2. Wrap(a, i) \in Addrs /\ Wrap(a, n) \in Addrs
  BY <1>1, WrapIn
<1>3. CASE i = n
  BY <1>2, <1>3
<1>4. CASE i # n
  <2>1. Wrap(a, i) # Wrap(a, n)
    BY <1>1, <1>4, CellsApart
  <2>2. m[Wrap(a, i)] = t[i + 1]
    BY <1>1, <1>4 DEF Arrived
  <2> QED BY <1>2, <2>1, <2>2
<1> QED BY <1>3, <1>4

LEMMA GatheredMore ==
    ASSUME NEW a \in Addrs, NEW n \in 0 .. BlockWords - 1, NEW m \in [Addrs -> Words],
           NEW t \in Block, Arrived(n, a, m, t), Zeros(n, t)
    PROVE  LET u == [t EXCEPT ![n + 1] = m[Wrap(a, n)]]
           IN  u \in Block /\ Arrived(n + 1, a, m, u) /\ Zeros(n + 1, u)
<1> DEFINE u == [t EXCEPT ![n + 1] = m[Wrap(a, n)]]
<1>1. n \in 0 .. MemSize - 1 /\ BlockWords \in Nat
  BY SizeAssumption
<1>2. m[Wrap(a, n)] \in Words
  <2>1. n \in 0 .. MemSize
    BY <1>1, SizeAssumption
  <2>2. Wrap(a, n) \in Addrs
    BY <2>1, WrapIn
  <2> QED BY <2>2
<1>3. u \in Block
  BY <1>2 DEF Block
<1>4. Arrived(n + 1, a, m, u)
  <2> SUFFICES ASSUME NEW i \in 0 .. n PROVE m[Wrap(a, i)] = u[i + 1]
    BY <1>1 DEF Arrived
  <2>1. CASE i = n
    BY <1>1, <2>1 DEF Block
  <2>2. CASE i # n
    <3>1. m[Wrap(a, i)] = t[i + 1]
      BY <1>1, <2>2 DEF Arrived
    <3>2. u[i + 1] = t[i + 1]
      BY <1>1, <2>2 DEF Block
    <3> QED BY <3>1, <3>2
  <2> QED BY <2>1, <2>2
<1>5. Zeros(n + 1, u)
  BY <1>1 DEF Zeros, Block
<1> QED BY <1>3, <1>4, <1>5

-----------------------------------------------------------------------------
(* The program's side. *)

LEMMA NothingTyped == 0 \in Addrs /\ NoCommand \in Command /\ Nothing \in Asked /\ NoTemp \in Block
<1>1. 0 \in Addrs
  BY SizeAssumption DEF Addrs
<1>2. NoCommand \in Command
  BY DEF NoCommand, Command, Funcs
<1>3. NoTemp \in Block
  BY UseAssumption DEF NoTemp, Block
<1> QED BY <1>1, <1>2, <1>3 DEF Nothing, Asked

LEMMA TransferInitially == Init => TransferInv
<1> SUFFICES ASSUME Init PROVE TransferInv
  OBVIOUS
<1> USE SizeAssumption, UseAssumption, ContentsAssumption DEF Init
<1>1. RegistersTyped
  BY NothingTyped DEF RegistersTyped
<1>2. ThreadTyped
  BY NothingTyped DEF ThreadTyped, Stages, NoTemp, Block
<1>3. StoresTyped
  BY DEF StoresTyped, Block
<1>4. HistoryTyped
  BY NothingTyped DEF HistoryTyped
<1>5. AtStage
  BY DEF AtStage, Working
<1>6. Served
  BY DEF Served
<1> QED BY <1>1, <1>2, <1>3, <1>4, <1>5, <1>6 DEF TransferInv, TypeOK

\* An instruction starts a transfer that the program waits for, or ends its waiting.
Awaits ==
    waiting' =>
       /\ apc = "sleep" /\ startio' /\ stbusy' /\ status' = {}
       /\ asked' = [cmd |-> command', dad |-> diskaddr', mem |-> memaddr']

LEMMA SpoiltTyped ==
    ASSUME NEW m \in {"polite", "told", "aborted", "lost"}, Spoilt(m)
    PROVE  HistoryTyped' /\ ~ waiting'
  BY NothingTyped DEF Spoilt, HistoryTyped

LEMMA AsksTyped ==
    ASSUME TypeOK, Asks \/ Rude \/ Clears
    PROVE  HistoryTyped' /\ ~ waiting'
<1> USE DEF TypeOK, HistoryTyped
<1>1. CASE Rude
  <2>1. (IF manners = "polite" THEN "told" ELSE manners) \in {"polite", "told", "aborted", "lost"}
    BY DEF TypeOK
  <2> QED BY <1>1, <2>1, SpoiltTyped DEF Rude
<1>2. CASE Clears
  <2>1. (IF apc = "delay" THEN "aborted" ELSE "lost") \in {"polite", "told", "aborted", "lost"}
    OBVIOUS
  <2> QED BY <1>2, <2>1, SpoiltTyped DEF Clears
<1>3. CASE Asks /\ ~ waiting
  BY <1>3 DEF Asks, history
<1>4. CASE Asks /\ waiting
  BY <1>1, <1>4 DEF Asks
<1> QED BY <1>1, <1>2, <1>3, <1>4

LEMMA StartedAwaits ==
    ASSUME TypeOK, RegistersTyped', UNCHANGED memaddr, startio', stbusy', Started
    PROVE  HistoryTyped' /\ Awaits
<1>1. CASE Rude
  BY <1>1, AsksTyped DEF Awaits
<1>2. CASE ~ Rude
  <2>1. /\ apc = "sleep" /\ status' = {} /\ manners' = "polite" /\ waiting' = TRUE
        /\ asked' = [cmd |-> command', dad |-> diskaddr', mem |-> memaddr']
    BY <1>2 DEF Started
  <2>2. asked' \in Asked
    BY <2>1 DEF RegistersTyped, Asked
  <2> QED BY <2>1, <2>2 DEF Awaits, HistoryTyped
<1> QED BY <1>1, <1>2

LEMMA StepsTyped ==
    ASSUME TypeOK, Pdp
    PROVE  RegistersTyped' /\ HistoryTyped' /\ Awaits /\ UNCHANGED others
<1>1. \/ DSKP \/ DCLR0 \/ DCLR1 \/ DCLR2 \/ DCLR3 \/ DLAG \/ DLCA \/ DLDC \/ Reset
  BY DEF Pdp
<1>2. RegistersTyped
  BY DEF TypeOK
<1>3. status \cup {"CBSY"} \subseteq Flags /\ {} \subseteq Flags
  BY <1>2 DEF RegistersTyped, Flags
<1>4. CASE DSKP
  BY <1>2, <1>4, NothingTyped DEF DSKP, TypeOK, RegistersTyped, HistoryTyped, Awaits, registers
<1>5. CASE DCLR0
  <2>1. RegistersTyped'
    BY <1>2, <1>3, <1>5 DEF DCLR0, TellBusy, RegistersTyped
  <2> QED BY <1>5, <2>1, AsksTyped DEF DCLR0, Awaits
<1>6. CASE DCLR1
  <2>1. RegistersTyped'
    BY <1>2, <1>3, <1>6, NothingTyped DEF DCLR1, RegistersTyped
  <2> QED BY <1>6, <2>1, AsksTyped DEF DCLR1, Awaits
<1>7. CASE DCLR2
  <2>1. CASE stbusy
    <3>1. RegistersTyped'
      BY <1>2, <1>3, <1>7, <2>1 DEF DCLR2, TellBusy, RegistersTyped
    <3> QED BY <1>7, <2>1, <3>1, AsksTyped DEF DCLR2, Awaits
  <2>2. CASE ~ stbusy
    <3>1. [func |-> 3, half |-> FALSE] \in Command
      BY DEF Command, Funcs
    <3>2. RegistersTyped'
      <4>1. /\ command' = [func |-> 3, half |-> FALSE] /\ diskaddr' = 0
            /\ startio' = TRUE /\ stbusy' = TRUE /\ UNCHANGED <<status, memaddr>>
        BY <1>7, <2>2 DEF DCLR2
      <4> QED BY <1>2, <3>1, <4>1 DEF RegistersTyped
    <3> QED BY <1>7, <2>2, <3>2, StartedAwaits DEF DCLR2
  <2> QED BY <2>1, <2>2
<1>8. CASE DCLR3
  <2>1. RegistersTyped'
    BY <1>2, <1>3, <1>8 DEF DCLR3, RegistersTyped
  <2> QED BY <1>8, <2>1, AsksTyped DEF DCLR3, Awaits
<1>9. CASE DLAG
  <2>1. CASE stbusy
    <3>1. RegistersTyped'
      BY <1>2, <1>3, <1>9, <2>1 DEF DLAG, TellBusy, RegistersTyped
    <3> QED BY <1>9, <2>1, <3>1, AsksTyped DEF DLAG, Awaits
  <2>2. CASE ~ stbusy
    <3>1. RegistersTyped'
      BY <1>2, <1>3, <1>9, <2>2, UseAssumption DEF DLAG, RegistersTyped
    <3> QED BY <1>9, <2>2, <3>1, StartedAwaits DEF DLAG
  <2> QED BY <2>1, <2>2
<1>10. CASE DLCA
  <2>1. RegistersTyped'
    BY <1>2, <1>3, <1>10, UseAssumption DEF DLCA, TellBusy, RegistersTyped
  <2> QED BY <1>10, <2>1, AsksTyped DEF DLCA, Awaits
<1>11. CASE DLDC
  <2>1. RegistersTyped'
    BY <1>2, <1>3, <1>11, UseAssumption DEF DLDC, TellBusy, RegistersTyped
  <2> QED BY <1>11, <2>1, AsksTyped DEF DLDC, Awaits
<1>12. CASE Reset
  <2>1. RegistersTyped'
    BY <1>3, <1>12, NothingTyped DEF Reset, RegistersTyped
  <2> QED BY <1>12, <2>1, SpoiltTyped DEF Reset, Awaits
<1> QED BY <1>1, <1>4, <1>5, <1>6, <1>7, <1>8, <1>9, <1>10, <1>11, <1>12

LEMMA PdpKeeps == ASSUME TransferInv, Pdp PROVE TransferInv'
<1>1. TypeOK /\ AtStage
  BY DEF TransferInv
<1>2. RegistersTyped' /\ HistoryTyped' /\ Awaits /\ UNCHANGED others
  BY <1>1, StepsTyped
<1>3. ThreadTyped' /\ StoresTyped'
  BY <1>1, <1>2 DEF TypeOK, ThreadTyped, StoresTyped, others, copies, drive, memory
<1>4. AtStage'
  BY <1>1, <1>2 DEF AtStage, others, copies, drive, memory, wcnt
<1>5. Served'
  <2> SUFFICES ASSUME waiting' PROVE (InRegisters /\ Copied /\ MovedSoFar /\ Reported)'
    BY DEF Served
  <2>1. apc' = "sleep"
    BY <1>2 DEF others, Awaits
  <2>2. InRegisters'
    BY <1>2 DEF Awaits, InRegisters
  <2>3. Copied' /\ MovedSoFar' /\ Reported'
    BY <1>2, <2>1 DEF Awaits, Copied, MovedSoFar, Reported, HasSts, HasCmd, HasDad, HasMem, Working
  <2> QED BY <2>2, <2>3
<1> QED BY <1>2, <1>3, <1>4, <1>5 DEF TransferInv, TypeOK

-----------------------------------------------------------------------------
(* The thread's side, stage by stage.  The history stays as it is. *)

\* While the thread does its work the program waits or is not served.
LEMMA ServedStill ==
    ASSUME TransferInv, UNCHANGED history,
           manners = "polite" /\ waiting => InRegisters' /\ Copied' /\ MovedSoFar' /\ Reported'
    PROVE  Served'
  BY DEF Served, history

\* The steps before the check move only copies and flags.
LEMMA PollKeeps == ASSUME TransferInv, Poll PROVE TransferInv'
<1> USE DEF TransferInv, Poll, Go, registers, copies, drive, memory, history
<1>1. TypeOK'
  BY DEF TypeOK, RegistersTyped, ThreadTyped, StoresTyped, HistoryTyped, Stages
<1>2. AtStage'
  BY DEF AtStage, wcnt, Working
<1>3. Served'
  BY DEF Served, InRegisters, Copied, MovedSoFar, Reported, Taken, HasSts, HasCmd, HasDad, HasMem,
         Working
<1> QED BY <1>1, <1>2, <1>3

LEMMA ClaimKeeps == ASSUME TransferInv, Claim PROVE TransferInv'
<1> USE DEF TransferInv, Claim, Go, copies, drive, memory, history
<1>1. TypeOK'
  BY DEF TypeOK, RegistersTyped, ThreadTyped, StoresTyped, HistoryTyped, Stages
<1>2. AtStage'
  BY DEF AtStage, wcnt, Working
<1>3. Served'
  BY DEF Served, InRegisters, Copied, MovedSoFar, Reported, Taken, HasSts, HasCmd, HasDad, HasMem,
         Working
<1> QED BY <1>1, <1>2, <1>3

LEMMA ReadRegisterKeeps == ASSUME TransferInv, ReadRegister PROVE TransferInv'
<1> USE DEF TransferInv, ReadRegister, Go, registers, drive, memory, history
<1>1. TypeOK'
  BY DEF TypeOK, RegistersTyped, ThreadTyped, StoresTyped, HistoryTyped, Stages
<1>2. AtStage'
  BY DEF AtStage, wcnt, Working
<1>3. Served'
  BY DEF Served, InRegisters, Copied, MovedSoFar, Reported, Taken, HasSts, HasCmd, HasDad, HasMem,
         Working
<1> QED BY <1>1, <1>2, <1>3

\* The thread has the copy {} of the status of a program that waits.
LEMMA SetStFlags ==
    ASSUME NEW flags \in SUBSET (Flags \ {"CBSY"}), asts \subseteq Flags, SetSt(flags)
    PROVE  /\ asts' \subseteq Flags
           /\ asts = {} => asts' = flags
  BY DEF SetSt, Flags

LEMMA CheckKeeps == ASSUME TransferInv, Check PROVE TransferInv'
<1> USE DEF TransferInv
<1>0. /\ apc = "check" /\ icnt' = 0
      /\ UNCHANGED <<registers, acmd, adad, amem, temp, loaded, memory, disk, history>>
  BY DEF Check
<1>1. \/ /\ acmd.func = 2 /\ ro' = TRUE /\ apc' = "wmem"
         /\ SetSt({"DONE"}) \/ SetSt({"DONE", "FLNR"})
      \/ acmd.func # 2 /\ BadBlock /\ ro' = ro /\ apc' = "wmem" /\ SetSt({"DONE", "CYLR"})
      \/ acmd.func # 2 /\ ~ BadBlock /\ ro' = ro /\ apc' = "delay" /\ asts' = asts
  BY DEF Check, Go
<1>2. asts \subseteq Flags /\ ro \in BOOLEAN /\ NBLKS \in Nat /\ adad \in Nat
  BY SizeAssumption DEF TypeOK, ThreadTyped, StoresTyped
<1>3. /\ asts' \subseteq Flags
      /\ asts = {} /\ apc' = "wmem" => /\ asts' \in {{"DONE"}, {"DONE", "FLNR"}, {"DONE", "CYLR"}}
                                       /\ asts' = {"DONE", "CYLR"} <=> acmd.func # 2
                                       /\ acmd.func # 2 => BadBlock
  <2>1. {"DONE"} \in SUBSET (Flags \ {"CBSY"}) /\ {"DONE", "FLNR"} \in SUBSET (Flags \ {"CBSY"})
        /\ {"DONE", "CYLR"} \in SUBSET (Flags \ {"CBSY"})
    BY DEF Flags
  <2> QED BY <1>1, <1>2, <2>1, SetStFlags
<1>4. TypeOK'
  <2>1. RegistersTyped' /\ HistoryTyped'
    BY <1>0 DEF TypeOK, RegistersTyped, HistoryTyped, registers, history
  <2>2. ThreadTyped'
    BY <1>0, <1>1, <1>3 DEF TypeOK, ThreadTyped, Stages
  <2>3. StoresTyped'
    BY <1>0, <1>1 DEF TypeOK, StoresTyped, memory
  <2> QED BY <2>1, <2>2, <2>3 DEF TypeOK
<1>5. AtStage'
  BY <1>0, <1>1, <1>2 DEF AtStage, wcnt, Working, memory, BadBlock, Blocks
<1>6. Served'
  <2> SUFFICES ASSUME manners = "polite" /\ waiting
               PROVE  InRegisters' /\ Copied' /\ MovedSoFar' /\ Reported'
    BY <1>0, ServedStill
  <2>1. InRegisters /\ Copied
    BY DEF Served
  <2>2. InRegisters'
    BY <1>0, <1>1, <2>1 DEF InRegisters, Taken, registers, history, Working
  <2>3. Copied'
    BY <1>0, <1>1, <2>1 DEF Copied, HasSts, HasCmd, HasDad, HasMem, Working, history
  <2>4. MovedSoFar'
    BY <1>0, <1>1 DEF MovedSoFar
  <2>5. Reported'
    <3>1. CASE apc' = "wmem"
      <4>1. asts = {} /\ acmd = asked.cmd /\ adad = asked.dad /\ amem = asked.mem
        BY <1>0, <2>1 DEF Copied, HasSts, HasCmd, HasDad, HasMem
      <4>2. UNCHANGED <<asked, amem, mem, disk>>
        BY <1>0 DEF history, memory
      <4>3. Outcome(asts', amem, asked, mem, disk)
        BY <1>2, <1>3, <3>1, <4>1 DEF Outcome, BadBlock
      <4> QED BY <3>1, <4>2, <4>3 DEF Reported
    <3>2. CASE apc' # "wmem"
      BY <1>1, <3>2 DEF Reported
    <3> QED BY <3>1, <3>2
  <2> QED BY <2>2, <2>3, <2>4, <2>5
<1> QED BY <1>4, <1>5, <1>6


LEMMA WakeKeeps == ASSUME TransferInv, Wake PROVE TransferInv'
<1> USE DEF TransferInv, Wake, Go, registers, copies, drive, memory, history, Forget
<1>1. TypeOK'
  <2>1. RegistersTyped' /\ StoresTyped' /\ HistoryTyped'
    BY DEF TypeOK, RegistersTyped, StoresTyped, HistoryTyped
  <2>2. CASE stbusy
    BY <2>1, <2>2 DEF TypeOK, ThreadTyped, Stages
  <2>3. CASE ~ stbusy
    BY <2>1, <2>3, NothingTyped DEF TypeOK, ThreadTyped, Stages
  <2> QED BY <2>2, <2>3
<1>2. AtStage'
  BY DEF AtStage, wcnt, Working
<1>3. Served'
  BY DEF Served, InRegisters, Copied, MovedSoFar, Reported, Taken, HasSts, HasCmd, HasDad, HasMem,
         Working
<1> QED BY <1>1, <1>2, <1>3

\* The outcome of a transfer that the drive or the function does not let happen.
LEMMA Refused ==
    ASSUME NEW a \in Asked, NEW s, NEW ma, NEW m, NEW d, ma = a.mem,
           \/ s = {"DONE", "FLNR"} \/ s = {"DONE", "CRCR"}
           \/ s = {"DONE"} /\ a.cmd.func \notin {0, 1, 4, 5}
           \/ s = {"DONE", "TMER"} /\ a.cmd.func \in {6, 7}
           \/ s = {"DONE", "WLER"} /\ a.cmd.func \in {4, 5}
    PROVE  Outcome(s, ma, a, m, d)
  BY DEF Outcome

LEMMA DispatchKeeps == ASSUME TransferInv, Dispatch PROVE TransferInv'
<1> USE DEF TransferInv
<1>0. /\ apc = "go"
      /\ UNCHANGED <<registers, acmd, adad, amem, icnt, drive, memory, disk, history>>
  BY DEF Dispatch
<1> DEFINE s == acmd.func
           done == \/ SetSt({"DONE", "FLNR"}) \/ SetSt({"DONE", "CRCR"})
                   \/ SetSt({"DONE"}) /\ s \notin {0, 1, 4, 5}
                   \/ SetSt({"DONE", "TMER"}) /\ s \in {6, 7}
                   \/ SetSt({"DONE", "WLER"}) /\ s \in {4, 5}
<1>1. \/ apc' = "wmem" /\ done /\ temp' = NoTemp
      \/ apc' = "read" /\ s \in {0, 1} /\ loaded /\ asts' = asts /\ temp' = disk[adad]
      \/ apc' = "write" /\ s \in {4, 5} /\ loaded /\ ~ ro /\ asts' = asts /\ temp' = NoTemp
  BY DEF Dispatch, Go
<1>2. /\ asts \subseteq Flags /\ adad \in Blocks /\ disk[adad] \in Block /\ NoTemp \in Block
      /\ icnt = 0 /\ inflight = NoWord /\ wcnt > 0 /\ asked \in Asked
  <2>1. asts \subseteq Flags /\ adad \in Blocks /\ icnt = 0 /\ inflight = NoWord
    BY <1>0 DEF TypeOK, ThreadTyped, AtStage, Working
  <2>2. disk[adad] \in Block
    BY <2>1 DEF TypeOK, StoresTyped
  <2>3. wcnt > 0
    BY SizeAssumption DEF wcnt
  <2> QED BY <2>1, <2>2, <2>3, NothingTyped DEF TypeOK, HistoryTyped
<1>3. /\ asts' \subseteq Flags
      /\ done /\ asts = {} =>
           \/ asts' = {"DONE", "FLNR"} \/ asts' = {"DONE", "CRCR"}
           \/ asts' = {"DONE"} /\ s \notin {0, 1, 4, 5}
           \/ asts' = {"DONE", "TMER"} /\ s \in {6, 7}
           \/ asts' = {"DONE", "WLER"} /\ s \in {4, 5}
  <2>1. /\ {"DONE"} \in SUBSET (Flags \ {"CBSY"}) /\ {"DONE", "FLNR"} \in SUBSET (Flags \ {"CBSY"})
        /\ {"DONE", "CRCR"} \in SUBSET (Flags \ {"CBSY"})
        /\ {"DONE", "TMER"} \in SUBSET (Flags \ {"CBSY"})
        /\ {"DONE", "WLER"} \in SUBSET (Flags \ {"CBSY"})
    BY DEF Flags
  <2> HIDE DEF s
  <2>2. CASE done
    BY <1>2, <2>1, <2>2, SetStFlags
  <2>3. CASE ~ done
    BY <1>1, <1>2, <2>3
  <2> QED BY <2>2, <2>3
<1> HIDE DEF done
<1>4. TypeOK'
  <2>1. RegistersTyped' /\ HistoryTyped' /\ StoresTyped'
    BY <1>0 DEF TypeOK, RegistersTyped, HistoryTyped, StoresTyped, registers, history, drive, memory
  <2>2. ThreadTyped'
    BY <1>0, <1>1, <1>2, <1>3 DEF TypeOK, ThreadTyped, Stages
  <2> QED BY <2>1, <2>2 DEF TypeOK
<1>5. AtStage'
  <2>1. UNCHANGED <<acmd, adad, icnt, inflight, loaded, ro, wcnt>>
    BY <1>0 DEF drive, memory, wcnt
  <2>2. acmd.func # 2
    BY <1>0 DEF AtStage, Working
  <2> QED BY <1>1, <1>2, <2>1, <2>2 DEF AtStage, Working
<1>6. Served'
  <2> SUFFICES ASSUME manners = "polite" /\ waiting
               PROVE  InRegisters' /\ Copied' /\ MovedSoFar' /\ Reported'
    BY <1>0, ServedStill
  <2>1. InRegisters /\ Copied
    BY DEF Served
  <2>2. asts = {} /\ acmd = asked.cmd /\ adad = asked.dad /\ amem = asked.mem
    BY <1>0, <2>1 DEF Copied, HasSts, HasCmd, HasDad, HasMem, Working
  <2>3. UNCHANGED <<asked, acmd, adad, amem, icnt, mem, disk>>
    BY <1>0 DEF history, memory
  <2>4. InRegisters'
    BY <1>0, <1>1, <2>1 DEF InRegisters, Taken, registers, history, Working
  <2>5. Copied'
    BY <1>1, <2>2, <2>3 DEF Copied, HasSts, HasCmd, HasDad, HasMem, Working
  <2>6. MovedSoFar'
    <3>1. \A a, m, t : Arrived(0, a, m, t)
      BY DEF Arrived
    <3>2. Zeros(0, NoTemp)
      BY DEF Zeros, NoTemp
    <3> QED BY <1>1, <1>2, <2>2, <2>3, <3>1, <3>2 DEF MovedSoFar
  <2>7. Reported'
    <3>1. CASE apc' = "wmem"
      <4>1. Outcome(asts', amem, asked, mem, disk)
        BY <1>1, <1>2, <1>3, <2>2, <3>1, Refused
      <4> QED BY <2>3, <3>1, <4>1 DEF Reported
    <3>2. CASE apc' # "wmem"
      BY <1>1, <3>2 DEF Reported
    <3> QED BY <3>1, <3>2
  <2> QED BY <2>4, <2>5, <2>6, <2>7
<1> QED BY <1>4, <1>5, <1>6

-----------------------------------------------------------------------------
(* The words go one by one, each on its way until the next access. *)

LEMMA LandedTyped == ASSUME StoresTyped PROVE Landed \in [Addrs -> Words]
<1>1. CASE inflight = NoWord
  BY <1>1 DEF StoresTyped, Landed
<1>2. CASE inflight # NoWord
  <2>1. PICK a \in Addrs, w \in Words : inflight = <<a, w>>
    BY <1>2 DEF StoresTyped
  <2>2. inflight[1] = a /\ inflight[2] = w
    BY <2>1
  <2>3. mem \in [Addrs -> Words]
    BY DEF StoresTyped
  <2>4. Landed = [mem EXCEPT ![a] = w]
    BY <1>2, <2>2 DEF Landed
  <2> QED BY <2>1, <2>3, <2>4
<1> QED BY <1>1, <1>2

LEMMA LandKeeps == ASSUME TransferInv, Land PROVE TransferInv'
<1> USE DEF TransferInv
<1>0. /\ inflight # NoWord /\ mem' = Landed /\ inflight' = NoWord
      /\ UNCHANGED <<registers, apc, copies, icnt, temp, drive, disk, history>>
  BY DEF Land
<1>1. TypeOK'
  <2>1. StoresTyped'
    BY <1>0, LandedTyped DEF TypeOK, StoresTyped, drive
  <2> QED BY <1>0, <2>1
          DEF TypeOK, RegistersTyped, ThreadTyped, HistoryTyped, registers, copies, history
<1>2. AtStage'
  BY <1>0 DEF AtStage, wcnt, Working, copies, drive
<1>3. Served'
  <2> SUFFICES ASSUME manners = "polite" /\ waiting
               PROVE  InRegisters' /\ Copied' /\ MovedSoFar' /\ Reported'
    BY <1>0, ServedStill
  <2>1. InRegisters /\ Copied /\ MovedSoFar
    BY DEF Served
  <2>2. apc \in {"read", "flush"} /\ apc' = apc
    BY <1>0 DEF AtStage
  <2>3. Landed' = Landed
    BY <1>0 DEF Landed
  <2>4. InRegisters' /\ Copied'
    BY <1>0, <2>1 DEF InRegisters, Copied, registers, copies, history, wcnt
  <2>5. MovedSoFar' /\ Reported'
    BY <1>0, <2>1, <2>2, <2>3 DEF MovedSoFar, Reported, history
  <2> QED BY <2>4, <2>5
<1> QED BY <1>1, <1>2, <1>3

LEMMA ReadWordKeeps == ASSUME TransferInv, ReadWord PROVE TransferInv'
<1> USE DEF TransferInv
<1>0. /\ apc = "read" /\ mem' = Landed
      /\ inflight' = <<Wrap(amem, icnt), temp[icnt + 1]>>
      /\ icnt' = icnt + 1
      /\ UNCHANGED <<registers, acmd, adad, asts, temp, drive, disk, history>>
  BY DEF ReadWord, xaddr, Wrap
<1>1. \/ icnt + 1 = wcnt /\ amem' = Wrap(amem, wcnt) /\ apc' = "flush"
      \/ icnt + 1 < wcnt /\ amem' = amem /\ apc' = "read"
  BY <1>0 DEF ReadWord, xaddr, Wrap, Go
<1>2. /\ wcnt \in 1 .. BlockWords /\ BlockWords \in 1 .. MemSize /\ MemSize \in Nat
      /\ icnt \in 0 .. wcnt - 1 /\ icnt \in 0 .. MemSize
  BY <1>0, SizeAssumption DEF wcnt, AtStage, TypeOK, ThreadTyped
<1>3. amem \in Addrs /\ Landed \in [Addrs -> Words] /\ temp \in Block
  BY LandedTyped DEF TypeOK, ThreadTyped
<1>4. Wrap(amem, icnt) \in Addrs /\ Wrap(amem, wcnt) \in Addrs /\ temp[icnt + 1] \in Words
  <2>1. wcnt \in 0 .. MemSize
    BY <1>2
  <2>2. Wrap(amem, icnt) \in Addrs /\ Wrap(amem, wcnt) \in Addrs
    BY <1>2, <1>3, <2>1, WrapIn
  <2>3. icnt + 1 \in 1 .. BlockWords
    BY <1>2
  <2> QED BY <1>3, <2>2, <2>3 DEF Block
<1>5. wcnt' = wcnt
  BY <1>0 DEF wcnt
<1>6. TypeOK'
  <2>1. RegistersTyped' /\ HistoryTyped'
    BY <1>0 DEF TypeOK, RegistersTyped, HistoryTyped, registers, history
  <2>2. ThreadTyped'
    BY <1>0, <1>1, <1>2, <1>3, <1>4 DEF TypeOK, ThreadTyped, Stages
  <2>3. StoresTyped'
    BY <1>0, <1>3, <1>4 DEF TypeOK, StoresTyped, drive
  <2> QED BY <2>1, <2>2, <2>3 DEF TypeOK
<1>7. AtStage'
  <2>1. adad \in Blocks /\ acmd.func # 2 /\ acmd.func \in {0, 1} /\ loaded
    BY <1>0 DEF AtStage, Working
  <2> QED BY <1>0, <1>1, <1>2, <1>5, <2>1 DEF AtStage, Working, drive
<1>8. Served'
  <2> SUFFICES ASSUME manners = "polite" /\ waiting
               PROVE  InRegisters' /\ Copied' /\ MovedSoFar' /\ Reported'
    BY <1>0, ServedStill
  <2>1. InRegisters /\ Copied /\ MovedSoFar
    BY DEF Served
  <2>2. amem = asked.mem
    BY <1>0, <2>1 DEF Copied, HasMem
  <2>3. InRegisters'
    BY <1>0, <1>1, <2>1 DEF InRegisters, Taken, Working, registers, history
  <2>4. Copied'
    BY <1>0, <1>1, <1>5, <2>1, <2>2
       DEF Copied, HasSts, HasCmd, HasDad, HasMem, Working, history
  <2>5. Landed' = [Landed EXCEPT ![Wrap(amem, icnt)] = temp[icnt + 1]]
    <3>1. inflight' # NoWord /\ inflight'[1] = Wrap(amem, icnt) /\ inflight'[2] = temp[icnt + 1]
      BY <1>0 DEF NoWord
    <3>2. Landed' = [mem' EXCEPT ![inflight'[1]] = inflight'[2]]
      BY <3>1 DEF Landed
    <3> QED BY <1>0, <3>1, <3>2
  <2>6. temp = disk[asked.dad] /\ Arrived(icnt, amem, Landed, temp)
    BY <1>0, <2>1, <2>2 DEF MovedSoFar
  <2>7. Arrived(icnt + 1, amem, Landed', temp)
    <3>1. icnt \in 0 .. BlockWords - 1
      BY <1>2
    <3> QED BY <1>3, <2>5, <2>6, <3>1, ArrivedMore
  <2>8. MovedSoFar'
    BY <1>0, <1>1, <2>2, <2>6, <2>7 DEF MovedSoFar, history
  <2>9. Reported'
    BY <1>1 DEF Reported
  <2> QED BY <2>3, <2>4, <2>8, <2>9
<1> QED BY <1>6, <1>7, <1>8

LEMMA FlushKeeps == ASSUME TransferInv, Flush PROVE TransferInv'
<1> USE DEF TransferInv
<1>0. /\ apc = "flush" /\ apc' = "wmem" /\ mem' = Landed /\ inflight' = NoWord
      /\ SetSt({"DONE"})
      /\ UNCHANGED <<registers, acmd, adad, amem, icnt, temp, drive, disk, history>>
  BY DEF Flush, Go
<1>1. asts' \subseteq Flags /\ (asts = {} => asts' = {"DONE"})
  <2>1. {"DONE"} \in SUBSET (Flags \ {"CBSY"}) /\ asts \subseteq Flags
    BY DEF Flags, TypeOK, ThreadTyped
  <2> QED BY <1>0, <2>1, SetStFlags
<1>2. TypeOK'
  <2>1. RegistersTyped' /\ HistoryTyped'
    BY <1>0 DEF TypeOK, RegistersTyped, HistoryTyped, registers, history
  <2>2. ThreadTyped'
    BY <1>0, <1>1 DEF TypeOK, ThreadTyped, Stages
  <2>3. StoresTyped'
    BY <1>0, LandedTyped DEF TypeOK, StoresTyped, drive
  <2> QED BY <2>1, <2>2, <2>3 DEF TypeOK
<1>3. AtStage'
  BY <1>0 DEF AtStage, Working
<1>4. Served'
  <2> SUFFICES ASSUME manners = "polite" /\ waiting
               PROVE  InRegisters' /\ Copied' /\ MovedSoFar' /\ Reported'
    BY <1>0, ServedStill
  <2>1. InRegisters /\ Copied /\ MovedSoFar
    BY DEF Served
  <2>2. InRegisters'
    BY <1>0, <2>1 DEF InRegisters, Taken, Working, registers, history
  <2>3. Copied' /\ MovedSoFar'
    BY <1>0 DEF Copied, MovedSoFar, HasSts, HasCmd, HasDad, HasMem, Working
  <2>4. /\ asts = {} /\ acmd = asked.cmd /\ adad = asked.dad /\ adad \in Blocks
        /\ acmd.func \in {0, 1} /\ icnt = wcnt /\ amem = Wrap(asked.mem, wcnt)
        /\ Arrived(icnt, asked.mem, Landed, disk[asked.dad])
    BY <1>0, <2>1 DEF Copied, MovedSoFar, AtStage, HasSts, HasCmd, HasDad, Working
  <2>5. wcnt = Count(asked.cmd)
    BY <2>4 DEF wcnt, Count
  <2>6. Moved(amem, asked, mem', disk)
    BY <1>0, <2>4, <2>5 DEF Moved
  <2>7. Outcome(asts', amem, asked, mem', disk)
    BY <1>1, <2>4, <2>6 DEF Outcome
  <2>8. Reported'
    BY <1>0, <2>7 DEF Reported, history
  <2> QED BY <2>2, <2>3, <2>8
<1> QED BY <1>2, <1>3, <1>4

LEMMA WriteWordKeeps == ASSUME TransferInv, WriteWord PROVE TransferInv'
<1> USE DEF TransferInv
<1>0. /\ apc = "write" /\ mem' = Landed /\ inflight' = NoWord
      /\ temp' = [temp EXCEPT ![icnt + 1] = mem'[Wrap(amem, icnt)]]
      /\ icnt' = icnt + 1
      /\ UNCHANGED <<registers, copies, drive, disk, history>>
  BY DEF WriteWord, xaddr, Wrap
<1>1. \/ icnt + 1 = wcnt /\ apc' = "pwrite"
      \/ icnt + 1 # wcnt /\ apc' = "write"
  BY <1>0 DEF WriteWord, Go
<1>2. /\ wcnt \in 1 .. BlockWords /\ BlockWords \in 1 .. MemSize /\ MemSize \in Nat
      /\ icnt \in 0 .. wcnt - 1 /\ icnt \in 0 .. MemSize
  BY <1>0, SizeAssumption DEF wcnt, AtStage, TypeOK, ThreadTyped
<1>3. amem \in Addrs /\ temp \in Block /\ mem' = mem /\ mem \in [Addrs -> Words]
  BY <1>0 DEF TypeOK, ThreadTyped, StoresTyped, AtStage, Landed
<1>4. wcnt' = wcnt
  BY <1>0 DEF wcnt, copies
<1>5. temp' \in Block
  <2>1. Wrap(amem, icnt) \in Addrs
    BY <1>2, <1>3, WrapIn
  <2>2. mem'[Wrap(amem, icnt)] \in Words
    BY <2>1, <1>3
  <2> QED BY <1>0, <1>3, <2>2 DEF Block
<1>6. TypeOK'
  <2>1. RegistersTyped' /\ HistoryTyped'
    BY <1>0 DEF TypeOK, RegistersTyped, HistoryTyped, registers, history
  <2>2. ThreadTyped'
    BY <1>0, <1>1, <1>2, <1>5 DEF TypeOK, ThreadTyped, Stages, copies
  <2>3. StoresTyped'
    BY <1>0, <1>3 DEF TypeOK, StoresTyped, drive
  <2> QED BY <2>1, <2>2, <2>3 DEF TypeOK
<1>7. AtStage'
  <2>1. adad \in Blocks /\ acmd.func # 2 /\ acmd.func \in {4, 5} /\ loaded /\ ~ ro
    BY <1>0 DEF AtStage, Working
  <2> QED BY <1>0, <1>1, <1>2, <1>4, <2>1 DEF AtStage, Working, copies, drive
<1>8. Served'
  <2> SUFFICES ASSUME manners = "polite" /\ waiting
               PROVE  InRegisters' /\ Copied' /\ MovedSoFar' /\ Reported'
    BY <1>0, ServedStill
  <2>1. InRegisters /\ Copied /\ MovedSoFar
    BY DEF Served
  <2>2. amem = asked.mem
    BY <1>0, <2>1 DEF Copied, HasMem
  <2>3. InRegisters'
    BY <1>0, <1>1, <2>1 DEF InRegisters, Taken, Working, registers, history
  <2>4. Copied'
    BY <1>0, <1>1, <2>1 DEF Copied, HasSts, HasCmd, HasDad, HasMem, Working, history, copies
  <2>5. Arrived(icnt, amem, mem, temp) /\ Zeros(icnt, temp)
    BY <1>0, <2>1, <2>2 DEF MovedSoFar
  <2>6. Arrived(icnt + 1, amem, mem, temp') /\ Zeros(icnt + 1, temp')
    <3>1. icnt \in 0 .. BlockWords - 1
      BY <1>2
    <3> QED BY <1>0, <1>3, <2>5, <3>1, GatheredMore
  <2>7. MovedSoFar'
    BY <1>0, <1>1, <1>3, <2>2, <2>6 DEF MovedSoFar, history
  <2>8. Reported'
    BY <1>1 DEF Reported
  <2> QED BY <2>3, <2>4, <2>7, <2>8
<1> QED BY <1>6, <1>7, <1>8

\* A block is replaced by another, whole or in part.
LEMMA PwriteStores ==
    ASSUME TransferInv, Pwrite
    PROVE  /\ disk' \in [Blocks -> Block]
           /\ \/ disk' = [disk EXCEPT ![adad] = temp] /\ amem' = Wrap(amem, wcnt) /\ SetSt({"DONE"})
              \/ SetSt({"DONE", "CRCR"}) /\ amem' = amem
<1>1. apc = "pwrite" /\ disk \in [Blocks -> Block] /\ temp \in Block /\ adad \in Blocks
  BY DEF TransferInv, TypeOK, ThreadTyped, StoresTyped, AtStage, Working, Pwrite
<1>2. CASE disk' = [disk EXCEPT ![adad] = temp] /\ amem' = xaddr(wcnt) /\ SetSt({"DONE"})
  BY <1>1, <1>2 DEF xaddr, Wrap
<1>3. CASE /\ \E n \in 0 .. BlockWords - 1 :
                disk' = [disk EXCEPT ![adad] = [i \in 1 .. BlockWords |->
                                                  IF i <= n THEN temp[i] ELSE @[i]]]
           /\ SetSt({"DONE", "CRCR"}) /\ UNCHANGED amem
  <2>1. PICK n \in 0 .. BlockWords - 1 :
          disk' = [disk EXCEPT ![adad] = [i \in 1 .. BlockWords |->
                                            IF i <= n THEN temp[i] ELSE disk[adad][i]]]
    BY <1>3
  <2>2. [i \in 1 .. BlockWords |-> IF i <= n THEN temp[i] ELSE disk[adad][i]] \in Block
    <3>1. disk[adad] \in Block
      BY <1>1
    <3> QED BY <1>1, <3>1 DEF Block
  <2> QED BY <1>1, <1>3, <2>1, <2>2
<1> QED BY <1>2, <1>3 DEF Pwrite

LEMMA PwriteKeeps == ASSUME TransferInv, Pwrite PROVE TransferInv'
<1> USE DEF TransferInv
<1>0. /\ apc = "pwrite" /\ apc' = "wmem"
      /\ UNCHANGED <<registers, acmd, adad, icnt, temp, drive, memory, history>>
  BY DEF Pwrite, Go
<1>1. /\ disk' \in [Blocks -> Block]
      /\ \/ disk' = [disk EXCEPT ![adad] = temp] /\ amem' = Wrap(amem, wcnt) /\ SetSt({"DONE"})
         \/ SetSt({"DONE", "CRCR"}) /\ amem' = amem
  BY PwriteStores
<1>2. amem \in Addrs /\ Wrap(amem, wcnt) \in Addrs /\ adad \in Blocks /\ asts \subseteq Flags
  <2>1. wcnt \in 0 .. MemSize
    BY SizeAssumption DEF wcnt
  <2> QED BY <1>0, <2>1, WrapIn DEF TypeOK, ThreadTyped, AtStage, Working
<1>3. /\ asts' \subseteq Flags
      /\ asts = {} => \/ asts' = {"DONE", "CRCR"} /\ amem' = amem
                      \/ /\ asts' = {"DONE"} /\ amem' = Wrap(amem, wcnt)
                         /\ disk' = [disk EXCEPT ![adad] = temp]
  <2>1. {"DONE"} \in SUBSET (Flags \ {"CBSY"}) /\ {"DONE", "CRCR"} \in SUBSET (Flags \ {"CBSY"})
    BY DEF Flags
  <2> QED BY <1>1, <1>2, <2>1, SetStFlags
<1>4. TypeOK'
  <2>1. RegistersTyped' /\ HistoryTyped'
    BY <1>0 DEF TypeOK, RegistersTyped, HistoryTyped, registers, history
  <2>2. ThreadTyped'
    BY <1>0, <1>1, <1>2, <1>3 DEF TypeOK, ThreadTyped, Stages
  <2>3. StoresTyped'
    BY <1>0, <1>1 DEF TypeOK, StoresTyped, drive, memory
  <2> QED BY <2>1, <2>2, <2>3 DEF TypeOK
<1>5. AtStage'
  BY <1>0 DEF AtStage, Working, memory
<1>6. Served'
  <2> SUFFICES ASSUME manners = "polite" /\ waiting
               PROVE  InRegisters' /\ Copied' /\ MovedSoFar' /\ Reported'
    BY <1>0, ServedStill
  <2>1. InRegisters /\ Copied /\ MovedSoFar
    BY DEF Served
  <2>2. InRegisters'
    BY <1>0, <2>1 DEF InRegisters, Taken, Working, registers, history
  <2>3. Copied' /\ MovedSoFar'
    BY <1>0 DEF Copied, MovedSoFar, HasSts, HasCmd, HasDad, HasMem, Working
  <2>4. /\ asts = {} /\ acmd = asked.cmd /\ adad = asked.dad
        /\ icnt = wcnt /\ amem = asked.mem
        /\ Arrived(icnt, asked.mem, mem, temp) /\ Zeros(icnt, temp)
    BY <1>0, <2>1 DEF Copied, MovedSoFar, AtStage, HasSts, HasCmd, HasDad, HasMem, Working
  <2>5. wcnt = Count(asked.cmd)
    BY <2>4 DEF wcnt, Count
  <2>6. CASE asts' = {"DONE", "CRCR"} /\ amem' = amem
    <3>1. Outcome(asts', amem', asked, mem, disk')
      BY <1>2, <2>4, <2>6, Refused DEF TypeOK, HistoryTyped
    <3> QED BY <1>0, <2>2, <2>3, <3>1 DEF Reported, history, memory
  <2>7. CASE asts' = {"DONE"} /\ amem' = Wrap(amem, wcnt) /\ disk' = [disk EXCEPT ![adad] = temp]
    <3>1. disk'[asked.dad] = temp
      BY <1>2, <2>4, <2>7 DEF TypeOK, StoresTyped
    <3>2. Moved(amem', asked, mem, disk')
      BY <2>4, <2>5, <2>7, <3>1 DEF Moved
    <3>3. Outcome(asts', amem', asked, mem, disk')
      BY <2>7, <3>2 DEF Outcome
    <3> QED BY <1>0, <2>2, <2>3, <3>3 DEF Reported, history, memory
  <2> QED BY <1>3, <2>2, <2>3, <2>4, <2>6, <2>7
<1> QED BY <1>4, <1>5, <1>6

-----------------------------------------------------------------------------
(* The end of it, and the operator. *)

LEMMA WriteMemKeeps == ASSUME TransferInv, WriteMem PROVE TransferInv'
<1> USE DEF TransferInv, WriteMem, Go, Forget, drive, memory, history
<1>1. TypeOK'
  <2>1. RegistersTyped' /\ StoresTyped' /\ HistoryTyped'
    BY DEF TypeOK, RegistersTyped, ThreadTyped, StoresTyped, HistoryTyped
  <2>2. ThreadTyped'
    BY NothingTyped DEF TypeOK, ThreadTyped, Stages
  <2> QED BY <2>1, <2>2 DEF TypeOK
<1>2. AtStage'
  BY DEF AtStage, wcnt, Working
<1>3. Served'
  BY DEF Served, InRegisters, Copied, MovedSoFar, Reported, Taken, HasSts, HasCmd, HasDad, HasMem,
         Working
<1> QED BY <1>1, <1>2, <1>3

LEMMA WriteFlgKeeps == ASSUME TransferInv, WriteFlg PROVE TransferInv'
<1> USE DEF TransferInv, WriteFlg, Go, copies, drive, memory, history
<1>1. TypeOK'
  BY DEF TypeOK, RegistersTyped, ThreadTyped, StoresTyped, HistoryTyped, Stages
<1>2. AtStage'
  BY DEF AtStage, wcnt, Working
<1>3. Served'
  BY DEF Served, InRegisters, Copied, MovedSoFar, Reported, Taken, HasSts, HasCmd, HasDad, HasMem,
         Working
<1> QED BY <1>1, <1>2, <1>3

LEMMA WriteStsKeeps == ASSUME TransferInv, WriteSts PROVE TransferInv'
<1> USE DEF TransferInv, WriteSts, Go, drive, memory, history
<1>1. TypeOK'
  <2>1. status' \subseteq Flags
    BY DEF StatusWritten, TypeOK, RegistersTyped, ThreadTyped
  <2> QED BY <2>1 DEF TypeOK, RegistersTyped, ThreadTyped, StoresTyped, HistoryTyped, Stages
<1>2. AtStage'
  BY DEF AtStage, wcnt, Working
<1>3. Served'
  <2> SUFFICES ASSUME manners = "polite" /\ waiting
               PROVE  InRegisters' /\ Copied' /\ MovedSoFar' /\ Reported'
    BY ServedStill
  <2>1. Outcome(asts, memaddr, asked, mem, disk) /\ status = {} /\ ~ startio
    BY DEF Served, Reported
  <2>2. status' = asts
    <3>1. "CBSY" \notin asts
      BY <2>1 DEF Outcome
    <3> QED BY <2>1, <3>1 DEF StatusWritten
  <2>3. Reported'
    BY <2>1, <2>2 DEF Reported
  <2> QED BY <2>1, <2>3 DEF InRegisters, Copied, MovedSoFar, Taken, HasSts, HasCmd, HasDad, HasMem,
                            Working
<1> QED BY <1>1, <1>2, <1>3

LEMMA HostKeeps == ASSUME TransferInv, Host PROVE TransferInv'
<1> USE DEF TransferInv, Host, HasLock, registers, copies, memory, history
<1>1. TypeOK'
  BY DEF TypeOK, RegistersTyped, ThreadTyped, StoresTyped, HistoryTyped
<1>2. AtStage'
  BY DEF AtStage, wcnt, Working
<1>3. Served'
  BY DEF Served, InRegisters, Copied, MovedSoFar, Reported, Landed, wcnt
<1> QED BY <1>1, <1>2, <1>3

LEMMA StutterKeeps == ASSUME TransferInv, UNCHANGED vars PROVE TransferInv'
<1> USE DEF TransferInv, vars, registers, copies, drive, memory, history
<1>1. TypeOK'
  BY DEF TypeOK, RegistersTyped, ThreadTyped, StoresTyped, HistoryTyped
<1>2. AtStage'
  BY DEF AtStage, wcnt
<1>3. Served'
  BY DEF Served, InRegisters, Copied, MovedSoFar, Reported, Landed, wcnt
<1> QED BY <1>1, <1>2, <1>3

LEMMA TransferStep == TransferInv /\ [Next]_vars => TransferInv'
<1> SUFFICES ASSUME TransferInv, [Next]_vars PROVE TransferInv'
  OBVIOUS
<1>1. \/ Pdp \/ Poll \/ Claim \/ ReadRegister \/ Check \/ Wake \/ Dispatch
      \/ ReadWord \/ Flush \/ WriteWord \/ Pwrite
      \/ WriteMem \/ WriteFlg \/ WriteSts \/ Land \/ Host \/ UNCHANGED vars
  BY DEF Next, Thread
<1> QED BY <1>1, PdpKeeps, PollKeeps, ClaimKeeps, ReadRegisterKeeps, CheckKeeps, WakeKeeps,
           DispatchKeeps, ReadWordKeeps, FlushKeeps, WriteWordKeeps, PwriteKeeps, WriteMemKeeps,
           WriteFlgKeeps, WriteStsKeeps, LandKeeps, HostKeeps, StutterKeeps

LEMMA TransferInductive == Spec => []TransferInv
  BY TransferInitially, TransferStep, PTL DEF Spec

-----------------------------------------------------------------------------
(* What the program is to be told, and when nothing of it is under way. *)

\* The thread has the lock from when it looks at the drive until the program is told.
Judged ==
    /\ manners = "polite" /\ waiting /\ apc \in {"wmem", "wflg", "wsts"} => Fits(asts \ {"DONE"})
    /\ manners = "polite" /\ ~ waiting => apc = "sleep" /\ ~ startio

LEMMA SetStAlone ==
    ASSUME asts = {}, NEW flags, SetSt(flags)
    PROVE  asts' = flags
  BY DEF SetSt

\* A step of the thread while a polite program waits for it.
LEMMA WaitedFor ==
    ASSUME TransferInv, Judged, manners = "polite", apc \in Taken
    PROVE  waiting /\ InRegisters /\ Copied /\ MovedSoFar /\ Reported
  BY DEF TransferInv, Judged, Served, Taken, Working

LEMMA CheckJudges == ASSUME TransferInv, Judged, Check PROVE Judged'
<1> SUFFICES ASSUME manners = "polite" PROVE Judged'
  BY DEF Judged, Check, history
<1>1. waiting /\ Copied
  BY WaitedFor DEF Check, Taken
<1>2. asts = {} /\ acmd = asked.cmd /\ adad = asked.dad
  BY <1>1 DEF Copied, Check, HasSts, HasCmd, HasDad
<1>3. UNCHANGED <<history, loaded>> /\ waiting' = TRUE
  BY <1>1 DEF Check, history
<1>4. CASE acmd.func = 2
  <2>1. ro' = TRUE /\ (SetSt({"DONE"}) \/ SetSt({"DONE", "FLNR"}))
    BY <1>4 DEF Check
  <2>2. asts' = {"DONE"} \/ asts' = {"DONE", "FLNR"}
    BY <1>2, <2>1, SetStAlone
  <2>3. asts' \ {"DONE"} \subseteq {"FLNR"}
    BY <2>2
  <2> QED BY <1>2, <1>3, <1>4, <2>1, <2>3 DEF Judged, Fits, history
<1>5. CASE acmd.func # 2 /\ BadBlock
  <2>1. SetSt({"DONE", "CYLR"}) /\ adad >= NBLKS
    BY <1>5 DEF Check, BadBlock
  <2>2. asts' \ {"DONE"} = {"CYLR"}
    BY <1>2, <2>1, SetStAlone
  <2> QED BY <1>2, <1>3, <1>5, <2>1, <2>2 DEF Judged, Fits, Bad, history
<1>6. CASE acmd.func # 2 /\ ~ BadBlock
  BY <1>3, <1>6 DEF Check, Go, Judged
<1> QED BY <1>4, <1>5, <1>6

LEMMA DispatchJudges == ASSUME TransferInv, Judged, Dispatch PROVE Judged'
<1> SUFFICES ASSUME manners = "polite" PROVE Judged'
  BY DEF Judged, Dispatch, history
<1>1. waiting /\ Copied
  BY WaitedFor DEF Dispatch, Taken, Working
<1>2. asts = {} /\ acmd = asked.cmd /\ adad = asked.dad /\ adad \in Blocks /\ acmd.func # 2
  BY <1>1 DEF Copied, Dispatch, HasSts, HasCmd, HasDad, Working, TransferInv, AtStage
<1>3. ~ Bad /\ asked.cmd.func # 2
  BY <1>2, SizeAssumption DEF Bad, Blocks
<1>4. UNCHANGED <<history, drive>> /\ waiting' = TRUE
  BY <1>1 DEF Dispatch, history
<1>5. ASSUME NEW error \in {"FLNR", "TMER", "WLER", "CRCR"}, SetSt({"DONE", error})
      PROVE  asts' \ {"DONE"} = {error}
  BY <1>2, <1>5, SetStAlone
<1>6. CASE apc' \in {"read", "write"}
  BY <1>4, <1>6 DEF Judged
<1>7. CASE SetSt({"DONE", "FLNR"}) /\ ~ loaded
  BY <1>3, <1>4, <1>5, <1>7 DEF Judged, Fits, Bad, history, drive
<1>8. CASE SetSt({"DONE"}) /\ loaded /\ acmd.func = 3
  <2>1. asts' \ {"DONE"} = {}
    BY <1>2, <1>8, SetStAlone
  <2> QED BY <1>2, <1>3, <1>4, <1>8, <2>1 DEF Judged, Fits, Works, Bad, history, drive
<1>9. CASE SetSt({"DONE", "TMER"}) /\ loaded /\ acmd.func \in {6, 7}
  BY <1>2, <1>3, <1>4, <1>5, <1>9 DEF Judged, Fits, Works, Bad, history, drive
<1>10. CASE SetSt({"DONE", "WLER"}) /\ loaded /\ acmd.func \in {4, 5} /\ ro
  BY <1>2, <1>3, <1>4, <1>5, <1>10 DEF Judged, Fits, Works, Bad, history, drive
<1>11. CASE SetSt({"DONE", "CRCR"}) /\ loaded /\ acmd.func \in {0, 1}
  BY <1>2, <1>3, <1>4, <1>5, <1>11 DEF Judged, Fits, Works, Bad, history, drive
<1> QED BY <1>6, <1>7, <1>8, <1>9, <1>10, <1>11 DEF Dispatch, Go

\* The two ways a transfer ends that was begun.
LEMMA MovedJudges == ASSUME TransferInv, Judged, Flush \/ Pwrite PROVE Judged'
<1> SUFFICES ASSUME manners = "polite" PROVE Judged'
  BY DEF Judged, Flush, Pwrite, history
<1>1. waiting /\ Copied /\ InRegisters
  BY WaitedFor DEF Flush, Pwrite, Taken, Working
<1>2. /\ asts = {} /\ acmd = asked.cmd /\ adad = asked.dad /\ adad \in Blocks /\ acmd.func # 2
      /\ loaded /\ (acmd.func \in {0, 1} \/ (acmd.func \in {4, 5} /\ ~ ro))
  BY <1>1 DEF Copied, Flush, Pwrite, HasSts, HasCmd, HasDad, Working, TransferInv, AtStage
<1>3. ~ Bad
  BY <1>2, SizeAssumption DEF Bad, Blocks
<1>4. UNCHANGED <<history, drive>> /\ waiting' = TRUE
  BY <1>1 DEF Flush, Pwrite, history
<1>5. SetSt({"DONE"}) \/ SetSt({"DONE", "CRCR"})
  BY DEF Flush, Pwrite
<1>6. asts' = {"DONE"} \/ asts' = {"DONE", "CRCR"}
  BY <1>2, <1>5, SetStAlone
<1>7. asts' \ {"DONE"} \subseteq {"CRCR"}
  BY <1>6
<1>8. asked' = asked /\ loaded' = loaded /\ ro' = ro
  BY <1>4 DEF history, drive
<1>9. Fits(asts' \ {"DONE"})
  BY <1>2, <1>3, <1>7 DEF Fits, Works
<1>10. Fits(asts \ {"DONE"})'
  BY <1>8, <1>9 DEF Fits, Works, Bad
<1> QED BY <1>4, <1>10 DEF Judged

\* An instruction ends the waiting, or starts it, with the thread asleep.
LEMMA PdpJudges == ASSUME TransferInv, Judged, Pdp PROVE Judged'
<1>1. UNCHANGED others /\ Awaits
  BY StepsTyped DEF TransferInv
<1>2. waiting' => Judged'
  BY <1>1 DEF Awaits, others, Judged
<1>3. ASSUME ~ waiting', manners' = "polite"
      PROVE  apc = "sleep" /\ ~ startio'
  <2>1. /\ manners = "polite"
        /\ \/ DSKP
           \/ UNCHANGED <<history, startio>>
    BY <1>3 DEF Pdp, DCLR0, DCLR1, DCLR2, DCLR3, DLAG, DLCA, DLDC, Reset, DSKP, Asks, Rude,
                Clears, Spoilt, Started, history
  <2>2. CASE DSKP
    <3>1. waiting /\ status # {} /\ startio' = startio
      BY <2>2 DEF DSKP, Skip, registers
    <3>2. Served /\ apc \in Stages
      BY DEF TransferInv, TypeOK, ThreadTyped
    <3> QED BY <2>1, <3>1, <3>2 DEF Served, InRegisters, Reported, Stages, Taken, Working
  <2>3. CASE UNCHANGED <<history, startio>>
    BY <1>3, <2>1, <2>3 DEF Judged, history
  <2> QED BY <2>1, <2>2, <2>3
<1> QED BY <1>1, <1>2, <1>3 DEF Judged, others

LEMMA JudgedStep == TransferInv /\ Judged /\ [Next]_vars => Judged'
<1> SUFFICES ASSUME TransferInv, Judged, [Next]_vars PROVE Judged'
  OBVIOUS
<1>1. CASE Pdp
  BY <1>1, PdpJudges
<1>2. CASE Check \/ Dispatch \/ Flush \/ Pwrite
  BY <1>2, CheckJudges, DispatchJudges, MovedJudges
<1>3. CASE Poll \/ Claim \/ ReadRegister \/ Wake \/ ReadWord \/ WriteWord
  BY <1>3 DEF Judged, Poll, Claim, ReadRegister, Wake, ReadWord, WriteWord, Go, registers, history
<1>4. CASE WriteMem \/ WriteFlg \/ WriteSts \/ Land \/ UNCHANGED vars
  BY <1>4 DEF Judged, Fits, Works, Bad, WriteMem, WriteFlg, WriteSts, Land, vars, Go, registers,
              copies, drive, history
<1>5. CASE Host
  BY <1>5 DEF Judged, Host, HasLock, registers, history
<1> QED BY <1>1, <1>2, <1>3, <1>4, <1>5 DEF Next, Thread

LEMMA JudgedInductive == Spec => [](TransferInv /\ Judged)
<1>1. Init => Judged
  BY DEF Init, Judged
<1> QED BY <1>1, JudgedStep, TransferInitially, TransferStep, PTL DEF Spec

\* Only these two kinds of steps change what is stored.
LEMMA StoresChange ==
    ASSUME TransferInv, Next
    PROVE  /\ mem' # mem => apc \in {"read", "flush"} /\ UNCHANGED history
           /\ disk' # disk => Pwrite
<1>1. CASE Pdp
  BY <1>1, StepsTyped DEF TransferInv, others, memory
<1>2. CASE Land \/ ReadWord \/ Flush \/ WriteWord
  BY <1>2 DEF Land, ReadWord, Flush, WriteWord, Landed, TransferInv, AtStage
<1>3. CASE Pwrite
  BY <1>3 DEF Pwrite, memory
<1>4. CASE ~ Pdp /\ ~ Pwrite /\ ~ (Land \/ ReadWord \/ Flush \/ WriteWord)
  BY <1>4 DEF Next, Thread, Poll, Claim, ReadRegister, Check, Wake, Dispatch, WriteMem, WriteFlg,
              WriteSts, Host, memory
<1> QED BY <1>1, <1>2, <1>3, <1>4

-----------------------------------------------------------------------------
(* The theorems. *)

\* When a program that only waits sees its transfer done without error, all its words
\* are where they belong, a half block is zero filled, and the memory address is past
\* them: whatever the operator does with the disk meanwhile, for every size of a block,
\* a field and a disk.
THEOREM TransferIsRight == Spec => []TransferRight
<1>1. TransferInv => TransferRight
  <2> SUFFICES ASSUME TransferInv, manners = "polite", waiting, status = {"DONE"},
                      asked.cmd.func \in {0, 1, 4, 5}
               PROVE  LET n == Count(asked.cmd)
                      IN  /\ \A i \in 0 .. n - 1 : mem[Cell(i)] = disk[asked.dad][i + 1]
                          /\ asked.cmd.func \in {4, 5} =>
                                \A i \in n + 1 .. BlockWords : disk[asked.dad][i] = 0
                          /\ memaddr = Cell(n)
    BY DEF TransferRight
  <2>1. apc = "sleep" /\ ~ startio
    BY DEF TransferInv, TypeOK, ThreadTyped, Served, InRegisters, Reported, Stages, Taken, Working
  <2>2. Outcome(status, memaddr, asked, mem, disk)
    BY <2>1 DEF TransferInv, Served, Reported
  <2>3. Moved(memaddr, asked, mem, disk)
    BY <2>2 DEF Outcome
  <2> QED BY <2>3 DEF Moved, Arrived, Zeros, Cell, Wrap
<1> QED BY <1>1, TransferInductive, PTL

\* A program that only waits is told DONE, with exactly the error that what it asked for
\* has with the drive as it is at that step: bad address, no file, no such function,
\* write protected, or a read or write of the file that failed; with an error the memory
\* address is what it was; and memory changes only for a read, and the disk only for an
\* unprotected write, of a good block of a loaded drive.
THEOREM ErrorIsRight == Spec => ErrorRight
<1> DEFINE Told == ~ Skip /\ Skip' => /\ "DONE" \in status' /\ Fits(status' \ {"DONE"})
                                      /\ status' # {"DONE"} => memaddr' = asked.mem
           Still == /\ mem' # mem => Works({0, 1})
                    /\ disk' # disk => Works({4, 5}) /\ ~ ro
<1>1. ASSUME TransferInv, Judged, Next, manners = "polite", waiting
      PROVE  Told
  <2> SUFFICES ASSUME ~ Skip, Skip' PROVE Told
    OBVIOUS
  <2>1. CASE Pdp
    BY <1>1, <2>1 DEF Pdp, DSKP, DCLR0, DCLR1, DCLR2, DCLR3, DLAG, DLCA, DLDC, Reset, TellBusy, Skip
  <2>2. CASE WriteSts
    <3>1. Outcome(asts, memaddr, asked, mem, disk) /\ status = {} /\ Fits(asts \ {"DONE"})
      BY <1>1, <2>2 DEF TransferInv, Judged, Served, Reported, WriteSts
    <3>2. status' = asts /\ memaddr' = memaddr
      BY <2>2, <3>1 DEF WriteSts, StatusWritten, Outcome
    <3> QED BY <3>1, <3>2 DEF Outcome
  <2>3. CASE ~ Pdp /\ ~ WriteSts
    <3>1. status' = status
      BY <1>1, <2>3 DEF Next, Thread, Poll, Claim, ReadRegister, Check, Wake, Dispatch, ReadWord,
                  Flush, WriteWord, Pwrite, WriteMem, WriteFlg, Land, Host, registers
    <3> QED BY <3>1 DEF Skip
  <2> QED BY <2>1, <2>2, <2>3
<1>2. ASSUME TransferInv, Judged, Next, manners = "polite", waiting
      PROVE  Still
  <2>1. Copied /\ AtStage
    BY <1>2 DEF TransferInv, Served
  <2>2. mem' # mem => Works({0, 1})
    <3> SUFFICES ASSUME mem' # mem PROVE Works({0, 1})
      OBVIOUS
    <3>1. apc \in {"read", "flush"}
      BY <1>2, StoresChange
    <3> QED BY <2>1, <3>1, SizeAssumption DEF Copied, AtStage, HasCmd, HasDad, Working, Works, Bad,
                                              Blocks
  <2>3. disk' # disk => Works({4, 5}) /\ ~ ro
    <3> SUFFICES ASSUME disk' # disk PROVE Works({4, 5}) /\ ~ ro
      OBVIOUS
    <3>1. apc = "pwrite"
      BY <1>2, StoresChange DEF Pwrite
    <3> QED BY <2>1, <3>1, SizeAssumption DEF Copied, AtStage, HasCmd, HasDad, Working, Works, Bad,
                                              Blocks
  <2> QED BY <2>2, <2>3
<1>3. TransferInv /\ Judged /\ [Next]_vars => [manners = "polite" /\ waiting => Told /\ Still]_vars
  BY <1>1, <1>2
<1> QED BY <1>3, JudgedInductive, PTL DEF Spec, ErrorRight

\* No step changes the disk while it is write protected or there is none, neither for a
\* write under way when the operator protects it nor for one asked for before; none but a
\* write command's, and none but the block it is for; and when the program only waits for
\* its transfers it is the write, and the block, that it asked for.
THEOREM ProtectionHolds == Spec => WriteProtected
<1> DEFINE Right == /\ loaded /\ ~ ro /\ acmd.func \in {4, 5}
                    /\ \A b \in Blocks \ {adad} : disk'[b] = disk[b]
                    /\ manners = "polite" => waiting /\ acmd = asked.cmd /\ adad = asked.dad
<1>1. ASSUME TransferInv, Judged, Next, disk' # disk
      PROVE  Right
  <2>1. Pwrite /\ apc = "pwrite"
    BY <1>1, StoresChange DEF Pwrite
  <2>2. loaded /\ ~ ro /\ acmd.func \in {4, 5}
    BY <1>1, <2>1 DEF TransferInv, AtStage
  <2>3. \A b \in Blocks \ {adad} : disk'[b] = disk[b]
    <3>1. disk \in [Blocks -> Block]
      BY <1>1 DEF TransferInv, TypeOK, StoresTyped
    <3>2. \E t : disk' = [disk EXCEPT ![adad] = t]
      BY <2>1 DEF Pwrite
    <3> QED BY <3>1, <3>2
  <2>4. manners = "polite" => waiting /\ acmd = asked.cmd /\ adad = asked.dad
    BY <1>1, <2>1, WaitedFor DEF Taken, Working, Copied, HasCmd, HasDad
  <2> QED BY <2>2, <2>3, <2>4
<1>2. TransferInv /\ Judged /\ [Next]_vars => [disk' # disk => Right]_vars
  BY <1>1
<1> QED BY <1>2, JudgedInductive, PTL DEF Spec, WriteProtected

\* CBSY goes away only by an instruction, or START, that clears the whole status, and
\* comes only by one that the busy controller ignores, registers and transfer alike: the
\* thread that writes the status at the end of a transfer neither loses nor invents it.
THEOREM BusyIsKept == Spec => CbsyKept
<1> DEFINE Kept ==
             /\ "CBSY" \in status /\ "CBSY" \notin status' => Pdp /\ status' = {}
             /\ "CBSY" \notin status /\ "CBSY" \in status' =>
                   stbusy /\ UNCHANGED <<command, diskaddr, memaddr, startio, stbusy, others>>
<1>1. ASSUME Next PROVE Kept
  <2>1. CASE Pdp
    <3>1. \/ status' = status \/ status' = {}
          \/ /\ status' = status \cup {"CBSY"}
             /\ stbusy /\ UNCHANGED <<command, diskaddr, memaddr, startio, stbusy, others>>
      BY <2>1 DEF Pdp, DSKP, DCLR0, DCLR1, DCLR2, DCLR3, DLAG, DLCA, DLDC, Reset, TellBusy,
                  registers
    <3> QED BY <2>1, <3>1
  <2>2. CASE WriteSts
    BY <2>2 DEF WriteSts, StatusWritten
  <2>3. CASE ~ Pdp /\ ~ WriteSts
    BY <1>1, <2>3 DEF Next, Thread, Poll, Claim, ReadRegister, Check, Wake, Dispatch, ReadWord,
                Flush, WriteWord, Pwrite, WriteMem, WriteFlg, Land, Host, registers
  <2> QED BY <2>1, <2>2, <2>3
<1>2. [Next]_vars => [Kept]_vars
  BY <1>1
<1> QED BY <1>2, PTL DEF Spec, CbsyKept
=============================================================================
