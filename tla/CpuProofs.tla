----------------------------- MODULE CpuProofs -----------------------------
(***************************************************************************)
(* Type correctness of the processor; the proof that no interrupt drops a  *)
(* field change that a CIF has announced; and the refinement of SimTest.   *)
(***************************************************************************)
EXTENDS Cpu, TLAPS

CpuType ==
    [majstate : States, ireg : 0 .. 7, irusedf : BOOLEAN,
     madr : Addrs, pctr : Addrs, intdelayed : BOOLEAN, intenabled : BOOLEAN]
XmType ==
    [dfld : Fields, ifld : Fields, ifldafterjump : Fields,
     saveddfld : Fields, savedifld : Fields,
     intinhibeduntiljump : BOOLEAN, uses : {"brk", "df", "zero", "if"}]

-----------------------------------------------------------------------------
(* The operators of a cycle keep the types. *)

\* A word's address stays within the field.
\* Zero or a multiple of the page size below the size, plus an offset in a page
LEMMA WithinPages ==
    ASSUME NEW n \in Nat, NEW p \in Nat \ {0}, n % p = 0,
           NEW a \in 0 .. n - 1, NEW off \in 0 .. p - 1
    PROVE  a - (a % p) + off \in 0 .. n - 1
<1> DEFINE q == a \div p
           m == n \div p
<1>1. q \in Nat /\ m \in Nat
  BY SMTT(30)
<1>2. a = p * q + (a % p) /\ a % p \in 0 .. p - 1
  BY SMTT(30)
<1>3. n = p * m
  BY SMTT(30)
<1> HIDE DEF q, m
<1>4. q < m
  <2> SUFFICES ASSUME m =< q PROVE FALSE
    BY <1>1
  <2>1. p * m =< p * q
    BY <1>1, SMTT(30)
  <2> QED BY <2>1, <1>1, <1>2, <1>3
<1>5. p * (q + 1) =< p * m
  BY <1>1, <1>4, SMTT(30)
<1>6. p * (q + 1) = p * q + p
  BY <1>1, SMTT(30)
<1>7. p * q \in Nat /\ p * q + p =< n
  BY <1>1, <1>3, <1>5, <1>6
<1>8. a - (a % p) = p * q
  <2>1. ASSUME NEW x \in Nat, NEW y \in 0 .. p - 1, a = x + y PROVE a - y = x
    BY <2>1
  <2> QED BY <2>1, <1>2, <1>7
<1>9. p * q + off \in 0 .. n - 1
  <2>1. ASSUME NEW x \in Nat, x + p =< n PROVE x + off \in 0 .. n - 1
    BY <2>1
  <2> QED BY <2>1, <1>7
<1> QED BY <1>8, <1>9

LEMMA AddrsClosed ==
    /\ 0 \in Addrs
    /\ \A a \in Addrs : Plus1(a) \in Addrs
    /\ \A i \in Instructions, a \in Addrs : effaddr(i, a) \in Addrs
<1>1. 0 \in Addrs
  BY CpuAddrAssumption DEF Addrs
<1>2. ASSUME NEW a \in Addrs PROVE Plus1(a) \in Addrs
  BY CpuAddrAssumption DEF Addrs, Plus1
<1>3. ASSUME NEW i \in Instructions, NEW a \in Addrs PROVE effaddr(i, a) \in Addrs
  <2>1. i.off \in 0 .. PageSize - 1
    BY CpuInstructionAssumption DEF Instruction
  <2>2. PageSize \in Nat \ {0} /\ AddrSize \in Nat /\ PageSize =< AddrSize
        /\ AddrSize % PageSize = 0
    BY CpuAddrAssumption
  <2>3. a \in 0 .. AddrSize - 1
    BY DEF Addrs
  <2>4. a - (a % PageSize) + i.off \in 0 .. AddrSize - 1
    BY <2>1, <2>2, <2>3, WithinPages
  <2> QED BY <2>1, <2>2, <2>4 DEF effaddr, Addrs
<1> QED BY <1>1, <1>2, <1>3

\* Every step of the extension within a cycle keeps the types of its registers.
LEMMA XmTyped ==
    ASSUME NEW x \in XmType, NEW i \in Instructions, NEW op, NEW next,
           NEW irusedf
    PROVE  /\ LoadIf(x, op, next) \in XmType
           /\ IopStart(x, i) \in XmType
           /\ IntAck(x, op, next) \in XmType
           /\ Captured(x, next, irusedf) \in XmType
<1>1. LoadIf(x, op, next) \in XmType
  BY DEF LoadIf, XmType
<1>2. IopStart(x, i) \in XmType
  <2>1. i.fld \in Fields
    BY CpuInstructionAssumption DEF Instruction
  <2> QED BY <2>1 DEF IopStart, XmType
<1>3. IntAck(x, op, next) \in XmType
  BY CpuFieldAssumption DEF IntAck, XmType
<1>4. Captured(x, next, irusedf) \in XmType
  BY DEF Captured, Uses, XmType
<1> QED BY <1>1, <1>2, <1>3, <1>4

LEMMA EndedXmTyped ==
    ASSUME xm \in XmType, NEW op, NEW next, NEW irusedf
    PROVE  EndedXm(op, irusedf, next) \in XmType
<1>1. LoadIf(xm, op, next) \in XmType
  BY DEF LoadIf, XmType
<1>2. IntAck(LoadIf(xm, op, next), op, next) \in XmType
  BY <1>1, CpuFieldAssumption DEF IntAck, XmType
<1> QED BY <1>2 DEF EndedXm, Captured, Uses, XmType

\* TP4 enters a state, with an address.
LEMMA CpuTyped ==
    ASSUME NEW c \in CpuType, NEW next \in States, NEW newma \in Addrs,
           NEW mbuf \in Addrs, EndCycle(c, next, newma, mbuf)
    PROVE  cpu' \in CpuType
<1> PICK a \in Addrs : cpu' = [c EXCEPT
          !.majstate = next,
          !.madr = CASE next = "FETCH" -> c.pctr
                     [] next = "INTAK" -> 0
                     [] next = "WC" -> a
                     [] next = "BRK" -> IF c.majstate = "CA" THEN mbuf ELSE a
                     [] OTHER -> newma,
          !.ireg = IF next = "INTAK" THEN 4 ELSE @,
          !.intdelayed = @ /\ next # "INTAK",
          !.intenabled = @ /\ next # "INTAK"]
  BY AddrsClosed DEF EndCycle
<1> DEFINE ma == CASE next = "FETCH" -> c.pctr
                   [] next = "INTAK" -> 0
                   [] next = "WC" -> a
                   [] next = "BRK" -> IF c.majstate = "CA" THEN mbuf ELSE a
                   [] OTHER -> newma
           ir == IF next = "INTAK" THEN 4 ELSE c.ireg
           del == c.intdelayed /\ next # "INTAK"
           ena == c.intenabled /\ next # "INTAK"
<1>1. c.pctr \in Addrs /\ 0 \in Addrs /\ c.ireg \in 0 .. 7
  BY AddrsClosed DEF CpuType
<1>2. ma \in Addrs /\ ir \in 0 .. 7 /\ del \in BOOLEAN /\ ena \in BOOLEAN
  BY <1>1
<1>3. cpu' = [c EXCEPT !.majstate = next, !.madr = ma, !.ireg = ir,
                       !.intdelayed = del, !.intenabled = ena]
  BY DEF CpuType
<1> HIDE DEF ma, ir, del, ena
<1> QED BY <1>2, <1>3 DEF CpuType

LEMMA NextTyped ==
    /\ \A int : hltbrkintfet(int) \subseteq States
    /\ \A i, c, x : NextAfterFetch(i, c, x) \subseteq States
<1>1. \A int : hltbrkintfet(int) \subseteq States
  BY DEF hltbrkintfet, States
<1>2. ASSUME NEW i, NEW c, NEW x PROVE NextAfterFetch(i, c, x) \subseteq States
  BY <1>1 DEF NextAfterFetch, States
<1> QED BY <1>1, <1>2

-----------------------------------------------------------------------------
(* Type correctness. *)

LEMMA ExecutedTyped ==
    ASSUME TypeOK, NEW i \in Instructions, NEW skip \in BOOLEAN
    PROVE  /\ Fetched(i) \in CpuType
           /\ FetchExecuted(Fetched(i), i, skip) \in CpuType
<1> USE DEF CpuType
<1> DEFINE c == Fetched(i)
           used == i.op < 4 /\ i.ind
<1>1. cpu \in CpuType /\ i \in Instruction
  BY CpuInstructionAssumption DEF TypeOK
<1>2. c \in CpuType
  <2>1. used \in BOOLEAN /\ Plus1(cpu.pctr) \in Addrs /\ i.op \in 0 .. 7
    BY <1>1, AddrsClosed DEF Instruction
  <2>2. c = [cpu EXCEPT !.intenabled = cpu.intdelayed, !.ireg = i.op,
                        !.irusedf = used, !.pctr = Plus1(cpu.pctr)]
    BY <1>1 DEF Fetched
  <2> HIDE DEF used
  <2> QED BY <1>1, <2>1, <2>2
<1> HIDE DEF c
<1>3. effaddr(i, c.madr) \in Addrs /\ Plus1(c.pctr) \in Addrs
  BY <1>2, AddrsClosed
<1>4. FetchExecuted(c, i, skip) \in CpuType
  BY <1>2, <1>3 DEF FetchExecuted
<1> QED BY <1>2, <1>4 DEF c

LEMMA FetchTyped == TypeOK /\ Fetch => TypeOK'
<1> SUFFICES ASSUME TypeOK, Fetch PROVE TypeOK'
  OBVIOUS
<1> USE DEF CpuType, XmType
<1>1. cpu \in CpuType /\ xm \in XmType /\ announced \in Fields \cup {None}
  BY DEF TypeOK
<1> PICK i \in Instructions, skip \in BOOLEAN :
       \E next \in NextAfterFetch(i, Fetched(i), xm) :
          /\ EndCycle(FetchExecuted(Fetched(i), i, skip), next,
                      IF i.op < 5 \/ (i.op = 5 /\ i.ind)
                      THEN effaddr(i, Fetched(i).madr) ELSE Fetched(i).madr, 0)
          /\ xm' = Captured(IntAck(IopStart(LoadIf(xm, i.op, next), i), i.op, next),
                            next, Fetched(i).irusedf)
          /\ FetchAnnounced(i, next)
  BY DEF Fetch
<1> DEFINE c == Fetched(i)
           newma == IF i.op < 5 \/ (i.op = 5 /\ i.ind) THEN effaddr(i, c.madr)
                    ELSE c.madr
<1> PICK next \in NextAfterFetch(i, c, xm) :
          /\ EndCycle(FetchExecuted(c, i, skip), next, newma, 0)
          /\ xm' = Captured(IntAck(IopStart(LoadIf(xm, i.op, next), i), i.op, next),
                            next, c.irusedf)
          /\ FetchAnnounced(i, next)
  OBVIOUS
<1>2. i \in Instruction /\ next \in States
  BY CpuInstructionAssumption, NextTyped
<1>3. c \in CpuType /\ FetchExecuted(c, i, skip) \in CpuType
  BY ExecutedTyped
<1> HIDE DEF c
<1>4. newma \in Addrs /\ 0 \in Addrs
  BY <1>3, AddrsClosed DEF CpuType
<1> HIDE DEF newma
<1>5. cpu' \in CpuType
  BY <1>2, <1>3, <1>4, CpuTyped DEF CpuType
<1>6. xm' \in XmType
  <2>1. LoadIf(xm, i.op, next) \in XmType
    BY <1>1, XmTyped
  <2>2. IopStart(LoadIf(xm, i.op, next), i) \in XmType
    BY <2>1, XmTyped
  <2>3. IntAck(IopStart(LoadIf(xm, i.op, next), i), i.op, next) \in XmType
    BY <2>2, XmTyped
  <2> QED BY <2>3, XmTyped
<1>7. announced' \in Fields \cup {None}
  BY <1>1, <1>2 DEF FetchAnnounced, Instruction
<1> QED BY <1>5, <1>6, <1>7 DEF TypeOK

\* A cycle without io pulses: from the types of what TP4 is given.
LEMMA CycleTyped ==
    ASSUME TypeOK, NEW c \in CpuType, NEW next \in States, NEW newma \in Addrs,
           NEW mbuf \in Addrs, EndCycle(c, next, newma, mbuf),
           xm' = EndedXm(cpu.ireg, cpu.irusedf, next), Taken(cpu.ireg, next)
    PROVE  TypeOK'
<1>1. cpu' \in CpuType
  BY CpuTyped
<1>2. xm' \in XmType
  BY EndedXmTyped DEF TypeOK, XmType
<1>3. announced' \in Fields \cup {None}
  BY DEF TypeOK, Taken
<1> QED BY <1>1, <1>2, <1>3 DEF TypeOK, CpuType, XmType

LEMMA DeferTyped == TypeOK /\ Defer => TypeOK'
<1> SUFFICES ASSUME TypeOK, Defer PROVE TypeOK'
  OBVIOUS
<1> PICK pointer \in Addrs :
       LET mbuf == IF cpu.madr \in AutoIndex THEN Plus1(pointer) ELSE pointer
           jmp == cpu.ireg = 5
       IN \E next \in IF jmp THEN hltbrkintfet(IntOk(cpu, xm)) ELSE {"EXEC"} :
             /\ EndCycle([cpu EXCEPT !.pctr = IF jmp THEN mbuf ELSE @], next,
                         IF jmp THEN cpu.madr ELSE mbuf, mbuf)
             /\ xm' = EndedXm(cpu.ireg, cpu.irusedf, next)
             /\ Taken(cpu.ireg, next)
  BY DEF Defer
<1> DEFINE mbuf == IF cpu.madr \in AutoIndex THEN Plus1(pointer) ELSE pointer
           jmp == cpu.ireg = 5
           pc == IF jmp THEN mbuf ELSE cpu.pctr
           newma == IF jmp THEN cpu.madr ELSE mbuf
<1>1. PICK next \in IF jmp THEN hltbrkintfet(IntOk(cpu, xm)) ELSE {"EXEC"} :
             /\ EndCycle([cpu EXCEPT !.pctr = pc], next, newma, mbuf)
             /\ xm' = EndedXm(cpu.ireg, cpu.irusedf, next)
             /\ Taken(cpu.ireg, next)
  BY DEF TypeOK
<1>2. cpu \in CpuType
  BY DEF TypeOK, CpuType
<1>3. mbuf \in Addrs /\ pc \in Addrs /\ newma \in Addrs
  BY <1>2, AddrsClosed DEF CpuType
<1>4. next \in States
  BY NextTyped DEF States
<1> HIDE DEF mbuf, pc, newma, jmp
<1>5. [cpu EXCEPT !.pctr = pc] \in CpuType
  BY <1>2, <1>3 DEF CpuType
<1> QED BY <1>1, <1>3, <1>4, <1>5, CycleTyped

LEMMA ExecTyped == TypeOK /\ Exec => TypeOK'
<1> SUFFICES ASSUME TypeOK, Exec PROVE TypeOK'
  OBVIOUS
<1> PICK operand \in Addrs, next \in hltbrkintfet(IntOk(cpu, xm)) :
       LET zero == Plus1(operand) = 0
       IN  /\ EndCycle([cpu EXCEPT !.pctr = IF cpu.ireg = 4 THEN Plus1(cpu.madr)
                                            ELSE IF cpu.ireg = 2 /\ zero THEN Plus1(@)
                                            ELSE @], next, cpu.madr, operand)
           /\ xm' = EndedXm(cpu.ireg, cpu.irusedf, next)
           /\ Taken(cpu.ireg, next)
  BY DEF Exec
<1> DEFINE pc == IF cpu.ireg = 4 THEN Plus1(cpu.madr)
                 ELSE IF cpu.ireg = 2 /\ Plus1(operand) = 0 THEN Plus1(cpu.pctr)
                 ELSE cpu.pctr
<1>1. /\ EndCycle([cpu EXCEPT !.pctr = pc], next, cpu.madr, operand)
      /\ xm' = EndedXm(cpu.ireg, cpu.irusedf, next)
      /\ Taken(cpu.ireg, next)
  BY DEF TypeOK
<1>2. cpu \in CpuType
  BY DEF TypeOK, CpuType
<1>3. pc \in Addrs /\ cpu.madr \in Addrs
  BY <1>2, AddrsClosed DEF CpuType
<1>4. next \in States
  BY NextTyped
<1> HIDE DEF pc
<1>5. [cpu EXCEPT !.pctr = pc] \in CpuType
  BY <1>2, <1>3 DEF CpuType
<1> QED BY <1>1, <1>3, <1>4, <1>5, CycleTyped

LEMMA DmaTyped == TypeOK /\ (WordCount \/ CurrentAddress \/ Break) => TypeOK'
<1> SUFFICES ASSUME TypeOK, WordCount \/ CurrentAddress \/ Break PROVE TypeOK'
  OBVIOUS
<1>1. cpu \in CpuType /\ 0 \in Addrs /\ cpu.madr \in Addrs /\ Plus1(cpu.madr) \in Addrs
  BY AddrsClosed DEF TypeOK, CpuType
<1>2. CASE WordCount
  BY <1>1, <1>2, CycleTyped DEF WordCount, States
<1>3. CASE CurrentAddress
  BY <1>1, <1>3, CycleTyped DEF CurrentAddress, States
<1>4. CASE Break
  BY <1>1, <1>4, CycleTyped, NextTyped DEF Break
<1> QED BY <1>2, <1>3, <1>4

LEMMA SwitchTyped ==
    TypeOK /\ (LoadAddress \/ Examine \/ Continue \/ Start) => TypeOK'
<1> SUFFICES ASSUME TypeOK, LoadAddress \/ Examine \/ Continue \/ Start PROVE TypeOK'
  OBVIOUS
<1>1. Plus1(cpu.pctr) \in Addrs
  BY AddrsClosed DEF TypeOK
<1>2. CASE LoadAddress
  BY <1>2 DEF TypeOK, LoadAddress
<1>3. CASE Examine
  BY <1>1, <1>3 DEF TypeOK, Examine
<1>4. CASE Continue
  BY <1>4 DEF TypeOK, Continue, States
<1>5. CASE Start
  BY <1>5, CpuFieldAssumption DEF TypeOK, Start, States
<1> QED BY <1>2, <1>3, <1>4, <1>5

\* Every register keeps to its width, and the state to the memory cycles there
\* are, whatever the size of a field, the programs and the switches used.
THEOREM TypeCorrect == Spec => []TypeOK
<1>1. Init => TypeOK
  BY AddrsClosed, CpuFieldAssumption DEF Init, TypeOK, States
<1>2. TypeOK /\ [Next]_vars => TypeOK'
  <2> SUFFICES ASSUME TypeOK, [Next]_vars PROVE TypeOK'
    OBVIOUS
  <2>1. CASE UNCHANGED vars
    BY <2>1 DEF vars, TypeOK
  <2> QED BY <2>1, FetchTyped, DeferTyped, ExecTyped, DmaTyped, SwitchTyped DEF Next
<1> QED BY <1>1, <1>2, PTL DEF Spec

-----------------------------------------------------------------------------
(* No interrupt drops a field change that a CIF has announced. *)

\* While a field is announced it is the one that waits in the extension, and
\* interrupts are inhibited.
AnnouncedWaits ==
    announced # None => /\ xm.intinhibeduntiljump
                        /\ xm.ifldafterjump = announced

\* What an acknowledge must find
NotLost(next) ==
    next = "INTAK" =>
       announced' = None /\ (announced # None => xm'.savedifld = announced)

\* A cycle without io pulses, at whose end an interrupt is taken only as IntOk allows
LEMMA CycleKeeps ==
    ASSUME TypeOK, AnnouncedWaits, NEW next \in States,
           next = "INTAK" => ~ xm.intinhibeduntiljump \/ jmpjms(cpu.ireg),
           xm' = EndedXm(cpu.ireg, cpu.irusedf, next), Taken(cpu.ireg, next)
    PROVE  AnnouncedWaits' /\ NotLost(next)
<1> USE DEF TypeOK
<1>1. CASE next = "INTAK"
  <2>1. announced' = None
    BY <1>1 DEF AnnouncedWaits, Taken, LoadsIf, exefet
  <2>2. ASSUME announced # None PROVE xm'.savedifld = announced
    <3>1. jmpjms(cpu.ireg)
      BY <1>1, <2>2 DEF AnnouncedWaits
    <3> QED BY <1>1, <2>2, <3>1
         DEF AnnouncedWaits, EndedXm, LoadIf, LoadsIf, IntAck, Captured, exefet
  <2> QED BY <2>1, <2>2 DEF AnnouncedWaits, NotLost
<1>2. CASE next # "INTAK" /\ LoadsIf(cpu.ireg, next)
  BY <1>2 DEF AnnouncedWaits, NotLost, Taken
<1>3. CASE next # "INTAK" /\ ~ LoadsIf(cpu.ireg, next)
  <2>1. announced' = announced
    BY <1>3 DEF Taken
  <2>2. /\ xm'.intinhibeduntiljump = xm.intinhibeduntiljump
        /\ xm'.ifldafterjump = xm.ifldafterjump
    BY <1>3 DEF EndedXm, LoadIf, IntAck, Captured
  <2> QED BY <1>3, <2>1, <2>2 DEF AnnouncedWaits, NotLost
<1> QED BY <1>1, <1>2, <1>3

\* TP4 enters the state decided in TS3.
LEMMA EntersNext ==
    ASSUME NEW c \in CpuType, NEW next, NEW newma, NEW mbuf,
           EndCycle(c, next, newma, mbuf)
    PROVE  cpu'.majstate = next
  BY DEF EndCycle, CpuType

LEMMA EntersNextAt ==
    ASSUME TypeOK, NEW pc, NEW next, NEW newma, NEW mbuf,
           EndCycle([cpu EXCEPT !.pctr = pc], next, newma, mbuf)
    PROVE  cpu'.majstate = next
  BY DEF EndCycle, TypeOK

LEMMA FetchKeeps ==
    TypeOK /\ AnnouncedWaits /\ Fetch => AnnouncedWaits' /\ NotLost(cpu'.majstate)
<1> SUFFICES ASSUME TypeOK, AnnouncedWaits, Fetch
             PROVE AnnouncedWaits' /\ NotLost(cpu'.majstate)
  OBVIOUS
<1> PICK i \in Instructions, skip \in BOOLEAN :
       \E next \in NextAfterFetch(i, Fetched(i), xm) :
          /\ EndCycle(FetchExecuted(Fetched(i), i, skip), next,
                      IF i.op < 5 \/ (i.op = 5 /\ i.ind)
                      THEN effaddr(i, Fetched(i).madr) ELSE Fetched(i).madr, 0)
          /\ xm' = Captured(IntAck(IopStart(LoadIf(xm, i.op, next), i), i.op, next),
                            next, Fetched(i).irusedf)
          /\ FetchAnnounced(i, next)
  BY DEF Fetch
<1> PICK next \in NextAfterFetch(i, Fetched(i), xm) :
          /\ \E newma : EndCycle(FetchExecuted(Fetched(i), i, skip), next, newma, 0)
          /\ xm' = Captured(IntAck(IopStart(LoadIf(xm, i.op, next), i), i.op, next),
                            next, Fetched(i).irusedf)
          /\ FetchAnnounced(i, next)
  OBVIOUS
<1>1. cpu'.majstate = next
  BY ExecutedTyped, EntersNext
<1>2. i.op \in 0 .. 7 /\ i.fld \in Fields /\ None \notin Fields
  BY CpuInstructionAssumption, CpuFieldAssumption DEF Instruction, None
<1>3. next = "INTAK" =>
        ~ IsCif(i) /\ (~ xm.intinhibeduntiljump \/ jmpjms(i.op))
  BY DEF NextAfterFetch, hltbrkintfet, IntOk, Fetched, TypeOK
<1>4. CASE IsCif(i)
  <2>1. next # "INTAK" /\ ~ jmpjms(i.op) /\ announced' = i.fld
    <3>1. i.op = 6 /\ i.io # "RMF"
      BY <1>4 DEF IsCif
    <3>2. ~ jmpjms(i.op) /\ ~ LoadsIf(i.op, next)
      BY <3>1 DEF jmpjms, LoadsIf
    <3> QED BY <1>3, <1>4, <3>1, <3>2 DEF FetchAnnounced
  <2>2. xm'.intinhibeduntiljump /\ xm'.ifldafterjump = i.fld
    BY <1>4, <2>1 DEF IsCif, LoadIf, LoadsIf, IopStart, IntAck, Captured, TypeOK
  <2> QED BY <1>1, <2>1, <2>2 DEF AnnouncedWaits, NotLost
<1>5. CASE i.op = 6 /\ i.io = "RMF"
  <2>1. ~ IsCif(i) /\ ~ LoadsIf(i.op, next)
    BY <1>5 DEF IsCif, LoadsIf, jmpjms
  <2>2. CASE announced = None
    BY <1>1, <1>5, <2>1, <2>2 DEF FetchAnnounced, AnnouncedWaits, NotLost
  <2>3. CASE announced # None
    <3>1. next # "INTAK" /\ announced' = xm.savedifld
      BY <1>3, <1>5, <2>1, <2>3 DEF AnnouncedWaits, FetchAnnounced, jmpjms
    <3>2. xm'.intinhibeduntiljump /\ xm'.ifldafterjump = xm.savedifld
      BY <1>5, <2>1, <2>3, <3>1
         DEF AnnouncedWaits, LoadIf, IopStart, IntAck, Captured, TypeOK
    <3> QED BY <1>1, <3>1, <3>2 DEF AnnouncedWaits, NotLost
  <2> QED BY <2>2, <2>3
<1>6. CASE ~ IsCif(i) /\ ~ (i.op = 6 /\ i.io = "RMF")
  <2>1. Taken(i.op, next)
    BY <1>6 DEF FetchAnnounced, Taken
  <2> DEFINE x == IopStart(LoadIf(xm, i.op, next), i)
             l == LoadIf(xm, i.op, next)
  <2>2. l \in XmType
    BY XmTyped DEF TypeOK, XmType
  <2>3. /\ x \in XmType
        /\ x.ifldafterjump = l.ifldafterjump
        /\ x.intinhibeduntiljump = l.intinhibeduntiljump
    BY <1>6, <2>2, XmTyped DEF IopStart, XmType, IsCif
  <2>4. l.ifldafterjump = xm.ifldafterjump
    BY DEF LoadIf, TypeOK
  <2>5. CASE next = "INTAK"
    <3>1. announced' = None
      BY <1>3, <2>1, <2>5 DEF AnnouncedWaits, Taken, LoadsIf, exefet
    <3>2. ASSUME announced # None PROVE xm'.savedifld = announced
      <4>1. jmpjms(i.op) /\ xm.ifldafterjump = announced
        BY <1>3, <2>5, <3>2 DEF AnnouncedWaits
      <4>2. xm'.savedifld = x.ifldafterjump
        BY <2>3, <2>5, <4>1 DEF IntAck, Captured, XmType
      <4> QED BY <2>3, <2>4, <4>1, <4>2
    <3> QED BY <1>1, <3>1, <3>2 DEF AnnouncedWaits, NotLost
  <2>6. CASE next # "INTAK"
    <3>1. /\ xm'.intinhibeduntiljump = l.intinhibeduntiljump
          /\ xm'.ifldafterjump = xm.ifldafterjump
      BY <2>3, <2>4, <2>6 DEF IntAck, Captured, XmType
    <3>2. announced' = None \/ (~ LoadsIf(i.op, next) /\ announced' = announced)
      BY <2>1 DEF Taken
    <3>3. ~ LoadsIf(i.op, next) => l = xm
      BY DEF LoadIf
    <3> QED BY <1>1, <2>6, <3>1, <3>2, <3>3 DEF AnnouncedWaits, NotLost
  <2> QED BY <2>5, <2>6
<1> QED BY <1>4, <1>5, <1>6

LEMMA OthersKeep ==
    TypeOK /\ AnnouncedWaits
    /\ (Defer \/ Exec \/ WordCount \/ CurrentAddress \/ Break)
    => AnnouncedWaits' /\ NotLost(cpu'.majstate)
<1> SUFFICES ASSUME TypeOK, AnnouncedWaits,
                    Defer \/ Exec \/ WordCount \/ CurrentAddress \/ Break
             PROVE  AnnouncedWaits' /\ NotLost(cpu'.majstate)
  OBVIOUS
<1>1. PICK next \in States :
        /\ cpu'.majstate = next
        /\ next = "INTAK" => ~ xm.intinhibeduntiljump \/ jmpjms(cpu.ireg)
        /\ xm' = EndedXm(cpu.ireg, cpu.irusedf, next)
        /\ Taken(cpu.ireg, next)
  <2> USE DEF TypeOK, EndCycle
  <2>1. hltbrkintfet(IntOk(cpu, xm)) \subseteq States
    BY NextTyped
  <2>2. "INTAK" \in hltbrkintfet(IntOk(cpu, xm)) =>
           ~ xm.intinhibeduntiljump \/ jmpjms(cpu.ireg)
    BY DEF hltbrkintfet, IntOk
  <2>3. CASE Defer
    <3>1. PICK next \in hltbrkintfet(IntOk(cpu, xm)) \cup {"EXEC"} :
            /\ \E pc, newma, mbuf : EndCycle([cpu EXCEPT !.pctr = pc], next, newma, mbuf)
            /\ xm' = EndedXm(cpu.ireg, cpu.irusedf, next)
            /\ Taken(cpu.ireg, next)
      <4> HIDE DEF EndCycle
      <4> QED BY <2>3, Zenon DEF Defer
    <3>2. cpu'.majstate = next
      <4> HIDE DEF EndCycle
      <4> QED BY <3>1, EntersNextAt
    <3> QED BY <2>1, <2>2, <3>1, <3>2 DEF States
  <2>4. CASE Exec
    <3>1. PICK next \in hltbrkintfet(IntOk(cpu, xm)) :
            /\ \E pc, newma, mbuf : EndCycle([cpu EXCEPT !.pctr = pc], next, newma, mbuf)
            /\ xm' = EndedXm(cpu.ireg, cpu.irusedf, next)
            /\ Taken(cpu.ireg, next)
      <4> HIDE DEF EndCycle
      <4> QED BY <2>4 DEF Exec
    <3>2. cpu'.majstate = next
      <4> HIDE DEF EndCycle
      <4> QED BY <3>1, EntersNextAt
    <3> QED BY <2>1, <2>2, <3>1, <3>2
  <2>5. CASE WordCount
    BY <2>5 DEF WordCount, States
  <2>6. CASE CurrentAddress
    BY <2>6 DEF CurrentAddress, States
  <2>7. CASE Break
    BY <2>1, <2>2, <2>7 DEF Break
  <2> QED BY <2>3, <2>4, <2>5, <2>6, <2>7
<1> QED BY <1>1, CycleKeeps

\* The switches acknowledge no interrupt; LDAD and START drop the announcement.
LEMMA SwitchesKeep ==
    TypeOK /\ AnnouncedWaits /\ (LoadAddress \/ Examine \/ Continue \/ Start)
    => AnnouncedWaits' /\ NotLost(cpu'.majstate)
<1> SUFFICES ASSUME TypeOK, AnnouncedWaits,
                    LoadAddress \/ Examine \/ Continue \/ Start
             PROVE  AnnouncedWaits' /\ NotLost(cpu'.majstate)
  OBVIOUS
<1>1. cpu'.majstate # "INTAK"
  BY DEF TypeOK, LoadAddress, Examine, Continue, Start
<1>2. AnnouncedWaits'
  BY DEF TypeOK, AnnouncedWaits, LoadAddress, Examine, Continue, Start
<1> QED BY <1>1, <1>2 DEF NotLost

LEMMA AnnouncedInductive ==
    TypeOK /\ AnnouncedWaits /\ [Next]_vars => AnnouncedWaits'
<1> SUFFICES ASSUME TypeOK, AnnouncedWaits, [Next]_vars PROVE AnnouncedWaits'
  OBVIOUS
<1>1. CASE UNCHANGED vars
  BY <1>1 DEF vars, AnnouncedWaits
<1> QED BY <1>1, FetchKeeps, OthersKeep, SwitchesKeep DEF Next

\* No interrupt is acknowledged between a CIF and the jump it is meant for, and
\* one acknowledged right at the jump saves the announced field, for every
\* program, all requests and all uses of the switches, STOP and STEP included.
THEOREM AnnouncedFieldKept == Spec => NoAnnouncedFieldLost
<1>1. Init => AnnouncedWaits
  BY DEF Init, AnnouncedWaits
<1>2. TypeOK /\ AnnouncedWaits /\ [Next]_vars =>
         [cpu'.majstate = "INTAK" =>
             announced' = None /\ (announced # None => xm'.savedifld = announced)]_vars
  BY FetchKeeps, OthersKeep, SwitchesKeep DEF Next, NotLost
<1> QED BY <1>1, <1>2, TypeCorrect, AnnouncedInductive, PTL DEF Spec, NoAnnouncedFieldLost
-----------------------------------------------------------------------------
(***************************************************************************)
(* The processor makes the memory cycles that z8lsimtest.cc expects: every *)
(* cycle of Cpu maps to a step of SimTest.                                 *)
(***************************************************************************)

\* What the registers are in each kind of cycle
CycleShape ==
    /\ xm.uses = Uses(cpu.majstate, cpu.irusedf)
    /\ cpu.majstate = "DEFER" => cpu.ireg < 6 /\ (cpu.irusedf <=> cpu.ireg < 4)
    /\ cpu.majstate \in {"EXEC", "INTAK"} => cpu.ireg < 5
    /\ cpu.majstate \in {"EXEC", "INTAK"} /\ cpu.ireg = 4 =>
          xm.ifld = xm.ifldafterjump /\ ~ xm.intinhibeduntiljump

LEMMA ShapeInit == Init => CycleShape
  BY DEF Init, CycleShape, Uses

-----------------------------------------------------------------------------
(* The test's registers as a tuple of values, and what its operators do to it. *)

Regs(pc, dl, en, d, f, fj, sd, sf, dis) ==
    [pctr |-> pc, intdelayed |-> dl, intenabled |-> en, dfld |-> d, ifld |-> f,
     ifldafterjump |-> fj, saveddfld |-> sd, savedifld |-> sf,
     intdisableduntiljump |-> dis]

LEMMA RegsRead ==
    ASSUME NEW pc, NEW dl, NEW en, NEW d, NEW f, NEW fj, NEW sd, NEW sf, NEW dis
    PROVE  LET r == Regs(pc, dl, en, d, f, fj, sd, sf, dis)
           IN  /\ r.pctr = pc /\ r.intdelayed = dl /\ r.intenabled = en
               /\ r.dfld = d /\ r.ifld = f /\ r.ifldafterjump = fj
               /\ r.saveddfld = sd /\ r.savedifld = sf
               /\ r.intdisableduntiljump = dis
  BY DEF Regs

\* A literal in a record keeps the provers from using a fact about all records, so
\* these name the value that the test writes.
JumpedSet(r, no) == [r EXCEPT !.ifld = r.ifldafterjump, !.intdisableduntiljump = no]

LEMMA JumpedRegs ==
    ASSUME NEW pc, NEW dl, NEW en, NEW d, NEW f, NEW fj, NEW sd, NEW sf, NEW dis, NEW no
    PROVE  JumpedSet(Regs(pc, dl, en, d, f, fj, sd, sf, dis), no)
             = Regs(pc, dl, en, d, fj, fj, sd, sf, no)
<1>1. Regs(pc, dl, en, d, f, fj, sd, sf, dis).ifldafterjump = fj
  BY RegsRead
<1>2. [Regs(pc, dl, en, d, f, fj, sd, sf, dis) EXCEPT !.ifld = fj]
       = Regs(pc, dl, en, d, fj, fj, sd, sf, dis)
  BY DEF Regs
<1>3. [Regs(pc, dl, en, d, fj, fj, sd, sf, dis) EXCEPT !.intdisableduntiljump = no]
       = Regs(pc, dl, en, d, fj, fj, sd, sf, no)
  BY DEF Regs
<1> QED BY <1>1, <1>2, <1>3 DEF JumpedSet

LEMMA PctrRegs ==
    ASSUME NEW pc, NEW dl, NEW en, NEW d, NEW f, NEW fj, NEW sd, NEW sf, NEW dis, NEW a
    PROVE  [Regs(pc, dl, en, d, f, fj, sd, sf, dis) EXCEPT !.pctr = a]
             = Regs(a, dl, en, d, f, fj, sd, sf, dis)
  BY DEF Regs

LEMMA FieldsSavedRegs ==
    ASSUME NEW pc, NEW dl, NEW en, NEW d, NEW f, NEW fj, NEW sd, NEW sf, NEW dis
    PROVE  ST!FieldsSaved(Regs(pc, dl, en, d, f, fj, sd, sf, dis))
             = Regs(pc, dl, en, d, f, fj, d, f, dis)
<1>1. /\ Regs(pc, dl, en, d, f, fj, sd, sf, dis).dfld = d
      /\ Regs(pc, dl, en, d, f, fj, sd, sf, dis).ifld = f
  BY RegsRead
<1>2. [Regs(pc, dl, en, d, f, fj, sd, sf, dis) EXCEPT !.saveddfld = d]
       = Regs(pc, dl, en, d, f, fj, d, sf, dis)
  BY DEF Regs
<1>3. [Regs(pc, dl, en, d, f, fj, d, sf, dis) EXCEPT !.savedifld = f]
       = Regs(pc, dl, en, d, f, fj, d, f, dis)
  BY DEF Regs
<1> QED BY <1>1, <1>2, <1>3 DEF ST!FieldsSaved

LEMMA FieldsResetRegs ==
    ASSUME NEW pc, NEW dl, NEW en, NEW d, NEW f, NEW fj, NEW sd, NEW sf, NEW dis
    PROVE  ST!FieldsReset(Regs(pc, dl, en, d, f, fj, sd, sf, dis))
             = Regs(pc, dl, en, 0, 0, 0, sd, sf, dis)
<1>1. [Regs(pc, dl, en, d, f, fj, sd, sf, dis) EXCEPT !.dfld = 0]
       = Regs(pc, dl, en, 0, f, fj, sd, sf, dis)
  BY DEF Regs
<1>2. [Regs(pc, dl, en, 0, f, fj, sd, sf, dis) EXCEPT !.ifld = 0]
       = Regs(pc, dl, en, 0, 0, fj, sd, sf, dis)
  BY DEF Regs
<1>3. [Regs(pc, dl, en, 0, 0, fj, sd, sf, dis) EXCEPT !.ifldafterjump = 0]
       = Regs(pc, dl, en, 0, 0, 0, sd, sf, dis)
  BY DEF Regs
<1> QED BY <1>1, <1>2, <1>3 DEF ST!FieldsReset

\* An interrupt: the fields are saved and reset, and interrupts are off.
InterruptsSet(r, no) == [r EXCEPT !.intdelayed = no, !.intenabled = no]

LEMMA InterruptRegs ==
    ASSUME NEW pc, NEW dl, NEW en, NEW d, NEW f, NEW fj, NEW sd, NEW sf, NEW dis, NEW no
    PROVE  InterruptsSet(ST!FieldsReset(ST!FieldsSaved(
               Regs(pc, dl, en, d, f, fj, sd, sf, dis))), no)
             = Regs(pc, no, no, 0, 0, 0, d, f, dis)
<1>1. ST!FieldsSaved(Regs(pc, dl, en, d, f, fj, sd, sf, dis))
        = Regs(pc, dl, en, d, f, fj, d, f, dis)
  BY FieldsSavedRegs
<1>2. ST!FieldsReset(Regs(pc, dl, en, d, f, fj, d, f, dis))
        = Regs(pc, dl, en, 0, 0, 0, d, f, dis)
  BY FieldsResetRegs
<1>3. [Regs(pc, dl, en, 0, 0, 0, d, f, dis) EXCEPT !.intdelayed = no]
        = Regs(pc, no, en, 0, 0, 0, d, f, dis)
  BY DEF Regs
<1>4. [Regs(pc, no, en, 0, 0, 0, d, f, dis) EXCEPT !.intenabled = no]
        = Regs(pc, no, no, 0, 0, 0, d, f, dis)
  BY DEF Regs
<1> QED BY <1>1, <1>2, <1>3, <1>4 DEF InterruptsSet

-----------------------------------------------------------------------------
(* The round of the test's main loop. *)

\* The registers that the test has after an instruction with instruction register
\* op, whose field change (if it is a jump) the machine still has to make
Expected(c, x, op) ==
    Regs(c.pctr, c.intdelayed, c.intenabled, x.dfld,
         IF jmpjms(op) THEN x.ifldafterjump ELSE x.ifld, x.ifldafterjump,
         x.saveddfld, x.savedifld, x.intinhibeduntiljump /\ ~ jmpjms(op))

LEMMA ExpectedAsRegs ==
    /\ ExpectedRegs =
         Regs(cpu.pctr, cpu.intdelayed, cpu.intenabled, xm.dfld,
              IF Late THEN xm.ifldafterjump ELSE xm.ifld, xm.ifldafterjump,
              xm.saveddfld, xm.savedifld, xm.intinhibeduntiljump /\ ~ Late)
    /\ ExpectedRegs' =
         Regs(cpu'.pctr, cpu'.intdelayed, cpu'.intenabled, xm'.dfld,
              IF Late' THEN xm'.ifldafterjump ELSE xm'.ifld, xm'.ifldafterjump,
              xm'.saveddfld, xm'.savedifld, xm'.intinhibeduntiljump /\ ~ Late')
  BY DEF ExpectedRegs, Regs

\* The last cycle of an instruction ends in a round of the loop.
LEMMA RoundStep ==
    ASSUME NEW c \in CpuType, NEW x \in XmType,
           NEW next \in {"WC", "BRK", "FETCH", "INTAK"}, NEW newma, NEW mbuf,
           c.majstate # "CA",
           next = "INTAK" =>
              c.intenabled /\ (~ x.intinhibeduntiljump \/ jmpjms(c.ireg)),
           EndCycle(c, next, newma, mbuf),
           xm' = Captured(IntAck(LoadIf(x, c.ireg, next), c.ireg, next), next, c.irusedf)
    PROVE  ST!Round(Expected(c, x, c.ireg))
<1> DEFINE r == Expected(c, x, c.ireg)
<1> PICK a \in IF next \in {"WC", "BRK"} THEN Addrs ELSE {0} :
       cpu' = [c EXCEPT
          !.majstate = next,
          !.madr = CASE next = "FETCH" -> c.pctr
                     [] next = "INTAK" -> 0
                     [] next = "WC" -> a
                     [] next = "BRK" -> IF c.majstate = "CA" THEN mbuf ELSE a
                     [] OTHER -> newma,
          !.ireg = IF next = "INTAK" THEN 4 ELSE @,
          !.intdelayed = @ /\ next # "INTAK",
          !.intenabled = @ /\ next # "INTAK"]
  BY DEF EndCycle
<1> USE DEF CpuType, XmType
<1>1. CASE next = "FETCH"
  <2>1. /\ cpu'.majstate = "FETCH" /\ cpu'.madr = c.pctr /\ cpu'.pctr = c.pctr
        /\ cpu'.intdelayed = c.intdelayed /\ cpu'.intenabled = c.intenabled
    BY <1>1
  <2>2. /\ xm'.uses = "if"
        /\ xm'.ifld = IF jmpjms(c.ireg) THEN x.ifldafterjump ELSE x.ifld
        /\ xm'.intinhibeduntiljump = (x.intinhibeduntiljump /\ ~ jmpjms(c.ireg))
        /\ xm'.dfld = x.dfld /\ xm'.ifldafterjump = x.ifldafterjump
        /\ xm'.saveddfld = x.saveddfld /\ xm'.savedifld = x.savedifld
    BY <1>1 DEF Captured, Uses, IntAck, LoadIf, LoadsIf, exefet
  <2>3. ExpectedRegs' = r
    BY <2>1, <2>2, ExpectedAsRegs DEF Expected, Late
  <2>4. ExpectedCycle' = ST!FetchOf(r)
    BY <2>1, <2>2, RegsRead DEF ExpectedCycle, Field, ST!FetchOf, ST!Cycle, Expected
  <2> QED BY <2>3, <2>4 DEF ST!Round
<1>2. CASE next \in {"WC", "BRK"}
  <2>1. /\ cpu'.majstate = next /\ cpu'.madr = a /\ cpu'.pctr = c.pctr
        /\ cpu'.intdelayed = c.intdelayed /\ cpu'.intenabled = c.intenabled
        /\ cpu'.ireg = c.ireg /\ a \in Addrs
    BY <1>2
  <2>2. xm' = [x EXCEPT !.uses = Uses(next, c.irusedf)]
    BY <1>2 DEF Captured, IntAck, LoadIf, LoadsIf, exefet
  <2>3. Uses(next, c.irusedf) = IF next = "BRK" THEN "brk" ELSE "zero"
    BY <1>2 DEF Uses
  <2>4. ExpectedRegs' = r
    BY <1>2, <2>1, <2>2, ExpectedAsRegs DEF Expected, Late
  <2>5. ExpectedCycle' = IF next = "WC" THEN ST!Cycle("WC", 0, a, 0)
                         ELSE ST!Cycle("BRK", BrkField, a, 0)
    BY <1>2, <2>1, <2>2, <2>3 DEF ExpectedCycle, Field, ST!Cycle
  <2> QED BY <1>2, <2>1, <2>4, <2>5 DEF ST!Round, ST!Dma, ST!Addrs, Addrs
<1>3. CASE next = "INTAK"
  <2>1. /\ cpu'.majstate = "INTAK" /\ cpu'.madr = 0 /\ cpu'.pctr = c.pctr
        /\ cpu'.ireg = 4 /\ cpu'.intdelayed = FALSE /\ cpu'.intenabled = FALSE
    BY <1>3
  <2>2. /\ xm'.uses = "if"
        /\ xm'.ifld = 0 /\ xm'.dfld = 0 /\ xm'.ifldafterjump = 0
        /\ xm'.intinhibeduntiljump = (x.intinhibeduntiljump /\ ~ jmpjms(c.ireg))
        /\ xm'.saveddfld = x.dfld
        /\ xm'.savedifld = IF jmpjms(c.ireg) THEN x.ifldafterjump ELSE x.ifld
    BY <1>3 DEF Captured, Uses, IntAck, LoadIf, LoadsIf, exefet
  <2>3. ExpectedRegs' = ST!InterruptsOff(ST!FieldsReset(ST!FieldsSaved(r)))
    <3> DEFINE no == FALSE
               dis == x.intinhibeduntiljump /\ ~ jmpjms(c.ireg)
               fld == IF jmpjms(c.ireg) THEN x.ifldafterjump ELSE x.ifld
    <3>1. ExpectedRegs' = Regs(c.pctr, no, no, 0, 0, 0, x.dfld, fld, dis)
      <4>1. ~ Late'
        BY <2>1 DEF Late
      <4> QED BY <2>1, <2>2, <4>1, ExpectedAsRegs
    <3>2. r = Regs(c.pctr, c.intdelayed, c.intenabled, x.dfld, fld, x.ifldafterjump,
                   x.saveddfld, x.savedifld, dis)
      BY DEF Expected
    <3>3. InterruptsSet(ST!FieldsReset(ST!FieldsSaved(r)), no)
            = Regs(c.pctr, no, no, 0, 0, 0, x.dfld, fld, dis)
      <4> HIDE DEF no, dis, fld
      <4>1. InterruptsSet(ST!FieldsReset(ST!FieldsSaved(
               Regs(c.pctr, c.intdelayed, c.intenabled, x.dfld, fld, x.ifldafterjump,
                    x.saveddfld, x.savedifld, dis))), no)
              = Regs(c.pctr, no, no, 0, 0, 0, x.dfld, fld, dis)
        BY InterruptRegs
      <4> QED BY <3>2, <4>1
    <3>4. \A q : ST!InterruptsOff(q) = InterruptsSet(q, no)
      BY DEF ST!InterruptsOff, InterruptsSet
    <3> HIDE DEF no, dis, fld, r
    <3> QED BY <3>1, <3>3, <3>4
  <2>4. ExpectedCycle' = ST!Cycle("EXEC", 0, 0, 4)
    BY <2>1, <2>2 DEF ExpectedCycle, Field, ST!Cycle
  <2>5. r.intenabled /\ ~ r.intdisableduntiljump
    <3> DEFINE dis == x.intinhibeduntiljump /\ ~ jmpjms(c.ireg)
               fld == IF jmpjms(c.ireg) THEN x.ifldafterjump ELSE x.ifld
    <3>1. r = Regs(c.pctr, c.intdelayed, c.intenabled, x.dfld, fld, x.ifldafterjump,
                   x.saveddfld, x.savedifld, dis)
      BY DEF Expected
    <3>2. c.intenabled /\ ~ dis
      BY <1>3
    <3>3. r.intenabled = c.intenabled /\ r.intdisableduntiljump = dis
      <4> HIDE DEF dis, fld
      <4> QED BY <3>1, RegsRead
    <3> HIDE DEF dis, fld, r
    <3> QED BY <3>2, <3>3
  <2> QED BY <2>3, <2>4, <2>5 DEF ST!Round, ST!Interrupt
<1> QED BY <1>1, <1>2, <1>3

-----------------------------------------------------------------------------
(* Cycles of one instruction that follow each other, and a halt. *)

\* The last steps of a cycle keep what CycleShape says.
LEMMA ShapeAfterCycle ==
    ASSUME NEW c \in CpuType, NEW x \in XmType, NEW next \in States, NEW newma, NEW mbuf,
           next = "DEFER" => c.ireg < 6 /\ (c.irusedf <=> c.ireg < 4),
           next = "EXEC" => c.ireg < 5,
           next = "INTAK" => ~ x.intinhibeduntiljump \/ jmpjms(c.ireg),
           EndCycle(c, next, newma, mbuf),
           xm' = Captured(IntAck(LoadIf(x, c.ireg, next), c.ireg, next), next, c.irusedf)
    PROVE  CycleShape'
<1>1. /\ cpu'.majstate = next /\ cpu'.irusedf = c.irusedf
      /\ cpu'.ireg = IF next = "INTAK" THEN 4 ELSE c.ireg
  BY DEF EndCycle, CpuType
<1>2. xm'.uses = Uses(cpu'.majstate, cpu'.irusedf)
  BY <1>1 DEF Captured, IntAck, LoadIf, XmType
<1>3. CASE next = "INTAK"
  <2>1. xm'.ifld = 0 /\ xm'.ifldafterjump = 0 /\ ~ xm'.intinhibeduntiljump
    BY <1>3 DEF Captured, IntAck, LoadIf, LoadsIf, exefet, XmType
  <2> QED BY <1>1, <1>2, <1>3, <2>1 DEF CycleShape
<1>4. CASE next = "EXEC"
  <2>1. c.ireg = 4 => xm'.ifld = xm'.ifldafterjump /\ ~ xm'.intinhibeduntiljump
    BY <1>4 DEF Captured, IntAck, LoadIf, LoadsIf, exefet, jmpjms, XmType
  <2> QED BY <1>1, <1>2, <1>4, <2>1 DEF CycleShape
<1>5. CASE next \notin {"INTAK", "EXEC"}
  BY <1>1, <1>2, <1>5 DEF CycleShape
<1> QED BY <1>3, <1>4, <1>5

\* The registers the machine holds, when no change of field is pending
Held(c, x) ==
    Regs(c.pctr, c.intdelayed, c.intenabled, x.dfld, x.ifld, x.ifldafterjump,
         x.saveddfld, x.savedifld, x.intinhibeduntiljump)

LEMMA InstructionStep ==
    ASSUME NEW c \in CpuType, NEW x \in XmType, NEW next \in {"DEFER", "EXEC", "HALT"},
           NEW newma, NEW mbuf,
           EndCycle(c, next, newma, mbuf),
           xm' = Captured(IntAck(LoadIf(x, c.ireg, next), c.ireg, next), next, c.irusedf)
    PROVE  /\ next = "EXEC" /\ jmpjms(c.ireg) =>
                 /\ ExpectedRegs' = Expected(c, x, c.ireg)
                 /\ ExpectedCycle' =
                      ST!Cycle("EXEC", IF c.irusedf THEN x.dfld ELSE x.ifldafterjump, newma, c.ireg)
           /\ next = "EXEC" /\ ~ jmpjms(c.ireg) =>
                 /\ ExpectedRegs' = Held(c, x)
                 /\ ExpectedCycle' =
                      ST!Cycle("EXEC", IF c.irusedf THEN x.dfld ELSE x.ifld, newma, c.ireg)
           /\ next = "DEFER" =>
                 /\ ExpectedRegs' = Held(c, x)
                 /\ ExpectedCycle' = ST!Cycle("DEFER", x.ifld, newma, c.ireg)
           /\ next = "HALT" =>
                 /\ ExpectedRegs' = Held(c, x)
                 /\ ExpectedCycle' = ST!Halted
<1>1. /\ cpu'.majstate = next /\ cpu'.irusedf = c.irusedf /\ cpu'.ireg = c.ireg
      /\ cpu'.pctr = c.pctr /\ cpu'.intdelayed = c.intdelayed
      /\ cpu'.intenabled = c.intenabled
      /\ cpu'.madr = newma
  BY DEF EndCycle, CpuType
<1>2. /\ xm'.dfld = x.dfld /\ xm'.ifldafterjump = x.ifldafterjump
      /\ xm'.saveddfld = x.saveddfld /\ xm'.savedifld = x.savedifld
      /\ xm'.uses = IF next = "EXEC" /\ c.irusedf THEN "df" ELSE "if"
  BY DEF Captured, Uses, IntAck, LoadIf, XmType
<1>3. ~ Late'
  BY <1>1 DEF Late
<1>4. CASE next = "EXEC" /\ jmpjms(c.ireg)
  <2>1. /\ xm'.ifld = x.ifldafterjump
        /\ xm'.intinhibeduntiljump = (x.intinhibeduntiljump /\ ~ jmpjms(c.ireg))
    BY <1>4 DEF Captured, IntAck, LoadIf, LoadsIf, exefet, XmType
  <2>2. ExpectedRegs' = Expected(c, x, c.ireg)
    BY <1>1, <1>2, <1>3, <1>4, <2>1, ExpectedAsRegs DEF Expected
  <2>3. ExpectedCycle' = ST!Cycle("EXEC", IF c.irusedf THEN x.dfld ELSE x.ifldafterjump,
                                  newma, c.ireg)
    BY <1>1, <1>2, <1>4, <2>1 DEF ExpectedCycle, Field, ST!Cycle
  <2> QED BY <1>4, <2>2, <2>3
<1>5. CASE ~ (next = "EXEC" /\ jmpjms(c.ireg))
  <2>1. xm'.ifld = x.ifld /\ xm'.intinhibeduntiljump = x.intinhibeduntiljump
    BY <1>5 DEF Captured, IntAck, LoadIf, LoadsIf, exefet, XmType
  <2>2. ExpectedRegs' = Held(c, x)
    <3>1. (xm'.intinhibeduntiljump /\ ~ Late') = x.intinhibeduntiljump
      BY <1>3, <2>1 DEF XmType
    <3>2. (IF Late' THEN xm'.ifldafterjump ELSE xm'.ifld) = x.ifld
      BY <1>3, <2>1
    <3> DEFINE dis == xm'.intinhibeduntiljump /\ ~ Late'
               fld == IF Late' THEN xm'.ifldafterjump ELSE xm'.ifld
    <3>3. ExpectedRegs' = Regs(c.pctr, c.intdelayed, c.intenabled, x.dfld, fld,
                               x.ifldafterjump, x.saveddfld, x.savedifld, dis)
      BY <1>1, <1>2, ExpectedAsRegs
    <3>4. fld = x.ifld /\ dis = x.intinhibeduntiljump
      BY <3>1, <3>2
    <3> HIDE DEF dis, fld
    <3> QED BY <3>3, <3>4 DEF Held
  <2>3. CASE next = "EXEC"
    BY <1>1, <1>2, <1>5, <2>1, <2>2, <2>3 DEF ExpectedCycle, Field, ST!Cycle
  <2>4. CASE next = "DEFER"
    BY <1>1, <1>2, <2>1, <2>2, <2>4 DEF ExpectedCycle, Field, ST!Cycle
  <2>5. CASE next = "HALT"
    BY <1>1, <2>2, <2>5 DEF ExpectedCycle, ST!Cycle, ST!Halted
  <2> QED BY <1>5, <2>3, <2>4, <2>5
<1> QED BY <1>4, <1>5

-----------------------------------------------------------------------------
(* What the test's operators make of the registers. *)

LEMMA Observed ==
    ASSUME TypeOK
    PROVE  /\ cpu.majstate \notin {"WC", "CA", "BRK"} => ExpectedRegs = Held(cpu, xm)
           /\ cpu.majstate \in {"WC", "CA", "BRK"} =>
                 ExpectedRegs = Expected(cpu, xm, cpu.ireg)
<1> DEFINE dis == xm.intinhibeduntiljump /\ ~ Late
           fld == IF Late THEN xm.ifldafterjump ELSE xm.ifld
<1>1. ExpectedRegs = Regs(cpu.pctr, cpu.intdelayed, cpu.intenabled, xm.dfld, fld,
                          xm.ifldafterjump, xm.saveddfld, xm.savedifld, dis)
  BY ExpectedAsRegs
<1>2. ASSUME cpu.majstate \notin {"WC", "CA", "BRK"} PROVE ExpectedRegs = Held(cpu, xm)
  <2>1. fld = xm.ifld /\ dis = xm.intinhibeduntiljump
    BY <1>2 DEF Late, TypeOK
  <2> HIDE DEF dis, fld
  <2> QED BY <1>1, <2>1 DEF Held
<1>3. ASSUME cpu.majstate \in {"WC", "CA", "BRK"}
      PROVE  ExpectedRegs = Expected(cpu, xm, cpu.ireg)
  BY <1>1, <1>3 DEF Expected, Late
<1> QED BY <1>2, <1>3

\* Where no jump is left to be made, both are the same.
LEMMA ExpectedIsHeld ==
    ASSUME NEW c, NEW x, NEW op, x.intinhibeduntiljump \in BOOLEAN,
           jmpjms(op) => x.ifld = x.ifldafterjump /\ ~ x.intinhibeduntiljump
    PROVE  Expected(c, x, op) = Held(c, x)
<1> DEFINE dis == x.intinhibeduntiljump /\ ~ jmpjms(op)
           fld == IF jmpjms(op) THEN x.ifldafterjump ELSE x.ifld
<1>1. Expected(c, x, op)
        = Regs(c.pctr, c.intdelayed, c.intenabled, x.dfld, fld, x.ifldafterjump,
               x.saveddfld, x.savedifld, dis)
  BY DEF Expected
<1>2. fld = x.ifld /\ dis = x.intinhibeduntiljump
  OBVIOUS
<1> HIDE DEF dis, fld
<1> QED BY <1>1, <1>2 DEF Held

LEMMA JumpedHeld ==
    ASSUME NEW c, NEW x, NEW op, jmpjms(op)
    PROVE  ST!Jumped(Held(c, x)) = Expected(c, x, op)
<1> DEFINE no == x.intinhibeduntiljump /\ ~ jmpjms(op)
           fld == IF jmpjms(op) THEN x.ifldafterjump ELSE x.ifld
<1>1. no = FALSE /\ fld = x.ifldafterjump
  OBVIOUS
<1>2. ST!Jumped(Held(c, x)) = JumpedSet(Held(c, x), no)
  BY <1>1 DEF ST!Jumped, JumpedSet
<1>3. Expected(c, x, op)
        = Regs(c.pctr, c.intdelayed, c.intenabled, x.dfld, fld, x.ifldafterjump,
               x.saveddfld, x.savedifld, no)
  BY DEF Expected
<1> HIDE DEF no, fld
<1>4. JumpedSet(Held(c, x), no)
        = Regs(c.pctr, c.intdelayed, c.intenabled, x.dfld, x.ifldafterjump, x.ifldafterjump,
               x.saveddfld, x.savedifld, no)
  BY JumpedRegs DEF Held
<1> QED BY <1>1, <1>2, <1>3, <1>4

\* Writing the program counter is the same before and after.
WithPctr(r, a) == [r EXCEPT !.pctr = a]

LEMMA PctrHeld ==
    ASSUME NEW c \in CpuType, NEW x, NEW a
    PROVE  WithPctr(Held(c, x), a) = Held(WithPctr(c, a), x)
<1> DEFINE w == [c EXCEPT !.pctr = a]
<1>1. w.pctr = a /\ w.intdelayed = c.intdelayed /\ w.intenabled = c.intenabled
  BY DEF CpuType
<1> HIDE DEF w
<1>2. [Held(c, x) EXCEPT !.pctr = a] = Held(w, x)
  BY <1>1, PctrRegs DEF Held
<1> QED BY <1>2 DEF w, WithPctr

LEMMA PctrExpected ==
    ASSUME NEW c \in CpuType, NEW x, NEW op, NEW a
    PROVE  WithPctr(Expected(c, x, op), a) = Expected(WithPctr(c, a), x, op)
<1> DEFINE w == [c EXCEPT !.pctr = a]
           dis == x.intinhibeduntiljump /\ ~ jmpjms(op)
           fld == IF jmpjms(op) THEN x.ifldafterjump ELSE x.ifld
<1>1. w.pctr = a /\ w.intdelayed = c.intdelayed /\ w.intenabled = c.intenabled
  BY DEF CpuType
<1> HIDE DEF w
<1>2. /\ Expected(c, x, op)
            = Regs(c.pctr, c.intdelayed, c.intenabled, x.dfld, fld, x.ifldafterjump,
                   x.saveddfld, x.savedifld, dis)
      /\ Expected(w, x, op)
            = Regs(w.pctr, w.intdelayed, w.intenabled, x.dfld, fld, x.ifldafterjump,
                   x.saveddfld, x.savedifld, dis)
  BY DEF Expected
<1> HIDE DEF dis, fld
<1>3. [Expected(c, x, op) EXCEPT !.pctr = a] = Expected(w, x, op)
  BY <1>1, <1>2, PctrRegs
<1> QED BY <1>3 DEF w, WithPctr

-----------------------------------------------------------------------------
(* The memory cycles but FETCH. *)

LEMMA RunningOn ==
    ASSUME ~ Stops, NEW int, NEW next \in hltbrkintfet(int)
    PROVE  next \in {"WC", "BRK", "FETCH", "INTAK"} /\ (next = "INTAK" => int)
  BY DEF hltbrkintfet

\* A cycle that ends an instruction, and begins no other
LEMMA LastCycle ==
    ASSUME ~ Stops, NEW c \in CpuType, xm \in XmType, c.majstate # "CA",
           NEW next \in hltbrkintfet(IntOk(c, xm)), NEW newma, NEW mbuf,
           EndCycle(c, next, newma, mbuf), xm' = EndedXm(c.ireg, c.irusedf, next)
    PROVE  ST!Round(Expected(c, xm, c.ireg)) /\ CycleShape'
<1>1. /\ next \in {"WC", "BRK", "FETCH", "INTAK"}
      /\ next = "INTAK" =>
           c.intenabled /\ (~ xm.intinhibeduntiljump \/ jmpjms(c.ireg))
  BY RunningOn DEF IntOk
<1>2. xm' = Captured(IntAck(LoadIf(xm, c.ireg, next), c.ireg, next), next, c.irusedf)
  BY DEF EndedXm
<1>3. ST!Round(Expected(c, xm, c.ireg))
  BY <1>1, <1>2, RoundStep
<1>4. CycleShape'
  BY <1>1, <1>2, ShapeAfterCycle DEF States
<1> QED BY <1>3, <1>4

LEMMA BreakStep ==
    ASSUME TypeOK, CycleShape, ~ Stops, Break
    PROVE  ST!Break /\ CycleShape'
<1>1. cpu \in CpuType /\ xm \in XmType /\ cpu.majstate = "BRK"
  BY DEF TypeOK, CpuType, XmType, Break
<1>2. ST!Round(Expected(cpu, xm, cpu.ireg)) /\ CycleShape'
  BY <1>1, LastCycle DEF Break
<1>3. ExpectedRegs = Expected(cpu, xm, cpu.ireg)
  BY <1>1, Observed
<1>4. ExpectedCycle.kind = "BRK"
  BY <1>1 DEF ExpectedCycle
<1> QED BY <1>2, <1>3, <1>4 DEF ST!Break

LEMMA DmaStep ==
    ASSUME TypeOK, CycleShape, WordCount \/ CurrentAddress
    PROVE  (ST!WordCount \/ ST!CurrentAddress) /\ CycleShape'
<1> DEFINE next == IF cpu.majstate = "WC" THEN "CA" ELSE "BRK"
           a == IF cpu.majstate = "WC" THEN Plus1(cpu.madr) ELSE cpu'.madr
<1>1. cpu \in CpuType /\ xm \in XmType /\ cpu.majstate \in {"WC", "CA"}
  BY DEF TypeOK, CpuType, XmType, WordCount, CurrentAddress
<1>2. /\ cpu'.majstate = next /\ cpu'.irusedf = cpu.irusedf /\ cpu'.ireg = cpu.ireg
      /\ cpu'.pctr = cpu.pctr /\ cpu'.intdelayed = cpu.intdelayed
      /\ cpu'.intenabled = cpu.intenabled
      /\ cpu'.madr = a /\ (next = "BRK" => a \in Addrs)
  <2>1. CASE cpu.majstate = "WC"
    <3>1. EndCycle(cpu, "CA", Plus1(cpu.madr), 0)
      BY <2>1 DEF WordCount, CurrentAddress
    <3> QED BY <1>1, <2>1, <3>1 DEF EndCycle, CpuType
  <2>2. CASE cpu.majstate = "CA"
    <3>1. PICK mbuf \in Addrs : EndCycle(cpu, "BRK", cpu.madr, mbuf)
      BY <2>2 DEF WordCount, CurrentAddress
    <3> QED BY <1>1, <2>2, <3>1 DEF EndCycle, CpuType
  <2> QED BY <1>1, <2>1, <2>2
<1>3. xm' = [xm EXCEPT !.uses = Uses(next, cpu.irusedf)]
  BY <1>1 DEF WordCount, CurrentAddress, EndedXm, Captured, IntAck, LoadIf, LoadsIf, exefet
<1>4. Uses(next, cpu.irusedf) = IF next = "BRK" THEN "brk" ELSE "zero"
  BY DEF Uses
<1>5. ExpectedRegs' = ExpectedRegs
  <2>1. Late' = Late
    BY <1>1, <1>2 DEF Late
  <2> QED BY <1>2, <1>3, <2>1, ExpectedAsRegs DEF XmType
<1>6. ExpectedCycle' = ST!Cycle(next, IF next = "BRK" THEN BrkField ELSE 0, a, 0)
  BY <1>1, <1>2, <1>3, <1>4 DEF ExpectedCycle, Field, ST!Cycle, XmType
<1>7. ExpectedCycle.kind = cpu.majstate /\ ExpectedCycle.addr = cpu.madr
  BY <1>1 DEF ExpectedCycle
<1>8. ST!WordCount \/ ST!CurrentAddress
  <2>1. CASE cpu.majstate = "WC"
    BY <1>5, <1>6, <1>7, <2>1 DEF ST!WordCount, ST!Plus1, Plus1
  <2>2. CASE cpu.majstate = "CA"
    BY <1>2, <1>5, <1>6, <1>7, <2>2 DEF ST!CurrentAddress, ST!Addrs, Addrs
  <2> QED BY <1>1, <2>1, <2>2
<1>9. CycleShape'
  BY <1>1, <1>2, <1>3, <1>4 DEF CycleShape, XmType
<1> QED BY <1>8, <1>9

LEMMA DeferStep ==
    ASSUME TypeOK, CycleShape, ~ Stops, Defer
    PROVE  ST!Defer /\ CycleShape'
<1>0. PICK pointer \in Addrs :
       LET mbuf == IF cpu.madr \in AutoIndex THEN Plus1(pointer) ELSE pointer
           jmp == cpu.ireg = 5
       IN \E next \in IF jmp THEN hltbrkintfet(IntOk(cpu, xm)) ELSE {"EXEC"} :
             /\ EndCycle([cpu EXCEPT !.pctr = IF jmp THEN mbuf ELSE @], next,
                         IF jmp THEN cpu.madr ELSE mbuf, mbuf)
             /\ xm' = EndedXm(cpu.ireg, cpu.irusedf, next)
             /\ Taken(cpu.ireg, next)
  BY DEF Defer
<1> DEFINE mbuf == IF cpu.madr \in AutoIndex THEN Plus1(pointer) ELSE pointer
           c == [cpu EXCEPT !.pctr = mbuf]
<1>1. /\ cpu \in CpuType /\ xm \in XmType /\ cpu.majstate = "DEFER"
      /\ cpu.ireg < 6 /\ (cpu.irusedf <=> cpu.ireg < 4) /\ cpu.ireg \in 0 .. 7
      /\ cpu.irusedf \in BOOLEAN
  BY DEF TypeOK, CpuType, XmType, Defer, CycleShape
<1>2. mbuf \in Addrs
  BY AddrsClosed
<1>3. ExpectedRegs = Held(cpu, xm)
  BY <1>1, Observed
<1>4. ExpectedCycle.kind = "DEFER" /\ ExpectedCycle.op = cpu.ireg
      /\ ExpectedCycle.addr = cpu.madr
  BY <1>1 DEF ExpectedCycle
<1>5. ST!Exec(ExpectedRegs, cpu.ireg, mbuf, TRUE) /\ CycleShape'
  <2>1. CASE cpu.ireg = 5
    <3>0. PICK next \in hltbrkintfet(IntOk(cpu, xm)) :
             /\ EndCycle(c, next, cpu.madr, mbuf)
             /\ xm' = EndedXm(cpu.ireg, cpu.irusedf, next)
      BY <1>0, <2>1
    <3> HIDE DEF mbuf
    <3>1. /\ c \in CpuType /\ c.majstate = "DEFER" /\ c.ireg = cpu.ireg
          /\ c.irusedf = cpu.irusedf /\ c.intenabled = cpu.intenabled
      BY <1>1, <1>2 DEF CpuType
    <3> HIDE DEF c
    <3>2. IntOk(c, xm) = IntOk(cpu, xm)
      BY <3>1 DEF IntOk
    <3>3. ST!Round(Expected(c, xm, cpu.ireg)) /\ CycleShape'
      BY <1>1, <3>0, <3>1, <3>2, LastCycle
    <3>4. jmpjms(cpu.ireg)
      BY <2>1 DEF jmpjms
    <3>5. [ST!Jumped(ExpectedRegs) EXCEPT !.pctr = mbuf] = Expected(c, xm, cpu.ireg)
      <4>1. ST!Jumped(ExpectedRegs) = Expected(cpu, xm, cpu.ireg)
        BY <1>3, <3>4, JumpedHeld
      <4>2. WithPctr(Expected(cpu, xm, cpu.ireg), mbuf)
              = Expected(WithPctr(cpu, mbuf), xm, cpu.ireg)
        BY <1>1, PctrExpected
      <4> QED BY <4>1, <4>2 DEF c, WithPctr
    <3> QED BY <2>1, <3>3, <3>5 DEF ST!Exec
  <2>2. CASE cpu.ireg < 5
    <3>1. [cpu EXCEPT !.pctr = cpu.pctr] = cpu
      BY <1>1 DEF CpuType
    <3>2. EndCycle(cpu, "EXEC", mbuf, mbuf) /\ xm' = EndedXm(cpu.ireg, cpu.irusedf, "EXEC")
      BY <1>0, <2>2, <3>1
    <3> HIDE DEF mbuf
    <3>3. xm' = Captured(IntAck(LoadIf(xm, cpu.ireg, "EXEC"), cpu.ireg, "EXEC"),
                         "EXEC", cpu.irusedf)
      BY <3>2 DEF EndedXm
    <3>4. CycleShape'
      BY <1>1, <2>2, <3>2, <3>3, ShapeAfterCycle DEF States
    <3>5. CASE cpu.ireg = 4
      <4>1. jmpjms(4) /\ ~ cpu.irusedf
        BY <1>1, <3>5 DEF jmpjms
      <4>2. /\ ExpectedRegs' = Expected(cpu, xm, 4)
            /\ ExpectedCycle' = ST!Cycle("EXEC", xm.ifldafterjump, mbuf, 4)
        BY <1>1, <3>2, <3>3, <3>5, <4>1, InstructionStep
      <4>3. ST!Jumped(ExpectedRegs) = Expected(cpu, xm, 4)
        BY <1>3, <4>1, JumpedHeld
      <4>4. ExpectedRegs.ifldafterjump = xm.ifldafterjump
        BY DEF ExpectedRegs
      <4> QED BY <3>4, <3>5, <4>2, <4>3, <4>4 DEF ST!Exec
    <3>6. CASE cpu.ireg < 4
      <4>1. ~ jmpjms(cpu.ireg) /\ cpu.irusedf
        BY <1>1, <3>6 DEF jmpjms
      <4>2. /\ ExpectedRegs' = Held(cpu, xm)
            /\ ExpectedCycle' = ST!Cycle("EXEC", xm.dfld, mbuf, cpu.ireg)
        BY <1>1, <3>2, <3>3, <4>1, InstructionStep
      <4>3. ExpectedRegs.dfld = xm.dfld
        BY DEF ExpectedRegs
      <4> QED BY <1>3, <3>4, <3>6, <4>2, <4>3 DEF ST!Exec
    <3>7. cpu.ireg = 4 \/ cpu.ireg < 4
      BY <1>1, <2>2
    <3> QED BY <3>5, <3>6, <3>7, Zenon
  <2>3. cpu.ireg = 5 \/ cpu.ireg < 5
    BY <1>1
  <2> QED BY <2>1, <2>2, <2>3, Zenon
<1>6. \A v : ST!Plus1(v) = Plus1(v)
  BY DEF ST!Plus1, Plus1
<1> QED BY <1>4, <1>5, <1>6 DEF ST!Defer, ST!Addrs, Addrs

LEMMA ExecStep ==
    ASSUME TypeOK, CycleShape, ~ Stops, Exec
    PROVE  ST!Execute /\ CycleShape'
<1> PICK operand \in Addrs, next \in hltbrkintfet(IntOk(cpu, xm)) :
       LET zero == Plus1(operand) = 0
       IN  /\ EndCycle([cpu EXCEPT !.pctr = IF cpu.ireg = 4 THEN Plus1(cpu.madr)
                                            ELSE IF cpu.ireg = 2 /\ zero THEN Plus1(@)
                                            ELSE @], next, cpu.madr, operand)
           /\ xm' = EndedXm(cpu.ireg, cpu.irusedf, next)
  BY DEF Exec
<1> DEFINE zero == Plus1(operand) = 0
           pc == IF cpu.ireg = 4 THEN Plus1(cpu.madr)
                 ELSE IF cpu.ireg = 2 /\ zero THEN Plus1(cpu.pctr)
                 ELSE cpu.pctr
           c == [cpu EXCEPT !.pctr = pc]
<1>1. /\ cpu \in CpuType /\ xm \in XmType /\ cpu.majstate \in {"EXEC", "INTAK"}
      /\ cpu.ireg < 5 /\ cpu.ireg \in 0 .. 7
      /\ cpu.ireg = 4 => xm.ifld = xm.ifldafterjump /\ ~ xm.intinhibeduntiljump
  BY DEF TypeOK, CpuType, XmType, Exec, CycleShape
<1>2. EndCycle(c, next, cpu.madr, operand) /\ xm' = EndedXm(cpu.ireg, cpu.irusedf, next)
  BY <1>1
<1>3. pc \in Addrs
  BY <1>1, AddrsClosed DEF CpuType
<1>4. ExpectedRegs = Held(cpu, xm)
  BY <1>1, Observed
<1>5. ExpectedCycle.kind = "EXEC" /\ ExpectedCycle.op = cpu.ireg
      /\ ExpectedCycle.addr = cpu.madr
  BY <1>1 DEF ExpectedCycle
<1>6. ST!Round([ExpectedRegs EXCEPT !.pctr = pc]) /\ CycleShape'
  <2> HIDE DEF pc
  <2>1. /\ c \in CpuType /\ c.majstate \in {"EXEC", "INTAK"} /\ c.ireg = cpu.ireg
        /\ c.irusedf = cpu.irusedf /\ c.intenabled = cpu.intenabled
    BY <1>1, <1>3 DEF CpuType
  <2>2. [ExpectedRegs EXCEPT !.pctr = pc] = Held(c, xm)
    <3>1. WithPctr(Held(cpu, xm), pc) = Held(WithPctr(cpu, pc), xm)
      BY <1>1, PctrHeld
    <3> QED BY <1>4, <3>1 DEF c, WithPctr
  <2> HIDE DEF c
  <2>3. IntOk(c, xm) = IntOk(cpu, xm)
    BY <2>1 DEF IntOk
  <2>4. ST!Round(Expected(c, xm, c.ireg)) /\ CycleShape'
    BY <1>1, <1>2, <2>1, <2>3, LastCycle
  <2>5. jmpjms(c.ireg) => xm.ifld = xm.ifldafterjump /\ ~ xm.intinhibeduntiljump
    BY <1>1, <2>1 DEF jmpjms
  <2>6. Expected(c, xm, c.ireg) = Held(c, xm)
    BY <1>1, <2>5, ExpectedIsHeld DEF XmType
  <2> QED BY <2>2, <2>4, <2>6
<1>7. /\ \A v : ST!Plus1(v) = Plus1(v)
      /\ ST!Addrs = Addrs /\ ExpectedRegs.pctr = cpu.pctr
      /\ [ExpectedRegs EXCEPT !.pctr = cpu.pctr] = ExpectedRegs
  BY DEF ST!Plus1, Plus1, ST!Addrs, Addrs, ExpectedRegs
<1>8. ST!Execute
  <2>1. CASE cpu.ireg = 4
    BY <1>5, <1>6, <1>7, <2>1 DEF ST!Execute
  <2>2. CASE cpu.ireg = 2
    <3>1. ST!Skipped(ExpectedRegs, zero) = [ExpectedRegs EXCEPT !.pctr = pc]
      BY <1>7, <2>2 DEF ST!Skipped
    <3> QED BY <1>5, <1>6, <1>7, <2>2, <3>1 DEF ST!Execute
  <2>3. CASE cpu.ireg \in {0, 1, 3}
    BY <1>5, <1>6, <1>7, <2>3 DEF ST!Execute
  <2> QED BY <1>1, <2>1, <2>2, <2>3
<1> QED BY <1>6, <1>8

-----------------------------------------------------------------------------
(* The switches. *)

FieldsLoaded(r, a, d, f) ==
    [r EXCEPT !.pctr = a, !.dfld = d, !.ifld = f, !.ifldafterjump = f]

LEMMA FieldsLoadedRegs ==
    ASSUME NEW pc, NEW dl, NEW en, NEW d, NEW f, NEW fj, NEW sd, NEW sf, NEW dis,
           NEW a, NEW dnew, NEW fnew
    PROVE  FieldsLoaded(Regs(pc, dl, en, d, f, fj, sd, sf, dis), a, dnew, fnew)
             = Regs(a, dl, en, dnew, fnew, fnew, sd, sf, dis)
<1>1. [Regs(pc, dl, en, d, f, fj, sd, sf, dis) EXCEPT !.pctr = a]
        = Regs(a, dl, en, d, f, fj, sd, sf, dis)
  BY DEF Regs
<1>2. [Regs(a, dl, en, d, f, fj, sd, sf, dis) EXCEPT !.dfld = dnew]
        = Regs(a, dl, en, dnew, f, fj, sd, sf, dis)
  BY DEF Regs
<1>3. [Regs(a, dl, en, dnew, f, fj, sd, sf, dis) EXCEPT !.ifld = fnew]
        = Regs(a, dl, en, dnew, fnew, fj, sd, sf, dis)
  BY DEF Regs
<1>4. [Regs(a, dl, en, dnew, fnew, fj, sd, sf, dis) EXCEPT !.ifldafterjump = fnew]
        = Regs(a, dl, en, dnew, fnew, fnew, sd, sf, dis)
  BY DEF Regs
<1> QED BY <1>1, <1>2, <1>3, <1>4 DEF FieldsLoaded

SavedCleared(r, no, zero) ==
    [r EXCEPT !.saveddfld = zero, !.savedifld = zero, !.intdisableduntiljump = no]

LEMMA SavedClearedRegs ==
    ASSUME NEW pc, NEW dl, NEW en, NEW d, NEW f, NEW fj, NEW sd, NEW sf, NEW dis,
           NEW no, NEW zero
    PROVE  SavedCleared(InterruptsSet(Regs(pc, dl, en, d, f, fj, sd, sf, dis), no), no, zero)
             = Regs(pc, no, no, d, f, fj, zero, zero, no)
<1>1. InterruptsSet(Regs(pc, dl, en, d, f, fj, sd, sf, dis), no)
        = Regs(pc, no, no, d, f, fj, sd, sf, dis)
  <2>1. [Regs(pc, dl, en, d, f, fj, sd, sf, dis) EXCEPT !.intdelayed = no]
          = Regs(pc, no, en, d, f, fj, sd, sf, dis)
    BY DEF Regs
  <2>2. [Regs(pc, no, en, d, f, fj, sd, sf, dis) EXCEPT !.intenabled = no]
          = Regs(pc, no, no, d, f, fj, sd, sf, dis)
    BY DEF Regs
  <2> QED BY <2>1, <2>2 DEF InterruptsSet
<1>2. SavedCleared(Regs(pc, no, no, d, f, fj, sd, sf, dis), no, zero)
        = Regs(pc, no, no, d, f, fj, zero, zero, no)
  <2>1. [Regs(pc, no, no, d, f, fj, sd, sf, dis) EXCEPT !.saveddfld = zero]
          = Regs(pc, no, no, d, f, fj, zero, sf, dis)
    BY DEF Regs
  <2>2. [Regs(pc, no, no, d, f, fj, zero, sf, dis) EXCEPT !.savedifld = zero]
          = Regs(pc, no, no, d, f, fj, zero, zero, dis)
    BY DEF Regs
  <2>3. [Regs(pc, no, no, d, f, fj, zero, zero, dis) EXCEPT !.intdisableduntiljump = no]
          = Regs(pc, no, no, d, f, fj, zero, zero, no)
    BY DEF Regs
  <2> QED BY <2>1, <2>2, <2>3 DEF SavedCleared
<1> QED BY <1>1, <1>2

\* The registers after a switch, whose state is HALT or FETCH
LEMMA HeldAfter ==
    ASSUME cpu' \in CpuType, xm' \in XmType, cpu'.majstate \in {"HALT", "FETCH"}
    PROVE  ExpectedRegs' = Held(cpu', xm')
<1> DEFINE dis == xm'.intinhibeduntiljump /\ ~ Late'
           fld == IF Late' THEN xm'.ifldafterjump ELSE xm'.ifld
<1>1. ExpectedRegs' = Regs(cpu'.pctr, cpu'.intdelayed, cpu'.intenabled, xm'.dfld, fld,
                           xm'.ifldafterjump, xm'.saveddfld, xm'.savedifld, dis)
  BY ExpectedAsRegs
<1>2. fld = xm'.ifld /\ dis = xm'.intinhibeduntiljump
  BY DEF Late, XmType
<1> HIDE DEF dis, fld
<1> QED BY <1>1, <1>2 DEF Held

LEMMA SwitchStep ==
    ASSUME TypeOK, TypeOK', CycleShape, LoadAddress \/ Examine \/ Continue \/ Start
    PROVE  /\ ST!LoadAddress \/ ST!Examine \/ ST!Continue \/ ST!Start
           /\ CycleShape'
<1>1. /\ cpu \in CpuType /\ xm \in XmType /\ cpu.majstate = "HALT"
      /\ cpu' \in CpuType /\ xm' \in XmType
  BY DEF TypeOK, CpuType, XmType, LoadAddress, Examine, Continue, Start
<1>2. xm.uses = "if"
  BY <1>1 DEF CycleShape, Uses
<1>3. ExpectedRegs = Held(cpu, xm)
  BY <1>1, Observed
<1>4. ExpectedCycle = ST!Halted
  BY <1>1 DEF ExpectedCycle, ST!Halted, ST!Cycle
<1>5. CASE LoadAddress
  <2>0. PICK swSR \in Addrs, swIFLD \in Fields, swDFLD \in Fields :
          /\ cpu' = [cpu EXCEPT !.madr = swSR, !.pctr = swSR]
          /\ xm' = [xm EXCEPT !.dfld = swDFLD, !.ifld = swIFLD, !.ifldafterjump = swIFLD]
    BY <1>5 DEF LoadAddress
  <2>1. /\ cpu'.majstate = "HALT" /\ cpu'.pctr = swSR
        /\ cpu'.intdelayed = cpu.intdelayed /\ cpu'.intenabled = cpu.intenabled
        /\ xm'.dfld = swDFLD /\ xm'.ifld = swIFLD /\ xm'.ifldafterjump = swIFLD
        /\ xm'.saveddfld = xm.saveddfld /\ xm'.savedifld = xm.savedifld
        /\ xm'.intinhibeduntiljump = xm.intinhibeduntiljump /\ xm'.uses = "if"
    BY <1>1, <1>2, <2>0 DEF CpuType, XmType
  <2>2. ExpectedRegs' = Held(cpu', xm') /\ ExpectedCycle' = ST!Halted
    BY <1>1, <2>1, HeldAfter DEF ExpectedCycle, ST!Halted, ST!Cycle
  <2>3. ExpectedRegs' = FieldsLoaded(ExpectedRegs, swSR, swDFLD, swIFLD)
    BY <1>3, <2>1, <2>2, FieldsLoadedRegs DEF Held
  <2>4. ST!LoadAddress
    BY <1>4, <2>2, <2>3 DEF ST!LoadAddress, ST!Addrs, Addrs, FieldsLoaded
  <2>5. CycleShape'
    BY <2>1 DEF CycleShape, Uses
  <2> QED BY <2>4, <2>5
<1>6. CASE Examine
  <2>1. /\ cpu'.majstate = "HALT" /\ cpu'.pctr = Plus1(cpu.pctr)
        /\ cpu'.intdelayed = cpu.intdelayed /\ cpu'.intenabled = cpu.intenabled
        /\ xm' = xm
    BY <1>1, <1>6 DEF Examine, CpuType
  <2>2. ExpectedRegs' = Held(cpu', xm') /\ ExpectedCycle' = ST!Halted
    BY <1>1, <2>1, HeldAfter DEF ExpectedCycle, ST!Halted, ST!Cycle
  <2>3. ExpectedRegs' = WithPctr(ExpectedRegs, Plus1(cpu.pctr))
    BY <1>3, <2>1, <2>2, PctrRegs DEF Held, WithPctr
  <2>4. ExpectedRegs.pctr = cpu.pctr
    BY DEF ExpectedRegs
  <2>5. ST!Examine
    BY <1>4, <2>2, <2>3, <2>4 DEF ST!Examine, ST!Plus1, Plus1, WithPctr
  <2>6. CycleShape'
    BY <1>2, <2>1 DEF CycleShape, Uses
  <2> QED BY <2>5, <2>6
<1>7. CASE Continue
  <2>1. /\ cpu'.majstate = "FETCH" /\ cpu'.pctr = cpu.pctr /\ cpu'.madr = cpu.pctr
        /\ cpu'.intdelayed = cpu.intdelayed /\ cpu'.intenabled = cpu.intenabled
        /\ xm' = xm
    BY <1>1, <1>7 DEF Continue, CpuType
  <2>2. ExpectedRegs' = ExpectedRegs
    BY <1>1, <1>3, <2>1, HeldAfter DEF Held
  <2>3. ExpectedCycle' = ST!FetchOf(ExpectedRegs)
    BY <1>2, <1>3, <2>1, RegsRead DEF ExpectedCycle, Field, ST!FetchOf, ST!Cycle, Held
  <2>4. ST!Continue
    BY <1>4, <2>2, <2>3 DEF ST!Continue
  <2>5. CycleShape'
    BY <1>2, <2>1 DEF CycleShape, Uses
  <2> QED BY <2>4, <2>5
<1>8. CASE Start
  <2> DEFINE no == FALSE
             zero == 0
  <2>1. /\ cpu'.majstate = "FETCH" /\ cpu'.pctr = cpu.pctr /\ cpu'.madr = cpu.pctr
        /\ cpu'.intdelayed = no /\ cpu'.intenabled = no
        /\ xm'.dfld = xm.dfld /\ xm'.ifld = xm.ifld
        /\ xm'.ifldafterjump = xm.ifldafterjump
        /\ xm'.saveddfld = zero /\ xm'.savedifld = zero
        /\ xm'.intinhibeduntiljump = no /\ xm'.uses = "if"
    BY <1>1, <1>2, <1>8 DEF Start, CpuType, XmType
  <2>2. ExpectedCycle' = ST!Cycle("FETCH", xm.ifld, cpu.pctr, 0)
    BY <2>1 DEF ExpectedCycle, Field, ST!Cycle
  <2>3. ExpectedRegs' = Held(cpu', xm')
    BY <1>1, <2>1, HeldAfter
  <2>4. ExpectedRegs' = SavedCleared(InterruptsSet(ExpectedRegs, no), no, zero)
    <3> HIDE DEF no, zero
    <3> QED BY <1>3, <2>1, <2>3, SavedClearedRegs DEF Held
  <2>5. ST!InterruptsOff(ExpectedRegs) = InterruptsSet(ExpectedRegs, no)
    BY DEF ST!InterruptsOff, InterruptsSet
  <2>6. ExpectedRegs'
          = [ST!InterruptsOff(ExpectedRegs) EXCEPT !.saveddfld = 0, !.savedifld = 0,
                                                   !.intdisableduntiljump = FALSE]
    BY <2>4, <2>5 DEF SavedCleared
  <2>7. ExpectedCycle' = ST!FetchOf(ExpectedRegs)
    <3>1. ST!FetchOf(ExpectedRegs) = ST!Cycle("FETCH", xm.ifld, cpu.pctr, 0)
      BY <1>3, RegsRead DEF ST!FetchOf, Held
    <3> QED BY <2>2, <3>1
  <2>8. ST!Start
    BY <1>4, <2>6, <2>7 DEF ST!Start
  <2>9. CycleShape'
    BY <2>1 DEF CycleShape, Uses
  <2> QED BY <2>8, <2>9
<1> QED BY <1>5, <1>6, <1>7, <1>8

-----------------------------------------------------------------------------
(* FETCH: what the instruction does to the registers. *)

IoWrites(r, i, yes, no) ==
    CASE i.io = "ION" -> [r EXCEPT !.intdelayed = yes]
      [] i.io = "IOF" -> [r EXCEPT !.intdelayed = no, !.intenabled = no]
      [] i.io = "CDF" -> [r EXCEPT !.dfld = i.fld]
      [] i.io = "CIF" -> [r EXCEPT !.ifldafterjump = i.fld, !.intdisableduntiljump = yes]
      [] i.io = "CDFCIF" -> [r EXCEPT !.dfld = i.fld, !.ifldafterjump = i.fld,
                                      !.intdisableduntiljump = yes]
      [] i.io = "RMF" -> [r EXCEPT !.dfld = r.saveddfld, !.ifldafterjump = r.savedifld]
      [] OTHER -> r

LEMMA IoRegs ==
    ASSUME NEW pc, NEW dl, NEW en, NEW d, NEW f, NEW fj, NEW sd, NEW sf, NEW dis,
           NEW i, NEW yes, NEW no
    PROVE  LET r == Regs(pc, dl, en, d, f, fj, sd, sf, dis)
               fld == i.fld
               w == IoWrites(r, i, yes, no)
           IN  /\ i.io = "ION" => w = Regs(pc, yes, en, d, f, fj, sd, sf, dis)
               /\ i.io = "IOF" => w = Regs(pc, no, no, d, f, fj, sd, sf, dis)
               /\ i.io = "CDF" => w = Regs(pc, dl, en, fld, f, fj, sd, sf, dis)
               /\ i.io = "CIF" => w = Regs(pc, dl, en, d, f, fld, sd, sf, yes)
               /\ i.io = "CDFCIF" => w = Regs(pc, dl, en, fld, f, fld, sd, sf, yes)
               /\ i.io = "RMF" => w = Regs(pc, dl, en, sd, f, sf, sd, sf, dis)
               /\ i.io \notin {"ION", "IOF", "CDF", "CIF", "CDFCIF", "RMF"} =>
                     w = r
<1> DEFINE r == Regs(pc, dl, en, d, f, fj, sd, sf, dis)
           fld == i.fld
           w == IoWrites(r, i, yes, no)
<1>1. ASSUME i.io = "ION" PROVE w = Regs(pc, yes, en, d, f, fj, sd, sf, dis)
  <2>1. [r EXCEPT !.intdelayed = yes] = Regs(pc, yes, en, d, f, fj, sd, sf, dis)
    BY DEF Regs
  <2> QED BY <1>1, <2>1 DEF IoWrites
<1>2. ASSUME i.io = "IOF" PROVE w = Regs(pc, no, no, d, f, fj, sd, sf, dis)
  <2>1. [r EXCEPT !.intdelayed = no] = Regs(pc, no, en, d, f, fj, sd, sf, dis)
    BY DEF Regs
  <2>2. [Regs(pc, no, en, d, f, fj, sd, sf, dis) EXCEPT !.intenabled = no]
          = Regs(pc, no, no, d, f, fj, sd, sf, dis)
    BY DEF Regs
  <2> QED BY <1>2, <2>1, <2>2 DEF IoWrites
<1>3. ASSUME i.io = "CDF" PROVE w = Regs(pc, dl, en, fld, f, fj, sd, sf, dis)
  <2>1. [r EXCEPT !.dfld = fld] = Regs(pc, dl, en, fld, f, fj, sd, sf, dis)
    BY DEF Regs
  <2> QED BY <1>3, <2>1 DEF IoWrites
<1>4. ASSUME i.io = "CIF" PROVE w = Regs(pc, dl, en, d, f, fld, sd, sf, yes)
  <2>1. [r EXCEPT !.ifldafterjump = fld] = Regs(pc, dl, en, d, f, fld, sd, sf, dis)
    BY DEF Regs
  <2>2. [Regs(pc, dl, en, d, f, fld, sd, sf, dis) EXCEPT !.intdisableduntiljump = yes]
          = Regs(pc, dl, en, d, f, fld, sd, sf, yes)
    BY DEF Regs
  <2> QED BY <1>4, <2>1, <2>2 DEF IoWrites
<1>5. ASSUME i.io = "CDFCIF" PROVE  w = Regs(pc, dl, en, fld, f, fld, sd, sf, yes)
  <2>1. [r EXCEPT !.dfld = fld] = Regs(pc, dl, en, fld, f, fj, sd, sf, dis)
    BY DEF Regs
  <2>2. [Regs(pc, dl, en, fld, f, fj, sd, sf, dis) EXCEPT !.ifldafterjump = fld]
          = Regs(pc, dl, en, fld, f, fld, sd, sf, dis)
    BY DEF Regs
  <2>3. [Regs(pc, dl, en, fld, f, fld, sd, sf, dis) EXCEPT !.intdisableduntiljump = yes]
          = Regs(pc, dl, en, fld, f, fld, sd, sf, yes)
    BY DEF Regs
  <2> QED BY <1>5, <2>1, <2>2, <2>3 DEF IoWrites
<1>6. ASSUME i.io = "RMF" PROVE w = Regs(pc, dl, en, sd, f, sf, sd, sf, dis)
  <2>1. r.saveddfld = sd /\ r.savedifld = sf
    BY RegsRead
  <2>2. [r EXCEPT !.dfld = sd] = Regs(pc, dl, en, sd, f, fj, sd, sf, dis)
    BY DEF Regs
  <2>3. [Regs(pc, dl, en, sd, f, fj, sd, sf, dis) EXCEPT !.ifldafterjump = sf]
          = Regs(pc, dl, en, sd, f, sf, sd, sf, dis)
    BY DEF Regs
  <2> QED BY <1>6, <2>1, <2>2, <2>3 DEF IoWrites
<1>7. ASSUME i.io \notin {"ION", "IOF", "CDF", "CIF", "CDFCIF", "RMF"}
      PROVE  w = r
  BY <1>7 DEF IoWrites
<1> QED BY <1>1, <1>2, <1>3, <1>4, <1>5, <1>6, <1>7

LEMMA IoStep ==
    ASSUME NEW c \in CpuType, NEW x \in XmType, NEW i \in Instruction,
           NEW skip \in BOOLEAN, i.op = 6
    PROVE  Held(FetchExecuted(c, i, skip), IopStart(x, i))
             = ST!Skipped(ST!Io(Held(c, x), i), skip /\ i.io = "other")
<1> DEFINE yes == TRUE
           no == FALSE
           io == IoWrites(Held(c, x), i, yes, no)
           c1 == FetchExecuted(c, i, skip)
           x1 == IopStart(x, i)
<1>0. ST!Io(Held(c, x), i) = io
  BY DEF ST!Io, IoWrites
<1>1. CASE i.io = "ION"
  <2>1. io = Regs(c.pctr, yes, c.intenabled, x.dfld, x.ifld,
                   x.ifldafterjump, x.saveddfld, x.savedifld,
                   x.intinhibeduntiljump)
    <3> HIDE DEF yes, no
    <3> QED BY <1>1, IoRegs DEF Held
  <2>2. /\ c1.pctr = c.pctr /\ c1.intdelayed = yes /\ c1.intenabled = c.intenabled
        /\ x1.dfld = x.dfld /\ x1.ifld = x.ifld /\ x1.ifldafterjump = x.ifldafterjump
        /\ x1.saveddfld = x.saveddfld /\ x1.savedifld = x.savedifld
        /\ x1.intinhibeduntiljump = x.intinhibeduntiljump
    <3>1. c1 = [c EXCEPT !.intdelayed = yes]
      BY <1>1 DEF FetchExecuted, Skips
    <3>2. x1 = x
      BY <1>1 DEF IopStart
    <3> HIDE DEF c1, x1
    <3> QED BY <3>1, <3>2 DEF CpuType, XmType
  <2>3. Held(c1, x1) = io
    <3> HIDE DEF yes, no, io, c1, x1
    <3> QED BY <2>1, <2>2 DEF Held
  <2> QED BY <1>0, <1>1, <2>3 DEF ST!Skipped
<1>2. CASE i.io = "IOF"
  <2>1. io = Regs(c.pctr, no, no, x.dfld, x.ifld,
                   x.ifldafterjump, x.saveddfld, x.savedifld,
                   x.intinhibeduntiljump)
    <3> HIDE DEF yes, no
    <3> QED BY <1>2, IoRegs DEF Held
  <2>2. /\ c1.pctr = c.pctr /\ c1.intdelayed = no /\ c1.intenabled = no
        /\ x1.dfld = x.dfld /\ x1.ifld = x.ifld /\ x1.ifldafterjump = x.ifldafterjump
        /\ x1.saveddfld = x.saveddfld /\ x1.savedifld = x.savedifld
        /\ x1.intinhibeduntiljump = x.intinhibeduntiljump
    <3>1. c1 = [c EXCEPT !.intdelayed = no, !.intenabled = no]
      BY <1>2 DEF FetchExecuted, Skips
    <3>2. x1 = x
      BY <1>2 DEF IopStart
    <3> HIDE DEF c1, x1
    <3> QED BY <3>1, <3>2 DEF CpuType, XmType
  <2>3. Held(c1, x1) = io
    <3> HIDE DEF yes, no, io, c1, x1
    <3> QED BY <2>1, <2>2 DEF Held
  <2> QED BY <1>0, <1>2, <2>3 DEF ST!Skipped
<1>3. CASE i.io = "CDF"
  <2>1. io = Regs(c.pctr, c.intdelayed, c.intenabled, i.fld, x.ifld,
                   x.ifldafterjump, x.saveddfld, x.savedifld,
                   x.intinhibeduntiljump)
    <3> HIDE DEF yes, no
    <3> QED BY <1>3, IoRegs DEF Held
  <2>2. /\ c1.pctr = c.pctr /\ c1.intdelayed = c.intdelayed /\ c1.intenabled = c.intenabled
        /\ x1.dfld = i.fld /\ x1.ifld = x.ifld /\ x1.ifldafterjump = x.ifldafterjump
        /\ x1.saveddfld = x.saveddfld /\ x1.savedifld = x.savedifld
        /\ x1.intinhibeduntiljump = x.intinhibeduntiljump
    <3>1. c1 = c
      BY <1>3 DEF FetchExecuted, Skips
    <3>2. x1 = [x EXCEPT !.dfld = i.fld]
      BY <1>3 DEF IopStart
    <3> HIDE DEF c1, x1
    <3> QED BY <3>1, <3>2 DEF CpuType, XmType
  <2>3. Held(c1, x1) = io
    <3> HIDE DEF yes, no, io, c1, x1
    <3> QED BY <2>1, <2>2 DEF Held
  <2> QED BY <1>0, <1>3, <2>3 DEF ST!Skipped
<1>4. CASE i.io = "CIF"
  <2>1. io = Regs(c.pctr, c.intdelayed, c.intenabled, x.dfld, x.ifld,
                   i.fld, x.saveddfld, x.savedifld,
                   yes)
    <3> HIDE DEF yes, no
    <3> QED BY <1>4, IoRegs DEF Held
  <2>2. /\ c1.pctr = c.pctr /\ c1.intdelayed = c.intdelayed /\ c1.intenabled = c.intenabled
        /\ x1.dfld = x.dfld /\ x1.ifld = x.ifld /\ x1.ifldafterjump = i.fld
        /\ x1.saveddfld = x.saveddfld /\ x1.savedifld = x.savedifld
        /\ x1.intinhibeduntiljump = yes
    <3>1. c1 = c
      BY <1>4 DEF FetchExecuted, Skips
    <3>2. x1 = [x EXCEPT !.ifldafterjump = i.fld, !.intinhibeduntiljump = yes]
      BY <1>4 DEF IopStart
    <3> HIDE DEF c1, x1
    <3> QED BY <3>1, <3>2 DEF CpuType, XmType
  <2>3. Held(c1, x1) = io
    <3> HIDE DEF yes, no, io, c1, x1
    <3> QED BY <2>1, <2>2 DEF Held
  <2> QED BY <1>0, <1>4, <2>3 DEF ST!Skipped
<1>5. CASE i.io = "CDFCIF"
  <2>1. io = Regs(c.pctr, c.intdelayed, c.intenabled, i.fld, x.ifld,
                   i.fld, x.saveddfld, x.savedifld,
                   yes)
    <3> HIDE DEF yes, no
    <3> QED BY <1>5, IoRegs DEF Held
  <2>2. /\ c1.pctr = c.pctr /\ c1.intdelayed = c.intdelayed /\ c1.intenabled = c.intenabled
        /\ x1.dfld = i.fld /\ x1.ifld = x.ifld /\ x1.ifldafterjump = i.fld
        /\ x1.saveddfld = x.saveddfld /\ x1.savedifld = x.savedifld
        /\ x1.intinhibeduntiljump = yes
    <3>1. c1 = c
      BY <1>5 DEF FetchExecuted, Skips
    <3>2. x1 = [x EXCEPT !.dfld = i.fld, !.ifldafterjump = i.fld,
                         !.intinhibeduntiljump = yes]
      BY <1>5 DEF IopStart
    <3> HIDE DEF c1, x1
    <3> QED BY <3>1, <3>2 DEF CpuType, XmType
  <2>3. Held(c1, x1) = io
    <3> HIDE DEF yes, no, io, c1, x1
    <3> QED BY <2>1, <2>2 DEF Held
  <2> QED BY <1>0, <1>5, <2>3 DEF ST!Skipped
<1>6. CASE i.io = "RMF"
  <2>1. io = Regs(c.pctr, c.intdelayed, c.intenabled, x.saveddfld, x.ifld,
                   x.savedifld, x.saveddfld, x.savedifld,
                   x.intinhibeduntiljump)
    <3> HIDE DEF yes, no
    <3> QED BY <1>6, IoRegs DEF Held
  <2>2. /\ c1.pctr = c.pctr /\ c1.intdelayed = c.intdelayed /\ c1.intenabled = c.intenabled
        /\ x1.dfld = x.saveddfld /\ x1.ifld = x.ifld /\ x1.ifldafterjump = x.savedifld
        /\ x1.saveddfld = x.saveddfld /\ x1.savedifld = x.savedifld
        /\ x1.intinhibeduntiljump = x.intinhibeduntiljump
    <3>1. c1 = c
      BY <1>6 DEF FetchExecuted, Skips
    <3>2. x1 = [x EXCEPT !.dfld = x.saveddfld, !.ifldafterjump = x.savedifld]
      BY <1>6 DEF IopStart
    <3> HIDE DEF c1, x1
    <3> QED BY <3>1, <3>2 DEF CpuType, XmType
  <2>3. Held(c1, x1) = io
    <3> HIDE DEF yes, no, io, c1, x1
    <3> QED BY <2>1, <2>2 DEF Held
  <2> QED BY <1>0, <1>6, <2>3 DEF ST!Skipped
<1>7. CASE i.io \notin {"ION", "IOF", "CDF", "CIF", "CDFCIF", "RMF"}
  <2> DEFINE other == skip /\ i.io = "other"
  <2>1. io = Held(c, x)
    <3> HIDE DEF yes, no
    <3> QED BY <1>7, IoRegs DEF Held
  <2>2. x1 = x
    BY <1>7 DEF IopStart
  <2>3. c1 = IF other THEN WithPctr(c, Plus1(c.pctr)) ELSE c
    BY <1>7 DEF FetchExecuted, Skips, WithPctr
  <2>4. WithPctr(Held(c, x), Plus1(c.pctr)) = Held(WithPctr(c, Plus1(c.pctr)), x)
    BY PctrHeld
  <2>5. Held(c, x).pctr = c.pctr
    BY RegsRead DEF Held
  <2>6. ST!Skipped(Held(c, x), other)
          = IF other THEN WithPctr(Held(c, x), Plus1(c.pctr)) ELSE Held(c, x)
    BY <2>5 DEF ST!Skipped, ST!Plus1, Plus1, WithPctr
  <2> QED BY <1>0, <2>1, <2>2, <2>3, <2>4, <2>6
<1> QED BY <1>1, <1>2, <1>3, <1>4, <1>5, <1>6, <1>7

\* TS2 in the test: the interrupts that ION enabled, and the next address
FetchedSet(r, dl, pc) == [r EXCEPT !.intenabled = dl, !.pctr = pc]

LEMMA FetchedRegs ==
    ASSUME NEW pc, NEW dl, NEW en, NEW d, NEW f, NEW fj, NEW sd, NEW sf, NEW dis, NEW pcnew
    PROVE  FetchedSet(Regs(pc, dl, en, d, f, fj, sd, sf, dis), dl, pcnew)
             = Regs(pcnew, dl, dl, d, f, fj, sd, sf, dis)
<1>1. [Regs(pc, dl, en, d, f, fj, sd, sf, dis) EXCEPT !.intenabled = dl]
        = Regs(pc, dl, dl, d, f, fj, sd, sf, dis)
  BY DEF Regs
<1>2. [Regs(pc, dl, dl, d, f, fj, sd, sf, dis) EXCEPT !.pctr = pcnew]
        = Regs(pcnew, dl, dl, d, f, fj, sd, sf, dis)
  BY DEF Regs
<1> QED BY <1>1, <1>2 DEF FetchedSet

LEMMA FetchedFields ==
    ASSUME cpu \in CpuType, NEW i \in Instruction
    PROVE  /\ Fetched(i) \in CpuType
           /\ Fetched(i).majstate = cpu.majstate /\ Fetched(i).madr = cpu.madr
           /\ Fetched(i).ireg = i.op /\ (Fetched(i).irusedf <=> (i.op < 4 /\ i.ind))
           /\ Fetched(i).pctr = Plus1(cpu.pctr)
           /\ Fetched(i).intdelayed = cpu.intdelayed
           /\ Fetched(i).intenabled = cpu.intdelayed
<1> DEFINE used == i.op < 4 /\ i.ind
           c == Fetched(i)
<1>1. used \in BOOLEAN /\ Plus1(cpu.pctr) \in Addrs /\ i.op \in 0 .. 7
  BY AddrsClosed DEF CpuType, Instruction
<1>2. c = [cpu EXCEPT !.intenabled = cpu.intdelayed, !.ireg = i.op,
                      !.irusedf = used, !.pctr = Plus1(cpu.pctr)]
  BY DEF Fetched, CpuType
<1> HIDE DEF c
<1>3. /\ c \in CpuType /\ c.majstate = cpu.majstate /\ c.madr = cpu.madr
      /\ c.ireg = i.op /\ c.irusedf = used /\ c.pctr = Plus1(cpu.pctr)
      /\ c.intdelayed = cpu.intdelayed /\ c.intenabled = cpu.intdelayed
  <2> HIDE DEF used
  <2> QED BY <1>1, <1>2 DEF CpuType
<1> QED BY <1>3 DEF c

\* The io pulses keep all but the registers of IoStep, and leave interrupts as
\* they are unless the instruction is IOF or a change of field.
LEMMA ExecutedFields ==
    ASSUME NEW c \in CpuType, NEW x \in XmType, NEW i \in Instructions, NEW skip \in BOOLEAN
    PROVE  /\ FetchExecuted(c, i, skip) \in CpuType /\ IopStart(x, i) \in XmType
           /\ FetchExecuted(c, i, skip).majstate = c.majstate
           /\ FetchExecuted(c, i, skip).ireg = c.ireg
           /\ FetchExecuted(c, i, skip).irusedf = c.irusedf
           /\ ~ IsIof(i) => FetchExecuted(c, i, skip).intenabled = c.intenabled
           /\ ~ IsCif(i) => IopStart(x, i).intinhibeduntiljump = x.intinhibeduntiljump
<1>1. effaddr(i, c.madr) \in Addrs /\ Plus1(c.pctr) \in Addrs
  BY AddrsClosed DEF CpuType
<1>2. FetchExecuted(c, i, skip) \in CpuType
  BY <1>1 DEF FetchExecuted, CpuType
<1>3. IopStart(x, i) \in XmType
  BY XmTyped
<1>4. /\ FetchExecuted(c, i, skip).majstate = c.majstate
      /\ FetchExecuted(c, i, skip).ireg = c.ireg
      /\ FetchExecuted(c, i, skip).irusedf = c.irusedf
  BY DEF FetchExecuted, CpuType
<1>5. ~ IsIof(i) => FetchExecuted(c, i, skip).intenabled = c.intenabled
  BY DEF FetchExecuted, IsIof, CpuType
<1>6. ~ IsCif(i) => IopStart(x, i).intinhibeduntiljump = x.intinhibeduntiljump
  BY DEF IopStart, IsCif, XmType
<1> QED BY <1>2, <1>3, <1>4, <1>5, <1>6

\* A change of field by the instruction and one by a jump never meet in a cycle.
LEMMA PulsesAndJump ==
    ASSUME NEW x, NEW i, NEW next
    PROVE  IopStart(LoadIf(x, i.op, next), i) = LoadIf(IopStart(x, i), i.op, next)
<1>1. CASE i.op = 6
  BY <1>1 DEF LoadIf, LoadsIf, jmpjms
<1>2. CASE i.op # 6
  BY <1>2 DEF IopStart
<1> QED BY <1>1, <1>2

-----------------------------------------------------------------------------
(* FETCH: what the test expects after it. *)

\* How the test goes on after it has fetched i into registers r
Onward(r, i, skip, addr) ==
    \/ /\ i.op < 6 /\ i.ind
       /\ ExpectedRegs' = r
       /\ ExpectedCycle' = ST!Cycle("DEFER", r.ifld, addr, i.op)
    \/ i.op < 6 /\ ~ i.ind /\ ST!Exec(r, i.op, addr, FALSE)
    \/ i.op = 6 /\ ST!Round(ST!Skipped(ST!Io(r, i), skip /\ i.io = "other"))
    \/ i.op = 7 /\ i.io # "HLT" /\ ST!Round(ST!Skipped(r, skip /\ i.io = "G2"))
    \/ /\ i.op = 7 /\ i.io = "HLT"
       /\ ExpectedRegs' = ST!Skipped(r, skip)
       /\ ExpectedCycle' = ST!Halted

\* An instruction that needs no other cycle
LEMMA OnwardRound ==
    ASSUME NEW c \in CpuType, NEW x \in XmType, NEW i \in Instructions,
           NEW skip \in BOOLEAN,
           i.op \in {5, 6, 7}, i.op = 5 => ~ i.ind, ~ IsHlt(i), c.ireg = i.op,
           ST!Round(Expected(FetchExecuted(c, i, skip), IopStart(x, i), i.op))
    PROVE  Onward(Held(c, x), i, skip, effaddr(i, c.madr))
<1>0. i \in Instruction
  BY CpuInstructionAssumption
<1>1. CASE i.op = 5
  <2>1. FetchExecuted(c, i, skip) = WithPctr(c, effaddr(i, c.madr)) /\ IopStart(x, i) = x
    BY <1>1 DEF FetchExecuted, Skips, IopStart, WithPctr
  <2>2. jmpjms(i.op)
    BY <1>1 DEF jmpjms
  <2>3. ST!Jumped(Held(c, x)) = Expected(c, x, i.op)
    BY <2>2, JumpedHeld
  <2>4. WithPctr(Expected(c, x, i.op), effaddr(i, c.madr))
          = Expected(WithPctr(c, effaddr(i, c.madr)), x, i.op)
    BY PctrExpected
  <2>5. ST!Round([ST!Jumped(Held(c, x)) EXCEPT !.pctr = effaddr(i, c.madr)])
    BY <2>1, <2>3, <2>4 DEF WithPctr
  <2> QED BY <1>1, <2>5 DEF Onward, ST!Exec
<1>2. CASE i.op \in {6, 7}
  <2>1. IopStart(x, i).intinhibeduntiljump \in BOOLEAN /\ ~ jmpjms(i.op)
    BY <1>2, ExecutedFields DEF XmType, jmpjms
  <2>2. Expected(FetchExecuted(c, i, skip), IopStart(x, i), i.op)
          = Held(FetchExecuted(c, i, skip), IopStart(x, i))
    BY <2>1, ExpectedIsHeld
  <2>3. CASE i.op = 6
    BY <1>0, <2>2, <2>3, IoStep DEF Onward
  <2>4. CASE i.op = 7
    <3> DEFINE g2 == skip /\ i.io = "G2"
    <3>1. FetchExecuted(c, i, skip) = IF g2 THEN WithPctr(c, Plus1(c.pctr)) ELSE c
      BY <2>4 DEF FetchExecuted, Skips, WithPctr, IsHlt
    <3>2. IopStart(x, i) = x
      BY <2>4 DEF IopStart
    <3>3. WithPctr(Held(c, x), Plus1(c.pctr)) = Held(WithPctr(c, Plus1(c.pctr)), x)
      BY PctrHeld
    <3>4. Held(c, x).pctr = c.pctr
      BY RegsRead DEF Held
    <3>5. ST!Skipped(Held(c, x), g2)
            = IF g2 THEN WithPctr(Held(c, x), Plus1(c.pctr)) ELSE Held(c, x)
      BY <3>4 DEF ST!Skipped, ST!Plus1, Plus1, WithPctr
    <3>6. ST!Skipped(Held(c, x), g2) = Held(FetchExecuted(c, i, skip), IopStart(x, i))
      BY <3>1, <3>2, <3>3, <3>5
    <3> QED BY <2>2, <2>4, <3>6 DEF Onward, IsHlt
  <2> QED BY <1>2, <2>3, <2>4
<1> QED BY <1>1, <1>2

\* An instruction with another cycle
LEMMA OnwardStep ==
    ASSUME NEW c \in CpuType, NEW x \in XmType, NEW i \in Instruction,
           NEW skip \in BOOLEAN, NEW next, NEW addr, c.ireg = i.op,
           c.irusedf <=> (i.op < 4 /\ i.ind),
           \/ i.op < 6 /\ i.ind /\ next = "DEFER"
           \/ i.op < 5 /\ ~ i.ind /\ next = "EXEC",
           EndCycle(FetchExecuted(c, i, skip), next, addr, 0),
           xm' = Captured(IntAck(LoadIf(x, c.ireg, next), c.ireg, next), next, c.irusedf)
    PROVE  Onward(Held(c, x), i, skip, addr)
<1>1. CASE next = "DEFER"
  <2>1. FetchExecuted(c, i, skip) = c
    BY <1>1 DEF FetchExecuted, Skips
  <2>2. ExpectedRegs' = Held(c, x) /\ ExpectedCycle' = ST!Cycle("DEFER", x.ifld, addr, i.op)
    BY <1>1, <2>1, InstructionStep
  <2>3. Held(c, x).ifld = x.ifld
    BY RegsRead DEF Held
  <2> QED BY <1>1, <2>2, <2>3 DEF Onward
<1>2. CASE next = "EXEC" /\ i.op = 4
  <2>1. FetchExecuted(c, i, skip) = c
    BY <1>2 DEF FetchExecuted, Skips
  <2>2. jmpjms(i.op) /\ ~ c.irusedf /\ ~ i.ind
    BY <1>2 DEF jmpjms
  <2>3. /\ ExpectedRegs' = Expected(c, x, i.op)
        /\ ExpectedCycle' = ST!Cycle("EXEC", x.ifldafterjump, addr, i.op)
    BY <1>2, <2>1, <2>2, InstructionStep
  <2>4. ST!Jumped(Held(c, x)) = Expected(c, x, i.op)
    BY <2>2, JumpedHeld
  <2>5. Held(c, x).ifldafterjump = x.ifldafterjump
    BY RegsRead DEF Held
  <2> QED BY <1>2, <2>2, <2>3, <2>4, <2>5 DEF Onward, ST!Exec
<1>3. CASE next = "EXEC" /\ i.op # 4
  <2>1. FetchExecuted(c, i, skip) = c
    BY <1>3 DEF FetchExecuted, Skips
  <2>2. ~ jmpjms(i.op) /\ ~ c.irusedf /\ ~ i.ind /\ i.op < 4
    BY <1>3 DEF jmpjms, Instruction
  <2>3. ExpectedRegs' = Held(c, x) /\ ExpectedCycle' = ST!Cycle("EXEC", x.ifld, addr, i.op)
    BY <1>3, <2>1, <2>2, InstructionStep
  <2>4. Held(c, x).ifld = x.ifld
    BY RegsRead DEF Held
  <2>5. ST!Exec(Held(c, x), i.op, addr, FALSE)
    BY <2>2, <2>3, <2>4 DEF ST!Exec
  <2>6. i.op < 6
    BY <2>2 DEF Instruction
  <2> QED BY <2>2, <2>5, <2>6 DEF Onward
<1>4. next = "DEFER" \/ (next = "EXEC" /\ i.op = 4) \/ (next = "EXEC" /\ i.op # 4)
  OBVIOUS
<1> QED BY <1>1, <1>2, <1>3, <1>4, Zenon

LEMMA OnwardHalt ==
    ASSUME NEW c \in CpuType, NEW x \in XmType, NEW i \in Instruction,
           NEW skip \in BOOLEAN, NEW addr, NEW newma, c.ireg = i.op, IsHlt(i),
           EndCycle(FetchExecuted(c, i, skip), "HALT", newma, 0),
           xm' = Captured(IntAck(LoadIf(x, c.ireg, "HALT"), c.ireg, "HALT"), "HALT", c.irusedf)
    PROVE  Onward(Held(c, x), i, skip, addr)
<1> DEFINE c1 == IF skip THEN WithPctr(c, Plus1(c.pctr)) ELSE c
<1>1. FetchExecuted(c, i, skip) = c1
  BY DEF FetchExecuted, Skips, WithPctr, IsHlt
<1>2. c1 \in CpuType /\ c1.ireg = c.ireg /\ c1.irusedf = c.irusedf
  <2>1. Plus1(c.pctr) \in Addrs
    BY AddrsClosed DEF CpuType
  <2> QED BY <2>1 DEF WithPctr, CpuType
<1>3. ~ jmpjms(c.ireg)
  BY DEF IsHlt, jmpjms
<1>4. Held(c1, x) = ST!Skipped(Held(c, x), skip)
  <2>1. WithPctr(Held(c, x), Plus1(c.pctr)) = Held(WithPctr(c, Plus1(c.pctr)), x)
    BY PctrHeld
  <2>2. Held(c, x).pctr = c.pctr
    BY RegsRead DEF Held
  <2> QED BY <2>1, <2>2 DEF ST!Skipped, ST!Plus1, Plus1, WithPctr
<1> HIDE DEF c1
<1>5. ExpectedRegs' = Held(c1, x) /\ ExpectedCycle' = ST!Halted
  BY <1>1, <1>2, <1>3, InstructionStep
<1> QED BY <1>4, <1>5 DEF Onward, IsHlt

LEMMA FetchStep ==
    ASSUME TypeOK, CycleShape, ~ Stops, Fetch
    PROVE  ST!Fetch /\ CycleShape'
<1>0. PICK i \in Instructions, skip \in BOOLEAN :
       \E next \in NextAfterFetch(i, Fetched(i), xm) :
          /\ EndCycle(FetchExecuted(Fetched(i), i, skip), next,
                      IF i.op < 5 \/ (i.op = 5 /\ i.ind)
                      THEN effaddr(i, Fetched(i).madr) ELSE Fetched(i).madr, 0)
          /\ xm' = Captured(IntAck(IopStart(LoadIf(xm, i.op, next), i), i.op, next),
                            next, Fetched(i).irusedf)
  BY DEF Fetch
<1> DEFINE c == Fetched(i)
           newma == IF i.op < 5 \/ (i.op = 5 /\ i.ind) THEN effaddr(i, c.madr)
                    ELSE c.madr
           c1 == FetchExecuted(c, i, skip)
           x1 == IopStart(xm, i)
<1>1. PICK next \in NextAfterFetch(i, c, xm) :
          /\ EndCycle(c1, next, newma, 0)
          /\ xm' = Captured(IntAck(IopStart(LoadIf(xm, i.op, next), i), i.op, next),
                            next, c.irusedf)
  BY <1>0
<1>2. /\ cpu \in CpuType /\ xm \in XmType /\ cpu.majstate = "FETCH"
      /\ i \in Instruction
  BY CpuInstructionAssumption DEF TypeOK, CpuType, XmType, Fetch
<1>3. /\ c \in CpuType /\ c.majstate = "FETCH" /\ c.madr = cpu.madr /\ c.ireg = i.op
      /\ (c.irusedf <=> (i.op < 4 /\ i.ind))
      /\ c.pctr = Plus1(cpu.pctr) /\ c.intdelayed = cpu.intdelayed
      /\ c.intenabled = cpu.intdelayed
  BY <1>2, FetchedFields
<1>4. /\ c1 \in CpuType /\ x1 \in XmType /\ c1.majstate = "FETCH" /\ c1.ireg = i.op
      /\ c1.irusedf = c.irusedf
      /\ ~ IsIof(i) => c1.intenabled = c.intenabled
      /\ ~ IsCif(i) => x1.intinhibeduntiljump = xm.intinhibeduntiljump
  BY <1>2, <1>3, ExecutedFields
<1>5. xm' = Captured(IntAck(LoadIf(x1, i.op, next), i.op, next), next, c.irusedf)
  <2>1. IopStart(LoadIf(xm, i.op, next), i) = LoadIf(IopStart(xm, i), i.op, next)
    BY PulsesAndJump
  <2> QED BY <1>1, <2>1 DEF x1
<1>6. ExpectedRegs = Held(cpu, xm) /\ ExpectedCycle.kind = "FETCH"
      /\ ExpectedCycle.addr = cpu.madr
  BY <1>2, Observed DEF ExpectedCycle
<1> DEFINE r == [ExpectedRegs EXCEPT !.intenabled = ExpectedRegs.intdelayed,
                                     !.pctr = ST!Plus1(@)]
<1>7. r = Held(c, xm)
  <2>1. /\ ExpectedRegs.intdelayed = cpu.intdelayed
        /\ ExpectedRegs.pctr = cpu.pctr
    BY DEF ExpectedRegs
  <2>2. r = FetchedSet(ExpectedRegs, cpu.intdelayed, Plus1(cpu.pctr))
    BY <2>1 DEF FetchedSet, ST!Plus1, Plus1
  <2> HIDE DEF c, r
  <2>3. FetchedSet(Held(cpu, xm), cpu.intdelayed, Plus1(cpu.pctr)) = Held(c, xm)
    BY <1>3, FetchedRegs DEF Held
  <2> QED BY <1>6, <2>2, <2>3
<1> HIDE DEF c, c1, x1, r
<1>8. ST!EffAddr(i, ExpectedCycle.addr) = effaddr(i, c.madr)
  BY <1>3, <1>6 DEF ST!EffAddr, effaddr
<1>9. Onward(Held(c, xm), i, skip, effaddr(i, c.madr)) /\ CycleShape'
  <2>1. CASE i.op < 6 /\ i.ind
    <3>1. next = "DEFER" /\ newma = effaddr(i, c.madr) /\ x1 = xm
      BY <1>1, <1>2, <2>1 DEF NextAfterFetch, IopStart, Instruction, x1
    <3> HIDE DEF newma
    <3>2. Onward(Held(c, xm), i, skip, effaddr(i, c.madr))
      BY <1>1, <1>2, <1>3, <1>5, <2>1, <3>1, OnwardStep DEF c1
    <3>3. CycleShape'
      BY <1>1, <1>2, <1>3, <1>4, <1>5, <2>1, <3>1, ShapeAfterCycle DEF States
    <3> QED BY <3>2, <3>3
  <2>2. CASE i.op < 5 /\ ~ i.ind
    <3>1. next = "EXEC" /\ newma = effaddr(i, c.madr) /\ x1 = xm
      BY <1>1, <2>2 DEF NextAfterFetch, IopStart, x1
    <3> HIDE DEF newma
    <3>2. Onward(Held(c, xm), i, skip, effaddr(i, c.madr))
      BY <1>1, <1>2, <1>3, <1>5, <2>2, <3>1, OnwardStep DEF c1
    <3>3. CycleShape'
      BY <1>1, <1>2, <1>3, <1>4, <1>5, <2>2, <3>1, ShapeAfterCycle DEF States
    <3> QED BY <3>2, <3>3
  <2>3. CASE IsHlt(i)
    <3>1. next = "HALT" /\ x1 = xm
      BY <1>1, <2>3 DEF NextAfterFetch, IopStart, IsHlt, x1
    <3> HIDE DEF newma
    <3>2. Onward(Held(c, xm), i, skip, effaddr(i, c.madr))
      BY <1>1, <1>2, <1>3, <1>5, <2>3, <3>1, OnwardHalt DEF c1
    <3>3. CycleShape'
      BY <1>1, <1>2, <1>3, <1>4, <1>5, <3>1, ShapeAfterCycle DEF States
    <3> QED BY <3>2, <3>3
  <2>4. CASE i.op \in {5, 6, 7} /\ (i.op = 5 => ~ i.ind) /\ ~ IsHlt(i)
    <3>1. next \in hltbrkintfet(IntOk(c, xm) /\ ~ IsIof(i) /\ ~ IsCif(i))
      BY <1>1, <2>4 DEF NextAfterFetch
    <3>2. /\ next \in {"WC", "BRK", "FETCH", "INTAK"}
          /\ next = "INTAK" => IntOk(c, xm) /\ ~ IsIof(i) /\ ~ IsCif(i)
      BY <3>1, RunningOn
    <3> HIDE DEF newma
    <3>3. next = "INTAK" =>
             c1.intenabled /\ (~ x1.intinhibeduntiljump \/ jmpjms(c1.ireg))
      BY <1>3, <1>4, <3>2 DEF IntOk
    <3>4. ST!Round(Expected(c1, x1, c1.ireg))
      BY <1>1, <1>4, <1>5, <3>2, <3>3, RoundStep
    <3>5. Onward(Held(c, xm), i, skip, effaddr(i, c.madr))
      BY <1>2, <1>3, <1>4, <2>4, <3>4, OnwardRound DEF c1, x1
    <3>6. CycleShape'
      BY <1>1, <1>4, <1>5, <3>2, <3>3, ShapeAfterCycle DEF States
    <3> QED BY <3>5, <3>6
  <2>5. \/ i.op < 6 /\ i.ind
        \/ i.op < 5 /\ ~ i.ind
        \/ i.op \in {5, 6, 7} /\ (i.op = 5 => ~ i.ind)
    BY <1>2 DEF Instruction
  <2> QED BY <2>1, <2>2, <2>3, <2>4, <2>5
<1>10. Onward(r, i, skip, ST!EffAddr(i, ExpectedCycle.addr))
  BY <1>7, <1>8, <1>9
<1> QED BY <1>6, <1>9, <1>10 DEF ST!Fetch, Onward, r

-----------------------------------------------------------------------------
\* The processor with its memory extension makes the memory cycles that
\* z8lsimtest.cc expects (ReferenceSpec), unless it is stopped by a switch:
\* whatever the programs, the size of a field, the requests and the switches of
\* the halted machine.
THEOREM CyclesAreExpected == ~ Stops => (Spec => ReferenceSpec)
<1> SUFFICES ASSUME ~ Stops PROVE Spec => ReferenceSpec
  OBVIOUS
<1>1. Init => ST!Init
  <2> SUFFICES ASSUME Init PROVE ST!Init
    OBVIOUS
  <2>1. ~ Late
    BY DEF Init, Late
  <2>2. ExpectedCycle = ST!Halted
    BY DEF Init, ExpectedCycle, ST!Halted, ST!Cycle
  <2> QED BY <2>1, <2>2 DEF Init, ST!Init, ExpectedRegs
<1>2. TypeOK /\ TypeOK' /\ CycleShape /\ [Next]_vars
         => [ST!Next]_<<ExpectedRegs, ExpectedCycle>> /\ CycleShape'
  <2> SUFFICES ASSUME TypeOK, TypeOK', CycleShape, [Next]_vars
               PROVE  [ST!Next]_<<ExpectedRegs, ExpectedCycle>> /\ CycleShape'
    OBVIOUS
  <2>1. CASE Fetch
    BY <2>1, FetchStep DEF ST!Next
  <2>2. CASE Defer
    BY <2>2, DeferStep DEF ST!Next
  <2>3. CASE Exec
    BY <2>3, ExecStep DEF ST!Next
  <2>4. CASE WordCount \/ CurrentAddress
    BY <2>4, DmaStep DEF ST!Next
  <2>5. CASE Break
    BY <2>5, BreakStep DEF ST!Next
  <2>6. CASE LoadAddress \/ Examine \/ Continue \/ Start
    BY <2>6, SwitchStep DEF ST!Next
  <2>7. CASE UNCHANGED vars
    <3>1. ExpectedRegs' = ExpectedRegs /\ ExpectedCycle' = ExpectedCycle
      BY <2>7 DEF vars, ExpectedRegs, ExpectedCycle, Late, Field
    <3>2. CycleShape'
      BY <2>7 DEF vars, CycleShape
    <3> QED BY <3>1, <3>2
  <2> QED BY <2>1, <2>2, <2>3, <2>4, <2>5, <2>6, <2>7 DEF Next
<1> QED BY <1>1, <1>2, ShapeInit, TypeCorrect, PTL DEF Spec, ReferenceSpec, ST!Spec
=============================================================================
