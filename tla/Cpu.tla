-------------------------------- MODULE Cpu --------------------------------
(***************************************************************************)
(* The PDP-8/L like processor of zynq/pdp8lsim.v and the field registers   *)
(* of zynq/pdp8lxmem.v (its copy of the MC8/L memory extension).  The two  *)
(* meet only on the bus: the processor says that its next cycle is an EXEC *)
(* or a FETCH, or that it acknowledges an interrupt, and the extension     *)
(* changes its registers at TP3 and in TS4 accordingly.                    *)
(*                                                                         *)
(* An action is one memory cycle (TS1 .. TP4) or one switch of the halted  *)
(* machine; the order in which a cycle's time states change the registers  *)
(* is the order in which the operators below are applied.  What memory     *)
(* holds is arbitrary, requests for dma and interrupts come at any time,   *)
(* and the accumulator is left out.                                        *)
(***************************************************************************)
EXTENDS Integers

CONSTANTS AddrSize, PageSize, AutoIndex, Fields, BrkField, Instructions,
          Stops           \* whether the STOP and STEP switches are used

Addrs == 0 .. AddrSize - 1
Ios == {"none", "ION", "IOF", "CDF", "CIF", "CDFCIF", "RMF", "other", "G1", "G2", "HLT"}
Instruction ==
    [op : 0 .. 7, ind : BOOLEAN, page : BOOLEAN, off : 0 .. PageSize - 1,
     io : Ios, fld : Fields]

ASSUME CpuAddrAssumption ==
    /\ AddrSize \in Nat \ {0} /\ PageSize \in 1 .. AddrSize /\ AddrSize % PageSize = 0
ASSUME CpuFieldAssumption ==
    Fields \subseteq Nat /\ {0, BrkField} \subseteq Fields /\ AutoIndex \subseteq Addrs
ASSUME CpuInstructionAssumption == Instructions \subseteq Instruction /\ Stops \in BOOLEAN

VARIABLES cpu,            \* the registers of pdp8lsim.v
          xm,             \* the registers of pdp8lxmem.v
          announced       \* history: the field a CIF has announced for the next
                          \* JMP or JMS, None after that
vars == <<cpu, xm, announced>>
None == -1

States == {"HALT", "FETCH", "DEFER", "EXEC", "WC", "CA", "BRK", "INTAK"}

\* uses: the enable of a field that the extension captured at the end of TS3,
\* for the next cycle (buf_bf_enab, buf_df_enab, buf_zf_enab, or none).
TypeOK ==
    /\ cpu \in [majstate : States, ireg : 0 .. 7, irusedf : BOOLEAN,
                madr : Addrs, pctr : Addrs, intdelayed : BOOLEAN, intenabled : BOOLEAN]
    /\ xm \in [dfld : Fields, ifld : Fields, ifldafterjump : Fields,
               saveddfld : Fields, savedifld : Fields,
               intinhibeduntiljump : BOOLEAN, uses : {"brk", "df", "zero", "if"}]
    /\ announced \in Fields \cup {None}

Init ==
    /\ cpu = [majstate |-> "HALT", ireg |-> 0, irusedf |-> FALSE, madr |-> 0,
              pctr |-> 0, intdelayed |-> FALSE, intenabled |-> FALSE]
    /\ xm = [dfld |-> 0, ifld |-> 0, ifldafterjump |-> 0, saveddfld |-> 0,
             savedifld |-> 0, intinhibeduntiljump |-> FALSE, uses |-> "if"]
    /\ announced = None

Plus1(a) == (a + 1) % AddrSize
effaddr(i, madr) == (IF i.page THEN madr - (madr % PageSize) ELSE 0) + i.off

\* JMP or JMS is loaded in IR (oJMP_JMS)
jmpjms(op) == op \in {4, 5}

\* The next memory cycle is EXEC or FETCH (oE_SET_F_SET)
exefet(next) == next \in {"EXEC", "INTAK", "FETCH"}

-----------------------------------------------------------------------------
(* TS3: the next major state. *)

IsCif(i) == i.op = 6 /\ i.io \in {"CIF", "CDFCIF"}
IsIof(i) == i.op = 6 /\ i.io = "IOF"
IsHlt(i) == i.op = 7 /\ i.io = "HLT"

\* An interrupt request is taken, but for the instruction being executed.
IntOk(c, x) == c.intenabled /\ (~ x.intinhibeduntiljump \/ jmpjms(c.ireg))

\* After the last cycle of an instruction, with int whether an interrupt
\* request would be taken.
hltbrkintfet(int) ==
    {"WC", "BRK", "FETCH"} \cup {s \in {"HALT"} : Stops} \cup {s \in {"INTAK"} : int}

\* Mutant: the CIF being executed does not keep an interrupt away.
NextAfterFetch_CifOpen(i, c, x) ==
    IF i.op < 6 /\ i.ind THEN {"DEFER"}
    ELSE IF i.op < 5 THEN {"EXEC"}
    ELSE IF IsHlt(i) THEN {"HALT"}
    ELSE hltbrkintfet(IntOk(c, x) /\ ~ IsIof(i))

NextAfterFetch(i, c, x) ==
    IF i.op < 6 /\ i.ind THEN {"DEFER"}
    ELSE IF i.op < 5 THEN {"EXEC"}
    ELSE IF IsHlt(i) THEN {"HALT"}
    ELSE hltbrkintfet(IntOk(c, x) /\ ~ IsIof(i) /\ ~ IsCif(i))

-----------------------------------------------------------------------------
(* TP3 to TS4: the memory extension. *)

\* Mutant: the field changes with the jump in IR, whatever cycle is next.
LoadsIf_AtOnce(op, next) == jmpjms(op)

\* LOAD_IF: the instruction field changes, and interrupts are allowed again.
LoadsIf(op, next) == jmpjms(op) /\ exefet(next)
LoadIf(x, op, next) ==
    IF LoadsIf(op, next)
    THEN [x EXCEPT !.ifld = x.ifldafterjump, !.intinhibeduntiljump = FALSE]
    ELSE x

\* The io pulses of a 62xx instruction
IopStart(x, i) ==
    CASE i.op = 6 /\ i.io = "CDF" -> [x EXCEPT !.dfld = i.fld]
      [] i.op = 6 /\ i.io = "CIF" ->
            [x EXCEPT !.ifldafterjump = i.fld, !.intinhibeduntiljump = TRUE]
      [] i.op = 6 /\ i.io = "CDFCIF" ->
            [x EXCEPT !.dfld = i.fld, !.ifldafterjump = i.fld,
                      !.intinhibeduntiljump = TRUE]
      [] i.op = 6 /\ i.io = "RMF" ->
            [x EXCEPT !.dfld = x.saveddfld, !.ifldafterjump = x.savedifld]
      [] OTHER -> x

\* _intack: the fields are saved, and the service routine is in field 0.
IntAck(x, op, next) ==
    IF next = "INTAK"
    THEN [x EXCEPT !.saveddfld = x.dfld,
                   !.savedifld = IF jmpjms(op) THEN x.ifldafterjump ELSE x.ifld,
                   !.dfld = 0, !.ifld = 0, !.ifldafterjump = 0]
    ELSE x

\* The enables captured at the end of TS3, for the next cycle
Uses(next, irusedf) ==
    CASE next = "BRK" -> "brk"
      [] next = "EXEC" /\ irusedf -> "df"
      [] next \in {"WC", "CA"} -> "zero"
      [] OTHER -> "if"
Captured(x, next, irusedf) == [x EXCEPT !.uses = Uses(next, irusedf)]

\* The field of the memory cycle that goes on
Field == CASE xm.uses = "brk" -> BrkField
           [] xm.uses = "df" -> xm.dfld
           [] xm.uses = "zero" -> 0
           [] xm.uses = "if" -> xm.ifld

\* A cycle of instruction register op that ends without io pulses
EndedXm(op, irusedf, next) ==
    Captured(IntAck(LoadIf(xm, op, next), op, next), next, irusedf)

-----------------------------------------------------------------------------
(* TP4: the next cycle's address and the major state. *)

\* newma: the address computed in TS4; mbuf: the memory buffer, the address of
\* a transfer after CA.
EndCycle(c, next, newma, mbuf) ==
    \E iDMAADDR \in IF next \in {"WC", "BRK"} THEN Addrs ELSE {0} :
       cpu' = [c EXCEPT
          !.majstate = next,
          !.madr = CASE next = "FETCH" -> c.pctr
                     [] next = "INTAK" -> 0
                     [] next = "WC" -> iDMAADDR
                     [] next = "BRK" -> IF c.majstate = "CA" THEN mbuf ELSE iDMAADDR
                     [] OTHER -> newma,
          !.ireg = IF next = "INTAK" THEN 4 ELSE @,
          !.intdelayed = @ /\ next # "INTAK",
          !.intenabled = @ /\ next # "INTAK"]

\* The jump takes the announced field.
Taken(op, next) == announced' = IF LoadsIf(op, next) THEN None ELSE announced

-----------------------------------------------------------------------------
(* Memory cycles. *)

\* TS2: the instruction is in IR, and ION takes effect.
Fetched(i) == [cpu EXCEPT !.intenabled = cpu.intdelayed, !.ireg = i.op,
                          !.irusedf = i.op < 4 /\ i.ind, !.pctr = Plus1(@)]

\* A device's instruction that asks for a skip, and the skips of group 2
Skips(i) == (i.op = 6 /\ i.io = "other") \/ (i.op = 7 /\ i.io \in {"G2", "HLT"})

\* The io pulses and TS4: ION, IOF, JMP and skips.
FetchExecuted(c, i, skip) ==
    CASE i.op = 5 /\ ~ i.ind -> [c EXCEPT !.pctr = effaddr(i, c.madr)]
      [] i.op = 6 /\ i.io = "ION" -> [c EXCEPT !.intdelayed = TRUE]
      [] i.op = 6 /\ i.io = "IOF" -> [c EXCEPT !.intdelayed = FALSE, !.intenabled = FALSE]
      [] skip /\ Skips(i) -> [c EXCEPT !.pctr = Plus1(@)]
      [] OTHER -> c

\* RMF after a CIF replaces the announced field; RMF alone inhibits nothing.
FetchAnnounced(i, next) ==
    announced' = CASE IsCif(i) -> i.fld
                   [] i.op = 6 /\ i.io = "RMF" /\ announced # None -> xm.savedifld
                   [] LoadsIf(i.op, next) -> None
                   [] OTHER -> announced

Fetch ==
    /\ cpu.majstate = "FETCH"
    /\ \E i \in Instructions, skip \in BOOLEAN :
          LET c == Fetched(i)
              newma == IF i.op < 5 \/ (i.op = 5 /\ i.ind) THEN effaddr(i, c.madr)
                       ELSE c.madr
          IN \E next \in NextAfterFetch(i, c, xm) :
                /\ EndCycle(FetchExecuted(c, i, skip), next, newma, 0)
                /\ xm' = Captured(IntAck(IopStart(LoadIf(xm, i.op, next), i), i.op, next),
                                  next, c.irusedf)
                /\ FetchAnnounced(i, next)

\* A pointer at an autoindex address is incremented before it is used.
Defer ==
    /\ cpu.majstate = "DEFER"
    /\ \E pointer \in Addrs :
          LET mbuf == IF cpu.madr \in AutoIndex THEN Plus1(pointer) ELSE pointer
              jmp == cpu.ireg = 5
          IN \E next \in IF jmp THEN hltbrkintfet(IntOk(cpu, xm)) ELSE {"EXEC"} :
                /\ EndCycle([cpu EXCEPT !.pctr = IF jmp THEN mbuf ELSE @], next,
                            IF jmp THEN cpu.madr ELSE mbuf, mbuf)
                /\ xm' = EndedXm(cpu.ireg, cpu.irusedf, next)
                /\ Taken(cpu.ireg, next)

\* The EXEC of an instruction, or of the JMS 0 of an interrupt
Exec ==
    /\ cpu.majstate \in {"EXEC", "INTAK"}
    /\ \E operand \in Addrs, next \in hltbrkintfet(IntOk(cpu, xm)) :
          LET zero == Plus1(operand) = 0
          IN  /\ EndCycle([cpu EXCEPT !.pctr = IF cpu.ireg = 4 THEN Plus1(cpu.madr)
                                               ELSE IF cpu.ireg = 2 /\ zero THEN Plus1(@)
                                               ELSE @], next, cpu.madr, operand)
              /\ xm' = EndedXm(cpu.ireg, cpu.irusedf, next)
              /\ Taken(cpu.ireg, next)

\* A dma transfer; the word count is in field 0, the current address after it.
WordCount ==
    /\ cpu.majstate = "WC"
    /\ EndCycle(cpu, "CA", Plus1(cpu.madr), 0)
    /\ xm' = EndedXm(cpu.ireg, cpu.irusedf, "CA")
    /\ Taken(cpu.ireg, "CA")

CurrentAddress ==
    /\ cpu.majstate = "CA"
    /\ \E mbuf \in Addrs : EndCycle(cpu, "BRK", cpu.madr, mbuf)
    /\ xm' = EndedXm(cpu.ireg, cpu.irusedf, "BRK")
    /\ Taken(cpu.ireg, "BRK")

\* The instruction register still holds the instruction before the transfer.
Break ==
    /\ cpu.majstate = "BRK"
    /\ \E next \in hltbrkintfet(IntOk(cpu, xm)) :
          /\ EndCycle(cpu, next, cpu.madr, 0)
          /\ xm' = EndedXm(cpu.ireg, cpu.irusedf, next)
          /\ Taken(cpu.ireg, next)

-----------------------------------------------------------------------------
(* The switches of the halted machine. *)

\* LDAD loads PC from the switch register, and the fields from their switches;
\* the memory cycle that follows examines the word.
LoadAddress ==
    /\ cpu.majstate = "HALT"
    /\ \E swSR \in Addrs, swIFLD, swDFLD \in Fields :
          /\ cpu' = [cpu EXCEPT !.madr = swSR, !.pctr = swSR]
          /\ xm' = [xm EXCEPT !.dfld = swDFLD, !.ifld = swIFLD, !.ifldafterjump = swIFLD]
    /\ announced' = None

\* EXAM and DEP
Examine ==
    /\ cpu.majstate = "HALT"
    /\ cpu' = [cpu EXCEPT !.madr = cpu.pctr, !.pctr = Plus1(@)]
    /\ UNCHANGED <<xm, announced>>

Continue ==
    /\ cpu.majstate = "HALT"
    /\ cpu' = [cpu EXCEPT !.madr = cpu.pctr, !.majstate = "FETCH"]
    /\ UNCHANGED <<xm, announced>>

\* START also asserts BUSINIT, which allows interrupts and clears the saved
\* fields, but leaves a field change pending.
Start ==
    /\ cpu.majstate = "HALT"
    /\ cpu' = [cpu EXCEPT !.madr = cpu.pctr, !.majstate = "FETCH",
                          !.intdelayed = FALSE, !.intenabled = FALSE]
    /\ xm' = [xm EXCEPT !.intinhibeduntiljump = FALSE, !.saveddfld = 0, !.savedifld = 0]
    /\ announced' = None

Next ==
    \/ Fetch \/ Defer \/ Exec \/ WordCount \/ CurrentAddress \/ Break
    \/ LoadAddress \/ Examine \/ Continue \/ Start

Spec == Init /\ [][Next]_vars

-----------------------------------------------------------------------------
(* Properties. *)

\* After a JMP or a JMS, a dma transfer delays the change of the field.
Late == cpu.majstate \in {"WC", "CA", "BRK"} /\ jmpjms(cpu.ireg)

ExpectedRegs ==
    [pctr |-> cpu.pctr, intdelayed |-> cpu.intdelayed, intenabled |-> cpu.intenabled,
     dfld |-> xm.dfld, ifld |-> IF Late THEN xm.ifldafterjump ELSE xm.ifld,
     ifldafterjump |-> xm.ifldafterjump,
     saveddfld |-> xm.saveddfld, savedifld |-> xm.savedifld,
     intdisableduntiljump |-> xm.intinhibeduntiljump /\ ~ Late]

ExpectedCycle ==
    [kind |-> IF cpu.majstate = "INTAK" THEN "EXEC" ELSE cpu.majstate,
     fld |-> IF cpu.majstate = "HALT" THEN 0 ELSE Field,
     addr |-> IF cpu.majstate = "HALT" THEN 0 ELSE cpu.madr,
     op |-> IF cpu.majstate \in {"DEFER", "EXEC", "INTAK"} THEN cpu.ireg ELSE 0]

ST == INSTANCE SimTest WITH regs <- ExpectedRegs, todo <- ExpectedCycle

\* Every memory cycle is the one z8lsimtest.cc expects: the kind, the field and
\* the address follow from the program, the requests and the switches as if
\* each instruction ran by itself, although the two halves exchange only the
\* bus signals, and a transfer comes between a jump and its change of field.
ReferenceSpec == ST!Spec

\* An interrupt between a CIF and the jump it is meant for would return to a
\* program that jumps into the old field.  So none is acknowledged there, and one
\* that is acknowledged right at the jump saves the announced field.
NoAnnouncedFieldLost ==
    [][cpu'.majstate = "INTAK" =>
          announced' = None /\ (announced # None => xm'.savedifld = announced)]_vars

\* pdp8lxmem.v:321-347: what follows a JMP or JMS is fetched from the new field.
FetchInField ==
    cpu.majstate = "FETCH" /\ jmpjms(cpu.ireg) => xm.ifld = xm.ifldafterjump
=============================================================================
