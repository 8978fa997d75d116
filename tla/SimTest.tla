------------------------------ MODULE SimTest ------------------------------
(***************************************************************************)
(* The PDP-8/L with memory extension as z8lsimtest.cc expects it: the main *)
(* loop runs the instructions by itself, and compares every memory cycle   *)
(* of the machine under test with the one it expects.                      *)
(*                                                                         *)
(* todo is the memory cycle expected next.  What is read from memory is    *)
(* arbitrary, as in the test, and requests for dma and interrupts come at  *)
(* any time.  The switches are those of simlib.cc.                         *)
(*                                                                         *)
(* The accumulator is left out: it decides only whether an instruction of  *)
(* group 2 skips, which is arbitrary here.                                 *)
(***************************************************************************)
EXTENDS Integers

CONSTANTS AddrSize,       \* words in a field (4096)
          PageSize,       \* words in a page (128)
          AutoIndex,      \* addresses of a field that count when used (8 .. 15)
          Fields,         \* memory fields
          BrkField,       \* the field a dma transfer asks for
          Instructions    \* the instructions of programs

Addrs == 0 .. AddrSize - 1

VARIABLES regs,           \* pctr, intdelayed, intenabled and the xmem_ registers
          todo            \* the memory cycle expected

Plus1(a) == (a + 1) % AddrSize

\* Page bit clear: page 0; set: the page of the instruction.
EffAddr(i, pc) == (IF i.page THEN pc - (pc % PageSize) ELSE 0) + i.off

Cycle(kind, fld, addr, op) == [kind |-> kind, fld |-> fld, addr |-> addr, op |-> op]
Halted == Cycle("HALT", 0, 0, 0)
FetchOf(r) == Cycle("FETCH", r.ifld, r.pctr, 0)

Init ==
    /\ regs = [pctr |-> 0, intdelayed |-> FALSE, intenabled |-> FALSE,
               dfld |-> 0, ifld |-> 0, ifldafterjump |-> 0,
               saveddfld |-> 0, savedifld |-> 0, intdisableduntiljump |-> FALSE]
    /\ todo = Halted

-----------------------------------------------------------------------------
Jumped(r) == [r EXCEPT !.ifld = r.ifldafterjump, !.intdisableduntiljump = FALSE]
Skipped(r, skip) == IF skip THEN [r EXCEPT !.pctr = Plus1(@)] ELSE r

\* The next round of the loop: dma, an interrupt, or a fetch.
Dma(r) ==
    /\ regs' = r
    /\ \E a \in Addrs :
          todo' \in {Cycle("WC", 0, a, 0), Cycle("BRK", BrkField, a, 0)}

FieldsSaved(r) == [r EXCEPT !.saveddfld = r.dfld, !.savedifld = r.ifld]
FieldsReset(r) == [r EXCEPT !.dfld = 0, !.ifld = 0, !.ifldafterjump = 0]
InterruptsOff(r) == [r EXCEPT !.intdelayed = FALSE, !.intenabled = FALSE]

Interrupt(r) ==
    /\ r.intenabled /\ ~ r.intdisableduntiljump
    /\ regs' = InterruptsOff(FieldsReset(FieldsSaved(r)))
    /\ todo' = Cycle("EXEC", 0, 0, 4)

Round(r) ==
    \/ Dma(r)
    \/ Interrupt(r)
    \/ regs' = r /\ todo' = FetchOf(r)

\* A memory reference: where to go from the fetch, or from the defer cycle.
Exec(r, i, addr, ind) ==
    \/ /\ i < 4
       /\ regs' = r
       /\ todo' = Cycle("EXEC", IF ind THEN r.dfld ELSE r.ifld, addr, i)
    \/ /\ i = 4
       /\ regs' = Jumped(r)
       /\ todo' = Cycle("EXEC", r.ifldafterjump, addr, i)
    \/ /\ i = 5
       /\ Round([Jumped(r) EXCEPT !.pctr = addr])

Io(r, i) ==
    CASE i.io = "ION" -> [r EXCEPT !.intdelayed = TRUE]
      [] i.io = "IOF" -> [r EXCEPT !.intdelayed = FALSE, !.intenabled = FALSE]
      [] i.io = "CDF" -> [r EXCEPT !.dfld = i.fld]
      [] i.io = "CIF" -> [r EXCEPT !.ifldafterjump = i.fld, !.intdisableduntiljump = TRUE]
      [] i.io = "CDFCIF" -> [r EXCEPT !.dfld = i.fld, !.ifldafterjump = i.fld,
                                      !.intdisableduntiljump = TRUE]
      [] i.io = "RMF" -> [r EXCEPT !.dfld = r.saveddfld, !.ifldafterjump = r.savedifld]
      [] OTHER -> r

Fetch ==
    /\ todo.kind = "FETCH"
    /\ \E i \in Instructions, skip \in BOOLEAN :
          LET r == [regs EXCEPT !.intenabled = regs.intdelayed, !.pctr = Plus1(@)]
              addr == EffAddr(i, todo.addr)
          IN  \/ /\ i.op < 6 /\ i.ind
                 /\ regs' = r
                 /\ todo' = Cycle("DEFER", r.ifld, addr, i.op)
              \/ i.op < 6 /\ ~ i.ind /\ Exec(r, i.op, addr, FALSE)
              \/ i.op = 6 /\ Round(Skipped(Io(r, i), skip /\ i.io = "other"))
              \/ i.op = 7 /\ i.io # "HLT" /\ Round(Skipped(r, skip /\ i.io = "G2"))
              \/ /\ i.op = 7 /\ i.io = "HLT"
                 /\ regs' = Skipped(r, skip)
                 /\ todo' = Halted

Defer ==
    /\ todo.kind = "DEFER"
    /\ \E pointer \in Addrs :
          Exec(regs, todo.op, IF todo.addr \in AutoIndex THEN Plus1(pointer) ELSE pointer,
               TRUE)

Execute ==
    /\ todo.kind = "EXEC"
    /\ \/ todo.op \in {0, 1, 3} /\ Round(regs)
       \/ todo.op = 2 /\ \E operand \in Addrs : Round(Skipped(regs, Plus1(operand) = 0))
       \/ todo.op = 4 /\ Round([regs EXCEPT !.pctr = Plus1(todo.addr)])

WordCount ==
    /\ todo.kind = "WC"
    /\ todo' = Cycle("CA", 0, Plus1(todo.addr), 0)
    /\ UNCHANGED regs

CurrentAddress ==
    /\ todo.kind = "CA"
    /\ \E a \in Addrs : todo' = Cycle("BRK", BrkField, a, 0)
    /\ UNCHANGED regs

Break == todo.kind = "BRK" /\ Round(regs)

\* The switches of a halted machine.
LoadAddress ==
    /\ todo = Halted
    /\ \E a \in Addrs, i, d \in Fields :
          regs' = [regs EXCEPT !.pctr = a, !.dfld = d, !.ifld = i, !.ifldafterjump = i]
    /\ UNCHANGED todo

\* Examine and deposit go on to the next address.
Examine ==
    /\ todo = Halted
    /\ regs' = [regs EXCEPT !.pctr = Plus1(@)]
    /\ UNCHANGED todo

Continue ==
    /\ todo = Halted
    /\ todo' = FetchOf(regs)
    /\ UNCHANGED regs

Start ==
    /\ todo = Halted
    /\ regs' = [InterruptsOff(regs) EXCEPT !.saveddfld = 0, !.savedifld = 0,
                                           !.intdisableduntiljump = FALSE]
    /\ todo' = FetchOf(regs)

Next ==
    \/ Fetch \/ Defer \/ Execute \/ WordCount \/ CurrentAddress \/ Break
    \/ LoadAddress \/ Examine \/ Continue \/ Start

Spec == Init /\ [][Next]_<<regs, todo>>
=============================================================================
