------------------------------ MODULE Assemble ------------------------------
(***************************************************************************)
(* The assembler and the disassembler of single instructions (assemble.cc, *)
(* disassemble.cc) that scripts and traces use: an instruction is          *)
(* disassembled to a line of tokens, and the line is assembled.            *)
(*                                                                         *)
(* The bit masks of assemble.cc are sets of micro operations here.  Of the *)
(* spelling only the operand's is kept: it is written in four octal digits *)
(* and read like a number of C, octal only if the first digit is 0.        *)
(***************************************************************************)
EXTENDS Naturals, Sequences

CONSTANTS Opcodes, Addresses    \* instructions, and where they are

\* Words, but none of group 3, which is left out
ASSUME AsmAssumption == /\ Opcodes \subseteq {w \in 0 .. 4095 : w < \o7400 \/ w % 2 = 0}
                        /\ Addresses \subseteq 0 .. 4095

VARIABLES op, at,       \* the instruction
          line,         \* what is left of its tokens
          asm,          \* "start", "memory", "iot", "micro"; "done" or "error"
          already,      \* the micro operations so far
          opcode,       \* the instruction so far
          skipnext      \* a conditional skip must come next

asmVars == <<op, at, line, asm, already, opcode, skipnext>>

BitSet(w, bit) == (w \div bit) % 2 = 1
WithBits(w, v) == \* w | v
    LET or[n \in 0 .. 12] == IF n = 0 THEN 0
                             ELSE or[n - 1] + (IF BitSet(w, 2 ^ (n - 1)) \/ BitSet(v, 2 ^ (n - 1))
                                               THEN 2 ^ (n - 1) ELSE 0)
    IN  or[12]

Sym(name) == [is |-> "symbol", name |-> name]
Delim(char) == [is |-> "delim", name |-> char]
Number(value) == [is |-> "integer", value |-> value]

-----------------------------------------------------------------------------
(* disassemble *)

MemOps == <<"AND", "TAD", "ISZ", "DCA", "JMS", "JMP">>

\* What strtoul makes of the four octal digits of a value
Digits(v) == <<v \div 512, (v \div 64) % 8, (v \div 8) % 8, v % 8>>
Strtoul(v) ==
    LET d == Digits(v)
    IN  IF d[1] = 0 THEN v ELSE 1000 * d[1] + 100 * d[2] + 10 * d[3] + d[4]

When(w, bit, name) == IF BitSet(w, bit) THEN <<Sym(name)>> ELSE << >>

Rotates == <<"BSW", "RAL", "RTL", "RAR", "RTR", "??6", "??7">>

Group1Line(w) ==
    When(w, 128, "CLA") \o When(w, 64, "CLL") \o When(w, 32, "CMA") \o When(w, 16, "CML")
    \o When(w, 1, "IAC")
    \o IF (w \div 2) % 8 = 0 THEN << >> ELSE <<Sym(Rotates[(w \div 2) % 8])>>

\* Skips, positive or reversed, with the delimiter between them
Skips(w) ==
    LET rev == BitSet(w, 8)
        joined(rest, name) == IF rest = << >> THEN <<Sym(name)>>
                              ELSE rest \o <<Delim(IF rev THEN "*" ELSE "+"), Sym(name)>>
        sma == IF BitSet(w, 64) THEN <<Sym(IF rev THEN "SPA" ELSE "SMA")>> ELSE << >>
        sza == IF BitSet(w, 32) THEN joined(sma, IF rev THEN "SNA" ELSE "SZA") ELSE sma
        snl == IF BitSet(w, 16) THEN joined(sza, IF rev THEN "SZL" ELSE "SNL") ELSE sza
    IN  IF snl = << >> /\ rev THEN <<Sym("SKP")>> ELSE snl

Group2Line(w) ==
    Skips(w) \o When(w, 128, "CLA") \o When(w, 4, "OSR") \o When(w, 2, "HLT")

OperateLine(w) ==
    LET l == IF BitSet(w, 256) THEN Group2Line(w) ELSE Group1Line(w)
    IN  IF l = << >> THEN <<Sym("NOP")>> ELSE l

\* The operand's address: page 0, or the page of the instruction
Operand(w, pc) == (w % 128) + IF BitSet(w, 128) THEN 128 * (pc \div 128) ELSE 0

disassemble(w, pc) ==
    IF w \div 512 < 6
    THEN <<Sym(MemOps[1 + w \div 512])>>
         \o When(w, 256, "I") \o <<Number(Strtoul(Operand(w, pc)))>>
    ELSE IF w \div 512 = 6 THEN <<Sym("IOT"), Number(Strtoul(w))>>
    ELSE OperateLine(w)

-----------------------------------------------------------------------------
(* assemble *)

Seq1 == {"CLA", "CLL"}      \* of group 1, in the order in which they are done
Seq2 == {"CMA", "CML"}
Seq3 == {"IAC"}
Seq4 == {"RAR", "RAL", "RTR", "RTL", "BSW"}
Gr1 == Seq1 \cup Seq2 \cup Seq3 \cup Seq4

Positive == {"SMA", "SZA", "SNL"}
Negative == {"SPA", "SNA", "SZL"}
Gr2 == Positive \cup Negative \cup {"SKP", "CLA", "OSR", "HLT"}

Micro(name) ==
    CASE name = "CLA" -> \o7200 [] name = "CLL" -> \o7100 [] name = "CMA" -> \o7040
      [] name = "CML" -> \o7020 [] name = "IAC" -> \o7001 [] name = "BSW" -> \o7002
      [] name = "RAL" -> \o7004 [] name = "RTL" -> \o7006 [] name = "RAR" -> \o7010
      [] name = "RTR" -> \o7012 [] name = "SMA" -> \o7500 [] name = "SZA" -> \o7440
      [] name = "SNL" -> \o7420 [] name = "SPA" -> \o7510 [] name = "SNA" -> \o7450
      [] name = "SZL" -> \o7430 [] name = "SKP" -> \o7410 [] name = "OSR" -> \o7404
      [] name = "HLT" -> \o7402 [] name = "NOP" -> \o7000

\* NOP stands for all operations: it goes with none.
Mask(name) == IF name = "NOP" THEN Gr1 \cup Gr2 ELSE {name}

\* Each: what is already there, and what may not come after it.  Group 3 is
\* left out; its operations conflict with everything here but CLA.
\* Mutant: after a skip, CLA comes too late, as it does after OSR.
Orders_SkipLast ==
    { <<Seq4, Gr1 \cup Gr2>>, <<Seq3, Seq1 \cup Seq2 \cup Gr2>>, <<Seq2, Seq1 \cup Gr2>>,
      <<{"CLL"}, Gr2 \ {"CLA"}>>, <<{"HLT"}, Gr1 \cup Gr2>>,
      <<{"OSR"}, (Gr1 \cup Gr2) \ {"HLT", "OSR"}>>,
      <<{"CLA"}, Positive \cup Negative \cup {"SKP"}>>,
      <<{"SKP"} \cup Positive \cup Negative, Gr1>> }

Orders ==
    { <<Seq4, Gr1 \cup Gr2>>, <<Seq3, Seq1 \cup Seq2 \cup Gr2>>, <<Seq2, Seq1 \cup Gr2>>,
      <<{"CLL"}, Gr2 \ {"CLA"}>>, <<{"HLT"}, Gr1 \cup Gr2>>,
      <<{"OSR"}, (Gr1 \cup Gr2) \ {"HLT", "OSR"}>>,
      <<{"CLA"}, Positive \cup Negative \cup {"SKP"}>>,
      <<{"SKP"}, (Gr1 \cup Positive \cup Negative) \ {"CLA"}>>,
      <<Negative, (Gr1 \cup Positive \cup {"SKP"}) \ {"CLA"}>>,
      <<Positive, (Gr1 \cup Negative \cup {"SKP"}) \ {"CLA"}>> }

microconflict(adding) ==
    \/ already \cap adding # {}
    \/ \E o \in Orders : already \cap o[1] # {} /\ adding \cap o[2] # {}

Assembled(w) == opcode' = w /\ asm' = "done"
Refused == asm' = "error" /\ UNCHANGED opcode
Unchanged == UNCHANGED <<op, at>>

AsmStart(w, pc) ==
    /\ op = w /\ at = pc
    /\ line = disassemble(op, at)
    /\ asm = "start" /\ already = {} /\ opcode = 0 /\ skipnext = FALSE
AsmIdle == AsmStart(\o7000, 0)
AsmInit == \E w \in Opcodes, pc \in Addresses : AsmStart(w, pc)

\* A memory reference, the number of its opcode, with the operand after it
MemoryOp ==
    \E n \in 1 .. 6 :
        /\ asm = "start" /\ line[1] = Sym(MemOps[n])
        /\ LET ind == line[2] = Sym("I")
               operand == line[IF ind THEN 3 ELSE 2].value
               word == 512 * (n - 1) + IF ind THEN 256 ELSE 0
           IN  IF operand < 128 THEN Assembled(word + operand)
               ELSE IF (operand \div 128) % 32 = (at \div 128) % 32
                    THEN Assembled(word + 128 + (operand % 128))
               ELSE Refused
        /\ line' = << >> /\ UNCHANGED <<already, skipnext>> /\ Unchanged

IotOp ==
    /\ asm = "start" /\ line[1] = Sym("IOT")
    /\ IF line[2].value \in \o6000 .. \o6777 THEN Assembled(line[2].value) ELSE Refused
    /\ line' = << >> /\ UNCHANGED <<already, skipnext>> /\ Unchanged

IsMicro(t) == t.name \in Gr1 \cup Gr2 \cup {"NOP"}

\* decomicro: one operation, and the delimiter after it
MicroOp ==
    /\ asm = "micro" \/ (asm = "start" /\ \A n \in 1 .. 6 : line[1] # Sym(MemOps[n])
                                       /\ line[1] # Sym("IOT"))
    /\ LET t == line[1]
           delim == Len(line) > 1 /\ line[2].is = "delim"
           joins == \/ line[2].name = "+" /\ t.name \in Positive
                    \/ line[2].name = "*" /\ t.name \in Negative
           rest == SubSeq(line, IF delim THEN 3 ELSE 2, Len(line))
       IN  IF \/ ~ IsMicro(t)
              \/ skipnext /\ Mask(t.name) \cap (Positive \cup Negative) = {}
              \/ microconflict(Mask(t.name))
              \/ delim /\ ~ joins
           THEN Refused /\ UNCHANGED <<line, already, skipnext>>
           ELSE /\ already' = already \cup Mask(t.name)
                /\ opcode' = WithBits(opcode, Micro(t.name))
                /\ line' = rest /\ skipnext' = delim
                /\ asm' = IF rest = << >> THEN "done" ELSE "micro"
    /\ Unchanged

AsmNext == MemoryOp \/ IotOp \/ MicroOp
AsmSpec == AsmInit /\ [][AsmNext]_asmVars

-----------------------------------------------------------------------------
(* Properties. *)

\* Lines whose number is read as it was written, and that name no rotate that
\* does not exist
Plain ==
    /\ op < \o6000 => Operand(op, at) < 512
    /\ op \notin \o6000 .. \o6777
    /\ op \in \o7000 .. \o7377 => (op \div 2) % 8 < 6

\* Without a skip, OSR or HLT the two groups' CLA and NOP are the same; on
\* page 0, so are the page of the instruction and page 0.
Same(w) ==
    \/ w = op
    \/ op \in {\o7400, \o7600} /\ w = op - 256
    \/ op < \o6000 /\ BitSet(op, 128) /\ at < 128 /\ w = op - 128

\* What the disassembler writes of an instruction the assembler takes, and makes
\* the same instruction of it: the order in which the one writes micro operations is
\* one the other's table of conflicts allows.  An IOT, whose number it reads in
\* decimal, and a rotate that does not exist it refuses; only a memory reference
\* with an operand from 01000 up, read in decimal too, may come out as another.
Reassembled ==
    asm \in {"done", "error"} =>
        IF Plain THEN asm = "done" /\ Same(opcode) ELSE op >= \o6000 => asm = "error"
=============================================================================
