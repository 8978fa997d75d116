------------------------------- MODULE SimLib -------------------------------
(***************************************************************************)
(* pipan8l's simulator of the PDP-8/L (simlib.cc), which test scripts run  *)
(* against instead of the machine.  It goes from one major state to the    *)
(* next in a thread of its own (runthread), that the panel's switches      *)
(* start and stop (writepads, called by one thread at a time).             *)
(*                                                                         *)
(* sim is the object's registers and memory.  A step of the run thread     *)
(* takes them (doing) and puts back what singlestep makes of them: in      *)
(* between, nobody else may touch them.                                    *)
(*                                                                         *)
(* Tested is what the other program that knows the whole instruction set,  *)
(* z8lsimtest.cc, expects of an instruction.                               *)
(***************************************************************************)
EXTENDS Integers

CONSTANTS
    MemFields,      \* 4K fields of memory
    Programs,       \* what memory may hold: functions from <<field, address>>
    Fill,           \* what it holds everywhere else
    StartAt,        \* where a program begins
    Switches,       \* what the switch register may be set to
    FieldSwitches,  \* what IFLD and DFLD may be set to: pairs
    KeyCodes,       \* bytes that come from the keyboard's pipe
    MaxPresses      \* bound: switches pressed

SimWords == 0 .. 4095
IsMemory(m) == DOMAIN m \subseteq (0 .. 7) \X SimWords /\ m \in [DOMAIN m -> SimWords]

ASSUME SimAssumption ==
    /\ MemFields \in 1 .. 8
    /\ \A m \in Programs : IsMemory(m)
    /\ Fill \in SimWords /\ StartAt \in SimWords /\ Switches \subseteq SimWords /\ KeyCodes \subseteq SimWords
    /\ FieldSwitches \subseteq (0 .. 7) \X (0 .. 7)

VARIABLES
    sim,            \* the registers, flip-flops and memory
    doing,          \* what the run thread's step began with
    runreg,         \* the RUN flip-flop
    runthread,      \* "none", "step", "test" or "done"
    caller,         \* the thread in writepads: "idle", "stop" or "restart"
    stepsw, swreg,  \* the STEP switch and the switch register
    presses,        \* history: how many
    tested          \* history: the registers z8lsimtest.cc expects

simVars == <<sim, doing, runreg, runthread, caller, stepsw, swreg, presses, tested>>

Inc(w) == (w + 1) % \o10000
Field3(w) == (w \div 8) % 8

\* Bit n of a word, from 1 on the left, the word of twelve bits, and the bitwise
\* AND and OR
Bit(w, n) == (w \div 2 ^ (12 - n)) % 2
WordOf(b) ==
    LET left[n \in 0 .. 12] == IF n = 0 THEN 0 ELSE 2 * left[n - 1] + b[n]
    IN  left[12]
And(x, y) == WordOf([n \in 1 .. 12 |-> Bit(x, n) * Bit(y, n)])
Or(x, y) == WordOf([n \in 1 .. 12 |-> IF Bit(x, n) = 1 THEN 1 ELSE Bit(y, n)])

Has(w, bit) == (w \div bit) % 2 = 1

\* readmem and writemem; there is nothing in the fields past the last.
Word(s, f, a) ==
    IF f >= MemFields THEN 0
    ELSE IF <<f, a>> \in DOMAIN s.mem THEN s.mem[<<f, a>>] ELSE Fill

Stored(mem, f, a, w) ==
    IF f >= MemFields THEN mem
    ELSE [x \in DOMAIN mem \cup {<<f, a>>} |-> IF x = <<f, a>> THEN w ELSE mem[x]]

readmem(s, f, a) == [s EXCEPT !.ea = f, !.ma = a, !.mb = Word(s, f, a)]
writemem(s, f, a, w) == [s EXCEPT !.ea = f, !.ma = a, !.mb = w, !.mem = Stored(@, f, a, w)]

\* The address in an instruction fetched from a.
Direct(instr, a) == (IF Has(instr, \o200) THEN 128 * (a \div 128) ELSE 0) + (instr % 128)
IsDirectJmp(instr) == instr \div 256 = 10
IsAutoIndex(a) == a \div 8 = 1
Skip(s, when) == IF when THEN [s EXCEPT !.pc = Inc(@)] ELSE s
Jumped(s) == [s EXCEPT !.ifld = s.ifaj, !.inh = FALSE]

-----------------------------------------------------------------------------
(* Operate instructions. *)

\* Link and accumulator as one word of 13 bits
LAC(s) == 4096 * s.link + s.ac
WithLAC(s, lac) == [s EXCEPT !.link = (lac \div 4096) % 2, !.ac = lac % 4096]

Rotated(s, how) ==
    CASE how = 1 -> [s EXCEPT !.ac = 64 * (@ % 64) + @ \div 64]                       \* BSW
      [] how = 2 -> WithLAC(s, 2 * s.ac + s.link)                                     \* RAL
      [] how = 3 -> WithLAC(s, (4 * s.ac + 2 * s.link + s.ac \div 2048) % 8192)       \* RTL
      [] how = 4 -> [s EXCEPT !.ac = (@ \div 2) + 2048 * s.link, !.link = s.ac % 2]   \* RAR
      [] how = 5 -> WithLAC(s, s.ac \div 4 + 1024 * s.link + 2048 * (s.ac % 4))       \* RTR
      [] OTHER -> s

Group1(s, i) ==
    LET cleared == [s EXCEPT !.ac = IF Has(i, \o200) THEN 0 ELSE @,
                             !.link = IF Has(i, \o100) THEN 0 ELSE @]
        flipped == [cleared EXCEPT !.ac = IF Has(i, \o40) THEN 4095 - @ ELSE @,
                                   !.link = IF Has(i, \o20) THEN 1 - @ ELSE @]
    IN  Rotated(IF Has(i, 1) THEN WithLAC(flipped, LAC(flipped) + 1) ELSE flipped,
                (i \div 2) % 8)

Group2Skips(s, i) ==
    Has(i, \o10) # \/ Has(i, \o100) /\ s.ac >= 2048
                   \/ Has(i, \o40) /\ s.ac = 0
                   \/ Has(i, \o20) /\ s.link = 1

Group2(s, i, sr) ==
    LET kept == IF Has(i, \o200) THEN 0 ELSE s.ac
    IN  [Skip(s, Group2Skips(s, i)) EXCEPT !.ac = IF Has(i, 4) THEN Or(kept, sr) ELSE kept]

\* EAE instructions do nothing.
dooperate(s, i, sr) ==
    IF ~ Has(i, \o400) THEN Group1(s, i)
    ELSE IF ~ Has(i, 1) THEN Group2(s, i, sr) ELSE s

IsHlt(i) == i >= \o7400 /\ Has(i, 2) /\ ~ Has(i, 1)

-----------------------------------------------------------------------------
(* I/O instructions. *)

TtyIo(s, i) ==
    CASE i = \o6031 -> Skip(s, s.kbflag)
      [] i = \o6032 -> [s EXCEPT !.ac = 0, !.kbflag = FALSE]
      [] i = \o6034 -> [s EXCEPT !.ac = Or(@, s.kbchar)]
      [] i = \o6035 -> [s EXCEPT !.inten = Has(s.ac, 1)]
      [] i = \o6036 -> [s EXCEPT !.ac = s.kbchar, !.kbflag = FALSE]
      [] i = \o6041 -> Skip(s, s.prflag)
      [] i = \o6042 -> [s EXCEPT !.prflag = FALSE]
      [] i = \o6044 -> [s EXCEPT !.prfull = TRUE]
      [] i = \o6045 -> Skip(s, s.intrq)
      [] i = \o6046 -> [s EXCEPT !.prflag = FALSE, !.prfull = TRUE]
      [] OTHER -> s

\* CDF, CIF, both; then RDF, RIF, RIB and RMF.
FieldIo(s, i) ==
    CASE i % 8 \in 1 .. 3 ->
            [s EXCEPT !.dfld = IF Has(i, 1) THEN Field3(i) ELSE @,
                      !.ifaj = IF Has(i, 2) THEN Field3(i) ELSE @,
                      !.inh = @ \/ Has(i, 2)]
      [] i = \o6214 -> [s EXCEPT !.ac = Or(@, 8 * s.dfld)]
      [] i = \o6224 -> [s EXCEPT !.ac = Or(@, 8 * s.ifld)]
      [] i = \o6234 -> [s EXCEPT !.ac = Or(@, 8 * s.sif + s.sdf)]
      [] i = \o6244 -> [s EXCEPT !.dfld = s.sdf, !.ifaj = s.sif]
      [] OTHER -> s

doioinst(s, i) ==
    CASE i = \o6001 -> [s EXCEPT !.idelay = TRUE]
      [] i = \o6002 -> [s EXCEPT !.idelay = FALSE, !.ion = FALSE]
      [] i \in \o6200 .. \o6277 -> FieldIo(s, i)
      [] OTHER -> TtyIo(s, i)

-----------------------------------------------------------------------------
(* From one major state to the next. *)

\* The keyboard may have a character.
Typed(p) == {p} \cup {[p EXCEPT !.kbflag = TRUE, !.kbchar = k] : k \in KeyCodes}

\* The printer may take its character, if it has one.
polltty(s) ==
    {[t EXCEPT !.intrq = t.inten /\ (t.kbflag \/ t.prflag)] :
        t \in Typed(s) \cup Typed([s EXCEPT !.prflag = @ \/ s.prfull, !.prfull = FALSE])}

\* Mutant: an interrupt may come right after ION.
WillInterrupt_AtOnce(s) == (s.ion \/ s.idelay) /\ s.intrq /\ ~ s.inh

WillInterrupt(s) == s.ion /\ s.intrq /\ ~ s.inh

Interrupted(s) ==
    writemem([s EXCEPT !.sdf = s.dfld, !.sif = s.ifld, !.dfld = 0, !.ifld = 0, !.ifaj = 0,
                       !.idelay = FALSE, !.ion = FALSE, !.state = "EXE", !.pc = 1],
             0, 0, s.pc)

dofetch(s, sr) ==
    IF WillInterrupt(s) THEN Interrupted(s)
    ELSE LET m == readmem([s EXCEPT !.ion = s.idelay, !.state = "FET"], s.ifld, s.pc)
             i == m.mb
             f == [m EXCEPT !.ir = i \div 512, !.pc = Inc(@),
                            !.inh = @ /\ i \div 1024 # 2]
         IN  IF IsDirectJmp(i) THEN [Jumped(f) EXCEPT !.pc = Direct(i, f.ma)]
             ELSE IF f.ir = 6 THEN doioinst(f, i)
             ELSE IF f.ir = 7 THEN dooperate(f, i, sr)
             ELSE f

domemref(s) ==
    LET r == readmem([s EXCEPT !.state = "EXE"], s.ea, s.ma)
        jms == Jumped(s)
    IN  CASE s.ir = 0 -> [r EXCEPT !.ac = And(@, r.mb)]
          [] s.ir = 1 -> WithLAC(r, LAC(r) + r.mb)
          [] s.ir = 2 -> Skip(writemem(r, r.ea, r.ma, Inc(r.mb)), Inc(r.mb) = 0)
          [] s.ir = 3 -> [writemem(r, s.ea, s.ma, s.ac) EXCEPT !.ac = 0]
          [] s.ir = 4 -> [writemem(jms, jms.ifld, s.ma, s.pc) EXCEPT !.state = "EXE",
                                                                   !.pc = Inc(s.ma)]

\* The pointer, counted up if it is an auto-index register
Deferred(s, a) ==
    LET r == readmem([s EXCEPT !.state = "DEF"], s.ifld, a)
        p == IF IsAutoIndex(a) THEN writemem(r, s.ifld, a, Inc(r.mb)) ELSE r
    IN  IF s.ir = 5 THEN [Jumped(p) EXCEPT !.pc = p.mb] ELSE p

\* The next step fetches, and may be taken by an interrupt.
AtEnd(s) ==
    \/ s.state \in {"NUL", "EXE"}
    \/ s.state = "FET" /\ (IsDirectJmp(s.mb) \/ s.ir >= 6)
    \/ s.state = "DEF" /\ s.ir = 5

\* The rest of an instruction after its fetch
Continued(s) ==
    LET a == Direct(s.mb, s.ma)
    IN  IF s.state = "DEF" THEN domemref([s EXCEPT !.ea = s.dfld, !.ma = s.mb])
        ELSE IF Has(s.mb, \o400) THEN Deferred(s, a)
        ELSE domemref([s EXCEPT !.ea = s.ifld, !.ma = a])

-----------------------------------------------------------------------------
(* What z8lsimtest.cc expects: all of an instruction at once. *)

Registers(s) ==
    [ac |-> s.ac, link |-> s.link, pc |-> s.pc, ion |-> s.ion, idelay |-> s.idelay,
     inh |-> s.inh, dfld |-> s.dfld, ifld |-> s.ifld, ifaj |-> s.ifaj,
     sdf |-> s.sdf, sif |-> s.sif, mem |-> s.mem]

TestMemRef(r, op, f, a) ==
    LET operand == Word(r, f, a)
        put(w) == [r EXCEPT !.mem = Stored(@, f, a, w)]
        sum == r.ac + 4096 * r.link + operand
    IN  CASE op = 0 -> [r EXCEPT !.ac = And(@, operand)]
          [] op = 1 -> [r EXCEPT !.ac = sum % 4096, !.link = (sum \div 4096) % 2]
          [] op = 2 -> Skip(put(Inc(operand)), Inc(operand) = 0)
          [] op = 3 -> [put(r.ac) EXCEPT !.ac = 0]

TestJms(r, a) ==
    [r EXCEPT !.inh = FALSE, !.ifld = r.ifaj, !.mem = Stored(@, r.ifaj, a, r.pc), !.pc = Inc(a)]

TestInterrupt(r) ==
    TestJms([r EXCEPT !.sdf = r.dfld, !.sif = r.ifld, !.dfld = 0, !.ifld = 0, !.ifaj = 0,
                      !.idelay = FALSE, !.ion = FALSE], 0)

TestIncrement(r) ==
    [r EXCEPT !.ac = Inc(@), !.link = IF Inc(r.ac) = 0 THEN 1 - @ ELSE @]

\* The rotations: the bits of the link and the accumulator from the left,
\* moved around.
Bits(r) == [n \in 0 .. 12 |-> IF n = 0 THEN r.link ELSE Bit(r.ac, n)]
Turned(r, by) ==
    [r EXCEPT !.link = Bits(r)[by], !.ac = WordOf([n \in 1 .. 12 |-> Bits(r)[(n + by) % 13]])]

TestOperate(r, i, sr) ==
    IF Has(i, \o400) THEN IF Has(i, 1) THEN r ELSE Group2(r, i, sr)
    ELSE LET c == [r EXCEPT !.ac = IF Has(i, \o200) THEN 0 ELSE @,
                            !.link = IF Has(i, \o100) THEN 0 ELSE @]
             x == [c EXCEPT !.ac = IF Has(i, \o40) THEN 4095 - @ ELSE @,
                            !.link = IF Has(i, \o20) THEN 1 - @ ELSE @]
             n == IF Has(i, 1) THEN TestIncrement(x) ELSE x
             how == (i \div 2) % 8
         IN  CASE how = 1 -> [n EXCEPT !.ac = 64 * (@ % 64) + @ \div 64]
               [] how \in {2, 3} -> Turned(n, how - 1)
               [] how \in {4, 5} -> Turned(n, 16 - how)
               [] OTHER -> n

TestIo(r, i) ==
    CASE i = \o6001 -> [r EXCEPT !.idelay = TRUE]
      [] i = \o6002 -> [r EXCEPT !.idelay = FALSE, !.ion = FALSE]
      [] OTHER -> FieldIo(r, i)

\* Nothing is expected.
Unknown == [ac |-> 0]

\* s has been polled.
Tested(s, sr) ==
    LET r == Registers(s)
    IN  IF r.ion /\ s.intrq /\ ~ r.inh THEN TestInterrupt(r)
        ELSE LET i == Word(r, r.ifld, r.pc)
                 op == i \div 512
                 near == Direct(i, r.pc)
                 ind == op < 6 /\ Has(i, \o400)
                 pointer == IF IsAutoIndex(near) THEN Inc(Word(r, r.ifld, near))
                            ELSE Word(r, r.ifld, near)
                 n == [r EXCEPT !.ion = r.idelay, !.pc = Inc(@),
                                !.mem = IF ind /\ IsAutoIndex(near)
                                        THEN Stored(@, r.ifld, near, pointer) ELSE @]
                 a == IF ind THEN pointer ELSE near
             IN  CASE op < 4 -> TestMemRef(n, op, IF ind THEN n.dfld ELSE n.ifld, a)
                   [] op = 4 -> TestJms(n, a)
                   [] op = 5 -> [n EXCEPT !.inh = FALSE, !.ifld = n.ifaj, !.pc = a]
                   [] op = 6 -> TestIo(n, i)
                   [] op = 7 -> TestOperate(n, i, sr)

\* Of the I/O instructions, z8lsimtest.cc tests these.
IsTested(s) ==
    LET i == Word(s, s.ifld, s.pc)
    IN  i \div 512 = 6 => i \in {\o6001, \o6002} \cup \o6200 .. \o6277

\* What singlestep makes of the registers, and what is expected of them when
\* the instruction ends.
singlestep(s, sr) ==
    IF ~ AtEnd(s) THEN {[regs |-> Continued(s), tested |-> tested]}
    ELSE {[regs |-> dofetch(p, sr),
           tested |-> IF IsTested(s) \/ WillInterrupt(p) THEN Tested(p, sr) ELSE Unknown] :
             p \in polltty(s)}

Halts(s) == s.state = "FET" /\ IsHlt(s.mb)

-----------------------------------------------------------------------------
(* The thread that runs instructions. *)

SimStart(m, garbage) ==
    /\ sim = readmem([state |-> "NUL", ac |-> 0, link |-> 0, ir |-> 0, ma |-> 0, mb |-> 0,
                      ea |-> 0, pc |-> StartAt, ion |-> FALSE, idelay |-> garbage,
                      inh |-> FALSE, dfld |-> 0, ifld |-> 0, ifaj |-> 0, sdf |-> 0,
                      sif |-> 0, mem |-> m, kbflag |-> FALSE, kbchar |-> 0,
                      prflag |-> FALSE, prfull |-> FALSE, inten |-> TRUE,
                      intrq |-> FALSE], 0, StartAt)
    /\ doing = sim /\ tested = Registers(sim)
    /\ runreg = FALSE /\ runthread = "none" /\ caller = "idle"
    /\ stepsw = FALSE /\ swreg = StartAt /\ presses = 0
SimIdle == SimStart(CHOOSE m \in Programs : TRUE, FALSE)

\* Nothing sets idelay before the first instruction does.
SimInit == \E m \in Programs, garbage \in BOOLEAN : SimStart(m, garbage)

SimStep ==
    /\ runthread = "step"
    /\ \E o \in singlestep(doing, swreg) :
          /\ sim' = o.regs /\ tested' = o.tested
          /\ runreg' = (runreg /\ ~ (AtEnd(doing) /\ Halts(o.regs)))
    /\ runthread' = "test"
    /\ UNCHANGED <<doing, caller, stepsw, swreg, presses>>

GoesOn == runreg

RunTest ==
    /\ runthread = "test"
    /\ runthread' = IF GoesOn THEN "step" ELSE "done"
    /\ doing' = sim
    /\ UNCHANGED <<sim, runreg, caller, stepsw, swreg, presses, tested>>

-----------------------------------------------------------------------------
(* writepads: the switches.  One momentary switch is released at a time. *)

Set(regs, sr) == sim' = regs /\ swreg' = sr

Quiet == ~ runreg

Press(step) ==
    /\ caller = "idle" /\ presses < MaxPresses
    /\ presses' = presses + 1 /\ stepsw' = step

\* STEP stops as well: whatever else is done, the thread is waited for.
ThenStop(step) ==
    IF step THEN caller' = "stop" /\ runreg' = FALSE ELSE UNCHANGED <<caller, runreg>>

Deposit(step, sr) ==
    /\ Quiet /\ Press(step) /\ ThenStop(step)
    /\ Set([writemem(sim, sim.dfld, sim.pc, sr) EXCEPT !.pc = Inc(sim.pc), !.state = "NUL"], sr)
    /\ tested' = Registers(sim')
    /\ UNCHANGED <<doing, runthread>>

Examine(step, sr) ==
    /\ Quiet /\ Press(step) /\ ThenStop(step)
    /\ Set([readmem(sim, sim.dfld, sim.pc) EXCEPT !.pc = Inc(sim.pc), !.state = "NUL"], sr)
    /\ tested' = Registers(sim')
    /\ UNCHANGED <<doing, runthread>>

LoadAddress(step, sr, ifldsw, dfldsw) ==
    /\ Quiet /\ Press(step) /\ ThenStop(step)
    /\ Set(readmem([sim EXCEPT !.dfld = dfldsw, !.ifld = ifldsw, !.ifaj = ifldsw, !.pc = sr,
                               !.state = "NUL"], ifldsw, sr), sr)
    /\ tested' = Registers(sim')
    /\ UNCHANGED <<doing, runthread>>

\* CONT, and START, which clears the accumulator and link first: with STEP on
\* one step of the calling thread's own, else a new run thread.
contswitch(regs, step, sr) ==
    /\ Quiet /\ Press(step)
    /\ runreg' = FALSE /\ caller' = IF step THEN "stop" ELSE "restart"
    /\ IF step THEN \E o \in singlestep(regs, sr) :
                       /\ Set(o.regs, sr)
                       /\ tested' = IF AtEnd(sim) \/ regs = sim THEN o.tested ELSE Unknown
       ELSE /\ Set(regs, sr)
            /\ tested' = IF AtEnd(sim) THEN Registers(regs)
                         ELSE IF regs = sim THEN tested ELSE Unknown
    /\ UNCHANGED <<doing, runthread>>

\* STOP, or a change of STEP or of the switch register alone
OtherSwitch(stop, step, sr) ==
    /\ Press(step) /\ Set(sim, sr)
    /\ ThenStop(stop \/ step)
    /\ UNCHANGED <<doing, runthread, tested>>

WritePads ==
    \E step \in BOOLEAN, sr \in Switches :
        \/ Deposit(step, sr) \/ Examine(step, sr)
        \/ \E fields \in FieldSwitches : LoadAddress(step, sr, fields[1], fields[2])
        \/ contswitch(sim, step, sr)
        \/ contswitch([sim EXCEPT !.ac = 0, !.link = 0], step, sr)
        \/ \E stop \in BOOLEAN : OtherSwitch(stop, step, sr)

\* stopswitch
Join ==
    /\ caller # "idle" /\ runthread \in {"none", "done"}
    /\ runthread' = IF caller = "restart" THEN "step" ELSE "none"
    /\ runreg' = (caller = "restart") /\ caller' = "idle"
    /\ doing' = sim
    /\ UNCHANGED <<sim, stepsw, swreg, presses, tested>>

SimNext == SimStep \/ RunTest \/ WritePads \/ Join
SimRuns == SimStep \/ RunTest
SimFair == WF_simVars(SimRuns) /\ WF_simVars(Join)
SimSpec == SimInit /\ [][SimNext]_simVars /\ SimFair

-----------------------------------------------------------------------------
(* Properties. *)

\* At the end of every instruction and interrupt, run or stepped through,
\* registers and memory are what the test program for the machine expects.
SimAsTested == AtEnd(sim) /\ tested # Unknown => Registers(sim) = tested

\* The switches change the registers only between two steps of the run thread.
SwitchesWait == runthread = "step" => doing = sim

\* Whoever works STOP, STEP or CONT waits for the run thread.
CallerWaits == caller # "idle"

\* The simulator does what the test of the machine expects, and its switches wait.
SimRight == SimAsTested /\ SwitchesWait
=============================================================================
