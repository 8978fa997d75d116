-------------------------------- MODULE CmDma --------------------------------
(***************************************************************************)
(* DMA into PDP-8/L memory: the two calls of z8lutil.cc that programs use  *)
(* (dmacycle, dmaflush), the controller they drive (pdp8lcmem.v) and the   *)
(* memory cycles of the processor that serve it (pdp8lsim.v; a real PDP-8/L*)
(* behaves alike on its break interface).                                  *)
(*                                                                         *)
(* A request moves one word (1-cycle), or counts a word count up, fetches  *)
(* an address from the word after it and moves a word there (3-cycle).     *)
(* With the BREAK option the processor does the moving, in cycles of its   *)
(* own between instructions; without it (nobrkopt) the controller goes to  *)
(* the external memory directly, keeping the processor out meanwhile.      *)
(*                                                                         *)
(* The lock is used by its specification, Mutex, which CmLock implements.  *)
(***************************************************************************)
EXTENDS Integers

CONSTANTS Procs, Nobody,  \* processes doing DMA; the owner of a free lock
          WordSize,       \* words have the values 0 .. WordSize-1 (4096)
          Fields,         \* memory fields in use
          Requests,       \* the requests made: records in Request
          CpuCells,       \* cells the running program works on
          CpuWords,       \* words it stores there
          MaxCycles,      \* memory cycles of an instruction, at most
          MaxCalls,       \* bound: calls made by each process
          InitMem         \* memory contents at the start

Words == 0 .. WordSize - 1
Cells == Fields \X Words

\* offset is the word's address in its field; for a 3-cycle request that of
\* the word count, which is in field 0 whatever the field of the transfer.
Request == [write : BOOLEAN, threecyc : BOOLEAN, cainc : BOOLEAN,
            field : Fields, offset : Words, data : Words]

ASSUME OwnerAssumption == Nobody \notin Procs
ASSUME SizeAssumption == WordSize \in Nat \ {0, 1} /\ 0 \in Fields
ASSUME RequestAssumption == Requests \subseteq Request
ASSUME CpuAssumption == /\ CpuCells \subseteq Cells /\ CpuWords \subseteq Words
                         /\ MaxCycles \in Nat \ {0}
ASSUME MemAssumption == InitMem \in [Cells -> Words]
ASSUME CallsAssumption == MaxCalls \in Nat

VARIABLES owner,          \* who owns the lock
          pc,             \* where each process is in dmacycle or dmaflush
          req,            \* the request it passed to dmacycle
          result,         \* the register value dmacycle read back
          calls,          \* how many calls it made
          lost            \* history: a register write came while busy

VARIABLES busy,           \* busyonarm, the state of the controller
          ctl, ctlflags,  \* its registers 1 and 2
          ctldone, ctlwcovf, brkrqst, last1wcovf, last2wcovf, xmemblock

VARIABLES maj, nextmaj,   \* major state: "CPU" stands for all but the break ones
          ts,             \* time state: 4 between cycles, 1 read, 3 write back
          left,           \* cycles the instruction needs after this one
          madr, mbuf, wcovf

VARIABLES mem,
          cur,            \* history: the access the controller works on
          snap            \* history: memory when its first cycle began

procvars == <<pc, req, result, calls>>
brkvars == <<brkrqst, last1wcovf, last2wcovf>>
ctlvars == <<busy, ctl, ctlflags, ctldone, ctlwcovf, brkvars, xmemblock>>
cpuvars == <<maj, nextmaj, ts, left, madr, mbuf, wcovf>>
vars == <<owner, procvars, lost, ctlvars, cpuvars, mem, cur, snap>>

Lock == INSTANCE Mutex

Plus1(w) == (w + 1) % WordSize

\* The processor lacks the BREAK option.
NoBrkOpt == ctlflags.nobrkopt

Steps == {"idle", "lock", "wait", "flags", "start", "poll", "unlk",
          "flock", "fwait", "funlk", "dead"}

NoRequest == [write |-> FALSE, threecyc |-> FALSE, cainc |-> FALSE,
              field |-> 0, offset |-> 0, data |-> 0]

Init ==
    /\ owner = Nobody
    /\ pc = [p \in Procs |-> "idle"]
    /\ req = [p \in Procs |-> NoRequest]
    /\ result = [p \in Procs |-> [data |-> 0, wcovf |-> FALSE]]
    /\ calls = [p \in Procs |-> 0]
    /\ lost = FALSE
    /\ busy = 0
    /\ ctl = [write |-> FALSE, field |-> 0, offset |-> 0, data |-> 0]
    /\ ctlflags \in [threecyc : {FALSE}, cainc : {FALSE}, nobrkopt : BOOLEAN]
    /\ ctldone = FALSE /\ ctlwcovf = FALSE
    /\ brkrqst = FALSE /\ last1wcovf = FALSE /\ last2wcovf = FALSE
    /\ xmemblock = FALSE
    /\ maj = "CPU" /\ nextmaj = "CPU" /\ ts = 4 /\ left = 0
    /\ madr = <<0, 0>> /\ mbuf = 0 /\ wcovf = FALSE
    /\ mem = InitMem /\ snap = InitMem
    /\ cur = NoRequest

-----------------------------------------------------------------------------
(***************************************************************************)
(* dmacycle and dmaflush.                                                  *)
(***************************************************************************)
Goto(p, step) == pc' = [pc EXCEPT ![p] = step]

Call(p) ==
    /\ pc[p] = "idle" /\ calls[p] < MaxCalls
    /\ calls' = [calls EXCEPT ![p] = @ + 1]
    /\ \/ /\ Goto(p, "lock")
          /\ \E r \in Requests : req' = [req EXCEPT ![p] = r]
       \/ /\ Goto(p, "flock")
          /\ UNCHANGED req
    /\ UNCHANGED <<owner, result, lost, ctlvars, cpuvars, mem, cur, snap>>

\* cmlock returns.
Locked(p) ==
    /\ pc[p] \in {"lock", "flock"}
    /\ Lock!Acquire(p)
    /\ Goto(p, IF pc[p] = "lock" THEN "wait" ELSE "fwait")
    /\ UNCHANGED <<req, result, calls, lost, ctlvars, cpuvars, mem, cur, snap>>

\* Mutant: the controller is not waited for.
WaitNot(p) ==
    /\ pc[p] \in {"wait", "fwait"}
    /\ Goto(p, IF pc[p] = "wait" THEN "flags" ELSE "funlk")
    /\ UNCHANGED <<owner, req, result, calls, lost, ctlvars, cpuvars, mem, cur, snap>>

\* CMWAIT until not CM_BUSY.
WaitIdle(p) ==
    /\ pc[p] \in {"wait", "fwait"}
    /\ busy = 0
    /\ Goto(p, IF pc[p] = "wait" THEN "flags" ELSE "funlk")
    /\ UNCHANGED <<owner, req, result, calls, lost, ctlvars, cpuvars, mem, cur, snap>>

\* Register 2 is written, its CM2_NOBRK kept; the controller ignores it while
\* busy.
WriteFlags(p) ==
    /\ pc[p] = "flags"
    /\ lost' = (lost \/ busy # 0)
    /\ ctlflags' = IF busy # 0 THEN ctlflags
                   ELSE [ctlflags EXCEPT !.threecyc = req[p].threecyc, !.cainc = req[p].cainc]
    /\ Goto(p, "start")
    /\ UNCHANGED <<owner, req, result, calls, busy, ctl, ctldone, ctlwcovf, brkvars,
                   xmemblock, cpuvars, mem, cur, snap>>

\* Register 1 is written with CM_ENAB set; the controller ignores it while busy.
WriteCtl(p) ==
    /\ pc[p] = "start"
    /\ lost' = (lost \/ busy # 0)
    /\ IF busy # 0
       THEN UNCHANGED <<ctl, ctldone, ctlwcovf, busy, xmemblock, cur>>
       ELSE /\ ctl' = [write |-> req[p].write, field |-> req[p].field,
                       offset |-> req[p].offset, data |-> req[p].data]
            /\ ctldone' = FALSE
            /\ ctlwcovf' = FALSE
            /\ busy' = 1
            /\ xmemblock' = NoBrkOpt
            /\ cur' = req[p]
    /\ Goto(p, "poll")
    /\ UNCHANGED <<owner, req, result, calls, ctlflags, brkvars, cpuvars, mem, snap>>

\* CMWAIT until CM_DONE, keeping the value read.
PollDone(p) ==
    /\ pc[p] = "poll"
    /\ ctldone
    /\ result' = [result EXCEPT ![p] = [data |-> ctl.data, wcovf |-> ctlwcovf]]
    /\ Goto(p, "unlk")
    /\ UNCHANGED <<owner, req, calls, lost, ctlvars, cpuvars, mem, cur, snap>>

\* cmunlk, and the return.
Unlock(p) ==
    /\ pc[p] \in {"unlk", "funlk"}
    /\ Lock!Leave(p)
    /\ Goto(p, "idle")
    /\ UNCHANGED <<req, result, calls, lost, ctlvars, cpuvars, mem, cur, snap>>

\* Killed, or aborted by CMWAIT, at any point; the lock is recovered from it,
\* the controller goes on with what it was told to do.
Die(p) ==
    /\ pc[p] \notin {"idle", "dead"}
    /\ IF owner = p THEN Lock!Leave(p) ELSE UNCHANGED owner
    /\ Goto(p, "dead")
    /\ UNCHANGED <<req, result, calls, lost, ctlvars, cpuvars, mem, cur, snap>>

ProcStep(p) ==
    Locked(p) \/ WaitIdle(p) \/ WriteFlags(p) \/ WriteCtl(p) \/ PollDone(p) \/ Unlock(p)

-----------------------------------------------------------------------------
(***************************************************************************)
(* The processor, and the controller using the BREAK option.  A memory     *)
(* cycle reads a word, modifies it and writes it back.  The controller     *)
(* follows the time states, which last longer than it needs to see them,   *)
(* so its transitions are part of the processor's steps; only a request    *)
(* may come up in the middle of a TS3, in time for this cycle or not.      *)
(***************************************************************************)
RaiseRequest ==
    /\ ~ NoBrkOpt
    /\ busy = 1 /\ ts = 3
    /\ busy' = 2
    /\ brkrqst' = TRUE
    /\ UNCHANGED <<owner, procvars, lost, ctl, ctlflags, ctldone, ctlwcovf, last1wcovf,
                   last2wcovf, xmemblock, cpuvars, mem, cur, snap>>

\* The state after this one, settled at the beginning of TS3: a break only
\* between instructions.
NextState(request) ==
    CASE maj = "WC" -> "CA"
      [] maj = "CA" -> "BRK"
      [] maj \in {"CPU", "BRK"} /\ left = 0 /\ request -> IF ctlflags.threecyc THEN "WC" ELSE "BRK"
      [] OTHER -> "CPU"

\* TS4 to TS1.  The processor starts a cycle in the external memory only when
\* it is not blocked.  A break cycle puts the request down again.
StartCycle ==
    /\ ts = 4 /\ ~ xmemblock
    /\ ts' = 1
    /\ maj' = nextmaj
    /\ \/ /\ nextmaj = "CPU"
          /\ madr' \in CpuCells
          /\ IF maj = "CPU" /\ left > 0 THEN left' = left - 1
             ELSE left' \in 0 .. MaxCycles - 1
       \/ /\ nextmaj # "CPU"
          /\ madr' = CASE nextmaj = "WC"  -> <<0, ctl.offset>>
                       [] nextmaj = "CA"  -> <<0, Plus1(madr[2])>>
                       [] nextmaj = "BRK" -> <<ctl.field, IF maj = "CA" THEN mbuf ELSE ctl.offset>>
          /\ UNCHANGED left
    /\ IF nextmaj = "BRK" /\ busy = 2
       THEN /\ busy' = 3
            /\ brkrqst' = FALSE
            /\ ctldone' = ctl.write
            /\ ctlwcovf' = last2wcovf
       ELSE UNCHANGED <<busy, brkrqst, ctldone, ctlwcovf>>
    /\ snap' = IF nextmaj = "WC" \/ (nextmaj = "BRK" /\ maj # "CA") THEN mem ELSE snap
    /\ UNCHANGED <<owner, procvars, lost, ctl, ctlflags, last1wcovf, last2wcovf,
                   xmemblock, nextmaj, mbuf, wcovf, mem, cur>>

\* TS1 to TS3: the word is read and modified, and the next state settled.  A
\* waiting controller may or may not get its request in before that.
Modify ==
    /\ ts = 1
    /\ ts' = 3
    /\ LET word == mem[madr]
       IN  /\ \/ maj = "CPU" /\ mbuf' \in {word, Plus1(word)} \cup CpuWords
              \/ maj = "WC"  /\ mbuf' = Plus1(word)
              \/ maj = "CA"  /\ mbuf' = IF ctlflags.cainc THEN Plus1(word) ELSE word
              \/ maj = "BRK" /\ mbuf' = IF ctl.write THEN ctl.data ELSE word
           /\ wcovf' = (maj = "WC" /\ word = WordSize - 1)
    /\ \E raise \in {FALSE, ~ NoBrkOpt /\ busy = 1} :
          /\ brkrqst' = (brkrqst \/ raise)
          /\ busy' = IF raise THEN 2 ELSE IF busy = 3 THEN 4 ELSE busy
    /\ nextmaj' = NextState(brkrqst')
    /\ UNCHANGED <<owner, procvars, lost, ctl, ctlflags, ctldone, ctlwcovf, last1wcovf,
                   last2wcovf, xmemblock, maj, left, madr, mem, cur, snap>>

\* Mutant: the shift register is one stage short.
SampleOverflowShort ==
    IF NoBrkOpt THEN UNCHANGED <<last1wcovf, last2wcovf>>
    ELSE last1wcovf' = wcovf /\ last2wcovf' = wcovf

\* The overflow of the cycle before last is kept for the BRK cycle.
SampleOverflow ==
    IF NoBrkOpt THEN UNCHANGED <<last1wcovf, last2wcovf>>
    ELSE last1wcovf' = wcovf /\ last2wcovf' = last1wcovf

\* Mutant: only a write is flagged done, at the start of the break cycle.
EndOfBreakUnflagged ==
    IF busy = 4
    THEN /\ busy' = 0
         /\ ctl' = IF ctl.write THEN ctl ELSE [ctl EXCEPT !.data = mbuf]
         /\ UNCHANGED ctldone
    ELSE UNCHANGED <<busy, ctl, ctldone>>

\* The end of the break cycle is the end of the controller's work.
EndOfBreak ==
    IF busy = 4
    THEN /\ busy' = 0
         /\ ctl' = IF ctl.write THEN ctl ELSE [ctl EXCEPT !.data = mbuf]
         /\ ctldone' = (ctldone \/ ~ ctl.write)
    ELSE UNCHANGED <<busy, ctl, ctldone>>

\* TS3 to TS4: the word is written back.  TS3 is tens of clocks long and the
\* controller needs one of them to see it: a write of register 1 too late for
\* that is one that comes after TS3.
WriteBack ==
    /\ ts = 3
    /\ NoBrkOpt \/ busy # 1
    /\ ts' = 4
    /\ mem' = [mem EXCEPT ![madr] = mbuf]
    /\ wcovf' = FALSE
    /\ SampleOverflow
    /\ EndOfBreak
    /\ UNCHANGED <<owner, procvars, lost, ctlflags, ctlwcovf, brkrqst, xmemblock, maj,
                   nextmaj, left, madr, mbuf, cur, snap>>

-----------------------------------------------------------------------------
(***************************************************************************)
(* The controller without the BREAK option: each action is the run of      *)
(* states that ends with memory having done what its first one asked for.  *)
(***************************************************************************)
directfixed == <<owner, procvars, lost, ctlflags, brkvars, cpuvars, cur>>

\* Mutant: the external memory is taken to be idle.
DirectBeginAtOnce ==
    /\ NoBrkOpt /\ busy = 1
    /\ busy' = IF ctlflags.threecyc THEN 2 ELSE 18
    /\ snap' = mem
    /\ UNCHANGED <<directfixed, ctl, ctldone, ctlwcovf, xmemblock, mem>>

\* State 1.
DirectBegin ==
    /\ NoBrkOpt /\ busy = 1
    /\ ts = 4
    /\ busy' = IF ctlflags.threecyc THEN 2 ELSE 18
    /\ snap' = mem
    /\ UNCHANGED <<directfixed, ctl, ctldone, ctlwcovf, xmemblock, mem>>

\* States 2..9.
DirectWordCount ==
    /\ NoBrkOpt /\ busy = 2
    /\ LET cell == <<0, ctl.offset>>
       IN  /\ mem' = [mem EXCEPT ![cell] = Plus1(@)]
           /\ ctlwcovf' = (mem[cell] = WordSize - 1)
    /\ busy' = 10
    /\ UNCHANGED <<directfixed, ctl, ctldone, xmemblock, snap>>

\* States 10..17.
DirectAddress ==
    /\ NoBrkOpt /\ busy = 10
    /\ LET cell == <<0, Plus1(ctl.offset)>>
           addr == IF ctlflags.cainc THEN Plus1(mem[cell]) ELSE mem[cell]
       IN  /\ mem' = [mem EXCEPT ![cell] = addr]
           /\ ctl' = [ctl EXCEPT !.offset = addr]
    /\ busy' = 18
    /\ UNCHANGED <<directfixed, ctldone, ctlwcovf, xmemblock, snap>>

\* States 18..21.
DirectTransfer ==
    /\ NoBrkOpt /\ busy = 18
    /\ mem' = IF ctl.write THEN [mem EXCEPT ![<<ctl.field, ctl.offset>>] = ctl.data] ELSE mem
    /\ busy' = 22
    /\ UNCHANGED <<directfixed, ctl, ctldone, ctlwcovf, xmemblock, snap>>

\* State 22.
DirectDone ==
    /\ NoBrkOpt /\ busy = 22
    /\ busy' = 0
    /\ ctldone' = TRUE
    /\ ctl' = [ctl EXCEPT !.data = mem[<<ctl.field, ctl.offset>>]]
    /\ xmemblock' = FALSE
    /\ UNCHANGED <<directfixed, ctlwcovf, mem, snap>>

Direct == DirectBegin \/ DirectWordCount \/ DirectAddress \/ DirectTransfer \/ DirectDone

Hardware == RaiseRequest \/ StartCycle \/ Modify \/ WriteBack \/ Direct

Next ==
    \/ \E p \in Procs : Call(p) \/ ProcStep(p) \/ Die(p)
    \/ Hardware

Spec == Init /\ [][Next]_vars

(***************************************************************************)
(* Programs run on, cmlock is fair (CmLock), the processor is running and  *)
(* the fabric's clock ticks; calling and dying are never forced.           *)
(***************************************************************************)
Fairness ==
    /\ \A p \in Procs : SF_vars(Locked(p)) /\ WF_vars(ProcStep(p))
    /\ WF_vars(StartCycle \/ Modify \/ WriteBack)
    /\ WF_vars(RaiseRequest)
    /\ WF_vars(Direct)

FairSpec == Spec /\ Fairness

-----------------------------------------------------------------------------
(***************************************************************************)
(* Properties.                                                             *)
(***************************************************************************)
\* What a request does to memory: the word count goes up, the current address
\* too if so asked, then the word moves.
Target(m, r) ==
    IF r.threecyc THEN <<r.field, m[<<0, Plus1(r.offset)>>]>> ELSE <<r.field, r.offset>>

Counted(m, r) ==
    LET m1 == [m EXCEPT ![<<0, r.offset>>] = Plus1(@)]
    IN  IF ~ r.threecyc THEN m
        ELSE IF r.cainc THEN [m1 EXCEPT ![<<0, Plus1(r.offset)>>] = Plus1(@)] ELSE m1

Effect(m, r) ==
    LET c == Counted(m, r)
    IN  IF r.write THEN [c EXCEPT ![Target(c, r)] = r.data] ELSE c

Overflows(m, r) == r.threecyc /\ m[<<0, r.offset>>] = WordSize - 1

\* An access is under way from the start of its first memory cycle.
Begun ==
    IF NoBrkOpt THEN busy \in {2, 10, 18, 22}
    ELSE busy \in {3, 4} \/ (maj \in {"WC", "CA"})

\* pdp8lcmem.v together with the processor: however many cycles an access
\* takes, memory changes as if it were done in one step between two cycles of
\* the program, and the program's own cycles are never lost or torn.
Memory == INSTANCE AtomicMemory WITH
    memory <- IF Begun THEN snap ELSE mem,
    pending <- busy # 0,
    request <- cur
AtomicMemorySpec == Memory!Spec

\* dmacycle: what the caller gets is the outcome of its own request, whoever
\* else does dma meanwhile and however late it polls.
ResultIsRequests ==
    \A p \in Procs : pc[p] = "unlk" =>
       /\ cur = req[p]
       /\ result[p].wcovf = Overflows(snap, req[p])
       /\ ~ req[p].write =>
             result[p].data = Counted(snap, req[p])[Target(Counted(snap, req[p]), req[p])]

\* dmacycle: the registers are written only when the controller takes them.
NoWriteLost == ~ lost

\* dmaflush: when it returns, every access of the past is in memory.
FlushMeansStored == \A p \in Procs : pc[p] = "funlk" => busy = 0 /\ ~ xmemblock

\* Every call returns, or its process dies.
CallsReturn == \A p \in Procs : (pc[p] # "idle") ~> (pc[p] \in {"idle", "dead"})
=============================================================================
