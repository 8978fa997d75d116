----------------------------- MODULE CmDmaProofs -----------------------------
(***************************************************************************)
(* For any number of processes and any requests: the registers of the DMA  *)
(* controller are written only when it takes them, dmaflush returns only   *)
(* when it is idle, callers get the outcome of their own request, and      *)
(* memory changes as if every access were done in one step.                *)
(***************************************************************************)
EXTENDS CmDma, TLAPS

\* The steps between cmlock and cmunlk, and those at which CMWAIT has seen the
\* controller idle and nothing of this process has started it since.
Locking == {"wait", "flags", "start", "poll", "unlk", "fwait", "funlk"}
SawIdle == {"flags", "start", "funlk"}

\* A process between the two has the lock; the controller it saw idle stays so,
\* for nobody else can start it; the processor is blocked while it works in the
\* external memory, and only then.
IInv ==
    /\ pc \in [Procs -> Steps]
    /\ \A p \in Procs : pc[p] \in Locking => owner = p
    /\ \A p \in Procs : pc[p] \in SawIdle => busy = 0
    /\ NoBrkOpt => busy \in {0, 1, 2, 10, 18, 22}
    /\ ~ NoBrkOpt => busy \in 0 .. 4
    /\ (xmemblock <=> NoBrkOpt /\ busy # 0)
    /\ lost = FALSE
    /\ req \in [Procs -> Request]
    /\ ctlflags \in [threecyc : BOOLEAN, cainc : BOOLEAN, nobrkopt : BOOLEAN]

USE OwnerAssumption DEF Steps, Locking, SawIdle, NoBrkOpt

\* The hardware leaves the processes alone and starts nothing by itself.
LEMMA HardwareKeeps ==
    ASSUME IInv, Hardware
    PROVE  /\ UNCHANGED <<owner, pc, lost, req, ctlflags>>
           /\ busy = 0 => busy' = 0
           /\ NoBrkOpt => busy' \in {0, 1, 2, 10, 18, 22}
           /\ ~ NoBrkOpt => busy' \in 0 .. 4
           /\ (xmemblock' <=> NoBrkOpt /\ busy' # 0)
<1>1. CASE RaiseRequest
  BY <1>1 DEF RaiseRequest, IInv, procvars
<1>2. CASE StartCycle
  BY <1>2 DEF StartCycle, IInv, procvars
<1>3. CASE Modify
  <2>1. UNCHANGED <<owner, pc, lost, req, ctlflags, xmemblock>>
    BY <1>3 DEF Modify, procvars
  <2>2. \/ busy' = IF busy = 3 THEN 4 ELSE busy
        \/ ~ NoBrkOpt /\ busy = 1 /\ busy' = 2
    BY <1>3, Zenon DEF Modify
  <2> QED BY <2>1, <2>2 DEF IInv
<1>4. CASE WriteBack
  <2>1. /\ UNCHANGED <<owner, pc, lost, req, ctlflags, xmemblock>>
        /\ busy' = IF busy = 4 THEN 0 ELSE busy
    BY <1>4 DEF WriteBack, EndOfBreak, procvars
  <2> QED BY <2>1 DEF IInv
<1>5. CASE Direct
  <2>1. UNCHANGED <<owner, pc, lost, req, ctlflags>> /\ NoBrkOpt
    BY <1>5 DEF Direct, DirectBegin, DirectWordCount, DirectAddress, DirectTransfer,
                DirectDone, directfixed, procvars
  <2>2. \/ busy \in {1, 2, 10, 18} /\ busy' \in {2, 10, 18, 22} /\ xmemblock' = xmemblock
        \/ busy = 22 /\ busy' = 0 /\ xmemblock' = FALSE
    <3>1. CASE DirectBegin \/ DirectWordCount
      BY <3>1 DEF DirectBegin, DirectWordCount
    <3>2. CASE DirectAddress \/ DirectTransfer
      BY <3>2 DEF DirectAddress, DirectTransfer
    <3>3. CASE DirectDone
      BY <3>3 DEF DirectDone
    <3> QED BY <1>5, <3>1, <3>2, <3>3 DEF Direct
  <2> QED BY <2>1, <2>2 DEF IInv
<1> QED BY <1>1, <1>2, <1>3, <1>4, <1>5 DEF Hardware

LEMMA InitInv == Init => IInv
<1> SUFFICES ASSUME Init PROVE IInv
  OBVIOUS
<1>1. ctlflags \in [threecyc : BOOLEAN, cainc : BOOLEAN, nobrkopt : BOOLEAN]
  BY DEF Init
<1>2. pc \in [Procs -> Steps] /\ \A p \in Procs : pc[p] = "idle"
  BY DEF Init
<1>4. NoRequest \in Request
  BY SizeAssumption DEF NoRequest, Request, Words
<1>5. req \in [Procs -> Request]
  BY <1>4 DEF Init
<1>3. busy = 0 /\ lost = FALSE /\ xmemblock = FALSE
  BY DEF Init
<1> QED BY <1>1, <1>2, <1>3, <1>5 DEF IInv

LEMMA StepInv == IInv /\ [Next]_vars => IInv'
<1> SUFFICES ASSUME IInv, [Next]_vars PROVE IInv'
  OBVIOUS
<1>1. ASSUME NEW p \in Procs, Call(p) PROVE IInv'
  BY <1>1, RequestAssumption DEF Call, Goto, IInv, ctlvars
<1>2. ASSUME NEW p \in Procs, Locked(p) PROVE IInv'
  BY <1>2 DEF Locked, Lock!Acquire, Goto, IInv, ctlvars
<1>3. ASSUME NEW p \in Procs, WaitIdle(p) PROVE IInv'
  BY <1>3 DEF WaitIdle, Goto, IInv, ctlvars
<1>4. ASSUME NEW p \in Procs, WriteFlags(p) PROVE IInv'
  <2>1. ctlflags' = [ctlflags EXCEPT !.threecyc = req[p].threecyc, !.cainc = req[p].cainc]
    BY <1>4 DEF WriteFlags, IInv
  <2>2. ctlflags' \in [threecyc : BOOLEAN, cainc : BOOLEAN, nobrkopt : BOOLEAN]
    BY <2>1 DEF IInv, Request
  <2>3. NoBrkOpt' = NoBrkOpt
    BY <2>1 DEF IInv
  <2>4. /\ busy = 0 /\ UNCHANGED <<owner, req, busy, xmemblock>> /\ lost' = FALSE
        /\ owner = p /\ pc' = [pc EXCEPT ![p] = "start"]
    BY <1>4 DEF WriteFlags, Goto, IInv
  <2> QED BY <2>2, <2>3, <2>4 DEF IInv
\* The one step that starts the controller: its process has the lock, so no
\* other is at a step where it counts on an idle controller.
<1>5. ASSUME NEW p \in Procs, WriteCtl(p) PROVE IInv'
  <2>1. /\ busy = 0 /\ busy' = 1 /\ xmemblock' = NoBrkOpt /\ lost' = FALSE
        /\ owner' = owner /\ owner = p
        /\ pc' = [pc EXCEPT ![p] = "poll"] /\ pc \in [Procs -> Steps]
    BY <1>5 DEF WriteCtl, Goto, IInv
  <2>2. \A q \in Procs : q # p => pc[q] \notin SawIdle
    BY <2>1 DEF IInv
  <2>3. UNCHANGED <<req, ctlflags>>
    BY <1>5 DEF WriteCtl
  <2> QED BY <2>1, <2>2, <2>3 DEF IInv
<1>6. ASSUME NEW p \in Procs, PollDone(p) PROVE IInv'
  BY <1>6 DEF PollDone, Goto, IInv, ctlvars
<1>7. ASSUME NEW p \in Procs, Unlock(p) PROVE IInv'
  BY <1>7 DEF Unlock, Lock!Leave, Goto, IInv, ctlvars
<1>8. ASSUME NEW p \in Procs, Die(p) PROVE IInv'
  BY <1>8 DEF Die, Lock!Leave, Goto, IInv, ctlvars
<1>9. CASE Hardware
  BY <1>9, HardwareKeeps DEF IInv
<1>10. CASE UNCHANGED vars
  BY <1>10 DEF vars, procvars, ctlvars, IInv
<1> QED BY <1>1, <1>2, <1>3, <1>4, <1>5, <1>6, <1>7, <1>8, <1>9, <1>10 DEF Next, ProcStep

LEMMA Invariance == Spec => []IInv
BY InitInv, StepInv, PTL DEF Spec

\* The registers of the controller are never written while it is busy, when the
\* write would be ignored (dmacycle, pdp8lcmem.v registers 1 and 2).
THEOREM WritesAreTaken == Spec => []NoWriteLost
<1>1. IInv => NoWriteLost
  BY DEF IInv, NoWriteLost
<1> QED BY <1>1, Invariance, PTL

\* When dmaflush has seen the controller idle it stays so until dmaflush
\* returns, and the processor has its memory back.
THEOREM FlushedIsStored == Spec => []FlushMeansStored
<1>1. IInv => FlushMeansStored
  BY DEF IInv, FlushMeansStored
<1> QED BY <1>1, Invariance, PTL

-----------------------------------------------------------------------------
(***************************************************************************)
(* An access is atomic.                                                    *)
(***************************************************************************)
Memories == [Cells -> Words]

DmaTyped ==
    /\ mem \in Memories /\ snap \in Memories
    /\ madr \in Cells /\ mbuf \in Words
    /\ cur \in Request
    /\ ctl \in [write : BOOLEAN, field : Fields, offset : Words, data : Words]
    /\ maj \in {"CPU", "WC", "CA", "BRK"} /\ nextmaj \in {"CPU", "WC", "CA", "BRK"}
    /\ ts \in {1, 3, 4}
    /\ ctlwcovf \in BOOLEAN /\ wcovf \in BOOLEAN /\ ctldone \in BOOLEAN
    /\ last1wcovf \in BOOLEAN /\ last2wcovf \in BOOLEAN /\ brkrqst \in BOOLEAN

\* Memory after the first cycle of a 3-cycle access, and the cells of its words.
First(m, r) == [m EXCEPT ![<<0, r.offset>>] = Plus1(m[<<0, r.offset>>])]
WcCell(r) == <<0, r.offset>>
CaCell(r) == <<0, Plus1(r.offset)>>
NewCa(m, r) == IF r.cainc THEN Plus1(First(m, r)[CaCell(r)]) ELSE First(m, r)[CaCell(r)]
Place(m, r) == Target(Counted(m, r), r)
ReadBack(m, r) == Counted(m, r)[Place(m, r)]
Moved(m, r) == IF r.write THEN r.data ELSE ReadBack(m, r)

LEMMA Plus1Word == \A w \in Words : Plus1(w) \in Words
BY SizeAssumption DEF Plus1, Words

LEMMA AccessCells ==
    ASSUME NEW m \in Memories, NEW r \in Request
    PROVE  /\ WcCell(r) \in Cells /\ CaCell(r) \in Cells
           /\ First(m, r) \in Memories /\ Counted(m, r) \in Memories
           /\ NewCa(m, r) \in Words /\ Place(m, r) \in Cells
           /\ ReadBack(m, r) \in Words /\ Moved(m, r) \in Words
<1>1. r.offset \in Words /\ r.field \in Fields /\ r.data \in Words
  BY DEF Request
<1>2. WcCell(r) \in Cells /\ CaCell(r) \in Cells
  BY <1>1, Plus1Word, SizeAssumption DEF WcCell, CaCell, Cells
<1>3. First(m, r) \in Memories
  BY <1>2, Plus1Word DEF First, Memories, WcCell
<1>4. NewCa(m, r) \in Words
  BY <1>2, <1>3, Plus1Word DEF NewCa, Memories
<1>5. Counted(m, r) \in Memories
  <2>1. CASE r.threecyc /\ r.cainc
    <3>1. Counted(m, r) = [First(m, r) EXCEPT ![CaCell(r)] = Plus1(First(m, r)[CaCell(r)])]
      BY <2>1 DEF Counted, First, CaCell
    <3> QED BY <1>2, <1>3, <3>1, Plus1Word DEF Memories
  <2>2. CASE r.threecyc /\ ~ r.cainc
    BY <1>3, <2>2 DEF Counted, First
  <2>3. CASE ~ r.threecyc
    BY <2>3 DEF Counted
  <2> QED BY <2>1, <2>2, <2>3
<1>6. Place(m, r) \in Cells
  BY <1>1, <1>2, <1>5 DEF Place, Target, Cells, Memories, CaCell
<1>7. ReadBack(m, r) \in Words
  BY <1>5, <1>6 DEF ReadBack, Memories
<1> QED BY <1>1, <1>2, <1>3, <1>4, <1>5, <1>6, <1>7 DEF Moved

\* The cycles of an access, one after the other, have the effect of the access.
LEMMA AccessInCycles ==
    ASSUME NEW m \in Memories, NEW r \in Request
    PROVE  /\ r.threecyc => /\ Counted(m, r) = [First(m, r) EXCEPT ![CaCell(r)] = NewCa(m, r)]
                            /\ Place(m, r) = <<r.field, NewCa(m, r)>>
                            /\ Counted(m, r)[CaCell(r)] = NewCa(m, r)
                            /\ Overflows(m, r) = (m[WcCell(r)] = WordSize - 1)
           /\ ~ r.threecyc => /\ Counted(m, r) = m
                              /\ Place(m, r) = <<r.field, r.offset>>
                              /\ Overflows(m, r) = FALSE
           /\ Effect(m, r) = [Counted(m, r) EXCEPT ![Place(m, r)] = Moved(m, r)]
<1>1. /\ WcCell(r) \in Cells /\ CaCell(r) \in Cells
      /\ First(m, r) \in Memories /\ Counted(m, r) \in Memories /\ Place(m, r) \in Cells
  BY AccessCells
<1>2. ASSUME r.threecyc
      PROVE  Counted(m, r) = [First(m, r) EXCEPT ![CaCell(r)] = NewCa(m, r)]
  <2>1. CASE r.cainc
    BY <1>2, <2>1 DEF Counted, First, CaCell, NewCa
  <2>2. CASE ~ r.cainc
    <3>1. Counted(m, r) = First(m, r) /\ NewCa(m, r) = First(m, r)[CaCell(r)]
      BY <1>2, <2>2 DEF Counted, First, NewCa
    <3> QED BY <1>1, <3>1 DEF Memories
  <2> QED BY <2>1, <2>2
<1>3. r.threecyc => Counted(m, r)[CaCell(r)] = NewCa(m, r)
  BY <1>1, <1>2 DEF Memories
<1>4. r.threecyc => Place(m, r) = <<r.field, NewCa(m, r)>>
  BY <1>3 DEF Place, Target, CaCell
<1>5. ~ r.threecyc => Counted(m, r) = m /\ Place(m, r) = <<r.field, r.offset>>
  BY DEF Counted, Place, Target
<1>6. Effect(m, r) = [Counted(m, r) EXCEPT ![Place(m, r)] = Moved(m, r)]
  <2>1. CASE r.write
    BY <2>1 DEF Effect, Place, Moved
  <2>2. CASE ~ r.write
    <3>1. Effect(m, r) = Counted(m, r)
      BY <2>2 DEF Effect
    <3> QED BY <1>1, <2>2, <3>1 DEF Moved, ReadBack, Memories
  <2> QED BY <2>1, <2>2
<1>7. r.threecyc => Overflows(m, r) = (m[WcCell(r)] = WordSize - 1)
  BY Zenon DEF Overflows, WcCell, Request
<1>8. ~ r.threecyc => Overflows(m, r) = FALSE
  BY Zenon DEF Overflows, Request
<1> QED BY <1>2, <1>3, <1>4, <1>5, <1>6, <1>7, <1>8
\* The processes: the one with the lock has its own request in the controller.
Owners ==
    /\ result \in [Procs -> [data : Words, wcovf : BOOLEAN]]
    /\ \A p \in Procs :
          /\ pc[p] \in {"lock", "wait", "flags", "start", "poll", "unlk"} => req[p] \in Requests
          /\ pc[p] = "start" => /\ ctlflags.threecyc = req[p].threecyc
                                /\ ctlflags.cainc = req[p].cainc
          /\ pc[p] \in {"poll", "unlk"} => cur = req[p]
          /\ pc[p] = "unlk" => /\ ctldone
                               /\ result[p].wcovf = Overflows(snap, cur)
                               /\ ~ cur.write => result[p].data = ReadBack(snap, cur)

\* The registers: what they hold is the request, until the outcome replaces it.
Registers ==
    /\ ctl.write = cur.write /\ ctl.field = cur.field
    /\ busy # 0 => /\ ctlflags.threecyc = cur.threecyc /\ ctlflags.cainc = cur.cainc
                   /\ ctl.data = cur.data
    /\ busy \in {1, 2, 3, 4, 10} => ctl.offset = cur.offset
    /\ (brkrqst <=> ~ NoBrkOpt /\ busy = 2)
    /\ ctldone => /\ busy \in {0, 3, 4}
                  /\ ctlwcovf = Overflows(snap, cur)
                  /\ ~ cur.write => busy = 0 /\ ctl.data = ReadBack(snap, cur)

\* A cycle of the program: no access is under way, and none goes on past it
\* but with the cycle it begins with.
CpuCycle ==
    maj = "CPU" =>
       /\ ~ NoBrkOpt => busy \in {0, 1, 2}
       /\ nextmaj # "CPU" => /\ ~ NoBrkOpt /\ ts # 1 /\ busy = 2
                             /\ nextmaj = IF cur.threecyc THEN "WC" ELSE "BRK"
       /\ ts \in {1, 3} => madr \in CpuCells
       /\ ts = 3 => mbuf \in {mem[madr], Plus1(mem[madr])} \cup CpuWords
       /\ last2wcovf = FALSE /\ last1wcovf = FALSE /\ wcovf = FALSE

WcCycle ==
    maj = "WC" =>
       /\ ~ NoBrkOpt /\ busy = 2 /\ cur.threecyc
       /\ nextmaj = IF ts = 1 THEN "WC" ELSE "CA"
       /\ madr = WcCell(cur)
       /\ mem = IF ts = 4 THEN First(snap, cur) ELSE snap
       /\ ts = 3 => mbuf = Plus1(snap[WcCell(cur)]) /\ wcovf = Overflows(snap, cur)
       /\ ts # 3 => wcovf = FALSE
       /\ ts = 4 => last1wcovf = Overflows(snap, cur)

CaCycle ==
    maj = "CA" =>
       /\ ~ NoBrkOpt /\ busy = 2 /\ cur.threecyc
       /\ nextmaj = IF ts = 1 THEN "CA" ELSE "BRK"
       /\ madr = CaCell(cur)
       /\ mem = IF ts = 4 THEN Counted(snap, cur) ELSE First(snap, cur)
       /\ ts # 1 => mbuf = NewCa(snap, cur)
       /\ ts # 4 => last1wcovf = Overflows(snap, cur)
       /\ ts = 4 => last2wcovf = Overflows(snap, cur) /\ last1wcovf = FALSE
       /\ wcovf = FALSE

BrkCycle ==
    maj = "BRK" =>
       /\ ~ NoBrkOpt
       /\ busy \in (CASE ts = 1 -> {3} [] ts = 3 -> {4} [] ts = 4 -> {0, 1})
       /\ nextmaj = IF ts = 1 THEN "BRK" ELSE "CPU"
       /\ ts # 4 => /\ madr = Place(snap, cur) /\ mem = Counted(snap, cur)
                    /\ ctlwcovf = Overflows(snap, cur)
       /\ ts = 3 => mbuf = Moved(snap, cur)
       /\ last1wcovf = FALSE /\ wcovf = FALSE
       /\ ts = 4 => last2wcovf = FALSE

\* Without the BREAK option the processor stands between two cycles from the
\* first word on.
DirectAccess ==
    NoBrkOpt =>
       /\ maj = "CPU" /\ nextmaj = "CPU"
       /\ busy \notin {0, 1} => ts = 4
       /\ busy = 1 => ctlwcovf = FALSE
       /\ busy \in {2, 10} => cur.threecyc
       /\ busy = 2 => mem = snap
       /\ busy = 10 => mem = First(snap, cur)
       /\ busy = 18 => mem = Counted(snap, cur)
       /\ busy = 22 => mem = Effect(snap, cur)
       /\ busy \in {18, 22} => <<ctl.field, ctl.offset>> = Place(snap, cur)
       /\ busy \in {10, 18, 22} => ctlwcovf = Overflows(snap, cur)

\* The inductive invariant.
AInv == /\ IInv /\ DmaTyped /\ Owners /\ Registers
        /\ CpuCycle /\ WcCycle /\ CaCycle /\ BrkCycle /\ DirectAccess

\* The steps of a process that leave controller, processor and memory alone.
Aside(p) == Call(p) \/ Locked(p) \/ WaitIdle(p) \/ PollDone(p) \/ Unlock(p) \/ Die(p)

LEMMA AsideKeeps ==
    ASSUME NEW p \in Procs, Aside(p)
    PROVE  UNCHANGED <<ctlvars, cpuvars, mem, cur, snap>>
BY DEF Aside, Call, Locked, WaitIdle, PollDone, Unlock, Die

\* A process finds the controller idle when it starts it.
LEMMA Starting ==
    ASSUME IInv, NEW p \in Procs, WriteCtl(p)
    PROVE  /\ busy = 0 /\ busy' = 1 /\ ctldone' = FALSE /\ ctlwcovf' = FALSE
           /\ ctl' = [write |-> req[p].write, field |-> req[p].field,
                      offset |-> req[p].offset, data |-> req[p].data]
           /\ cur' = req[p] /\ req[p] \in Request
           /\ pc[p] = "start" /\ owner = p /\ pc' = [pc EXCEPT ![p] = "poll"]
           /\ UNCHANGED <<owner, req, result, ctlflags, brkvars, cpuvars, mem, snap>>
<1>1. pc[p] = "start" /\ busy = 0 /\ owner = p
  BY DEF WriteCtl, IInv
<1>2. UNCHANGED <<owner, req, result, ctlflags, brkvars, cpuvars, mem, snap>>
  BY DEF WriteCtl
<1>3. req[p] \in Request
  BY DEF IInv
<1>4. /\ busy' = 1 /\ cur' = req[p]
      /\ ctl' = [write |-> req[p].write, field |-> req[p].field,
                 offset |-> req[p].offset, data |-> req[p].data]
  BY <1>1 DEF WriteCtl
<1>5. ctldone' = FALSE /\ ctlwcovf' = FALSE
  BY <1>1 DEF WriteCtl
<1>6. pc' = [pc EXCEPT ![p] = "poll"]
  BY DEF WriteCtl, Goto
<1> QED BY <1>1, <1>2, <1>3, <1>4, <1>5, <1>6

LEMMA TypedStep == IInv /\ DmaTyped /\ [Next]_vars => DmaTyped'
<1> SUFFICES ASSUME IInv, DmaTyped, [Next]_vars PROVE DmaTyped'
  OBVIOUS
<1>0. ASSUME UNCHANGED <<ctlvars, cpuvars, mem, cur, snap>> PROVE DmaTyped'
  BY <1>0 DEF ctlvars, brkvars, cpuvars, DmaTyped
<1>1. ASSUME NEW p \in Procs, Aside(p) PROVE DmaTyped'
  BY <1>0, <1>1, AsideKeeps
<1>2. ASSUME NEW p \in Procs, WriteFlags(p) PROVE DmaTyped'
  BY <1>2 DEF WriteFlags, brkvars, cpuvars, DmaTyped
<1>3. ASSUME NEW p \in Procs, WriteCtl(p) PROVE DmaTyped'
  <2>1. ctl' \in [write : BOOLEAN, field : Fields, offset : Words, data : Words]
    <3>1. req[p] \in Request
      BY <1>3, Starting
    <3>2. /\ req[p].field \in Fields /\ req[p].offset \in Words /\ req[p].data \in Words
          /\ req[p].write \in BOOLEAN
      BY <3>1 DEF Request
    <3>3. ctl' = [write |-> req[p].write, field |-> req[p].field,
                  offset |-> req[p].offset, data |-> req[p].data]
      BY <1>3, Starting
    <3> HIDE <3>1
    <3> QED BY <3>2, <3>3
  <2> QED BY <1>3, <2>1, Starting DEF brkvars, cpuvars, DmaTyped
<1>4. CASE RaiseRequest
  BY <1>4 DEF RaiseRequest, cpuvars, DmaTyped
<1>5. CASE StartCycle
  <2>1. UNCHANGED <<ctl, last1wcovf, last2wcovf, nextmaj, mbuf, wcovf, mem, cur>>
    BY <1>5 DEF StartCycle
  <2>2. snap' \in Memories /\ maj' \in {"CPU", "WC", "CA", "BRK"} /\ ts' \in {1, 3, 4}
    BY <1>5 DEF StartCycle, DmaTyped
  <2>3. brkrqst' \in BOOLEAN /\ ctldone' \in BOOLEAN /\ ctlwcovf' \in BOOLEAN
    BY <1>5, Zenon DEF StartCycle, DmaTyped
  <2>4. madr' \in Cells
    <3>1. ctl.field \in Fields /\ ctl.offset \in Words /\ 0 \in Fields /\ mbuf \in Words
      BY SizeAssumption DEF DmaTyped
    <3>2. Plus1(madr[2]) \in Words
      BY Plus1Word DEF DmaTyped, Cells
    <3> QED BY <1>5, <3>1, <3>2, CpuAssumption DEF StartCycle, DmaTyped, Cells
  <2> QED BY <2>1, <2>2, <2>3, <2>4 DEF DmaTyped
<1>6. CASE Modify
  <2>1. UNCHANGED <<ctl, ctldone, ctlwcovf, last1wcovf, last2wcovf, maj, madr, mem, cur, snap>>
    BY <1>6 DEF Modify
  <2>2. ts' = 3 /\ wcovf' \in BOOLEAN
    BY <1>6 DEF Modify
  <2>3. brkrqst' \in BOOLEAN
    BY <1>6, Zenon DEF Modify, DmaTyped
  <2>4. nextmaj' \in {"CPU", "WC", "CA", "BRK"}
    BY <1>6 DEF Modify, NextState
  <2>5. mem[madr] \in Words /\ ctl.data \in Words
    BY DEF DmaTyped, Memories
  <2>6. Plus1(mem[madr]) \in Words
    BY <2>5, Plus1Word
  <2>7. mbuf' \in Words
    BY <1>6, <2>5, <2>6, CpuAssumption DEF Modify
  <2> QED BY <2>1, <2>2, <2>3, <2>4, <2>7 DEF DmaTyped
<1>7. CASE WriteBack
  <2>1. UNCHANGED <<ctlwcovf, brkrqst, maj, nextmaj, madr, mbuf, cur, snap>> /\ ts' = 4
    BY <1>7 DEF WriteBack
  <2>2. mem' \in Memories
    BY <1>7 DEF WriteBack, DmaTyped, Memories
  <2>3. last1wcovf' \in BOOLEAN /\ last2wcovf' \in BOOLEAN /\ wcovf' \in BOOLEAN
    BY <1>7, Zenon DEF WriteBack, SampleOverflow, DmaTyped
  <2>4. ctl' \in [write : BOOLEAN, field : Fields, offset : Words, data : Words]
    BY <1>7 DEF WriteBack, EndOfBreak, DmaTyped
  <2>5. ctldone' \in BOOLEAN
    BY <1>7, Zenon DEF WriteBack, EndOfBreak, DmaTyped
  <2> QED BY <2>1, <2>2, <2>3, <2>4, <2>5 DEF DmaTyped
<1>8. CASE Direct
  <2>0. UNCHANGED <<brkvars, cpuvars, cur>>
    BY <1>8 DEF Direct, DirectBegin, DirectWordCount, DirectAddress, DirectTransfer,
                DirectDone, directfixed
  <2>c. /\ <<0, ctl.offset>> \in Cells /\ <<0, Plus1(ctl.offset)>> \in Cells
        /\ <<ctl.field, ctl.offset>> \in Cells /\ ctl.data \in Words
    BY SizeAssumption, Plus1Word DEF DmaTyped, Cells
  <2>w. \A c \in Cells : mem[c] \in Words /\ Plus1(mem[c]) \in Words
    BY Plus1Word DEF DmaTyped, Memories
  <2>1. CASE DirectBegin
    BY <2>0, <2>1 DEF DirectBegin, brkvars, cpuvars, DmaTyped
  <2>2. CASE DirectWordCount
    <3>1. mem' \in Memories
      BY <2>2, <2>w, <2>c DEF DirectWordCount, DmaTyped, Memories
    <3>2. ctlwcovf' \in BOOLEAN
      BY <2>2 DEF DirectWordCount
    <3> QED BY <2>0, <2>2, <3>1, <3>2 DEF DirectWordCount, brkvars, cpuvars, DmaTyped
  <2>3. CASE DirectAddress
    <3> DEFINE cell == <<0, Plus1(ctl.offset)>>
               addr == IF ctlflags.cainc THEN Plus1(mem[cell]) ELSE mem[cell]
    <3>1. mem' = [mem EXCEPT ![cell] = addr] /\ ctl' = [ctl EXCEPT !.offset = addr]
      BY <2>3 DEF DirectAddress
    <3>2. addr \in Words
      BY <2>c, <2>w
    <3> HIDE DEF addr, cell
    <3>3. mem' \in Memories
      BY <3>1, <3>2 DEF DmaTyped, Memories
    <3>4. ctl' \in [write : BOOLEAN, field : Fields, offset : Words, data : Words]
      BY <3>1, <3>2 DEF DmaTyped
    <3> QED BY <2>0, <2>3, <3>3, <3>4 DEF DirectAddress, brkvars, cpuvars, DmaTyped
  <2>4. CASE DirectTransfer
    <3>1. mem' \in Memories
      BY <2>4, <2>c DEF DirectTransfer, DmaTyped, Memories
    <3> QED BY <2>0, <2>4, <3>1 DEF DirectTransfer, brkvars, cpuvars, DmaTyped
  <2>5. CASE DirectDone
    <3>1. ctl' \in [write : BOOLEAN, field : Fields, offset : Words, data : Words]
      BY <2>5, <2>c, <2>w DEF DirectDone, DmaTyped
    <3> QED BY <2>0, <2>5, <3>1 DEF DirectDone, brkvars, cpuvars, DmaTyped
  <2> QED BY <1>8, <2>1, <2>2, <2>3, <2>4, <2>5 DEF Direct
<1>9. CASE UNCHANGED vars
  BY <1>0, <1>9 DEF vars
<1> QED BY <1>1, <1>2, <1>3, <1>4, <1>5, <1>6, <1>7, <1>8, <1>9
        DEF Next, ProcStep, Aside, Hardware

\* AInv but for IInv, the types and the processes.
Accesses == Registers /\ CpuCycle /\ WcCycle /\ CaCycle /\ BrkCycle /\ DirectAccess

LEMMA AsideInv ==
    ASSUME AInv, NEW p \in Procs, Aside(p)
    PROVE  Owners' /\ Accesses'
<1>0. UNCHANGED <<ctlvars, cpuvars, mem, cur, snap>>
  BY AsideKeeps
<1>1. /\ UNCHANGED <<busy, ctl, ctlflags, ctldone, ctlwcovf, brkrqst, last1wcovf, last2wcovf>>
      /\ UNCHANGED <<maj, nextmaj, ts, madr, mbuf, wcovf, mem, cur, snap>>
  BY <1>0 DEF ctlvars, brkvars, cpuvars
<1>2. Accesses'
  <2>1. Registers'
    BY <1>1 DEF AInv, Registers
  <2>2. CpuCycle'
    BY <1>1 DEF AInv, CpuCycle
  <2>3. WcCycle' /\ CaCycle'
    BY <1>1 DEF AInv, WcCycle, CaCycle
  <2>4. BrkCycle'
    BY <1>1 DEF AInv, BrkCycle
  <2>5. DirectAccess'
    BY <1>1 DEF AInv, DirectAccess
  <2> QED BY <2>1, <2>2, <2>3, <2>4, <2>5 DEF Accesses
<1>3. Owners'
  <2>0. pc \in [Procs -> Steps] /\ req \in [Procs -> Request]
    BY DEF AInv, IInv
  <2>1. CASE Call(p)
    BY <1>1, <2>0, <2>1 DEF Call, Goto, AInv, Owners
  <2>2. CASE Locked(p)
    BY <1>1, <2>0, <2>2 DEF Locked, Goto, AInv, Owners
  <2>3. CASE WaitIdle(p)
    BY <1>1, <2>0, <2>3 DEF WaitIdle, Goto, AInv, Owners
  <2>4. CASE PollDone(p)
    <3>1. /\ pc[p] = "poll" /\ pc' = [pc EXCEPT ![p] = "unlk"] /\ req' = req /\ ctldone
          /\ result' = [result EXCEPT ![p] = [data |-> ctl.data, wcovf |-> ctlwcovf]]
      BY <2>4 DEF PollDone, Goto
    <3>2. result \in [Procs -> [data : Words, wcovf : BOOLEAN]]
      BY DEF AInv, Owners
    <3>3. ctl.data \in Words /\ ctlwcovf \in BOOLEAN
      BY DEF AInv, DmaTyped
    <3>4. result' \in [Procs -> [data : Words, wcovf : BOOLEAN]]
      BY <3>1, <3>2, <3>3
    <3>5. result'[p] = [data |-> ctl.data, wcovf |-> ctlwcovf]
      BY <3>1, <3>2
    <3>6. result'[p].data = ctl.data /\ result'[p].wcovf = ctlwcovf
      BY <3>5
    <3>7. /\ cur = req[p]
          /\ result'[p].wcovf = Overflows(snap, cur)
          /\ ~ cur.write => result'[p].data = ReadBack(snap, cur)
      BY <3>1, <3>6 DEF AInv, Owners, Registers
    <3>8. \A q \in Procs : q # p => pc'[q] = pc[q] /\ result'[q] = result[q]
      BY <2>0, <3>1, <3>2
    <3>9. pc'[p] = "unlk" /\ req[p] \in Requests
      BY <2>0, <3>1 DEF AInv, Owners
    <3>10. ASSUME NEW q \in Procs, q # p
           PROVE  /\ pc'[q] \in {"lock", "wait", "flags", "start", "poll", "unlk"} => req[q] \in Requests
                  /\ pc'[q] = "start" => /\ ctlflags.threecyc = req[q].threecyc
                                         /\ ctlflags.cainc = req[q].cainc
                  /\ pc'[q] \in {"poll", "unlk"} => cur = req[q]
                  /\ pc'[q] = "unlk" => /\ ctldone
                                        /\ result'[q].wcovf = Overflows(snap, cur)
                                        /\ ~ cur.write => result'[q].data = ReadBack(snap, cur)
      BY <3>8, <3>10 DEF AInv, Owners
    <3> QED BY <1>1, <3>1, <3>4, <3>7, <3>9, <3>10 DEF Owners
  <2>5. CASE Unlock(p)
    BY <1>1, <2>0, <2>5 DEF Unlock, Goto, AInv, Owners
  <2>6. CASE Die(p)
    BY <1>1, <2>0, <2>6 DEF Die, Goto, AInv, Owners
  <2> QED BY <2>1, <2>2, <2>3, <2>4, <2>5, <2>6 DEF Aside
<1> QED BY <1>2, <1>3

LEMMA FlagsInv ==
    ASSUME AInv, NEW p \in Procs, WriteFlags(p)
    PROVE  Owners' /\ Accesses'
<1>1. /\ UNCHANGED <<busy, ctl, ctldone, ctlwcovf, brkrqst, last1wcovf, last2wcovf>>
      /\ UNCHANGED <<maj, nextmaj, ts, madr, mbuf, wcovf, mem, cur, snap>>
  BY DEF WriteFlags, brkvars, cpuvars
<1>2. pc[p] = "flags" /\ busy = 0 /\ owner = p
  BY DEF WriteFlags, AInv, IInv
<1>3. /\ pc' = [pc EXCEPT ![p] = "start"] /\ UNCHANGED <<req, result>>
      /\ ctlflags' = [ctlflags EXCEPT !.threecyc = req[p].threecyc, !.cainc = req[p].cainc]
  BY <1>2 DEF WriteFlags, Goto
<1>4. /\ ctlflags'.threecyc = req[p].threecyc /\ ctlflags'.cainc = req[p].cainc
      /\ NoBrkOpt' = NoBrkOpt
  BY <1>3 DEF AInv, IInv
<1>5. Accesses'
  <2>1. Registers'
    BY <1>1, <1>2, <1>4 DEF AInv, Registers
  <2>2. CpuCycle'
    BY <1>1, <1>4 DEF AInv, CpuCycle
  <2>3. WcCycle' /\ CaCycle'
    BY <1>1, <1>4 DEF AInv, WcCycle, CaCycle
  <2>4. BrkCycle'
    BY <1>1, <1>4 DEF AInv, BrkCycle
  <2>5. DirectAccess'
    BY <1>1, <1>4 DEF AInv, DirectAccess
  <2> QED BY <2>1, <2>2, <2>3, <2>4, <2>5 DEF Accesses
<1>6. Owners'
  <2>1. \A q \in Procs : q # p => pc[q] # "start" /\ pc'[q] = pc[q]
    BY <1>2, <1>3 DEF AInv, IInv
  <2>2. pc'[p] = "start" /\ req[p] \in Requests
    BY <1>2, <1>3 DEF AInv, IInv, Owners
  <2> QED BY <1>1, <1>3, <1>4, <2>1, <2>2 DEF AInv, Owners
<1> QED BY <1>5, <1>6

LEMMA CtlInv ==
    ASSUME AInv, NEW p \in Procs, WriteCtl(p)
    PROVE  Owners' /\ Accesses'
<1>1. /\ busy = 0 /\ busy' = 1 /\ ctldone' = FALSE /\ ctlwcovf' = FALSE
      /\ cur' = req[p] /\ req[p] \in Request
      /\ pc[p] = "start" /\ owner = p /\ pc' = [pc EXCEPT ![p] = "poll"]
      /\ UNCHANGED <<owner, req, result, ctlflags, mem, snap>>
  BY Starting DEF AInv
<1>2. UNCHANGED <<brkrqst, last1wcovf, last2wcovf, maj, nextmaj, ts, madr, mbuf, wcovf>>
  BY Starting DEF AInv, brkvars, cpuvars
<1>3. /\ ctl'.write = req[p].write /\ ctl'.field = req[p].field
      /\ ctl'.offset = req[p].offset /\ ctl'.data = req[p].data
  <2>1. ctl' = [write |-> req[p].write, field |-> req[p].field,
                offset |-> req[p].offset, data |-> req[p].data]
    BY Starting DEF AInv
  <2> QED BY <2>1
<1>4. NoBrkOpt' = NoBrkOpt
  BY <1>1
<1>5. Accesses'
  <2>1. Registers'
    <3>1. ctlflags.threecyc = req[p].threecyc /\ ctlflags.cainc = req[p].cainc
      BY <1>1 DEF AInv, Owners
    <3>2. brkrqst = FALSE
      BY <1>1 DEF AInv, Registers, DmaTyped
    <3> QED BY <1>1, <1>2, <1>3, <3>1, <3>2 DEF Registers
  <2>2. CpuCycle'
    BY <1>1, <1>2, <1>4 DEF AInv, CpuCycle
  <2>3. WcCycle' /\ CaCycle'
    BY <1>1, <1>2, <1>4 DEF AInv, WcCycle, CaCycle
  <2>4. BrkCycle'
    <3>1. maj = "BRK" => ts = 4
      BY <1>1 DEF AInv, BrkCycle, DmaTyped
    <3> QED BY <1>1, <1>2, <1>4, <3>1 DEF AInv, BrkCycle
  <2>5. DirectAccess'
    BY <1>1, <1>2, <1>4 DEF AInv, DirectAccess
  <2> QED BY <2>1, <2>2, <2>3, <2>4, <2>5 DEF Accesses
<1>6. Owners'
  <2>1. \A q \in Procs : q # p => /\ pc[q] \notin {"start", "poll", "unlk"}
                                  /\ pc'[q] = pc[q]
    BY <1>1 DEF AInv, IInv
  <2>2. pc'[p] = "poll" /\ req[p] \in Requests
    BY <1>1 DEF AInv, IInv, Owners
  <2> QED BY <1>1, <2>1, <2>2 DEF AInv, Owners
<1> QED BY <1>5, <1>6

LEMMA RaiseInv ==
    ASSUME AInv, RaiseRequest
    PROVE  Owners' /\ Accesses'
<1>1. /\ busy = 1 /\ ts = 3 /\ busy' = 2 /\ brkrqst' = TRUE /\ ~ NoBrkOpt
      /\ UNCHANGED <<pc, req, result, ctl, ctlflags, ctldone, ctlwcovf, last1wcovf, last2wcovf>>
      /\ UNCHANGED <<maj, nextmaj, ts, madr, mbuf, wcovf, mem, cur, snap>>
  BY DEF RaiseRequest, procvars, cpuvars
<1>2. maj = "CPU"
  BY <1>1 DEF AInv, WcCycle, CaCycle, BrkCycle, DmaTyped
<1>3. Accesses'
  <2>1. Registers'
    BY <1>1 DEF AInv, Registers
  <2>2. CpuCycle'
    BY <1>1, <1>2 DEF AInv, CpuCycle
  <2>3. WcCycle' /\ CaCycle' /\ BrkCycle' /\ DirectAccess'
    BY <1>1, <1>2 DEF WcCycle, CaCycle, BrkCycle, DirectAccess
  <2> QED BY <2>1, <2>2, <2>3 DEF Accesses
<1>4. Owners'
  BY <1>1 DEF AInv, Owners
<1> QED BY <1>3, <1>4

LEMMA StartInv ==
    ASSUME AInv, StartCycle
    PROVE  Owners' /\ Accesses'
<1>1. /\ ts = 4 /\ ts' = 1 /\ maj' = nextmaj
      /\ UNCHANGED <<pc, req, result, ctl, ctlflags, last1wcovf, last2wcovf>>
      /\ UNCHANGED <<nextmaj, mbuf, wcovf, mem, cur>>
  BY DEF StartCycle, procvars
<1>2. /\ NoBrkOpt' = NoBrkOpt
      /\ NoBrkOpt => busy = 0
  BY <1>1 DEF StartCycle, AInv, IInv
<1>t. DmaTyped
  BY DEF AInv
\* The program's next cycle: the controller is left alone.
<1>3. CASE nextmaj = "CPU"
  <2>1. madr' \in CpuCells /\ UNCHANGED <<busy, brkrqst, ctldone, ctlwcovf, snap>>
    BY <1>3 DEF StartCycle
  <2>2. maj \in {"CPU", "BRK"}
    BY <1>1, <1>3, <1>t DEF AInv, WcCycle, CaCycle, DmaTyped
  <2>3. /\ ~ NoBrkOpt => busy \in {0, 1, 2}
        /\ last2wcovf = FALSE /\ last1wcovf = FALSE /\ wcovf = FALSE
    BY <1>1, <2>2 DEF AInv, CpuCycle, BrkCycle
  <2>4. Registers'
    BY <1>1, <1>2, <2>1 DEF AInv, Registers
  <2>5. CpuCycle'
    BY <1>1, <1>2, <1>3, <2>1, <2>3 DEF CpuCycle
  <2>6. WcCycle' /\ CaCycle' /\ BrkCycle'
    BY <1>1, <1>3 DEF WcCycle, CaCycle, BrkCycle
  <2>7. DirectAccess'
    BY <1>1, <1>2, <1>3, <2>1 DEF AInv, DirectAccess
  <2>8. Owners'
    BY <1>1, <2>1 DEF AInv, Owners
  <2> QED BY <2>4, <2>5, <2>6, <2>7, <2>8 DEF Accesses
\* The first cycle of a 3-cycle access: memory is from here on the controller's.
<1>4. CASE nextmaj = "WC"
  <2>1. snap' = mem /\ UNCHANGED <<busy, brkrqst, ctldone, ctlwcovf>>
    BY <1>4 DEF StartCycle
  <2>2. madr' = <<0, ctl.offset>>
    BY <1>4, Zenon DEF StartCycle
  <2>3. maj = "CPU"
    BY <1>1, <1>4, <1>t DEF AInv, WcCycle, CaCycle, BrkCycle, DmaTyped
  <2>4. ~ NoBrkOpt /\ busy = 2 /\ cur.threecyc /\ last1wcovf = FALSE /\ wcovf = FALSE
    BY <1>1, <1>4, <2>3 DEF AInv, CpuCycle
  <2>5. ~ ctldone /\ madr' = WcCell(cur)
    BY <2>2, <2>4 DEF AInv, Registers, WcCell
  <2>6. Registers'
    BY <1>1, <1>2, <2>1, <2>4, <2>5 DEF AInv, Registers
  <2>7. WcCycle'
    BY <1>1, <1>2, <1>4, <2>1, <2>4, <2>5 DEF WcCycle
  <2>8. CpuCycle' /\ CaCycle' /\ BrkCycle' /\ DirectAccess'
    BY <1>1, <1>2, <1>4, <2>4 DEF CpuCycle, CaCycle, BrkCycle, DirectAccess
  <2>9. Owners'
    BY <1>1, <2>1, <2>5 DEF AInv, Owners
  <2> QED BY <2>6, <2>7, <2>8, <2>9 DEF Accesses
<1>5. CASE nextmaj = "CA"
  <2>1. UNCHANGED <<busy, brkrqst, ctldone, ctlwcovf, snap>>
    BY <1>5 DEF StartCycle
  <2>2. madr' = <<0, Plus1(madr[2])>>
    BY <1>5, Zenon DEF StartCycle
  <2>3. maj = "WC"
    BY <1>1, <1>5, <1>t DEF AInv, CpuCycle, CaCycle, BrkCycle, DmaTyped
  <2>4. /\ ~ NoBrkOpt /\ busy = 2 /\ cur.threecyc /\ madr = WcCell(cur)
        /\ mem = First(snap, cur) /\ last1wcovf = Overflows(snap, cur) /\ wcovf = FALSE
    BY <1>1, <2>3 DEF AInv, WcCycle
  <2>5. madr' = CaCell(cur)
    BY <2>2, <2>4 DEF CaCell, WcCell
  <2>6. Registers'
    BY <1>1, <1>2, <2>1 DEF AInv, Registers
  <2>7. CaCycle'
    BY <1>1, <1>2, <1>5, <2>1, <2>4, <2>5 DEF CaCycle
  <2>8. CpuCycle' /\ WcCycle' /\ BrkCycle' /\ DirectAccess'
    BY <1>1, <1>2, <1>5, <2>4 DEF CpuCycle, WcCycle, BrkCycle, DirectAccess
  <2>9. Owners'
    BY <1>1, <2>1 DEF AInv, Owners
  <2> QED BY <2>6, <2>7, <2>8, <2>9 DEF Accesses
\* The cycle of the word itself, after that of the address or as the only one.
<1>6. CASE nextmaj = "BRK"
  <2>1. maj \in {"CPU", "CA"}
    BY <1>1, <1>6, <1>t DEF AInv, WcCycle, BrkCycle, DmaTyped
  <2>2. ~ NoBrkOpt /\ busy = 2
    BY <1>1, <1>6, <2>1 DEF AInv, CpuCycle, CaCycle
  <2>3. /\ busy' = 3 /\ brkrqst' = FALSE /\ ctldone' = ctl.write /\ ctlwcovf' = last2wcovf
    BY <1>6, <2>2 DEF StartCycle
  <2>4. /\ snap' = IF maj = "CA" THEN snap ELSE mem
        /\ madr' = <<ctl.field, IF maj = "CA" THEN mbuf ELSE ctl.offset>>
    <3>1. snap' = IF maj = "CA" THEN snap ELSE mem
      BY <1>6 DEF StartCycle
    <3>2. madr' = <<ctl.field, IF maj = "CA" THEN mbuf ELSE ctl.offset>>
      BY <1>6, Zenon DEF StartCycle
    <3> QED BY <3>1, <3>2
  <2>5. /\ ~ ctldone /\ ctl.offset = cur.offset /\ ctl.field = cur.field
        /\ ctl.write = cur.write /\ ctl.data = cur.data
        /\ ctlflags.threecyc = cur.threecyc /\ ctlflags.cainc = cur.cainc
    BY <2>2 DEF AInv, Registers
  <2>6. /\ madr' = Place(snap', cur) /\ mem = Counted(snap', cur)
        /\ last2wcovf = Overflows(snap', cur) /\ last1wcovf = FALSE /\ wcovf = FALSE
    <3>0. mem \in Memories /\ snap \in Memories /\ cur \in Request
      BY <1>t DEF DmaTyped
    <3>1. CASE maj = "CA"
      <4>1. /\ cur.threecyc /\ mem = Counted(snap, cur) /\ mbuf = NewCa(snap, cur)
            /\ last2wcovf = Overflows(snap, cur) /\ last1wcovf = FALSE /\ wcovf = FALSE
        BY <1>1, <3>1 DEF AInv, CaCycle
      <4>2. Place(snap, cur) = <<cur.field, NewCa(snap, cur)>>
        BY <3>0, <4>1, AccessInCycles
      <4> QED BY <2>4, <2>5, <3>1, <4>1, <4>2
    <3>2. CASE maj = "CPU"
      <4>1. ~ cur.threecyc /\ last2wcovf = FALSE /\ last1wcovf = FALSE /\ wcovf = FALSE
        BY <1>1, <1>6, <3>2 DEF AInv, CpuCycle
      <4>2. /\ Place(mem, cur) = <<cur.field, cur.offset>> /\ Counted(mem, cur) = mem
            /\ Overflows(mem, cur) = FALSE
        BY <3>0, <4>1, AccessInCycles
      <4> QED BY <2>4, <2>5, <3>2, <4>1, <4>2
    <3> QED BY <2>1, <3>1, <3>2
  <2>7. Registers'
    BY <1>1, <1>2, <2>2, <2>3, <2>5, <2>6 DEF Registers
  <2>8. BrkCycle'
    BY <1>1, <1>2, <1>6, <2>2, <2>3, <2>6 DEF BrkCycle
  <2>9. CpuCycle' /\ WcCycle' /\ CaCycle' /\ DirectAccess'
    BY <1>1, <1>2, <1>6, <2>2 DEF CpuCycle, WcCycle, CaCycle, DirectAccess
  <2>10. Owners'
    BY <1>1, <2>5 DEF AInv, Owners
  <2> QED BY <2>7, <2>8, <2>9, <2>10 DEF Accesses
<1> QED BY <1>3, <1>4, <1>5, <1>6, <1>t DEF DmaTyped

LEMMA ModifyInv ==
    ASSUME AInv, Modify
    PROVE  Owners' /\ Accesses'
<1>1. /\ ts = 1 /\ ts' = 3
      /\ UNCHANGED <<pc, req, result, ctl, ctlflags, ctldone, ctlwcovf, last1wcovf, last2wcovf>>
      /\ UNCHANGED <<maj, madr, mem, cur, snap>>
  BY DEF Modify, procvars
<1>t. DmaTyped
  BY DEF AInv
<1>2. PICK raise \in {FALSE, ~ NoBrkOpt /\ busy = 1} :
         /\ (brkrqst' <=> brkrqst \/ raise)
         /\ busy' = IF raise THEN 2 ELSE IF busy = 3 THEN 4 ELSE busy
  BY Zenon DEF Modify
<1>3. /\ nextmaj' = NextState(brkrqst')
      /\ (wcovf' <=> maj = "WC" /\ mem[madr] = WordSize - 1)
  BY DEF Modify
<1>n. NoBrkOpt' = NoBrkOpt
  BY <1>1
<1>4. raise => ~ NoBrkOpt /\ busy = 1 /\ busy' = 2
  BY <1>2
<1>5. ~ raise => busy' = IF busy = 3 THEN 4 ELSE busy
  BY <1>2
<1>6. brkrqst' <=> ~ NoBrkOpt /\ busy' = 2
  <2>1. brkrqst <=> ~ NoBrkOpt /\ busy = 2
    BY DEF AInv, Registers
  <2>2. CASE raise
    BY <1>2, <1>4, <2>2
  <2>3. CASE ~ raise
    BY <1>2, <1>5, <2>1, <2>3
  <2> QED BY <2>2, <2>3
<1>7. Registers'
  BY <1>1, <1>n, <1>4, <1>5, <1>6 DEF AInv, Registers
<1>8. Owners'
  BY <1>1 DEF AInv, Owners
<1>9. CASE maj = "CPU"
  <2>1. /\ ~ NoBrkOpt => busy' \in {0, 1, 2}
        /\ NoBrkOpt => busy \in {0, 1} /\ busy' = busy
        /\ madr \in CpuCells /\ last2wcovf = FALSE /\ last1wcovf = FALSE
    BY <1>1, <1>4, <1>5, <1>9 DEF AInv, CpuCycle, DirectAccess, IInv
  <2>2. wcovf' = FALSE
    BY <1>3, <1>9 DEF Modify
  <2>3. mbuf' \in {mem[madr], Plus1(mem[madr])} \cup CpuWords
    BY <1>9 DEF Modify
  <2>4. \/ nextmaj' = "CPU"
        \/ brkrqst' /\ nextmaj' = IF ctlflags.threecyc THEN "WC" ELSE "BRK"
    <3>1. nextmaj' = IF left = 0 /\ brkrqst' THEN IF ctlflags.threecyc THEN "WC" ELSE "BRK" ELSE "CPU"
      BY <1>3, <1>9, Zenon DEF NextState
    <3> QED BY <3>1
  <2>5. nextmaj' # "CPU" => /\ ~ NoBrkOpt /\ busy' = 2
                            /\ nextmaj' = IF cur.threecyc THEN "WC" ELSE "BRK"
    <3>1. busy' = 2 => cur.threecyc = ctlflags.threecyc
      BY <1>4, <1>5 DEF AInv, Registers
    <3> QED BY <1>6, <2>4, <3>1
  <2>6. CpuCycle'
    BY <1>1, <1>n, <2>1, <2>2, <2>3, <2>5 DEF CpuCycle
  <2>7. WcCycle' /\ CaCycle' /\ BrkCycle'
    BY <1>1, <1>9 DEF WcCycle, CaCycle, BrkCycle
  <2>8. DirectAccess'
    <3>1. NoBrkOpt => nextmaj' = "CPU"
      BY <2>5
    <3> QED BY <1>1, <1>n, <1>9, <2>1, <3>1 DEF AInv, DirectAccess
  <2> QED BY <1>7, <1>8, <2>6, <2>7, <2>8 DEF Accesses
<1>10. CASE maj = "WC"
  <2>1. /\ ~ NoBrkOpt /\ busy = 2 /\ cur.threecyc /\ madr = WcCell(cur) /\ mem = snap
    BY <1>1, <1>10 DEF AInv, WcCycle
  <2>2. busy' = 2 /\ nextmaj' = "CA"
    <3>1. nextmaj' = "CA"
      BY <1>3, <1>10, Zenon DEF NextState
    <3> QED BY <1>4, <1>5, <2>1, <3>1
  <2>3. mbuf' = Plus1(snap[WcCell(cur)])
    BY <1>10, <2>1 DEF Modify
  <2>4. wcovf' = Overflows(snap, cur)
    <3>1. wcovf' = (mem[madr] = WordSize - 1)
      BY <1>10, Zenon DEF Modify
    <3>2. Overflows(snap, cur) = (snap[WcCell(cur)] = WordSize - 1)
      BY <1>t, <2>1, AccessInCycles DEF DmaTyped
    <3> QED BY <2>1, <3>1, <3>2
  <2>5. WcCycle'
    BY <1>1, <1>n, <1>10, <2>1, <2>2, <2>3, <2>4 DEF WcCycle
  <2>6. CpuCycle' /\ CaCycle' /\ BrkCycle' /\ DirectAccess'
    BY <1>1, <1>n, <1>10, <2>1 DEF CpuCycle, CaCycle, BrkCycle, DirectAccess
  <2> QED BY <1>7, <1>8, <2>5, <2>6 DEF Accesses
<1>11. CASE maj = "CA"
  <2>1. /\ ~ NoBrkOpt /\ busy = 2 /\ cur.threecyc /\ madr = CaCell(cur)
        /\ mem = First(snap, cur) /\ last1wcovf = Overflows(snap, cur)
    BY <1>1, <1>11 DEF AInv, CaCycle
  <2>2. busy' = 2 /\ nextmaj' = "BRK"
    <3>1. nextmaj' = "BRK"
      BY <1>3, <1>11, Zenon DEF NextState
    <3> QED BY <1>4, <1>5, <2>1, <3>1
  <2>3. mbuf' = NewCa(snap, cur)
    <3>1. ctlflags.cainc = cur.cainc
      BY <2>1 DEF AInv, Registers
    <3> QED BY <1>11, <2>1, <3>1 DEF Modify, NewCa
  <2>4. wcovf' = FALSE
    BY <1>3, <1>11 DEF Modify
  <2>5. CaCycle'
    BY <1>1, <1>n, <1>11, <2>1, <2>2, <2>3, <2>4 DEF CaCycle
  <2>6. CpuCycle' /\ WcCycle' /\ BrkCycle' /\ DirectAccess'
    BY <1>1, <1>n, <1>11, <2>1 DEF CpuCycle, WcCycle, BrkCycle, DirectAccess
  <2> QED BY <1>7, <1>8, <2>5, <2>6 DEF Accesses
<1>12. CASE maj = "BRK"
  <2>1. /\ ~ NoBrkOpt /\ busy = 3 /\ madr = Place(snap, cur) /\ mem = Counted(snap, cur)
        /\ ctlwcovf = Overflows(snap, cur) /\ last1wcovf = FALSE
    BY <1>1, <1>12 DEF AInv, BrkCycle
  <2>2. busy' = 4
    BY <1>4, <1>5, <2>1
  <2>3. nextmaj' = "CPU"
    <3>1. ~ brkrqst'
      BY <1>6, <2>2
    <3>2. nextmaj' = IF left = 0 /\ brkrqst' THEN IF ctlflags.threecyc THEN "WC" ELSE "BRK" ELSE "CPU"
      BY <1>3, <1>12, Zenon DEF NextState
    <3> QED BY <3>1, <3>2
  <2>4. mbuf' = Moved(snap, cur)
    <3>1. ctl.write = cur.write /\ ctl.data = cur.data
      BY <2>1 DEF AInv, Registers
    <3> QED BY <1>12, <2>1, <3>1 DEF Modify, Moved, ReadBack
  <2>5. wcovf' = FALSE
    BY <1>3, <1>12 DEF Modify
  <2>6. BrkCycle'
    BY <1>1, <1>n, <1>12, <2>1, <2>2, <2>3, <2>4, <2>5 DEF BrkCycle
  <2>7. CpuCycle' /\ WcCycle' /\ CaCycle' /\ DirectAccess'
    BY <1>1, <1>n, <1>12, <2>1 DEF CpuCycle, WcCycle, CaCycle, DirectAccess
  <2> QED BY <1>7, <1>8, <2>6, <2>7 DEF Accesses
<1> QED BY <1>9, <1>10, <1>11, <1>12, <1>t DEF DmaTyped

LEMMA WriteBackInv ==
    ASSUME AInv, WriteBack
    PROVE  Owners' /\ Accesses'
<1>1. /\ ts = 3 /\ ts' = 4 /\ mem' = [mem EXCEPT ![madr] = mbuf] /\ wcovf' = FALSE
      /\ UNCHANGED <<pc, req, result, ctlflags, ctlwcovf, brkrqst>>
      /\ UNCHANGED <<maj, nextmaj, madr, mbuf, cur, snap>>
  BY DEF WriteBack, procvars
<1>t. DmaTyped
  BY DEF AInv
<1>n. NoBrkOpt' = NoBrkOpt
  BY <1>1
<1>2. NoBrkOpt => last1wcovf' = last1wcovf /\ last2wcovf' = last2wcovf
  BY DEF WriteBack, SampleOverflow
<1>3. ~ NoBrkOpt => last1wcovf' = wcovf /\ last2wcovf' = last1wcovf /\ busy # 1
  BY DEF WriteBack, SampleOverflow
<1>4. busy # 4 => UNCHANGED <<busy, ctl, ctldone>>
  BY DEF WriteBack, EndOfBreak
\* Any cycle but that of the word itself.
<1>5. ASSUME busy # 4 PROVE Registers' /\ Owners'
  <2>1. Registers'
    BY <1>1, <1>n, <1>4, <1>5 DEF AInv, Registers
  <2>2. Owners'
    BY <1>1, <1>4, <1>5 DEF AInv, Owners
  <2> QED BY <2>1, <2>2
<1>6. CASE maj = "CPU"
  <2>1. /\ ~ NoBrkOpt => busy \in {0, 1, 2}
        /\ nextmaj # "CPU" => /\ ~ NoBrkOpt /\ busy = 2
                              /\ nextmaj = IF cur.threecyc THEN "WC" ELSE "BRK"
        /\ last2wcovf = FALSE /\ last1wcovf = FALSE /\ wcovf = FALSE
    BY <1>1, <1>6 DEF AInv, CpuCycle
  <2>2. busy # 4
    BY <2>1 DEF AInv, IInv
  <2>3. CpuCycle'
    <3>1. last1wcovf' = FALSE /\ last2wcovf' = FALSE
      BY <1>2, <1>3, <2>1
    <3> QED BY <1>1, <1>n, <1>4, <2>1, <2>2, <3>1 DEF CpuCycle
  <2>4. WcCycle' /\ CaCycle' /\ BrkCycle'
    BY <1>1, <1>6 DEF WcCycle, CaCycle, BrkCycle
  <2>5. DirectAccess'
    <3>1. NoBrkOpt => busy \in {0, 1}
      BY <1>1 DEF AInv, DirectAccess
    <3> QED BY <1>1, <1>n, <1>4, <2>2, <3>1 DEF AInv, DirectAccess
  <2> QED BY <1>5, <2>2, <2>3, <2>4, <2>5 DEF Accesses
<1>7. CASE maj = "WC"
  <2>1. /\ ~ NoBrkOpt /\ busy = 2 /\ cur.threecyc /\ madr = WcCell(cur) /\ mem = snap
        /\ mbuf = Plus1(snap[WcCell(cur)]) /\ wcovf = Overflows(snap, cur) /\ nextmaj = "CA"
    BY <1>1, <1>7 DEF AInv, WcCycle
  <2>2. mem' = First(snap, cur) /\ last1wcovf' = Overflows(snap, cur)
    BY <1>1, <1>3, <2>1 DEF First, WcCell
  <2>3. WcCycle'
    BY <1>1, <1>n, <1>4, <1>7, <2>1, <2>2 DEF WcCycle
  <2>4. CpuCycle' /\ CaCycle' /\ BrkCycle' /\ DirectAccess'
    BY <1>1, <1>n, <1>7, <2>1 DEF CpuCycle, CaCycle, BrkCycle, DirectAccess
  <2> QED BY <1>5, <2>1, <2>3, <2>4 DEF Accesses
<1>8. CASE maj = "CA"
  <2>1. /\ ~ NoBrkOpt /\ busy = 2 /\ cur.threecyc /\ madr = CaCell(cur)
        /\ mem = First(snap, cur) /\ mbuf = NewCa(snap, cur) /\ nextmaj = "BRK"
        /\ last1wcovf = Overflows(snap, cur) /\ wcovf = FALSE
    BY <1>1, <1>8 DEF AInv, CaCycle
  <2>2. last2wcovf' = Overflows(snap, cur) /\ last1wcovf' = FALSE
    BY <1>3, <2>1
  <2>3. mem' = Counted(snap, cur)
    <3>1. Counted(snap, cur) = [First(snap, cur) EXCEPT ![CaCell(cur)] = NewCa(snap, cur)]
      BY <1>t, <2>1, AccessInCycles DEF DmaTyped
    <3> QED BY <1>1, <2>1, <3>1
  <2>4. CaCycle'
    BY <1>1, <1>n, <1>4, <1>8, <2>1, <2>2, <2>3 DEF CaCycle
  <2>5. CpuCycle' /\ WcCycle' /\ BrkCycle' /\ DirectAccess'
    BY <1>1, <1>n, <1>8, <2>1 DEF CpuCycle, WcCycle, BrkCycle, DirectAccess
  <2> QED BY <1>5, <2>1, <2>4, <2>5 DEF Accesses
<1>9. CASE maj = "BRK"
  <2>1. /\ ~ NoBrkOpt /\ busy = 4 /\ nextmaj = "CPU" /\ mbuf = Moved(snap, cur)
        /\ ctlwcovf = Overflows(snap, cur) /\ last1wcovf = FALSE /\ wcovf = FALSE
    BY <1>1, <1>9 DEF AInv, BrkCycle
  <2>2. /\ busy' = 0
        /\ ctl' = IF ctl.write THEN ctl ELSE [ctl EXCEPT !.data = mbuf]
    BY <2>1 DEF WriteBack, EndOfBreak
  <2>3. ctl.write = cur.write /\ ctl.field = cur.field /\ ctldone \in BOOLEAN
    BY <1>t DEF AInv, Registers, DmaTyped
  <2>4. ctl'.write = cur.write /\ ctl'.field = cur.field
    BY <1>t, <2>2, <2>3 DEF DmaTyped
  <2>5. ~ cur.write => ctl'.data = ReadBack(snap, cur)
    BY <1>t, <2>1, <2>2, <2>3 DEF DmaTyped, Moved
  <2>6. ctldone => ctldone'
    BY <2>1, Zenon DEF WriteBack, EndOfBreak
  <2>7. ~ brkrqst
    BY <2>1 DEF AInv, Registers
  <2>8. Registers'
    BY <1>1, <1>n, <2>1, <2>2, <2>4, <2>5, <2>7 DEF Registers
  <2>9. Owners'
    BY <1>1, <2>6 DEF AInv, Owners
  <2>10. BrkCycle'
    BY <1>1, <1>n, <1>3, <1>9, <2>1, <2>2 DEF BrkCycle
  <2>11. CpuCycle' /\ WcCycle' /\ CaCycle' /\ DirectAccess'
    BY <1>1, <1>n, <1>9, <2>1 DEF CpuCycle, WcCycle, CaCycle, DirectAccess
  <2> QED BY <2>8, <2>9, <2>10, <2>11 DEF Accesses
<1> QED BY <1>6, <1>7, <1>8, <1>9, <1>t DEF DmaTyped

LEMMA DirectInv ==
    ASSUME AInv, Direct
    PROVE  Owners' /\ Accesses'
<1>t. DmaTyped
  BY DEF AInv
<1>0. mem \in Memories /\ snap \in Memories /\ cur \in Request
  BY <1>t DEF DmaTyped
<1>1. NoBrkOpt /\ busy \in {1, 2, 10, 18, 22} /\ ~ ctldone
  <2>1. NoBrkOpt /\ busy \in {1, 2, 10, 18, 22}
    BY DEF Direct, DirectBegin, DirectWordCount, DirectAddress, DirectTransfer, DirectDone
  <2> QED BY <2>1 DEF AInv, Registers
<1>2. ts = 4
  BY <1>1 DEF AInv, DirectAccess, Direct, DirectBegin, DirectWordCount, DirectAddress,
              DirectTransfer, DirectDone
<1>3. UNCHANGED directfixed
  BY DEF Direct, DirectBegin, DirectWordCount, DirectAddress, DirectTransfer, DirectDone
<1>4. /\ UNCHANGED <<pc, req, result, ctlflags, brkrqst, last1wcovf, last2wcovf>>
      /\ UNCHANGED <<maj, nextmaj, ts, madr, mbuf, wcovf, cur>>
  BY <1>3 DEF directfixed, procvars, brkvars, cpuvars
<1>5. NoBrkOpt' /\ maj = "CPU" /\ nextmaj = "CPU"
  BY <1>1, <1>4 DEF AInv, DirectAccess
<1>6. CpuCycle' /\ WcCycle' /\ CaCycle' /\ BrkCycle'
  BY <1>2, <1>4, <1>5 DEF AInv, CpuCycle, WcCycle, CaCycle, BrkCycle
<1>7. Owners'
  BY <1>1, <1>4 DEF AInv, Owners
<1>8. /\ ctl.write = cur.write /\ ctl.field = cur.field /\ ctl.data = cur.data
      /\ ctlflags.threecyc = cur.threecyc /\ ctlflags.cainc = cur.cainc
      /\ busy \in {1, 2, 10} => ctl.offset = cur.offset
      /\ brkrqst <=> FALSE
  BY <1>1 DEF AInv, Registers
<1>9. CASE DirectBegin
  <2>1. /\ busy = 1 /\ busy' = IF ctlflags.threecyc THEN 2 ELSE 18
        /\ snap' = mem /\ mem' = mem /\ UNCHANGED <<ctl, ctldone, ctlwcovf>>
    BY <1>9 DEF DirectBegin
  <2>2. ctlwcovf = FALSE
    BY <1>1, <2>1 DEF AInv, DirectAccess
  <2>3. Registers'
    BY <1>1, <1>4, <1>5, <1>8, <2>1 DEF Registers
  <2>4. DirectAccess'
    <3>1. CASE cur.threecyc
      BY <1>2, <1>4, <1>5, <1>8, <2>1, <3>1 DEF DirectAccess
    <3>2. CASE ~ cur.threecyc
      <4>1. /\ Counted(mem, cur) = mem /\ Place(mem, cur) = <<cur.field, cur.offset>>
            /\ Overflows(mem, cur) = FALSE
        BY <1>0, <3>2, AccessInCycles
      <4>2. busy' = 18
        BY <1>8, <2>1, <3>2
      <4>3. /\ mem' = Counted(snap', cur') /\ <<ctl'.field, ctl'.offset>> = Place(snap', cur')
            /\ ctlwcovf' = Overflows(snap', cur')
        BY <1>4, <1>8, <2>1, <2>2, <4>1
      <4> QED BY <1>2, <1>4, <1>5, <4>2, <4>3 DEF DirectAccess
    <3> QED BY <3>1, <3>2
  <2> QED BY <1>6, <1>7, <2>3, <2>4 DEF Accesses
<1>10. CASE DirectWordCount
  <2>1. /\ busy = 2 /\ busy' = 10 /\ UNCHANGED <<ctl, ctldone, snap>>
        /\ mem' = [mem EXCEPT ![<<0, ctl.offset>>] = Plus1(mem[<<0, ctl.offset>>])]
        /\ ctlwcovf' = (mem[<<0, ctl.offset>>] = WordSize - 1)
    BY <1>10 DEF DirectWordCount
  <2>2. mem = snap /\ cur.threecyc /\ ctl.offset = cur.offset
    BY <1>1, <1>8, <2>1 DEF AInv, DirectAccess
  <2>3. mem' = First(snap, cur)
    BY <2>1, <2>2 DEF First
  <2>4. ctlwcovf' = Overflows(snap, cur)
    <3>1. Overflows(snap, cur) = (snap[WcCell(cur)] = WordSize - 1)
      BY <1>0, <2>2, AccessInCycles
    <3> QED BY <2>1, <2>2, <3>1 DEF WcCell
  <2>5. Registers'
    BY <1>1, <1>4, <1>5, <1>8, <2>1 DEF Registers
  <2>6. DirectAccess'
    BY <1>2, <1>4, <1>5, <2>1, <2>2, <2>3, <2>4 DEF DirectAccess
  <2> QED BY <1>6, <1>7, <2>5, <2>6 DEF Accesses
<1>11. CASE DirectAddress
  <2> DEFINE cell == <<0, Plus1(ctl.offset)>>
             addr == IF ctlflags.cainc THEN Plus1(mem[cell]) ELSE mem[cell]
  <2>1. /\ busy = 10 /\ busy' = 18 /\ UNCHANGED <<ctldone, ctlwcovf, snap>>
        /\ mem' = [mem EXCEPT ![cell] = addr]
        /\ ctl' = [ctl EXCEPT !.offset = addr]
    BY <1>11 DEF DirectAddress
  <2>2. /\ mem = First(snap, cur) /\ cur.threecyc /\ ctl.offset = cur.offset
        /\ ctlwcovf = Overflows(snap, cur)
    BY <1>1, <1>8, <2>1 DEF AInv, DirectAccess
  <2>3. cell = CaCell(cur) /\ addr = NewCa(snap, cur)
    BY <1>8, <2>2 DEF CaCell, NewCa
  <2> HIDE DEF cell, addr
  <2>4. /\ Counted(snap, cur) = [First(snap, cur) EXCEPT ![CaCell(cur)] = NewCa(snap, cur)]
        /\ Place(snap, cur) = <<cur.field, NewCa(snap, cur)>>
    BY <1>0, <2>2, AccessInCycles
  <2>5. mem' = Counted(snap, cur)
    BY <2>1, <2>2, <2>3, <2>4
  <2>6. /\ ctl'.write = cur.write /\ ctl'.field = cur.field /\ ctl'.data = cur.data
        /\ ctl'.offset = NewCa(snap, cur)
    BY <1>t, <1>8, <2>1, <2>3 DEF DmaTyped
  <2>7. Registers'
    BY <1>1, <1>4, <1>5, <1>8, <2>1, <2>6 DEF Registers
  <2>8. DirectAccess'
    <3>1. /\ mem' = Counted(snap', cur') /\ <<ctl'.field, ctl'.offset>> = Place(snap', cur')
          /\ ctlwcovf' = Overflows(snap', cur')
      BY <1>4, <2>1, <2>2, <2>4, <2>5, <2>6
    <3> QED BY <1>2, <1>4, <1>5, <2>1, <3>1 DEF DirectAccess
  <2> QED BY <1>6, <1>7, <2>7, <2>8 DEF Accesses
<1>12. CASE DirectTransfer
  <2>1. /\ busy = 18 /\ busy' = 22 /\ UNCHANGED <<ctl, ctldone, ctlwcovf, snap>>
        /\ mem' = IF ctl.write THEN [mem EXCEPT ![<<ctl.field, ctl.offset>>] = ctl.data] ELSE mem
    BY <1>12 DEF DirectTransfer
  <2>2. /\ mem = Counted(snap, cur) /\ <<ctl.field, ctl.offset>> = Place(snap, cur)
        /\ ctlwcovf = Overflows(snap, cur)
    BY <1>1, <2>1 DEF AInv, DirectAccess
  <2>3. mem' = Effect(snap, cur)
    BY <1>8, <2>1, <2>2 DEF Effect, Place
  <2>4. Registers'
    BY <1>1, <1>4, <1>5, <1>8, <2>1 DEF Registers
  <2>5. DirectAccess'
    BY <1>2, <1>4, <1>5, <2>1, <2>2, <2>3 DEF DirectAccess
  <2> QED BY <1>6, <1>7, <2>4, <2>5 DEF Accesses
<1>13. CASE DirectDone
  <2>1. /\ busy = 22 /\ busy' = 0 /\ UNCHANGED <<ctlwcovf, mem, snap>>
        /\ ctl' = [ctl EXCEPT !.data = mem[<<ctl.field, ctl.offset>>]]
    BY <1>13 DEF DirectDone
  <2>2. /\ mem = Effect(snap, cur) /\ <<ctl.field, ctl.offset>> = Place(snap, cur)
        /\ ctlwcovf = Overflows(snap, cur)
    BY <1>1, <2>1 DEF AInv, DirectAccess
  <2>3. /\ ctl'.write = cur.write /\ ctl'.field = cur.field
        /\ ctl'.data = Effect(snap, cur)[Place(snap, cur)]
    BY <1>t, <1>8, <2>1, <2>2 DEF DmaTyped
  <2>4. ~ cur.write => Effect(snap, cur)[Place(snap, cur)] = ReadBack(snap, cur)
    BY DEF Effect, ReadBack
  <2>5. Registers'
    BY <1>1, <1>4, <1>5, <1>8, <2>1, <2>2, <2>3, <2>4 DEF Registers
  <2>6. DirectAccess'
    BY <1>2, <1>4, <1>5, <2>1 DEF DirectAccess
  <2> QED BY <1>6, <1>7, <2>5, <2>6 DEF Accesses
<1> QED BY <1>9, <1>10, <1>11, <1>12, <1>13 DEF Direct

LEMMA AccessInit == Init => AInv
<1> SUFFICES ASSUME Init PROVE AInv
  OBVIOUS
<1>1. NoRequest \in Request
  BY SizeAssumption DEF NoRequest, Request, Words
<1>2. /\ mem = InitMem /\ snap = InitMem /\ madr = <<0, 0>> /\ mbuf = 0
      /\ ctl = [write |-> FALSE, field |-> 0, offset |-> 0, data |-> 0] /\ cur = NoRequest
      /\ maj = "CPU" /\ nextmaj = "CPU" /\ ts = 4 /\ busy = 0
      /\ ctldone = FALSE /\ ctlwcovf = FALSE /\ brkrqst = FALSE
      /\ last1wcovf = FALSE /\ last2wcovf = FALSE /\ wcovf = FALSE
  BY DEF Init
<1>3. DmaTyped
  <2>1. madr \in Cells /\ mbuf \in Words
    BY <1>2, SizeAssumption DEF Cells, Words
  <2>2. ctl \in [write : BOOLEAN, field : Fields, offset : Words, data : Words]
    BY <1>2, SizeAssumption DEF Words
  <2> QED BY <1>1, <1>2, <2>1, <2>2, MemAssumption DEF DmaTyped, Memories
<1>4. Owners
  <2>1. result = [p \in Procs |-> [data |-> 0, wcovf |-> FALSE]]
    BY DEF Init
  <2>2. result \in [Procs -> [data : Words, wcovf : BOOLEAN]]
    BY <2>1, SizeAssumption DEF Words
  <2>3. \A p \in Procs : pc[p] = "idle"
    BY DEF Init
  <2> QED BY <2>2, <2>3 DEF Owners
<1>5. Registers
  BY <1>2 DEF Registers, NoRequest
<1>6. CpuCycle /\ WcCycle /\ CaCycle /\ BrkCycle
  BY <1>2 DEF CpuCycle, WcCycle, CaCycle, BrkCycle
<1>7. DirectAccess
  BY <1>2 DEF DirectAccess
<1>8. IInv
  BY InitInv
<1> QED BY <1>3, <1>4, <1>5, <1>6, <1>7, <1>8 DEF AInv

LEMMA AccessStep == AInv /\ [Next]_vars => AInv'
<1> SUFFICES ASSUME AInv, [Next]_vars PROVE AInv'
  OBVIOUS
<1>0. IInv' /\ DmaTyped'
  BY StepInv, TypedStep DEF AInv
<1>1. ASSUME NEW p \in Procs, Call(p) \/ ProcStep(p) \/ Die(p) PROVE AInv'
  <2>1. Aside(p) \/ WriteFlags(p) \/ WriteCtl(p)
    BY <1>1 DEF ProcStep, Aside
  <2>2. Owners' /\ Accesses'
    BY <2>1, AsideInv, FlagsInv, CtlInv
  <2> QED BY <1>0, <2>2 DEF AInv, Accesses
<1>2. CASE Hardware
  <2>1. RaiseRequest \/ StartCycle \/ Modify \/ WriteBack \/ Direct
    BY <1>2 DEF Hardware
  <2>2. Owners' /\ Accesses'
    BY <2>1, RaiseInv, StartInv, ModifyInv, WriteBackInv, DirectInv
  <2> QED BY <1>0, <2>2 DEF AInv, Accesses
<1>3. CASE UNCHANGED vars
  <2>1. /\ UNCHANGED <<busy, ctl, ctlflags, ctldone, ctlwcovf, brkrqst, last1wcovf, last2wcovf>>
        /\ UNCHANGED <<maj, nextmaj, ts, madr, mbuf, wcovf, mem, cur, snap, pc, req, result>>
    BY <1>3 DEF vars, procvars, ctlvars, brkvars, cpuvars
  <2>2. Owners'
    BY <2>1 DEF AInv, Owners
  <2>3. Registers'
    BY <2>1 DEF AInv, Registers
  <2>4. CpuCycle' /\ WcCycle' /\ CaCycle'
    BY <2>1 DEF AInv, CpuCycle, WcCycle, CaCycle
  <2>5. BrkCycle'
    BY <2>1 DEF AInv, BrkCycle
  <2>6. DirectAccess'
    BY <2>1 DEF AInv, DirectAccess
  <2> QED BY <1>0, <2>2, <2>3, <2>4, <2>5, <2>6 DEF AInv, Accesses
<1> QED BY <1>1, <1>2, <1>3 DEF Next

LEMMA AccessInvariance == Spec => []AInv
BY AccessInit, AccessStep, PTL DEF Spec

\* A caller of dmacycle gets the word and the overflow of its own request
\* (dmacycle reads register 1 back after CM_DONE), whoever else does dma.
THEOREM ResultIsRight == Spec => []ResultIsRequests
<1>1. AInv => ResultIsRequests
  BY DEF AInv, Owners, ResultIsRequests, ReadBack, Place
<1> QED BY <1>1, AccessInvariance, PTL

-----------------------------------------------------------------------------
(***************************************************************************)
(* The refinement: an access takes effect when its last cycle ends, and    *)
(* until then memory is what it was when the first one began.              *)
(***************************************************************************)

\* Memory as AtomicMemory has it, and all of its state.
Visible == IF Begun THEN snap ELSE mem
seen == <<Visible, busy # 0, cur>>

LEMMA SeenInit == Init => Memory!Init
BY DEF Init, Memory!Init, Begun, NoBrkOpt

\* What an access does, seen when it is done.
LEMMA ServesAtOnce ==
    ASSUME Begun, busy # 0, ~ Begun', busy' = 0, mem' = Effect(snap, cur), cur' = cur
    PROVE  Memory!Serve
BY DEF Memory!Serve

LEMMA ProcessSeen ==
    ASSUME AInv, NEW p \in Procs, Call(p) \/ ProcStep(p) \/ Die(p)
    PROVE  Memory!Submit \/ UNCHANGED seen
<1>1. CASE Aside(p)
  <2>1. UNCHANGED <<busy, ctlflags, maj, mem, cur, snap>>
    BY <1>1, AsideKeeps DEF ctlvars, cpuvars
  <2> QED BY <2>1 DEF seen, Visible, Begun
<1>2. CASE WriteFlags(p)
  <2>1. UNCHANGED <<busy, maj, mem, cur, snap>> /\ busy = 0
    BY <1>2 DEF WriteFlags, cpuvars, AInv, IInv
  <2>2. ctlflags' = [ctlflags EXCEPT !.threecyc = req[p].threecyc, !.cainc = req[p].cainc]
    BY <1>2, <2>1 DEF WriteFlags
  <2>3. NoBrkOpt' = NoBrkOpt
    BY <2>2 DEF AInv, IInv
  <2> QED BY <2>1, <2>3 DEF seen, Visible, Begun
<1>3. CASE WriteCtl(p)
  <2>1. /\ busy = 0 /\ busy' = 1 /\ cur' = req[p] /\ pc[p] = "start"
        /\ UNCHANGED <<ctlflags, maj, mem, snap>>
    BY <1>3, Starting DEF AInv, cpuvars
  <2>2. req[p] \in Requests
    BY <2>1 DEF AInv, Owners
  <2>3. Begun' = Begun
    BY <2>1 DEF Begun
  <2> QED BY <2>1, <2>2, <2>3 DEF Memory!Submit
<1> QED BY <1>1, <1>2, <1>3 DEF ProcStep, Aside

LEMMA HardwareSeen ==
    ASSUME AInv, Hardware
    PROVE  Memory!ProgramCycle \/ Memory!Serve \/ UNCHANGED seen
<1>t. /\ ts \in {1, 3, 4} /\ maj \in {"CPU", "WC", "CA", "BRK"}
      /\ nextmaj \in {"CPU", "WC", "CA", "BRK"} /\ mem \in Memories /\ madr \in Cells
      /\ snap \in Memories /\ cur \in Request
  BY DEF AInv, DmaTyped
<1>1. CASE RaiseRequest
  <2>1. ~ NoBrkOpt /\ busy = 1 /\ busy' = 2 /\ UNCHANGED <<ctlflags, maj, mem, cur, snap>>
    BY <1>1 DEF RaiseRequest, cpuvars
  <2> QED BY <2>1 DEF seen, Visible, Begun
\* A cycle that begins an access keeps memory as it was; the others begin
\* nothing or go on with what has begun.
<1>2. CASE StartCycle
  <2>1. /\ ts = 4 /\ maj' = nextmaj /\ UNCHANGED <<ctlflags, mem, cur>>
        /\ snap' = IF nextmaj = "WC" \/ (nextmaj = "BRK" /\ maj # "CA") THEN mem ELSE snap
        /\ busy' = IF nextmaj = "BRK" /\ busy = 2 THEN 3 ELSE busy
        /\ NoBrkOpt => busy = 0
    BY <1>2 DEF StartCycle, AInv, IInv
  <2>2. CASE nextmaj = "CPU"
    <3>1. maj \in {"CPU", "BRK"}
      BY <1>t, <2>1, <2>2 DEF AInv, WcCycle, CaCycle
    <3>2. ~ Begun /\ ~ Begun'
      BY <2>1, <2>2, <3>1 DEF AInv, CpuCycle, BrkCycle, Begun
    <3> QED BY <2>1, <2>2, <3>2 DEF seen, Visible
  <2>3. CASE nextmaj = "WC" \/ (nextmaj = "BRK" /\ maj # "CA")
    <3>1. maj = "CPU"
      BY <1>t, <2>1, <2>3 DEF AInv, CpuCycle, WcCycle, CaCycle, BrkCycle
    <3>2. ~ NoBrkOpt /\ busy = 2
      BY <2>3, <3>1 DEF AInv, CpuCycle
    <3>3. ~ Begun /\ Begun'
      BY <2>1, <2>3, <3>1, <3>2 DEF Begun
    <3> QED BY <2>1, <2>3, <3>2, <3>3 DEF seen, Visible
  <2>4. CASE nextmaj = "CA" \/ (nextmaj = "BRK" /\ maj = "CA")
    <3>1. maj \in {"WC", "CA"}
      BY <1>t, <2>1, <2>4 DEF AInv, CpuCycle, BrkCycle
    <3>2. ~ NoBrkOpt /\ busy = 2
      BY <3>1 DEF AInv, WcCycle, CaCycle
    <3>3. Begun /\ Begun'
      BY <2>1, <2>4, <3>1, <3>2 DEF Begun
    <3> QED BY <2>1, <2>4, <3>2, <3>3 DEF seen, Visible
  <2>5. \/ nextmaj = "CPU"
        \/ nextmaj = "WC" \/ (nextmaj = "BRK" /\ maj # "CA")
        \/ nextmaj = "CA" \/ (nextmaj = "BRK" /\ maj = "CA")
    BY <1>t
  <2> QED BY <2>2, <2>3, <2>4, <2>5, Zenon
<1>3. CASE Modify
  <2>1. UNCHANGED <<ctlflags, maj, mem, cur, snap>>
    BY <1>3 DEF Modify
  <2>2. \/ busy' = IF busy = 3 THEN 4 ELSE busy
        \/ ~ NoBrkOpt /\ busy = 1 /\ busy' = 2
    BY <1>3, Zenon DEF Modify
  <2>3. NoBrkOpt => busy # 3
    BY DEF AInv, IInv
  <2> QED BY <2>1, <2>2, <2>3 DEF seen, Visible, Begun
<1>4. CASE WriteBack
  <2>1. /\ ts = 3 /\ mem' = [mem EXCEPT ![madr] = mbuf]
        /\ UNCHANGED <<ctlflags, maj, cur, snap>>
        /\ busy' = IF busy = 4 THEN 0 ELSE busy
    BY <1>4 DEF WriteBack, EndOfBreak
  <2>2. CASE maj = "CPU"
    <3>1. /\ madr \in CpuCells /\ mbuf \in {mem[madr], Plus1(mem[madr])} \cup CpuWords
          /\ ~ NoBrkOpt => busy \in {0, 1, 2}
          /\ NoBrkOpt => busy \in {0, 1}
      BY <2>1, <2>2 DEF AInv, CpuCycle, DirectAccess
    <3>2. ~ Begun /\ ~ Begun' /\ busy' = busy
      BY <2>1, <2>2, <3>1 DEF Begun
    <3>3. CASE mbuf = mem[madr]
      <4>1. mem' = mem
        BY <1>t, <2>1, <3>3 DEF Memories
      <4> QED BY <2>1, <3>2, <4>1 DEF seen, Visible
    <3>4. CASE mbuf \in CpuWords \/ mbuf = Plus1(mem[madr])
      BY <2>1, <3>1, <3>2, <3>4 DEF Memory!ProgramCycle
    <3> QED BY <3>1, <3>3, <3>4
  <2>3. CASE maj \in {"WC", "CA"}
    <3>1. ~ NoBrkOpt /\ busy = 2
      BY <2>3 DEF AInv, WcCycle, CaCycle
    <3> QED BY <2>1, <2>3, <3>1 DEF seen, Visible, Begun
  <2>4. CASE maj = "BRK"
    <3>1. /\ ~ NoBrkOpt /\ busy = 4 /\ mbuf = Moved(snap, cur)
          /\ madr = Place(snap, cur) /\ mem = Counted(snap, cur)
      BY <2>1, <2>4 DEF AInv, BrkCycle
    <3>2. mem' = Effect(snap, cur)
      BY <1>t, <2>1, <3>1, AccessInCycles
    <3>3. Begun /\ ~ Begun' /\ busy # 0 /\ busy' = 0
      BY <2>1, <2>4, <3>1 DEF Begun
    <3> QED BY <2>1, <3>2, <3>3, ServesAtOnce
  <2> QED BY <1>t, <2>2, <2>3, <2>4
<1>5. CASE Direct
  <2>1. NoBrkOpt /\ UNCHANGED <<ctlflags, maj, cur>>
    BY <1>5 DEF Direct, DirectBegin, DirectWordCount, DirectAddress, DirectTransfer,
                DirectDone, directfixed, cpuvars
  <2>2. CASE DirectBegin
    <3>1. busy = 1 /\ busy' \in {2, 18} /\ snap' = mem /\ mem' = mem
      BY <2>2 DEF DirectBegin
    <3> QED BY <2>1, <3>1 DEF seen, Visible, Begun
  <2>3. CASE DirectWordCount \/ DirectAddress \/ DirectTransfer
    <3>1. busy \in {2, 10, 18} /\ busy' \in {10, 18, 22} /\ snap' = snap
      BY <2>3 DEF DirectWordCount, DirectAddress, DirectTransfer
    <3> QED BY <2>1, <3>1 DEF seen, Visible, Begun
  <2>4. CASE DirectDone
    <3>1. busy = 22 /\ busy' = 0 /\ mem' = mem
      BY <2>4 DEF DirectDone
    <3>2. mem = Effect(snap, cur)
      BY <2>1, <3>1 DEF AInv, DirectAccess
    <3>3. Begun /\ ~ Begun'
      BY <2>1, <3>1 DEF Begun
    <3> QED BY <2>1, <3>1, <3>2, <3>3, ServesAtOnce
  <2> QED BY <1>5, <2>2, <2>3, <2>4 DEF Direct
<1> QED BY <1>1, <1>2, <1>3, <1>4, <1>5 DEF Hardware

\* However many cycles pdp8lcmem.v and the processor take for it, an access
\* changes memory as if in one step between two cycles of the program.
THEOREM DmaIsAtomic == Spec => AtomicMemorySpec
<1>1. AInv /\ [Next]_vars => [Memory!Next]_seen
  <2> SUFFICES ASSUME AInv, [Next]_vars PROVE Memory!Next \/ UNCHANGED seen
    OBVIOUS
  <2>1. CASE UNCHANGED vars
    BY <2>1 DEF vars, ctlvars, cpuvars, seen, Visible, Begun
  <2>2. CASE Next
    BY <2>2, ProcessSeen, HardwareSeen DEF Next, Memory!Next
  <2> QED BY <2>1, <2>2
<1>2. AInv /\ [Next]_vars => [Memory!Next]_<<IF Begun THEN snap ELSE mem, busy # 0, cur>>
  BY <1>1 DEF seen, Visible
<1> QED BY <1>2, SeenInit, AccessInvariance, PTL DEF Spec, AtomicMemorySpec, Memory!Spec
=============================================================================
