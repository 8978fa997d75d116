---------------------------- MODULE MemoryProofs ---------------------------
(***************************************************************************)
(* For any set of addresses: without BINIT the two sides of the external   *)
(* memory never disturb each other.  For any memory: the ARM's reads and   *)
(* writes take turns at its port, as long as no read address is accepted   *)
(* in the clock in which a write starts.                                   *)
(***************************************************************************)
EXTENDS XmemArb, ExtMemMap, TLAPS

\* What each side drives, by its state.
SidesInv ==
    /\ xmstate \in {0, 1, 2, 3, 4, 5, 6, 10, 11}
    /\ xmenab <=> xmstate \in 2 .. 5
    /\ xmwena <=> xmstate = 5
    /\ xmstate \in 2 .. 5 => xmaddr \in Addresses
    /\ busy \in 0 .. 22
    /\ busy \in {0, 1} => ~ cmenab /\ ~ cmwena /\ cmaddr = 0

\* The controller works only while the other side is blocked and idle; a clock
\* that an ARM write kept the other side from clearing its address is made up
\* for by the next, in time for the controller's first address.
GrantInv ==
    /\ ~ binit
    /\ xmemblock <=> busy # 0
    /\ busy >= 2 => xmstate = 0
    /\ busy >= 2 => xmaddr = 0 \/ (wrote /\ ~ cmenab)

IInv == SidesInv /\ GrantInv

LEMMA InitInv == Init => IInv
BY DEF Init, IInv, SidesInv, GrantInv

\* Each side's clock; the arbiter's wait is long enough for the ARM's last access.
LEMMA StepInv == ~ InitKey /\ IInv /\ [Next]_vars => IInv'
<1> SUFFICES ASSUME ~ InitKey, IInv, [Next]_vars PROVE IInv'
  OBVIOUS
<1>1. CASE UNCHANGED vars
  BY <1>1 DEF IInv, SidesInv, GrantInv, vars, xmvars, cmvars
<1>2. CASE Clock
  <2>1. PICK xmwrite \in BOOLEAN, cmwrite \in BOOLEAN :
           /\ ~ (xmwrite /\ cmwrite)
           /\ wrote => ~ xmwrite /\ ~ cmwrite
           /\ XmClock(xmwrite)
           /\ CmClock(cmwrite)
           /\ wrote' = (xmwrite \/ cmwrite)
    BY <1>2 DEF Clock
  <2>2. ~ binit'
    BY <1>2 DEF Clock, Key
  \* The processor's side.
  <2>3. /\ xmstate' \in {0, 1, 2, 3, 4, 5, 6, 10, 11}
        /\ xmenab' <=> xmstate' \in 2 .. 5
        /\ xmwena' <=> xmstate' = 5
        /\ xmstate' \in 2 .. 5 => xmaddr' \in Addresses
    <3>1. CASE XmKeeps
      BY <3>1 DEF XmKeeps, xmvars, IInv, SidesInv
    <3>2. CASE XmSteps
      BY <3>2 DEF XmSteps, XmIdle, XmLatch, XmRead, XmWrite, XmWritten, XmDone, XmCore,
                  IInv, SidesInv
    <3> QED BY <2>1, <3>1, <3>2 DEF XmClock
  \* Once blocked and idle it stays so, its address cleared unless the ARM wrote.
  <2>4. ASSUME xmemblock, xmstate = 0
        PROVE  xmstate' = 0 /\ (xmaddr' = 0 \/ (xmwrite /\ xmaddr' = xmaddr))
    <3>1. CASE XmKeeps
      BY <2>1, <2>4, <3>1 DEF XmClock, XmSteps, XmIdle, XmLatch, XmRead, XmWrite, XmWritten,
                         XmDone, XmCore, XmKeeps, xmvars, IInv, GrantInv
    <3>2. CASE XmSteps
      BY <2>4, <3>2 DEF XmSteps, XmIdle, XmLatch, XmRead, XmWrite, XmWritten, XmDone, XmCore
    <3> QED BY <2>1, <3>1, <3>2 DEF XmClock
  \* The controller's side.
  <2>5. CASE busy = 0
    <3>1. /\ busy' \in {0, 1} /\ (xmemblock' <=> busy' # 0)
          /\ UNCHANGED <<cmaddr, cmenab, cmwena>>
      BY <2>1, <2>5 DEF CmClock, CmStart, CmWait, CmAccess, cmvars, IInv, GrantInv
    <3> QED BY <2>2, <2>3, <2>5, <3>1 DEF IInv, SidesInv, GrantInv
  <2>6. CASE busy = 1
    <3>1. /\ busy' \in {1, 2, 18} /\ (busy' # 1 => xmstate = 0)
          /\ UNCHANGED <<cmaddr, cmenab, cmwena, xmemblock>>
      BY <2>1, <2>6 DEF CmClock, CmStart, CmWait, CmAccess, cmvars
    <3>2. wrote' \/ ~ xmwrite
      BY <2>1
    <3> QED BY <2>2, <2>3, <2>4, <2>6, <3>1, <3>2 DEF IInv, SidesInv, GrantInv
  <2>7. CASE busy >= 2
    <3>1. xmemblock /\ xmstate = 0 /\ xmstate' = 0
      BY <2>4, <2>7 DEF IInv, GrantInv
    <3>2. xmaddr' = 0
      <4>1. xmaddr = 0 \/ ~ xmwrite
        BY <2>1, <2>7 DEF IInv, GrantInv
      <4> QED BY <2>4, <3>1, <4>1
    <3>3. CASE UNCHANGED cmvars
      BY <2>2, <2>3, <2>7, <3>1, <3>2, <3>3 DEF cmvars, IInv, SidesInv, GrantInv
    <3>4. CASE CmAccess
      <4>1. /\ busy' \in 0 .. 22 /\ busy' # 1
            /\ busy' = 0 => busy = 22
            /\ xmemblock' <=> busy # 22
            /\ busy = 22 => busy' = 0
        BY <3>1, <3>4, <2>7 DEF CmAccess, IInv, SidesInv
      <4>2. busy = 22 => cmaddr' = 0 /\ ~ cmenab' /\ ~ cmwena'
        BY <3>4 DEF CmAccess, CmOutputs, CmEndsWrite, CmDrive
      <4> QED BY <2>2, <2>3, <3>1, <3>2, <4>1, <4>2 DEF IInv, SidesInv, GrantInv
    <3> QED BY <2>1, <2>7, <3>3, <3>4 DEF CmClock, CmStart, CmWait
  <2> QED BY <2>5, <2>6, <2>7 DEF IInv, SidesInv
<1> QED BY <1>1, <1>2 DEF Next

LEMMA Invariance == ASSUME ~ InitKey PROVE Spec => []IInv
<1>1. IInv /\ [Next]_vars => IInv'
  BY StepInv
<1> QED BY InitInv, <1>1, PTL DEF Spec

\* While the controller has the memory the other side drives nothing
\* (pdp8lxmem.v state 0, pdp8lcmem.v direct mode).
THEOREM BusQuiet == ASSUME ~ InitKey PROVE Spec => []BlockedBusQuiet
<1>1. IInv => BlockedBusQuiet
  BY DEF IInv, SidesInv, GrantInv, BlockedBusQuiet, Bus
<1>2. Spec => []IInv
  BY Invariance
<1> QED BY <1>1, <1>2, PTL

\* While the processor has the memory the controller drives nothing and does
\* not start (pdp8lcmem.v state 1).
THEOREM CyclesUndisturbed == ASSUME ~ InitKey PROVE Spec => []CycleUndisturbed
<1>1. IInv => CycleUndisturbed
  BY AddressAssumption DEF IInv, SidesInv, GrantInv, CycleUndisturbed, Bus
<1>2. Spec => []IInv
  BY Invariance
<1> QED BY <1>1, <1>2, PTL

\* The controller writes in these states only, while the memory is on.
WriteInv == cmwena => cmenab /\ busy \in {7, 8, 9, 15, 16, 17, 19, 20, 21}

LEMMA StepWriteInv == IInv /\ WriteInv /\ [Next]_vars => WriteInv'
<1> SUFFICES ASSUME IInv, WriteInv, [Next]_vars PROVE WriteInv'
  OBVIOUS
<1>1. CASE UNCHANGED <<busy, cmenab, cmwena>>
  BY <1>1 DEF WriteInv
<1>2. CASE CmStart \/ CmWait
  BY <1>2 DEF WriteInv, IInv, SidesInv, CmStart, CmWait
<1>3. CASE CmAccess
  <2>1. busy \in 2 .. 22
    BY <1>3 DEF CmAccess, IInv, SidesInv
  <2>2. CASE busy \in {2, 9, 17, 21, 22}
    <3>1. ~ cmwena'
      BY <1>3, <2>2 DEF CmAccess, CmOutputs, CmEndsWrite, CmDrive
    <3> QED BY <3>1 DEF WriteInv
  <2>3. CASE busy \in {6, 14, 18}
    <3>1. cmenab'
      BY <1>3, <2>3 DEF CmAccess, CmOutputs, CmEndsWrite, CmDrive
    <3>2. busy' \in {7, 15, 19} \/ (busy = 14 /\ ~ cainc /\ busy' = 18)
      BY <1>3, <2>3 DEF CmAccess
    <3>3. busy = 14 => cmwena' = cainc
      BY <1>3 DEF CmAccess, CmOutputs, CmEndsWrite, CmDrive
    <3> QED BY <3>1, <3>2, <3>3 DEF WriteInv
  <2>4. CASE busy \notin {2, 6, 14, 18} \cup CmEndsWrite \cup {22}
    <3>1. cmwena' = cmwena /\ busy' = busy + 1 /\ (cmenab => cmenab')
      BY <1>3, <2>1, <2>4 DEF CmAccess, CmOutputs, CmEndsWrite, CmDrive
    <3> QED BY <2>1, <2>4, <3>1 DEF WriteInv, CmEndsWrite
  <2> QED BY <2>2, <2>3, <2>4 DEF CmEndsWrite
<1> QED BY <1>1, <1>2, <1>3 DEF Next, Clock, CmClock, cmvars, vars

\* Whoever writes to the memory leaves its address alone until the write is off,
\* and the write of one side never runs into that of the other (pdp8lxmem.v
\* states 4 and 5, pdp8lcmem.v states 6 to 21).
THEOREM AddressStays == ASSUME ~ InitKey PROVE Spec => WriteAddressStable
<1>1. ASSUME IInv, IInv', WriteInv, WriteInv', [Next]_vars, BusWrite, BusWrite'
      PROVE  Bus' = Bus
  <2>1. CASE UNCHANGED vars
    BY <2>1 DEF vars, xmvars, cmvars, Bus
  <2>2. CASE Clock
    <3>1. CASE xmwena
      <4>1. xmstate = 5 /\ busy \in {0, 1} /\ cmaddr = 0 /\ xmaddr # 0
        BY <1>1, <3>1, AddressAssumption DEF IInv, SidesInv, GrantInv
      <4>2. UNCHANGED <<cmaddr, cmwena>> /\ ~ cmwena
        <5>1. CmStart \/ CmWait \/ UNCHANGED cmvars
          <6>1. PICK cmwrite \in BOOLEAN : CmClock(cmwrite)
            BY Zenon, <2>2 DEF Clock
          <6>2. ~ (busy >= 2)
            BY <4>1
          <6> QED BY <6>1, <6>2 DEF CmClock, CmAccess
        <5>2. UNCHANGED <<cmaddr, cmwena>>
          BY <5>1 DEF CmStart, CmWait, cmvars
        <5> QED BY <1>1, <4>1, <5>2 DEF IInv, SidesInv
      <4>3. xmaddr' = xmaddr
        BY <2>2, <4>1 DEF Clock, XmClock, XmKeeps, xmvars, XmSteps, XmIdle, XmLatch, XmRead,
                          XmWrite, XmWritten, XmDone, XmCore
      <4> QED BY <4>2, <4>3 DEF Bus
    <3>2. CASE cmwena
      <4>1. /\ cmenab /\ busy \in {7, 8, 9, 15, 16, 17, 19, 20, 21}
            /\ xmaddr = 0 /\ xmstate = 0 /\ xmemblock
        BY <1>1, <3>2 DEF WriteInv, IInv, GrantInv
      <4>2. xmaddr' = 0
        BY <2>2, <4>1 DEF Clock, XmClock, XmKeeps, xmvars, XmSteps, XmIdle, XmLatch, XmRead,
                          XmWrite, XmWritten, XmDone, XmCore
      <4>3. cmaddr' = cmaddr
        <5>1. CmAccess \/ UNCHANGED cmvars
          <6>1. PICK cmwrite \in BOOLEAN : CmClock(cmwrite)
            BY Zenon, <2>2 DEF Clock
          <6>2. busy # 0 /\ busy # 1
            BY <4>1
          <6> QED BY <6>1, <6>2 DEF CmClock, CmStart, CmWait
        <5>2. busy \notin {2, 6, 10, 14, 18, 22}
          BY <4>1
        <5>3. CmOutputs => cmaddr' = cmaddr
          BY <5>2 DEF CmOutputs, CmDrive
        <5> QED BY <5>1, <5>3 DEF CmAccess, cmvars
      <4> QED BY <4>1, <4>2, <4>3 DEF Bus
    <3> QED BY <1>1, <3>1, <3>2 DEF BusWrite
  <2> QED BY <1>1, <2>1, <2>2 DEF Next
<1>2. IInv /\ IInv' /\ WriteInv /\ WriteInv' /\ [Next]_vars
        => [BusWrite /\ BusWrite' => Bus' = Bus]_vars
  BY <1>1
<1>3. Init => WriteInv
  BY DEF Init, WriteInv
<1>4. Spec => []IInv
  BY Invariance
<1>5. IInv /\ WriteInv /\ [Next]_vars => WriteInv'
  BY StepWriteInv
<1> QED BY <1>2, <1>3, <1>4, <1>5, PTL DEF Spec, WriteAddressStable

-----------------------------------------------------------------------------
\* One at a time; what has been accepted and waits, waits for the other; a write
\* that has its answer outstanding accepts nothing.
Turns ==
    /\ reading = 0 \/ writing = 0
    /\ reading # 0 => ~ arready
    /\ rvalid => reading = 2
    /\ writing # 0 => WriteTaken
    /\ bvalid => ~ awready /\ ~ wready
    /\ ~ arready /\ reading = 0 => writing # 0 \/ bvalid

\* The port is on for the one at work, and the word is in memory after the first
\* of a write's clocks and in the register after the first of a read's.
AtPort ==
    /\ xbrenab <=> reading # 0 \/ writing # 0
    /\ xbrwena <=> writing # 0
    /\ ram = IF writing \in 2 .. 3 THEN [written EXCEPT ![writeaddr] = writedata] ELSE written
    /\ reading = 2 => xbrrdat = written[readaddr]

ExtInv == ExtTypeOK /\ Turns /\ AtPort

-----------------------------------------------------------------------------
\* Nothing accepted, nothing at the port.
LEMMA ExtInitially == ExtInit => ExtInv
<1> SUFFICES ASSUME ExtInit PROVE ExtInv
  OBVIOUS
<1>1. ExtTypeOK
  <2>1. /\ reading \in 0 .. 2 /\ writing \in 0 .. 3
        /\ written \in [ExtAddrs -> ExtData]
    BY DEF ExtInit, ExtReset
  <2> QED BY Zenon, <2>1 DEF ExtInit, ExtReset, ExtTypeOK
<1>2. Turns /\ AtPort
  BY DEF ExtInit, ExtReset, Turns, AtPort, WriteTaken
<1> QED BY <1>1, <1>2 DEF ExtInv

LEMMA ExtTyped ==
    ASSUME ExtInv, NEW ar \in ExtAddrs \cup {0}, NEW aw \in ExtAddrs \cup {0},
           NEW w \in ExtData \cup {0}, NEW rready \in BOOLEAN, NEW bready \in BOOLEAN,
           ExtClock(ar, aw, w, rready, bready)
    PROVE  ExtTypeOK'
<1> USE DEF ExtInv, ExtTypeOK, ExtClock, Accepts
<1>1. /\ reading' \in 0 .. 2 /\ readaddr' \in ExtAddrs
      /\ writing' \in 0 .. 3 /\ writeaddr' \in ExtAddrs /\ writedata' \in ExtData
  BY DEF ReadSide, WriteSide
<1>2. arready' \in BOOLEAN /\ rvalid' \in BOOLEAN
  BY Zenon DEF ReadSide
<1>5. awready' \in BOOLEAN /\ wready' \in BOOLEAN /\ bvalid' \in BOOLEAN
  BY Zenon DEF WriteSide
<1>3. xbrenab' \in BOOLEAN /\ xbrwena' \in BOOLEAN /\ written' \in [ExtAddrs -> ExtData]
  BY DEF Port
<1>4. ram' \in [ExtAddrs -> ExtData] /\ xbrrdat' \in ExtData
  BY DEF Ram, xbraddr
<1> QED BY <1>1, <1>2, <1>3, <1>4, <1>5

\* Who may start, when nobody is at the port.
LEMMA ExtTakesTurns ==
    ASSUME ~ Coincide, ExtInv, NEW ar \in ExtAddrs \cup {0}, NEW aw \in ExtAddrs \cup {0},
           NEW w \in ExtData \cup {0}, NEW rready \in BOOLEAN, NEW bready \in BOOLEAN,
           ExtClock(ar, aw, w, rready, bready)
    PROVE  Turns'
<1> USE DEF ExtInv, ExtTypeOK, Turns, ExtClock, Accepts, WriteTaken
<1>1. ~ (ReadStarts(ar) /\ WriteStarts(aw, w))
  BY DEF ReadStarts, WriteStarts
<1>2. (reading = 0 \/ writing = 0)'
  BY <1>1 DEF ReadSide, WriteSide, ReadStarts, WriteStarts
<1>3. (reading # 0 => ~ arready)' /\ (rvalid => reading = 2)'
  BY DEF ReadSide, ReadStarts
<1>4. (writing # 0 => WriteTaken)' /\ (bvalid => ~ awready /\ ~ wready)'
  BY DEF WriteSide, WriteStarts
<1>5. (~ arready /\ reading = 0 => writing # 0 \/ bvalid)'
  BY DEF ReadSide, WriteSide, ReadStarts, WriteStarts
<1> QED BY <1>2, <1>3, <1>4, <1>5

\* What the port does for whoever has it.
LEMMA ExtAtPort ==
    ASSUME ~ Coincide, ExtInv, NEW ar \in ExtAddrs \cup {0}, NEW aw \in ExtAddrs \cup {0},
           NEW w \in ExtData \cup {0}, NEW rready \in BOOLEAN, NEW bready \in BOOLEAN,
           ExtClock(ar, aw, w, rready, bready)
    PROVE  AtPort'
<1> USE DEF ExtInv, ExtTypeOK, Turns, ExtClock, Accepts, WriteTaken
<1>1. (xbrenab <=> reading # 0 \/ writing # 0)' /\ (xbrwena <=> writing # 0)'
  BY DEF AtPort, Port, ReadSide, WriteSide, ReadStarts, WriteStarts
<1>2. writing # 0 => writeaddr' = writeaddr /\ writedata' = writedata
  BY DEF WriteSide
<1>3. CASE writing = 0
  <2>1. ram' = ram /\ written' = written /\ ram = written
    BY <1>3 DEF AtPort, Ram, Port
  <2>2. writing' \in 0 .. 1
    BY <1>3 DEF WriteSide
  <2>3. reading' = 2 => reading # 0 /\ readaddr' = readaddr
    BY DEF ReadSide, ReadStarts
  <2>4. (reading = 2 => xbrrdat = written[readaddr])'
    BY <1>3, <2>1, <2>3 DEF AtPort, Ram, xbraddr
  <2>5. (ram = IF writing \in 2 .. 3 THEN [written EXCEPT ![writeaddr] = writedata]
               ELSE written)'
    BY <2>1, <2>2
  <2> QED BY Zenon, <1>1, <2>4, <2>5 DEF AtPort
<1>4. CASE writing # 0
  <2>1. reading' \in 0 .. 1 /\ reading = 0
    BY <1>4 DEF ReadSide, ReadStarts
  <2>2. ram' = [written EXCEPT ![writeaddr] = writedata]
    BY <1>4, <2>1 DEF AtPort, Ram, xbraddr
  <2>3. CASE writing = 3
    BY <1>1, <2>1, <2>2, <2>3 DEF AtPort, Port, WriteSide, WriteStarts
  <2>4. CASE writing # 3
    BY <1>1, <1>2, <1>4, <2>1, <2>2, <2>4 DEF AtPort, Port, WriteSide, WriteStarts
  <2> QED BY <2>3, <2>4
<1> QED BY <1>3, <1>4

LEMMA ExtPreserved == ~ Coincide /\ ExtInv /\ [ExtNext]_extVars => ExtInv'
<1> SUFFICES ASSUME ~ Coincide, ExtInv, [ExtNext]_extVars PROVE ExtInv'
  OBVIOUS
<1>1. CASE ExtNext
  BY <1>1, ExtTyped, ExtTakesTurns, ExtAtPort DEF ExtNext, ExtInv
<1>2. CASE UNCHANGED extVars
  BY <1>2 DEF extVars, ExtInv, ExtTypeOK, Turns, AtPort, WriteTaken
<1> QED BY <1>1, <1>2

-----------------------------------------------------------------------------
\* Whatever overlaps, every write is in memory at its own address when it is
\* acknowledged and every read returns the word at its own, if no read address is
\* accepted in the clock in which a write starts (extmemmap.v).
THEOREM PortIsRight == ~ Coincide => (ExtSpec => []PortRight)
<1> SUFFICES ASSUME ~ Coincide PROVE ExtSpec => []PortRight
  OBVIOUS
<1>1. ExtInv => PortRight
  BY DEF ExtInv, Turns, AtPort, PortRight, WritesLand
<1>2. ExtInv /\ [ExtNext]_extVars => ExtInv'
  BY ExtPreserved
<1> QED BY <1>1, <1>2, ExtInitially, PTL DEF ExtSpec
=============================================================================
