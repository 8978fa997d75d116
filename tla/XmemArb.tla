------------------------------ MODULE XmemArb ------------------------------
(***************************************************************************)
(* Who has the external memory: the processor's side (pdp8lxmem.v) and the *)
(* direct mode of the dma controller (pdp8lcmem.v), clock by clock.  Their *)
(* address, data and enable outputs are wired together by OR (zynq.v), so  *)
(* a side that is not using the memory must drive zeroes.                  *)
(*                                                                         *)
(* A clock is one step of both state machines, each stepping on the old    *)
(* state of the other.  Delays (memdelay) are of any length; an ARM write  *)
(* to one of them keeps that one from stepping for the clock it takes, and *)
(* BINIT keeps pdp8lxmem.v from stepping for as long as it lasts.          *)
(***************************************************************************)
EXTENDS Integers

CONSTANTS Addresses,      \* the memory addresses in use, but 0
          InitKey         \* whether the START key, that is BINIT, is used

ASSUME AddressAssumption == 0 \notin Addresses /\ InitKey \in BOOLEAN

VARIABLES xmstate, xmaddr, xmenab, xmwena,      \* pdp8lxmem.v
          busy, ctladdr, threecyc, cainc,       \* pdp8lcmem.v
          cmaddr, cmenab, cmwena, xmemblock,
          binit,                                \* the START key is down
          wrote                                 \* the ARM wrote in the last clock

xmvars == <<xmstate, xmaddr, xmenab, xmwena>>
cmvars == <<busy, ctladdr, threecyc, cainc, cmaddr, cmenab, cmwena, xmemblock>>
vars == <<xmvars, cmvars, binit, wrote>>

\* A wire or of addresses: nobody, one or both drive it.
Bus == {xmaddr, cmaddr} \ {0}
BusWrite == xmwena \/ cmwena

Init ==
    /\ xmstate = 0 /\ xmaddr = 0 /\ xmenab = FALSE /\ xmwena = FALSE
    /\ busy = 0 /\ ctladdr = 0 /\ threecyc = FALSE /\ cainc = FALSE
    /\ cmaddr = 0 /\ cmenab = FALSE /\ cmwena = FALSE /\ xmemblock = FALSE
    /\ binit = FALSE /\ wrote = FALSE

-----------------------------------------------------------------------------
(***************************************************************************)
(* pdp8lxmem.v.                                                            *)
(***************************************************************************)
XmKeeps == UNCHANGED xmvars

\* Mutant: a blocked memory is started all the same.
XmIdleUnblocked ==
    /\ xmstate = 0
    /\ \/ xmstate' \in {1, 10} /\ UNCHANGED xmaddr
       \/ xmstate' = 0 /\ xmaddr' = IF xmemblock THEN 0 ELSE xmaddr
    /\ UNCHANGED <<xmenab, xmwena>>

\* State 0: a cycle starts (in external memory or in the processor's core), if
\* not blocked; if blocked the address bus is left alone.
XmIdle ==
    /\ xmstate = 0
    /\ \/ ~ xmemblock /\ xmstate' \in {1, 10} /\ UNCHANGED xmaddr
       \/ xmstate' = 0 /\ xmaddr' = IF xmemblock THEN 0 ELSE xmaddr
    /\ UNCHANGED <<xmenab, xmwena>>

\* State 1: the address of the processor is latched.
XmLatch ==
    /\ xmstate = 1
    /\ xmaddr' \in Addresses
    /\ xmenab' = TRUE
    /\ xmstate' = 2
    /\ UNCHANGED xmwena

\* States 2 and 3: the word is read and the processor works on it.
XmRead ==
    /\ xmstate \in {2, 3}
    /\ xmstate' = xmstate + 1
    /\ UNCHANGED <<xmaddr, xmenab, xmwena>>

\* State 4: write.
XmWrite ==
    /\ xmstate = 4
    /\ xmwena' = TRUE
    /\ xmstate' = 5
    /\ UNCHANGED <<xmaddr, xmenab>>

\* State 5: end of the write.
XmWritten ==
    /\ xmstate = 5
    /\ xmenab' = FALSE
    /\ xmwena' = FALSE
    /\ xmstate' = 6
    /\ UNCHANGED xmaddr

\* State 6: end of the cycle.
XmDone ==
    /\ xmstate = 6
    /\ xmstate' = 0
    /\ xmaddr' = IF xmemblock THEN 0 ELSE xmaddr
    /\ UNCHANGED <<xmenab, xmwena>>

\* States 10 and 11: a cycle in the processor's own core.
XmCore ==
    /\ xmstate \in {10, 11}
    /\ xmstate' = IF xmstate = 10 THEN 11 ELSE 0
    /\ UNCHANGED <<xmaddr, xmenab, xmwena>>

XmSteps == XmIdle \/ XmLatch \/ XmRead \/ XmWrite \/ XmWritten \/ XmDone \/ XmCore

\* One clock: a step, unless a delay is running, the ARM is writing, or BINIT.
\* A blocked idle state has no delay.
XmClock(armwrite) ==
    \/ ~ binit /\ ~ armwrite /\ XmSteps
    \/ (binit \/ armwrite \/ xmstate # 0) /\ XmKeeps

-----------------------------------------------------------------------------
(***************************************************************************)
(* pdp8lcmem.v, direct mode.                                               *)
(***************************************************************************)
\* Register 1 (and before it register 2) written: an access starts.
CmStart ==
    /\ busy = 0
    /\ ctladdr' \in Addresses
    /\ threecyc' \in BOOLEAN
    /\ cainc' \in BOOLEAN
    /\ busy' = 1
    /\ xmemblock' = TRUE
    /\ UNCHANGED <<cmaddr, cmenab, cmwena>>

CmDrive(addr, enab, wena) == cmaddr' = addr /\ cmenab' = enab /\ cmwena' = wena

\* Mutant: the external memory is not waited for.
CmWaitNot ==
    /\ busy = 1
    /\ busy' = (IF threecyc THEN 2 ELSE 18)
    /\ UNCHANGED <<ctladdr, threecyc, cainc, cmaddr, cmenab, cmwena, xmemblock>>

\* State 1: wait until the external memory is idle.
CmWait ==
    /\ busy = 1
    /\ busy' = (IF xmstate # 0 THEN 1 ELSE IF threecyc THEN 2 ELSE 18)
    /\ UNCHANGED <<ctladdr, threecyc, cainc, cmaddr, cmenab, cmwena, xmemblock>>

\* Mutant: the write of the word count is not ended before the next address.
CmEndsWriteLate == {17, 21}

CmEndsWrite == {9, 17, 21}

\* The outputs in states 2 to 22: word count (2-9), current address (10-17) and
\* transfer (18-22).  A transfer writes or not.
CmOutputs ==
    \/ busy = 2 /\ CmDrive(ctladdr, TRUE, FALSE)
    \/ busy = 6 /\ CmDrive(cmaddr, TRUE, TRUE)
    \/ busy = 10 /\ \E next \in Addresses : CmDrive(next, TRUE, cmwena)
    \/ busy = 14 /\ CmDrive(cmaddr, TRUE, cainc)
    \/ busy = 18 /\ \E write \in BOOLEAN : CmDrive(ctladdr, TRUE, write)
    \/ busy \in CmEndsWrite /\ CmDrive(cmaddr, TRUE, FALSE)
    \/ busy = 22 /\ CmDrive(0, FALSE, FALSE)
    \/ busy \notin {2, 6, 10, 14, 18, 22} \cup CmEndsWrite /\ CmDrive(cmaddr, cmenab, cmwena)

\* Mutant: the memory is given back when the access ends only if it counted.
CmAccessKeeping ==
    /\ busy >= 2
    /\ CmOutputs
    /\ ctladdr' \in (IF busy = 14 THEN Addresses ELSE {ctladdr})
    /\ busy' = IF busy = 22 THEN 0 ELSE IF busy = 14 /\ ~ cainc THEN 18 ELSE busy + 1
    /\ xmemblock' = IF busy = 22 /\ threecyc THEN FALSE ELSE xmemblock
    /\ UNCHANGED <<threecyc, cainc>>

\* States 2 to 22.  The current address read in state 14 is any.
CmAccess ==
    /\ busy >= 2
    /\ CmOutputs
    /\ ctladdr' \in (IF busy = 14 THEN Addresses ELSE {ctladdr})
    /\ busy' = IF busy = 22 THEN 0 ELSE IF busy = 14 /\ ~ cainc THEN 18 ELSE busy + 1
    /\ xmemblock' = IF busy = 22 THEN FALSE ELSE xmemblock
    /\ UNCHANGED <<threecyc, cainc>>

\* One clock; an ARM write to any register of pdp8lcmem.v but a start is one
\* that changes nothing here.
CmClock(armwrite) ==
    \/ armwrite /\ (CmStart \/ UNCHANGED cmvars)
    \/ ~ armwrite /\ (CmWait \/ CmAccess)
    \/ ~ armwrite /\ busy = 0 /\ UNCHANGED cmvars

-----------------------------------------------------------------------------
\* BINIT: the processor is stopped, its last cycle over, and stays so.
Key == binit' \in (IF InitKey /\ xmstate' = 0 THEN BOOLEAN ELSE {FALSE})

\* The ARM writes a register of at most one of the two in a clock, and never in
\* two clocks running: the bus takes several for a write.
Clock ==
    /\ \E xmwrite, cmwrite \in BOOLEAN :
          /\ ~ (xmwrite /\ cmwrite)
          /\ wrote => ~ xmwrite /\ ~ cmwrite
          /\ XmClock(xmwrite)
          /\ CmClock(cmwrite)
          /\ wrote' = (xmwrite \/ cmwrite)
    /\ Key

Next == Clock

Spec == Init /\ [][Next]_vars

\* The clock ticks, and the delays of a memory cycle end.
FairSpec ==
    /\ Spec
    /\ WF_vars(Clock)
    /\ SF_vars(Clock /\ xmstate # 0 /\ xmstate' # xmstate)

-----------------------------------------------------------------------------
\* pdp8lxmem.v state 0: a blocked memory has its address bus left alone, so
\* what the controller drives is what the memory sees.
BlockedBusQuiet == cmenab => ~ xmenab /\ ~ xmwena /\ Bus \subseteq {cmaddr}

\* The processor's own cycles see their own address, and no access starts or
\* ends in the middle of one.
CycleUndisturbed ==
    xmstate \in 2 .. 5 => ~ cmenab /\ ~ cmwena /\ Bus = {xmaddr} /\ busy \in {0, 1}

\* While a write is on, the address stays put: no cell but the one meant is
\* written.
WriteAddressStable == [][BusWrite /\ BusWrite' => Bus' = Bus]_vars

\* The processor gets its memory back after every access.
BlockEnds == xmemblock ~> ~ xmemblock
=============================================================================
