------------------------------ MODULE ExtMemMap ------------------------------
(***************************************************************************)
(* The ARM's window into the extended memory (extmemmap.v): reads and      *)
(* writes come on channels of their own of the AXI bus, in any order and   *)
(* at the same time (two programs, two processors), and take turns at one  *)
(* port of the ram.                                                        *)
(*                                                                         *)
(* One step is one clock.  The bus decides in each which of its addresses  *)
(* and data are valid (0: it is not) and whether it takes an answer.       *)
(***************************************************************************)
EXTENDS Naturals

CONSTANTS
    ExtAddrs, ExtData,   \* of the memory; 0 is none of them
    Coincide             \* a read address may be accepted in the clock in which a write starts

ASSUME ExtAssumption ==
    0 \notin ExtAddrs \cup ExtData /\ ExtAddrs # {} /\ ExtData # {} /\ Coincide \in BOOLEAN

VARIABLES
    arready, rvalid,          \* the read channels
    awready, wready, bvalid,  \* the write channels
    reading, writing,
    readaddr, writeaddr, writedata,
    xbrenab, xbrwena, xbrrdat, \* the ram's port
    ram,
    written      \* history: memory as the writes that have been acknowledged left it

extVars == <<arready, rvalid, awready, wready, bvalid, reading, writing, readaddr, writeaddr,
             writedata, xbrenab, xbrwena, xbrrdat, ram, written>>

\* After a reset; the other registers hold anything.
ExtReset ==
    /\ arready = TRUE /\ rvalid = FALSE
    /\ awready = TRUE /\ wready = TRUE /\ bvalid = FALSE
    /\ reading = 0 /\ writing = 0
    /\ xbrenab = FALSE /\ xbrwena = FALSE
    /\ written = ram

ExtInit ==
    /\ readaddr \in ExtAddrs /\ writeaddr \in ExtAddrs
    /\ writedata \in ExtData /\ xbrrdat \in ExtData
    /\ ram \in [ExtAddrs -> ExtData]
    /\ ExtReset

\* One of these states, for a port that nobody uses.
ExtIdle ==
    LET a == CHOOSE x \in ExtAddrs : TRUE
        d == CHOOSE x \in ExtData : TRUE
    IN  /\ readaddr = a /\ writeaddr = a /\ writedata = d /\ xbrrdat = d
        /\ ram = [x \in ExtAddrs |-> d]
        /\ ExtReset

ExtTypeOK ==
    /\ arready \in BOOLEAN /\ rvalid \in BOOLEAN
    /\ awready \in BOOLEAN /\ wready \in BOOLEAN /\ bvalid \in BOOLEAN
    /\ reading \in 0 .. 2 /\ writing \in 0 .. 3
    /\ readaddr \in ExtAddrs /\ writeaddr \in ExtAddrs
    /\ writedata \in ExtData /\ xbrrdat \in ExtData
    /\ xbrenab \in BOOLEAN /\ xbrwena \in BOOLEAN
    /\ ram \in [ExtAddrs -> ExtData] /\ written \in [ExtAddrs -> ExtData]

-----------------------------------------------------------------------------
\* An address or data that the bus offers is accepted.
Accepts(ready, offered) == ready /\ offered # 0

WriteTaken == ~ awready /\ ~ wready /\ ~ bvalid

\* A read starts when its address comes, or when the write before it is over.
ReadStarts(ar) ==
    /\ writing = 0
    /\ Accepts(arready, ar) \/ (~ arready /\ reading = 0)

\* Mutant: a write waits for no read.
WriteStarts_AtOnce(aw, w) ==
    \/ Accepts(awready, aw) /\ ~ wready
    \/ Accepts(wready, w) /\ ~ awready

\* A write starts with the second of its address and its data, or when the read
\* before it is over.
WriteStarts(aw, w) ==
    /\ reading = 0
    /\ \/ Accepts(awready, aw) /\ ~ wready
       \/ Accepts(wready, w) /\ ~ awready
       \/ WriteTaken /\ writing = 0

ReadSide(ar, rready) ==
    /\ readaddr' = IF Accepts(arready, ar) THEN ar ELSE readaddr
    /\ reading' = IF ReadStarts(ar) THEN 1
                  ELSE IF reading = 1 THEN 2
                  ELSE IF rvalid /\ rready THEN 0 ELSE reading
    /\ arready' = IF Accepts(arready, ar) THEN FALSE ELSE arready \/ (rvalid /\ rready)
    /\ rvalid' = (reading = 2 /\ (~ rvalid \/ ~ rready))

WriteSide(aw, w, bready) ==
    /\ writeaddr' = IF Accepts(awready, aw) THEN aw ELSE writeaddr
    /\ writedata' = IF Accepts(wready, w) THEN w ELSE writedata
    /\ awready' = IF Accepts(awready, aw) THEN FALSE ELSE awready \/ (bvalid /\ bready)
    /\ wready' = IF Accepts(wready, w) THEN FALSE ELSE wready \/ (bvalid /\ bready)
    /\ writing' = IF WriteStarts(aw, w) THEN 1
                  ELSE IF WriteTaken /\ writing \in 1 .. 2 THEN writing + 1
                  ELSE IF WriteTaken THEN 0 ELSE writing
    /\ bvalid' = IF WriteTaken /\ writing = 3 THEN TRUE ELSE bvalid /\ ~ bready

\* Both sides set the port's enables; where both do in a clock the write side,
\* which comes later in the text, has the last word.
Port(ar, aw, w, rready) ==
    LET writeEnds == WriteTaken /\ writing = 3
    IN  /\ xbrenab' = IF WriteStarts(aw, w) THEN TRUE
                      ELSE IF writeEnds THEN FALSE
                      ELSE IF ReadStarts(ar) THEN TRUE
                      ELSE xbrenab /\ ~ (rvalid /\ rready)
        /\ xbrwena' = IF WriteStarts(aw, w) THEN TRUE
                      ELSE xbrwena /\ ~ writeEnds /\ ~ ReadStarts(ar)
        /\ written' = IF writeEnds THEN [written EXCEPT ![writeaddr] = writedata] ELSE written

xbraddr == IF reading # 0 THEN readaddr ELSE writeaddr

\* The ram takes the address and data of before the clock.
Ram ==
    /\ ram' = IF xbrenab /\ xbrwena THEN [ram EXCEPT ![xbraddr] = writedata] ELSE ram
    /\ xbrrdat' = IF xbrenab THEN ram'[xbraddr] ELSE xbrrdat

ExtClock(ar, aw, w, rready, bready) ==
    /\ Coincide \/ ~ (Accepts(arready, ar) /\ WriteStarts(aw, w))
    /\ ReadSide(ar, rready) /\ WriteSide(aw, w, bready)
    /\ Port(ar, aw, w, rready)
    /\ Ram

ExtClocks(ready) ==
    \E ar, aw \in ExtAddrs \cup {0}, w \in ExtData \cup {0} : ExtClock(ar, aw, w, ready, ready)

ExtNext ==
    \E ar, aw \in ExtAddrs \cup {0}, w \in ExtData \cup {0}, rready, bready \in BOOLEAN :
        ExtClock(ar, aw, w, rready, bready)

\* The bus takes an answer in the end.
ExtFair == WF_extVars(ExtClocks(TRUE))
ExtSpec == ExtInit /\ [][ExtNext]_extVars /\ ExtFair

-----------------------------------------------------------------------------
\* A write changes the word at its own address and no other, and has done so when
\* it is acknowledged, whatever is read meanwhile: "not writing, so start reading"
\* and "not reading, so start writing", the comments have it.
WritesLand == writing = 0 => ram = written

\* And a read returns the word at its own address.
PortRight == WritesLand /\ (rvalid => xbrrdat = written[readaddr])

\* A write that the port has taken is acknowledged, however many reads come.
PortWaits == WriteTaken
=============================================================================
