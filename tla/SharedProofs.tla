---------------------------- MODULE SharedProofs ----------------------------
(***************************************************************************)
(* What processes share, and leave behind when they are killed anywhere.   *)
(*                                                                         *)
(* The front panel: no transistor is ever on while its collector line is   *)
(* driven low, and every switch written or read is where it was wanted or  *)
(* seen, for any number of processes, switches and chips, whichever chips  *)
(* a switch's two pins are on.  pipan8l's threads: no lights are shown or  *)
(* returned that were read too early, and no flick of a switch is missed   *)
(* by a script that flushes.                                               *)
(*                                                                         *)
(* The CM lock, for any set of processes: one owner at a time, that only   *)
(* death can rob, and the refinement of Mutex.                             *)
(***************************************************************************)
EXTENDS Panel, Pipan8l, CmLock, TLAPS
LOCAL INSTANCE Sequences

\* One process at a time is at the chips, and only a dead one's lock is released.
Locked ==
    /\ \A p \in PanelProcs : panelPc[p] \in Critical => fpLock = p
    /\ \A p \in PanelProcs : panelPc[p] = "release" =>
          lockPid[p] \in PanelProcs /\ panelPc[lockPid[p]] = "dead"

\* A collector is driven only while the transistor's base is high.
Cold == \A t \in Toggles : iodir[CollPin[t]] = 0 => olat[BasePin[t]] = 1

AtChip == {"rddir", "rdval", "wrdir", "wrlat"}
Same(p, x) == dirs[p][x] = iodir[x] /\ vals[p][x] = olat[x]

\* The copies are what is on the chips done so far, read or written.
Synced(p) ==
    panelPc[p] \in AtChip /\ padStage[p] # "get" => \A x \in Pins :
        /\ ChipOf[x] < chip[p] => Same(p, x)
        /\ ChipOf[x] = chip[p] /\ panelPc[p] \in {"rdval", "wrlat"} => dirs[p][x] = iodir[x]
Ready(p) ==
    panelPc[p] = "apply" =>
        /\ chip[p] = 1
        /\ padStage[p] \in {"put1", "put2"} => \A x \in Pins : Same(p, x)

\* Whatever mixture of the old and the new registers the chips hold is cold.
Mixable(p) == \A t \in Toggles :
    /\ iodir[CollPin[t]] = 0 => vals[p][BasePin[t]] = 1
    /\ dirs[p][CollPin[t]] = 0 => olat[BasePin[t]] = 1
    /\ dirs[p][CollPin[t]] = 0 => vals[p][BasePin[t]] = 1
Writing(p) == panelPc[p] \in {"wrdir", "wrlat"} => padStage[p] # "get" /\ Mixable(p)
AtWork(p) == Synced(p) /\ Ready(p) /\ Writing(p)

PanelInv == PanelTypeOK /\ Locked /\ Cold /\ \A p \in PanelProcs : AtWork(p)

-----------------------------------------------------------------------------
(* Types. *)

LEMMA PinsOfSwitches ==
    /\ \A t \in Toggles : CollPin[t] \in Pins /\ BasePin[t] \in Pins
    /\ \A b \in PanelButtons : ButtonPin[b] \in Pins
BY DEF Pins, CollPins, BasePins

\* A toggle's pins are its own.
LEMMA PinsOfToggle ==
    ASSUME NEW t \in Toggles
    PROVE  /\ (CHOOSE u \in Toggles : CollPin[t] = CollPin[u]) = t
           /\ (CHOOSE u \in Toggles : BasePin[t] = BasePin[u]) = t
           /\ CollPin[t] \in CollPins /\ BasePin[t] \in BasePins
           /\ BasePin[t] \notin CollPins
BY PinAssumption DEF CollPins, BasePins

LEMMA PanelInitially == PanelIdle => PanelInv
<1> SUFFICES ASSUME PanelIdle PROVE PanelInv
  OBVIOUS
<1> USE DEF PanelIdle
<1>1. PanelTypeOK
  <2>1. Chips \in Nat \ {0} /\ 1 \in 1 .. Chips
    BY ChipAssumption
  <2>2. [kind |-> "getsw", sw |-> "all", val |-> 0] \in Commands
    BY DEF Commands
  <2>3. NoPads \in Panels
    BY DEF NoPads, Panels, PinBits
  <2>4. Released \in [Pins -> PinBits] /\ [x \in Pins |-> 0] \in [Pins -> PinBits]
    BY DEF Released, PinBits
  <2>5. panelCount \in 0 .. MaxPanel
    BY PanelBoundAssumption
  <2> QED BY <2>1, <2>2, <2>3, <2>4, <2>5 DEF PanelTypeOK, PanelSteps, PinBits
<1>2. Locked
  BY DEF Locked, Critical
<1>3. Cold
  BY PinsOfSwitches DEF Cold, Released
<1>4. \A p \in PanelProcs : AtWork(p)
  BY DEF AtWork, Synced, Ready, Writing, AtChip
<1> QED BY <1>1, <1>2, <1>3, <1>4 DEF PanelInv

LEMMA ModifiedTyped ==
    ASSUME NEW old \in Panels, NEW c \in Commands
    PROVE  Modified(old, c) \in Panels
<1>1. /\ c.kind = "setsw" => c.sw \in Toggles \cup PanelButtons /\ c.val \in PinBits
      /\ c.kind = "relsw" => c.sw \in Toggles
  BY DEF Commands
<1>2. /\ old = [ovr |-> old.ovr, val |-> old.val, button |-> old.button]
      /\ old.ovr \in [Toggles -> BOOLEAN] /\ old.val \in [Toggles -> PinBits]
      /\ old.button \in [PanelButtons -> BOOLEAN]
  BY DEF Panels
<1>3. CASE c.kind = "setsw"
  <2>1. CASE c.sw \in Toggles
    <3>1. Modified(old, c) = [old EXCEPT !.ovr[c.sw] = TRUE, !.val[c.sw] = c.val]
      BY <1>3, <2>1, PinAssumption DEF Modified
    <3>2. Modified(old, c) = [ovr |-> [old.ovr EXCEPT ![c.sw] = TRUE],
                              val |-> [old.val EXCEPT ![c.sw] = c.val], button |-> old.button]
      BY <1>2, <3>1
    <3> QED BY <1>1, <1>2, <1>3, <2>1, <3>2 DEF Panels
  <2>2. CASE c.sw \notin Toggles
    <3>1. Modified(old, c) = [old EXCEPT !.button[c.sw] = c.val = 1]
      BY Zenon, <1>1, <1>3, <2>2 DEF Modified
    <3>2. [old.button EXCEPT ![c.sw] = c.val = 1] \in [PanelButtons -> BOOLEAN]
      BY Zenon, <1>2
    <3> QED BY <1>2, <3>1, <3>2 DEF Panels
  <2> QED BY <2>1, <2>2
<1>4. CASE c.kind = "relsw"
  BY <1>1, <1>4 DEF Modified, Panels
<1>5. CASE c.kind \notin {"setsw", "relsw"}
  BY <1>5 DEF Modified
<1> QED BY <1>3, <1>4, <1>5

\* The pads are positions again after reading and after a command's change.
LEMMA PadsTyped ==
    ASSUME PanelTypeOK, NEW p \in PanelProcs
    PROVE  GotPads(p) \in Panels /\ Modified(pads[p], panelCmd[p]) \in Panels
<1>1. GotPads(p) \in Panels
  <2>1. vals[p] \in [Pins -> PinBits]
    BY DEF PanelTypeOK
  <2>2. \A t \in Toggles : vals[p][CollPin[t]] \in PinBits
    BY <2>1, PinsOfSwitches
  <2> QED BY <2>2 DEF GotPads, Panels
<1>2. pads[p] \in Panels /\ panelCmd[p] \in Commands
  BY DEF PanelTypeOK
<1> QED BY <1>1, <1>2, ModifiedTyped

\* What is read from a chip and what is about to be written are bits.
LEMMA PinsTyped ==
    ASSUME PanelTypeOK, NEW p \in PanelProcs
    PROVE  /\ [x \in Pins |-> Level(x)] \in [Pins -> PinBits]
           /\ [x \in Pins |-> NewDir(p, x)] \in [Pins -> PinBits]
           /\ [x \in Pins |-> NewVal(p, x)] \in [Pins -> PinBits]
<1> USE DEF PinBits
<1>1. ASSUME NEW x \in Pins PROVE Level(x) \in PinBits
  BY DEF Level, PanelTypeOK
<1>2. ASSUME NEW t \in Toggles
      PROVE  /\ writetog(p, t, dirs[p], vals[p]).coll \in PinBits
             /\ writetog(p, t, dirs[p], vals[p]).base \in PinBits
  <2>1. dirs[p] \in [Pins -> PinBits] /\ vals[p] \in [Pins -> PinBits] /\ pads[p] \in Panels
    BY DEF PanelTypeOK
  <2>2. /\ dirs[p][CollPin[t]] \in PinBits /\ vals[p][BasePin[t]] \in PinBits
        /\ pads[p].ovr[t] \in BOOLEAN /\ pads[p].val[t] \in PinBits
    BY <2>1, PinsOfSwitches DEF Panels
  <2> QED BY <2>2 DEF writetog
<1>3. \A b : writebut(p, b) \in PinBits
  BY DEF writebut
<1>4. ASSUME NEW x \in Pins PROVE NewDir(p, x) \in PinBits /\ NewVal(p, x) \in PinBits
  <2>1. CASE x \in CollPins
    <3>1. (CHOOSE t \in Toggles : x = CollPin[t]) \in Toggles
      BY <2>1 DEF CollPins
    <3> QED BY <2>1, <3>1, <1>2 DEF NewDir, NewVal
  <2>2. CASE x \in BasePins /\ x \notin CollPins
    <3>1. (CHOOSE t \in Toggles : x = BasePin[t]) \in Toggles
      BY <2>2 DEF BasePins
    <3> QED BY <2>2, <3>1, <1>2 DEF NewDir, NewVal
  <2>3. CASE x \notin CollPins /\ x \notin BasePins
    BY <2>3, <1>3 DEF NewDir, NewVal
  <2> QED BY <2>1, <2>2, <2>3
<1> QED BY <1>1, <1>4

\* The chips are gone through in turn, and the first one comes next.
LEMMA ChipsInTurn ==
    ASSUME PanelTypeOK, NEW p \in PanelProcs, NEW same \in PanelSteps, NEW after \in PanelSteps,
           NextChip(p, same, after)
    PROVE  /\ chip' \in [PanelProcs -> 1 .. Chips] /\ panelPc' \in [PanelProcs -> PanelSteps]
           /\ IF chip[p] < Chips
              THEN chip'[p] = chip[p] + 1 /\ panelPc'[p] = same
              ELSE chip[p] = Chips /\ chip'[p] = 1 /\ panelPc'[p] = after
           /\ \A q \in PanelProcs \ {p} : chip'[q] = chip[q] /\ panelPc'[q] = panelPc[q]
<1>1. /\ chip \in [PanelProcs -> 1 .. Chips] /\ panelPc \in [PanelProcs -> PanelSteps]
      /\ Chips \in Nat \ {0} /\ chip[p] \in 1 .. Chips
  BY ChipAssumption DEF PanelTypeOK
<1>2. CASE chip[p] < Chips
  <2>1. chip' = [chip EXCEPT ![p] = chip[p] + 1] /\ panelPc' = [panelPc EXCEPT ![p] = same]
    BY <1>2 DEF NextChip, PGoto
  <2>2. chip[p] + 1 \in 1 .. Chips
    BY <1>1, <1>2
  <2> QED BY <1>1, <1>2, <2>1, <2>2
<1>3. CASE ~ (chip[p] < Chips)
  <2>1. chip' = [chip EXCEPT ![p] = 1] /\ panelPc' = [panelPc EXCEPT ![p] = after]
    BY <1>3 DEF NextChip, PGoto
  <2>2. 1 \in 1 .. Chips /\ chip[p] = Chips
    BY <1>1, <1>3
  <2> QED BY <1>1, <1>3, <2>1, <2>2
<1> QED BY <1>2, <1>3

LEMMA PanelTyped == PanelTypeOK /\ [PanelNext]_panelVars => PanelTypeOK'
<1> SUFFICES ASSUME PanelTypeOK, [PanelNext]_panelVars PROVE PanelTypeOK'
  OBVIOUS
<1> USE DEF PanelTypeOK, panelLocal, PGoto, PanelSteps, Critical
<1>1. CASE UNCHANGED panelVars
  BY <1>1 DEF panelVars
<1>2. CASE UserMoves
  BY <1>2, PanelBoundAssumption DEF UserMoves, Count, PinBits
<1>3. ASSUME NEW p \in PanelProcs, PanelProc(p) PROVE PanelTypeOK'
  <2>1. CASE LockWrite(p)
    BY <2>1 DEF LockWrite, WriteLock
  <2>2. CASE LockLook(p)
    <3>1. 1 \in 1 .. Chips
      BY ChipAssumption
    <3> QED BY <2>2, <3>1 DEF LockLook
  <2>3. CASE LockRelease(p)
    BY <2>3 DEF LockRelease, WriteLock
  <2>4. CASE Unlock(p)
    BY <2>4 DEF Unlock, WriteLock
  <2>5. CASE ReadDir(p)
    BY <2>5 DEF ReadDir, Copied
  <2>6. CASE ReadVal(p)
    <3>1. vals' \in [PanelProcs -> [Pins -> PinBits]]
      <4> DEFINE levels == [x \in Pins |-> Level(x)]
      <4>1. levels \in [Pins -> PinBits]
        BY PinsTyped
      <4>2. vals' = [vals EXCEPT ![p] = Copied(p, @, IF padStage[p] = "get" THEN levels ELSE olat)]
        BY <2>6 DEF ReadVal
      <4> HIDE DEF levels
      <4> QED BY <4>1, <4>2 DEF Copied
    <3>2. chip' \in [PanelProcs -> 1 .. Chips] /\ panelPc' \in [PanelProcs -> PanelSteps]
      BY <2>6, ChipsInTurn DEF ReadVal
    <3> QED BY <2>6, <3>1, <3>2 DEF ReadVal
  <2>7. CASE WriteDir(p)
    BY <2>7 DEF WriteDir, StoredPins
  <2>8. CASE WriteLat(p)
    <3>1. chip' \in [PanelProcs -> 1 .. Chips] /\ panelPc' \in [PanelProcs -> PanelSteps]
      <4>1. AfterWrite(p) \in PanelSteps
        BY DEF AfterWrite
      <4>2. CASE NextChip(p, "wrdir", AfterWrite(p))
        BY <4>1, <4>2, ChipsInTurn
      <4>3. CASE PGoto(p, "wrlat") /\ UNCHANGED <<chip, padStage>>
        BY <4>3
      <4> QED BY <2>8, <4>2, <4>3 DEF WriteLat
    <3>2. olat' \in [Pins -> PinBits]
      BY <2>8 DEF WriteLat, StoredPins
    <3>3. padStage' \in [PanelProcs -> {"get", "put1", "put2", "all"}]
      BY <2>8 DEF WriteLat
    <3> QED BY <2>8, <3>1, <3>2, <3>3 DEF WriteLat
  <2>9. CASE ApplyGet(p)
    BY <2>9, PadsTyped DEF ApplyGet
  <2>10. CASE ApplyPut(p)
    BY <2>10, PinsTyped DEF ApplyPut
  <2>11. CASE relall(p)
    BY <2>11 DEF relall, Released, PinBits
  <2>12. CASE Command(p)
    BY <2>12, PanelBoundAssumption DEF Command, Count
  <2>13. CASE Modify(p)
    BY <2>13, PadsTyped DEF Modify
  <2>14. CASE Killed(p)
    BY <2>14, PanelBoundAssumption DEF Killed, Count
  <2> QED BY <1>3, <2>1, <2>2, <2>3, <2>4, <2>5, <2>6, <2>7, <2>8, <2>9, <2>10, <2>11, <2>12,
             <2>13, <2>14 DEF PanelProc
<1> QED BY <1>1, <1>2, <1>3 DEF PanelNext

-----------------------------------------------------------------------------
(* Who is at the chips. *)

\* A step of one process is no other's, and only who writes changes the chips.
LEMMA OthersKept ==
    ASSUME PanelTypeOK, NEW p \in PanelProcs, PanelProc(p), NEW q \in PanelProcs \ {p}
    PROVE  /\ panelPc'[q] = panelPc[q] /\ lockPid'[q] = lockPid[q]
           /\ padStage'[q] = padStage[q] /\ chip'[q] = chip[q]
           /\ dirs'[q] = dirs[q] /\ vals'[q] = vals[q] /\ pads'[q] = pads[q]
<1> USE DEF PanelTypeOK, panelLocal, PGoto
<1>1. CASE LockWrite(p) \/ LockLook(p) \/ LockRelease(p) \/ Unlock(p)
  BY <1>1 DEF LockWrite, LockLook, LockRelease, Unlock
<1>2. CASE ReadDir(p) \/ WriteDir(p)
  BY <1>2 DEF ReadDir, WriteDir
<1>3. CASE ReadVal(p)
  <2>1. chip'[q] = chip[q] /\ panelPc'[q] = panelPc[q]
    BY <1>3, ChipsInTurn DEF ReadVal, PanelSteps, Critical
  <2> QED BY <1>3, <2>1 DEF ReadVal
<1>4. CASE WriteLat(p)
  <2>1. AfterWrite(p) \in PanelSteps
    BY DEF AfterWrite, PanelSteps, Critical
  <2>2. chip'[q] = chip[q] /\ panelPc'[q] = panelPc[q]
    BY <1>4, <2>1, ChipsInTurn DEF WriteLat, PanelSteps, Critical
  <2> QED BY <1>4, <2>2 DEF WriteLat
<1>5. CASE ApplyGet(p) \/ ApplyPut(p) \/ relall(p)
  BY <1>5 DEF ApplyGet, ApplyPut, relall
<1>6. CASE Command(p) \/ Modify(p) \/ Killed(p)
  BY <1>6 DEF Command, Modify, Killed
<1> QED BY <1>1, <1>2, <1>3, <1>4, <1>5, <1>6 DEF PanelProc

LEMMA ChipsKept ==
    ASSUME NEW p \in PanelProcs, PanelProc(p), panelPc[p] \notin {"wrdir", "wrlat"}
    PROVE  iodir' = iodir /\ olat' = olat
BY DEF PanelProc, LockWrite, LockLook, LockRelease, Unlock, ReadDir, ReadVal, WriteDir,
       WriteLat, ApplyGet, ApplyPut, relall, Command, Modify, Killed

LEMMA OneAtTheChips ==
    ASSUME PanelTypeOK, Locked, NEW p \in PanelProcs, PanelProc(p)
    PROVE  Locked'
<1> USE DEF PanelTypeOK, panelLocal, PGoto, Critical
<1>1. \A q \in PanelProcs \ {p} : panelPc'[q] = panelPc[q] /\ lockPid'[q] = lockPid[q]
  BY OthersKept
<1>2. panelPc[p] # "dead"
  BY DEF PanelProc, LockWrite, LockLook, LockRelease, Unlock, ReadDir, ReadVal, WriteDir,
         WriteLat, ApplyGet, ApplyPut, relall, Command, Modify, Killed
<1>3. \A q \in PanelProcs \ {p} : panelPc[q] \in Critical => fpLock = q /\ fpLock' = q
  <2>1. \A q \in PanelProcs \ {p} : panelPc[q] \in Critical => fpLock = q /\ fpLock # Free
    BY FreeAssumption DEF Locked
  <2>2. CASE LockWrite(p) \/ Unlock(p)
    BY <2>1, <2>2 DEF LockWrite, Unlock, WriteLock
  <2>3. CASE LockRelease(p)
    <3>1. panelPc[lockPid[p]] = "dead"
      BY <2>3 DEF LockRelease, Locked
    <3>2. \A q \in PanelProcs \ {p} : panelPc[q] \in Critical => q # lockPid[p]
      BY <3>1
    <3> QED BY <2>1, <2>3, <3>2 DEF LockRelease, WriteLock
  <2>4. CASE ~ (LockWrite(p) \/ Unlock(p) \/ LockRelease(p))
    <3>1. fpLock' = fpLock
      BY <2>4 DEF PanelProc, LockLook, ReadDir, ReadVal, WriteDir, WriteLat, ApplyGet,
                  ApplyPut, relall, Command, Modify, Killed
    <3> QED BY <2>1, <3>1
  <2> QED BY <2>2, <2>3, <2>4
<1>4. panelPc'[p] \in Critical => fpLock' = p
  <2>1. CASE LockLook(p)
    BY <2>1 DEF LockLook
  <2>2. CASE LockWrite(p) \/ LockRelease(p) \/ Unlock(p) \/ Command(p) \/ Modify(p) \/ Killed(p)
    BY <2>2 DEF LockWrite, LockRelease, Unlock, Command, Modify, Killed
  <2>3. CASE ReadDir(p) \/ ReadVal(p) \/ WriteDir(p) \/ WriteLat(p) \/ ApplyGet(p)
             \/ ApplyPut(p) \/ relall(p)
    BY <2>3 DEF Locked, ReadDir, ReadVal, WriteDir, WriteLat, ApplyGet, ApplyPut, relall
  <2> QED BY <2>1, <2>2, <2>3 DEF PanelProc
<1>5. panelPc'[p] = "release" =>
        lockPid'[p] \in PanelProcs \ {p} /\ panelPc[lockPid'[p]] = "dead"
  <2>1. CASE LockLook(p)
    BY <1>2, <2>1, FreeAssumption DEF LockLook
  <2>2. CASE ReadVal(p)
    BY <2>2, ChipsInTurn DEF ReadVal, PanelSteps
  <2>3. CASE WriteLat(p)
    <3>1. AfterWrite(p) \in PanelSteps /\ AfterWrite(p) # "release"
      BY DEF AfterWrite, PanelSteps
    <3> QED BY <2>3, <3>1, ChipsInTurn DEF WriteLat, PanelSteps
  <2>4. CASE LockWrite(p) \/ LockRelease(p) \/ Unlock(p) \/ Command(p) \/ Modify(p) \/ Killed(p)
    BY <2>4 DEF LockWrite, LockRelease, Unlock, Command, Modify, Killed
  <2>5. CASE ReadDir(p) \/ WriteDir(p) \/ ApplyGet(p) \/ ApplyPut(p) \/ relall(p)
    BY <2>5 DEF ReadDir, WriteDir, ApplyGet, ApplyPut, relall
  <2> QED BY <2>1, <2>2, <2>3, <2>4, <2>5 DEF PanelProc
<1>6. \A q \in PanelProcs \ {p} : panelPc[q] = "release" =>
        lockPid[q] \in PanelProcs \ {p} /\ panelPc[lockPid[q]] = "dead"
  BY <1>2 DEF Locked
<1>7. \A q \in PanelProcs : panelPc'[q] \in Critical => fpLock' = q
  BY <1>1, <1>3, <1>4
<1>8. \A q \in PanelProcs : panelPc'[q] = "release" =>
        lockPid'[q] \in PanelProcs /\ panelPc'[lockPid'[q]] = "dead"
  BY <1>1, <1>5, <1>6
<1> QED BY <1>7, <1>8 DEF Locked

-----------------------------------------------------------------------------
(* What is on the chips. *)

\* The two writes of a chip: a mixture of the old and the new registers.
LEMMA WritesAreCold ==
    ASSUME PanelInv, NEW p \in PanelProcs, WriteDir(p) \/ WriteLat(p)
    PROVE  /\ Cold' /\ Mixable(p)'
           /\ padStage'[p] # "get" /\ panelPc'[p] \in {"wrdir", "wrlat", "apply", "unlk"}
<1>1. Cold /\ Mixable(p) /\ padStage[p] # "get"
  BY DEF PanelInv, AtWork, Writing, WriteDir, WriteLat
<1>2. CASE WriteDir(p)
  <2>1. /\ UNCHANGED <<olat, dirs, vals, padStage>>
        /\ iodir' = StoredPins(p, iodir, dirs[p])
        /\ panelPc'[p] \in {"wrdir", "wrlat"}
    BY <1>2 DEF WriteDir, panelLocal, PGoto, PanelInv, PanelTypeOK
  <2>2. \A x \in Pins : iodir'[x] \in {iodir[x], dirs[p][x]}
    BY <2>1 DEF StoredPins
  <2>3. \A t \in Toggles : iodir'[CollPin[t]] \in {iodir[CollPin[t]], dirs[p][CollPin[t]]}
    BY <2>2, PinsOfSwitches
  <2>4. Cold' /\ Mixable(p)'
    BY <1>1, <2>1, <2>3 DEF Cold, Mixable
  <2> QED BY <1>1, <2>1, <2>4
<1>3. CASE WriteLat(p)
  <2>1. /\ UNCHANGED <<iodir, dirs, vals>>
        /\ olat' = StoredPins(p, olat, vals[p])
    BY <1>3 DEF WriteLat
  <2>2. \A x \in Pins : olat'[x] \in {olat[x], vals[p][x]}
    BY <2>1 DEF StoredPins
  <2>3. \A t \in Toggles : olat'[BasePin[t]] \in {olat[BasePin[t]], vals[p][BasePin[t]]}
    BY <2>2, PinsOfSwitches
  <2>4. Cold' /\ Mixable(p)'
    BY <1>1, <2>1, <2>3 DEF Cold, Mixable
  <2>5. AfterWrite(p) \in PanelSteps /\ AfterWrite(p) \in {"apply", "unlk"}
    BY DEF AfterWrite, PanelSteps, Critical
  <2>6. padStage'[p] # "get"
    BY <1>1, <1>3 DEF WriteLat, PanelInv, PanelTypeOK
  <2>7. panelPc'[p] \in {"wrdir", "wrlat", "apply", "unlk"}
    <3>1. CASE NextChip(p, "wrdir", AfterWrite(p))
      BY <2>5, <3>1, ChipsInTurn DEF PanelInv, PanelSteps, Critical
    <3>2. CASE PGoto(p, "wrlat")
      BY <3>2 DEF PGoto, PanelInv, PanelTypeOK
    <3> QED BY <1>3, <3>1, <3>2 DEF WriteLat
  <2> QED BY <2>4, <2>6, <2>7
<1> QED BY <1>2, <1>3

\* writepads computes the new registers from what is on the chips: it drives a
\* collector only where the base was high, and lowers a base only where the
\* collector was not driven.
LEMMA PhasesAreMixable ==
    ASSUME PanelInv, NEW p \in PanelProcs, ApplyPut(p)
    PROVE  Mixable(p)'
<1>1. \A x \in Pins : dirs[p][x] = iodir[x] /\ vals[p][x] = olat[x]
  BY DEF PanelInv, AtWork, Ready, Same, ApplyPut
<1>2. ASSUME NEW t \in Toggles
      PROVE  /\ iodir[CollPin[t]] = 0 => NewVal(p, BasePin[t]) = 1
             /\ NewDir(p, CollPin[t]) = 0 => olat[BasePin[t]] = 1
             /\ NewDir(p, CollPin[t]) = 0 => NewVal(p, BasePin[t]) = 1
  <2> DEFINE tog == writetog(p, t, dirs[p], vals[p])
  <2>1. NewDir(p, CollPin[t]) = tog.coll /\ NewVal(p, BasePin[t]) = tog.base
    BY PinsOfToggle DEF NewDir, NewVal
  <2>2. /\ dirs[p][CollPin[t]] = iodir[CollPin[t]] /\ vals[p][BasePin[t]] = olat[BasePin[t]]
        /\ iodir[CollPin[t]] = 0 => olat[BasePin[t]] = 1
    BY <1>1, PinsOfSwitches DEF PanelInv, Cold
  <2>3. pads[p].ovr[t] \in BOOLEAN /\ pads[p].val[t] \in {0, 1}
    BY DEF PanelInv, PanelTypeOK, Panels, PinBits
  <2>4. /\ iodir[CollPin[t]] = 0 => tog.base = 1
        /\ tog.coll = 0 => olat[BasePin[t]] = 1
        /\ tog.coll = 0 => tog.base = 1
    BY <2>2, <2>3 DEF writetog
  <2> QED BY <2>1, <2>4
<1>3. /\ iodir' = iodir /\ olat' = olat
      /\ dirs'[p] = [x \in Pins |-> NewDir(p, x)] /\ vals'[p] = [x \in Pins |-> NewVal(p, x)]
  BY DEF ApplyPut, PanelInv, PanelTypeOK
<1>4. \A t \in Toggles : /\ dirs'[p][CollPin[t]] = NewDir(p, CollPin[t])
                         /\ vals'[p][BasePin[t]] = NewVal(p, BasePin[t])
  BY <1>3, PinsOfSwitches
<1> QED BY <1>2, <1>3, <1>4 DEF Mixable

LEMMA NotAbove == \A m, n \in Nat : m =< n => m < n \/ m = n
OBVIOUS

\* What has been written is on the chip.
LEMMA WrittenSame ==
    ASSUME PanelInv, NEW p \in PanelProcs, WriteLat(p), NEW x \in Pins, ChipOf[x] =< chip[p]
    PROVE  Same(p, x)'
<1>1. /\ panelPc[p] = "wrlat" /\ padStage[p] # "get" /\ Synced(p)
      /\ UNCHANGED <<iodir, dirs, vals>>
      /\ olat' = StoredPins(p, olat, vals[p])
  BY DEF WriteLat, AtWork, Writing, PanelInv
<1>2. ChipOf[x] \in Nat /\ chip[p] \in Nat
  BY ChipAssumption DEF PanelInv, PanelTypeOK
<1>3. CASE ChipOf[x] < chip[p]
  <2>1. Same(p, x)
    BY <1>1, <1>3 DEF Synced, AtChip
  <2>2. ChipOf[x] # chip[p]
    BY <1>2, <1>3
  <2>3. olat'[x] = olat[x]
    BY <1>1, <2>2 DEF StoredPins, OnChip
  <2> QED BY <1>1, <2>1, <2>3 DEF Same
<1>4. CASE ChipOf[x] = chip[p]
  <2>1. dirs[p][x] = iodir[x]
    BY <1>1, <1>4 DEF Synced, AtChip
  <2> QED BY <1>1, <1>4, <2>1 DEF Same, StoredPins, OnChip
<1> QED BY <1>2, <1>3, <1>4, NotAbove

\* A process's own step: what it has read or written so far is what the chips hold.
LEMMA OwnStep ==
    ASSUME PanelInv, NEW p \in PanelProcs, PanelProc(p)
    PROVE  AtWork(p)'
<1> USE DEF PanelInv, PanelTypeOK, panelLocal, PGoto
<1>1. AtWork(p)
  OBVIOUS
<1>2. Chips \in Nat \ {0} /\ chip[p] \in 1 .. Chips /\ \A x \in Pins : ChipOf[x] \in 1 .. Chips
  BY ChipAssumption
<1>3. CASE LockWrite(p) \/ LockRelease(p) \/ Unlock(p) \/ ApplyGet(p)
           \/ Command(p) \/ Modify(p) \/ Killed(p)
  <2>1. panelPc'[p] \notin AtChip /\ panelPc'[p] # "apply"
    BY <1>3 DEF LockWrite, LockRelease, Unlock, ApplyGet, Command, Modify, Killed, AtChip
  <2> QED BY <2>1 DEF AtWork, Synced, Ready, Writing, AtChip
<1>4. CASE LockLook(p)
  <2>1. /\ chip'[p] = 1 /\ padStage'[p] = padStage[p]
        /\ panelPc'[p] \notin {"rdval", "wrdir", "wrlat"}
        /\ panelPc'[p] = "apply" => padStage'[p] = "all"
    BY <1>4 DEF LockLook
  <2>2. \A x \in Pins : ~ (ChipOf[x] < 1)
    BY <1>2
  <2> QED BY <2>1, <2>2 DEF AtWork, Synced, Ready, Writing
<1>5. CASE ReadDir(p)
  <2>1. /\ panelPc[p] = "rddir" /\ panelPc'[p] = "rdval"
        /\ UNCHANGED <<iodir, olat, padStage, chip, vals>>
        /\ dirs'[p] = Copied(p, dirs[p], iodir)
    BY <1>5 DEF ReadDir
  <2>2. \A x \in Pins : /\ ChipOf[x] = chip[p] => dirs'[p][x] = iodir[x]
                        /\ ChipOf[x] # chip[p] => dirs'[p][x] = dirs[p][x]
    BY <2>1 DEF Copied, OnChip
  <2>3. padStage[p] # "get" => \A x \in Pins : ChipOf[x] < chip[p] => Same(p, x)
    BY <1>1, <2>1 DEF AtWork, Synced, AtChip
  <2>4. padStage[p] # "get" => \A x \in Pins : ChipOf[x] < chip[p] => Same(p, x)'
    BY <1>2, <2>1, <2>2, <2>3 DEF Same
  <2> QED BY <2>1, <2>2, <2>4 DEF AtWork, Synced, Ready, Writing
<1>6. CASE ReadVal(p)
  <2>1. /\ panelPc[p] = "rdval"
        /\ UNCHANGED <<iodir, olat, padStage, dirs>>
        /\ padStage[p] # "get" => vals'[p] = Copied(p, vals[p], olat)
        /\ NextChip(p, "rddir", "apply")
    BY <1>6 DEF ReadVal
  <2>2. IF chip[p] < Chips
        THEN chip'[p] = chip[p] + 1 /\ panelPc'[p] = "rddir"
        ELSE chip[p] = Chips /\ chip'[p] = 1 /\ panelPc'[p] = "apply"
    BY <2>1, ChipsInTurn DEF PanelSteps, Critical
  <2>3. ASSUME padStage[p] # "get", NEW x \in Pins, ChipOf[x] =< chip[p]
        PROVE  Same(p, x)'
    <3>1. CASE ChipOf[x] < chip[p]
      <4>1. Same(p, x)
        BY <1>1, <2>1, <2>3, <3>1 DEF AtWork, Synced, AtChip
      <4>2. ChipOf[x] # chip[p]
        BY <1>2, <3>1
      <4>3. vals'[p][x] = vals[p][x]
        BY <2>1, <2>3, <4>2 DEF Copied, OnChip
      <4> QED BY <2>1, <4>1, <4>3 DEF Same
    <3>2. CASE ChipOf[x] = chip[p]
      <4>1. dirs[p][x] = iodir[x]
        BY <1>1, <2>1, <2>3, <3>2 DEF AtWork, Synced, AtChip
      <4> QED BY <2>1, <2>3, <3>2, <4>1 DEF Same, Copied, OnChip
    <3>3. ChipOf[x] \in Nat /\ chip[p] \in Nat
      BY <1>2
    <3>4. ChipOf[x] < chip[p] \/ ChipOf[x] = chip[p]
      BY <2>3, <3>3, NotAbove
    <3> QED BY <3>1, <3>2, <3>4
  <2>4. CASE chip[p] < Chips
    <3>1. \A x \in Pins : ChipOf[x] < chip'[p] => ChipOf[x] =< chip[p]
      BY <1>2, <2>2, <2>4
    <3> QED BY <2>1, <2>2, <2>3, <2>4, <3>1 DEF AtWork, Synced, Ready, Writing
  <2>5. CASE ~ (chip[p] < Chips)
    <3>1. \A x \in Pins : ChipOf[x] =< chip[p]
      BY <1>2, <2>2, <2>5
    <3>2. padStage'[p] \in {"put1", "put2"} => \A x \in Pins : Same(p, x)'
      BY <2>1, <2>3, <3>1
    <3> QED BY <2>2, <2>5, <3>2 DEF AtWork, Synced, Ready, Writing, AtChip
  <2> QED BY <2>4, <2>5
<1>7. CASE WriteDir(p)
  <2>1. /\ panelPc[p] = "wrdir" /\ panelPc'[p] \in {"wrdir", "wrlat"}
        /\ UNCHANGED <<olat, padStage, chip, dirs, vals>>
        /\ iodir' = StoredPins(p, iodir, dirs[p])
    BY <1>7 DEF WriteDir
  <2>2. \A x \in Pins : /\ ChipOf[x] = chip[p] => dirs'[p][x] = iodir'[x]
                        /\ ChipOf[x] # chip[p] => iodir'[x] = iodir[x]
    BY <2>1 DEF StoredPins, OnChip
  <2>3. padStage[p] # "get" => \A x \in Pins : ChipOf[x] < chip[p] => Same(p, x)
    BY <1>1, <2>1 DEF AtWork, Synced, AtChip
  <2>4. padStage[p] # "get" => \A x \in Pins : ChipOf[x] < chip[p] => Same(p, x)'
    BY <1>2, <2>1, <2>2, <2>3 DEF Same
  <2>5. padStage'[p] # "get" /\ Mixable(p)'
    BY <1>7, WritesAreCold
  <2> QED BY <2>1, <2>2, <2>4, <2>5 DEF AtWork, Synced, Ready, Writing
<1>8. CASE WriteLat(p)
  <2>1. /\ panelPc[p] = "wrlat" /\ padStage[p] # "get"
        /\ UNCHANGED <<iodir, dirs, vals>>
        /\ olat' = StoredPins(p, olat, vals[p])
    BY <1>1, <1>8 DEF WriteLat, AtWork, Writing
  <2>2. ASSUME NEW x \in Pins, ChipOf[x] =< chip[p]
        PROVE  Same(p, x)'
    BY <1>8, <2>2, WrittenSame
  <2>3. padStage'[p] # "get" /\ Mixable(p)'
    BY <1>8, WritesAreCold
  <2>4. CASE NextChip(p, "wrdir", AfterWrite(p))
    <3>1. AfterWrite(p) \in PanelSteps /\ AfterWrite(p) \in {"apply", "unlk"}
      BY DEF AfterWrite, PanelSteps, Critical
    <3>2. IF chip[p] < Chips
          THEN chip'[p] = chip[p] + 1 /\ panelPc'[p] = "wrdir"
          ELSE chip[p] = Chips /\ chip'[p] = 1 /\ panelPc'[p] \in {"apply", "unlk"}
      BY <2>4, <3>1, ChipsInTurn DEF PanelSteps, Critical
    <3>3. CASE chip[p] < Chips
      <4>1. \A x \in Pins : ChipOf[x] < chip'[p] => ChipOf[x] =< chip[p]
        BY <1>2, <3>2, <3>3
      <4> QED BY <2>2, <2>3, <3>2, <3>3, <4>1 DEF AtWork, Synced, Ready, Writing
    <3>4. CASE ~ (chip[p] < Chips)
      <4>1. \A x \in Pins : ChipOf[x] =< chip[p]
        BY <1>2, <3>2, <3>4
      <4>2. \A x \in Pins : Same(p, x)'
        BY <2>2, <4>1
      <4> QED BY <3>2, <3>4, <4>2 DEF AtWork, Synced, Ready, Writing, AtChip
    <3> QED BY <3>3, <3>4
  <2>5. CASE PGoto(p, "wrlat") /\ UNCHANGED <<chip, padStage>>
    <3>1. panelPc'[p] = "wrlat" /\ chip'[p] = chip[p]
      BY <2>5
    <3>2. \A x \in Pins : ChipOf[x] < chip[p] \/ ChipOf[x] = chip[p] => Same(p, x)'
      BY <1>2, <2>2
    <3> QED BY <2>3, <3>1, <3>2 DEF AtWork, Synced, Ready, Writing, Same
  <2> QED BY <1>8, <2>4, <2>5 DEF WriteLat
<1>9. CASE ApplyPut(p) \/ relall(p)
  <2>1. /\ panelPc[p] = "apply" /\ panelPc'[p] = "wrdir"
        /\ chip'[p] = chip[p] /\ padStage'[p] = padStage[p] /\ padStage[p] # "get"
    BY <1>9 DEF ApplyPut, relall
  <2>2. chip'[p] = 1 /\ \A x \in Pins : ~ (ChipOf[x] < 1)
    BY <1>1, <1>2, <2>1 DEF AtWork, Ready
  <2>3. Mixable(p)'
    <3>1. CASE ApplyPut(p)
      BY <3>1, PhasesAreMixable
    <3>2. CASE relall(p)
      <4>1. dirs'[p] = Released /\ vals'[p] = Released
        BY <3>2 DEF relall
      <4> QED BY <4>1, PinsOfSwitches DEF Mixable, Released
    <3> QED BY <1>9, <3>1, <3>2
  <2> QED BY <2>1, <2>2, <2>3 DEF AtWork, Synced, Ready, Writing
<1> QED BY <1>3, <1>4, <1>5, <1>6, <1>7, <1>8, <1>9 DEF PanelProc

LEMMA PanelPreserved == PanelInv /\ [PanelNext]_panelVars => PanelInv'
<1> SUFFICES ASSUME PanelInv, [PanelNext]_panelVars PROVE PanelInv'
  OBVIOUS
<1>1. PanelTypeOK'
  BY PanelTyped DEF PanelInv
<1>2. CASE UNCHANGED panelVars \/ UserMoves
  <2>1. UNCHANGED <<iodir, olat, fpLock, panelPc, lockPid, padStage, chip, dirs, vals>>
    BY <1>2 DEF panelVars, panelLocal, UserMoves
  <2>2. Locked' /\ Cold'
    BY <2>1 DEF PanelInv, Locked, Cold
  <2>3. \A p \in PanelProcs : AtWork(p)'
    BY <2>1 DEF PanelInv, AtWork, Synced, Ready, Writing, Mixable, Same
  <2> QED BY <1>1, <2>2, <2>3 DEF PanelInv
<1>3. ASSUME NEW p \in PanelProcs, PanelProc(p) PROVE PanelInv'
  <2>1. Locked'
    BY <1>3, OneAtTheChips DEF PanelInv
  <2>2. Cold'
    <3>1. CASE panelPc[p] \in {"wrdir", "wrlat"}
      <4>1. CASE WriteDir(p) \/ WriteLat(p)
        BY <4>1, WritesAreCold
      <4>2. CASE ~ (WriteDir(p) \/ WriteLat(p))
        <5>1. iodir' = iodir /\ olat' = olat
          BY <1>3, <4>2 DEF PanelProc, LockWrite, LockLook, LockRelease, Unlock, ReadDir,
                            ReadVal, ApplyGet, ApplyPut, relall, Command, Modify, Killed
        <5> QED BY <5>1 DEF PanelInv, Cold
      <4> QED BY <4>1, <4>2
    <3>2. CASE panelPc[p] \notin {"wrdir", "wrlat"}
      BY <1>3, <3>2, ChipsKept DEF PanelInv, Cold
    <3> QED BY <3>1, <3>2
  <2>3. ASSUME NEW q \in PanelProcs \ {p} PROVE AtWork(q)'
    <3>1. /\ panelPc'[q] = panelPc[q] /\ padStage'[q] = padStage[q] /\ chip'[q] = chip[q]
          /\ dirs'[q] = dirs[q] /\ vals'[q] = vals[q]
      BY <1>3, OthersKept DEF PanelInv
    <3>2. CASE panelPc[q] \in Critical
      <4>1. panelPc[p] \notin Critical
        BY <3>2 DEF PanelInv, Locked
      <4>2. iodir' = iodir /\ olat' = olat
        BY <1>3, <4>1, ChipsKept DEF Critical
      <4> QED BY <3>1, <4>2 DEF PanelInv, AtWork, Synced, Ready, Writing, Mixable, Same
    <3>3. CASE panelPc[q] \notin Critical
      BY <3>1, <3>3 DEF AtWork, Synced, Ready, Writing, AtChip, Critical
    <3> QED BY <3>2, <3>3
  <2>4. AtWork(p)'
    BY <1>3, OwnStep
  <2> QED BY <1>1, <2>1, <2>2, <2>3, <2>4 DEF PanelInv
<1> QED BY <1>2, <1>3 DEF PanelNext

\* Registers and copies hold bits, the lock a pid or nobody's, and every process
\* is at a step of its command, at a chip there is (z8lpanel.cc, i2czlib.cc).
THEOREM PanelTypesRight == PanelSpec => []PanelTypeOK
<1>1. PanelInv => PanelTypeOK
  BY DEF PanelInv
<1> QED BY <1>1, PanelInitially, PanelPreserved, PTL DEF PanelSpec

\* i2czlib.cc: whatever is overridden by however many processes, on boards
\* however wired, and whoever is killed between any two writes, no transistor
\* drives into a collector pin that is low.
THEOREM NothingCooks == PanelSpec => []NeverCooked
<1>1. PanelInv => NeverCooked
  BY DEF PanelInv, Cold, NeverCooked, TransistorOn, Driven
<1> QED BY <1>1, PanelInitially, PanelPreserved, PTL DEF PanelSpec

-----------------------------------------------------------------------------
(* What a process has read, and what it writes. *)

\* The level of a line that does not depend on the position of a switch.
Settled(x) == \A t \in Toggles : x = CollPin[t] => Overridden(t)
Held(x) == IF iodir[x] = 0 THEN olat[x] ELSE 1
Found(p, x) == dirs[p][x] = iodir[x] /\ (Settled(x) => vals[p][x] = Held(x))

Reading(p) ==
    padStage[p] = "get" =>
        /\ panelPc[p] \in {"rddir", "rdval"} => \A x \in Pins :
              /\ ChipOf[x] < chip[p] => Found(p, x)
              /\ ChipOf[x] = chip[p] /\ panelPc[p] = "rdval" => dirs[p][x] = iodir[x]
        /\ panelPc[p] \in {"apply", "unlk"} => \A x \in Pins : Found(p, x)
        /\ panelPc[p] = "unlk" => pads[p] = GotPads(p)

\* What is to be driven low, by the collector's pin or by the transistor's.
Low(p, t) == pads[p].ovr[t] /\ pads[p].val[t] = 0
High(p, t) == pads[p].ovr[t] /\ pads[p].val[t] = 1

\* After the first phase all is off that shall be, after the second on what shall be.
OffDone(p) == \A t \in Toggles :
    /\ ~ Low(p, t) => dirs[p][CollPin[t]] = 1
    /\ ~ High(p, t) => vals[p][BasePin[t]] = 1
OnDone(p) ==
    /\ \A t \in Toggles :
          /\ dirs[p][BasePin[t]] = 0 /\ vals[p][CollPin[t]] = 0
          /\ dirs[p][CollPin[t]] = IF Low(p, t) THEN 0 ELSE 1
          /\ vals[p][BasePin[t]] = IF High(p, t) THEN 0 ELSE 1
    /\ \A b \in PanelButtons :
          IF pads[p].button[b] THEN dirs[p][ButtonPin[b]] = 0 /\ vals[p][ButtonPin[b]] = 0
          ELSE dirs[p][ButtonPin[b]] = 1

Putting(p) ==
    /\ panelPc[p] \in {"lock", "look", "release", "rddir", "rdval"} => padStage[p] # "put2"
    /\ padStage[p] = "put1" /\ panelPc[p] \in {"wrdir", "wrlat"} => OffDone(p)
    /\ padStage[p] = "put2" /\ panelPc[p] = "apply" => OffDone(p)
    /\ padStage[p] = "put2" /\ panelPc[p] \in {"wrdir", "wrlat", "unlk"} => OnDone(p)
    /\ padStage[p] = "all" /\ panelPc[p] \in {"wrdir", "wrlat", "unlk"} =>
          \A x \in Pins : dirs[p][x] = 1 /\ vals[p][x] = 1
    /\ panelPc[p] = "unlk" => /\ padStage[p] # "put1"
                              /\ padStage[p] # "get" => \A x \in Pins : Same(p, x)

SwitchInv == PanelInv /\ \A p \in PanelProcs : Reading(p) /\ Putting(p)

LEMMA SettledLevel ==
    ASSUME NEW x \in Pins, Settled(x)
    PROVE  Level(x) = Held(x)
<1>1. CASE iodir[x] = 0
  BY <1>1 DEF Level, Held, Driven
<1>2. CASE iodir[x] # 0 /\ \E t \in Toggles : x = CollPin[t]
  <2>1. PICK t \in Toggles : x = CollPin[t]
    BY <1>2
  <2>2. (CHOOSE u \in Toggles : x = CollPin[u]) = t
    BY <2>1, PinsOfToggle
  <2>3. TransistorOn(t)
    BY <1>2, <2>1 DEF Settled, Overridden, Driven
  <2> QED BY <1>2, <2>2, <2>3 DEF Level, Held, Driven
<1>3. CASE iodir[x] # 0 /\ ~ \E t \in Toggles : x = CollPin[t]
  BY <1>3 DEF Level, Held, Driven
<1> QED BY <1>1, <1>2, <1>3

LEMMA FoundKept ==
    ASSUME NEW p, NEW x, UNCHANGED <<iodir, olat>>, dirs'[p] = dirs[p], vals'[p] = vals[p],
           Found(p, x)
    PROVE  Found(p, x)'
BY DEF Found, Settled, Held, Overridden, TransistorOn, Driven

LEMMA OwnReading ==
    ASSUME SwitchInv, NEW p \in PanelProcs, PanelProc(p)
    PROVE  Reading(p)'
<1> SUFFICES ASSUME padStage'[p] = "get" PROVE Reading(p)'
  BY DEF Reading
<1> USE DEF PanelInv, PanelTypeOK, panelLocal, PGoto
<1>1. PanelInv /\ Reading(p)
  BY DEF SwitchInv
<1>2. Chips \in Nat \ {0} /\ chip[p] \in 1 .. Chips /\ \A x \in Pins : ChipOf[x] \in 1 .. Chips
  BY <1>1, ChipAssumption
<1>3. CASE LockWrite(p) \/ LockRelease(p) \/ Unlock(p) \/ Command(p) \/ Modify(p) \/ Killed(p)
  <2>1. panelPc'[p] \notin {"rddir", "rdval", "apply", "unlk"}
    BY <1>1, <1>3 DEF LockWrite, LockRelease, Unlock, Command, Modify, Killed
  <2> QED BY <2>1 DEF Reading
<1>4. CASE LockLook(p)
  <2>1. chip'[p] = 1 /\ panelPc'[p] \notin {"rdval", "apply", "unlk"}
    BY <1>1, <1>4 DEF LockLook
  <2>2. \A x \in Pins : ~ (ChipOf[x] < 1)
    BY <1>2
  <2> QED BY <2>1, <2>2 DEF Reading
<1>5. CASE ReadDir(p)
  <2>1. /\ panelPc[p] = "rddir" /\ panelPc'[p] = "rdval" /\ padStage[p] = "get"
        /\ UNCHANGED <<iodir, olat, chip, vals>>
        /\ dirs'[p] = Copied(p, dirs[p], iodir)
    BY <1>1, <1>5 DEF ReadDir
  <2>2. \A x \in Pins : /\ ChipOf[x] = chip[p] => dirs'[p][x] = iodir[x]
                        /\ ChipOf[x] # chip[p] => dirs'[p][x] = dirs[p][x]
    BY <2>1 DEF Copied, OnChip
  <2>3. ASSUME NEW x \in Pins, ChipOf[x] < chip[p] PROVE Found(p, x)'
    <3>1. Found(p, x)
      BY <1>1, <2>1, <2>3 DEF Reading
    <3>2. dirs'[p][x] = dirs[p][x]
      BY <1>2, <2>2, <2>3
    <3> QED BY <2>1, <3>1, <3>2 DEF Found, Settled, Held, Overridden, TransistorOn, Driven
  <2> QED BY <2>1, <2>2, <2>3 DEF Reading
<1>6. CASE ReadVal(p)
  <2>1. /\ panelPc[p] = "rdval" /\ padStage[p] = "get"
        /\ UNCHANGED <<iodir, olat, dirs>>
        /\ vals'[p] = Copied(p, vals[p], [x \in Pins |-> Level(x)])
        /\ NextChip(p, "rddir", "apply")
    BY <1>1, <1>6 DEF ReadVal
  <2>2. IF chip[p] < Chips
        THEN chip'[p] = chip[p] + 1 /\ panelPc'[p] = "rddir"
        ELSE chip[p] = Chips /\ chip'[p] = 1 /\ panelPc'[p] = "apply"
    BY <1>1, <2>1, ChipsInTurn DEF PanelSteps, Critical
  <2>3. ASSUME NEW x \in Pins, ChipOf[x] =< chip[p] PROVE Found(p, x)'
    <3>1. CASE ChipOf[x] < chip[p]
      <4>1. Found(p, x)
        BY <1>1, <2>1, <3>1 DEF Reading
      <4>2. vals'[p][x] = vals[p][x]
        BY <1>2, <2>1, <3>1 DEF Copied, OnChip
      <4> QED BY <2>1, <4>1, <4>2 DEF Found, Settled, Held, Overridden, TransistorOn, Driven
    <3>2. CASE ChipOf[x] = chip[p]
      <4>1. dirs[p][x] = iodir[x]
        BY <1>1, <2>1, <3>2 DEF Reading
      <4>2. vals'[p][x] = Level(x)
        BY <2>1, <3>2 DEF Copied, OnChip
      <4>3. Settled(x) => vals'[p][x] = Held(x)
        BY <4>2, SettledLevel
      <4> QED BY <2>1, <4>1, <4>3 DEF Found, Settled, Held, Overridden, TransistorOn, Driven
    <3>3. ChipOf[x] \in Nat /\ chip[p] \in Nat
      BY <1>2
    <3>4. ChipOf[x] < chip[p] \/ ChipOf[x] = chip[p]
      BY <2>3, <3>3, NotAbove
    <3> QED BY <3>1, <3>2, <3>4
  <2>4. CASE chip[p] < Chips
    <3>1. \A x \in Pins : ChipOf[x] < chip'[p] => ChipOf[x] =< chip[p]
      BY <1>2, <2>2, <2>4
    <3> QED BY <2>2, <2>3, <2>4, <3>1 DEF Reading
  <2>5. CASE ~ (chip[p] < Chips)
    <3>1. \A x \in Pins : ChipOf[x] =< chip[p]
      BY <1>2, <2>2, <2>5
    <3> QED BY <2>2, <2>3, <2>5, <3>1 DEF Reading
  <2> QED BY <2>4, <2>5
<1>7. CASE ApplyGet(p)
  <2>1. /\ panelPc[p] = "apply" /\ panelPc'[p] = "unlk" /\ padStage[p] = "get"
        /\ UNCHANGED <<iodir, olat, dirs, vals>> /\ pads'[p] = GotPads(p)
    BY <1>1, <1>7 DEF ApplyGet
  <2>2. \A x \in Pins : Found(p, x)'
    BY <1>1, <2>1, FoundKept DEF Reading
  <2>3. GotPads(p)' = GotPads(p)
    BY <2>1 DEF GotPads
  <2> QED BY <2>1, <2>2, <2>3 DEF Reading
<1>8. CASE WriteDir(p) \/ WriteLat(p) \/ ApplyPut(p) \/ relall(p)
  <2>1. padStage'[p] # "get"
    BY <1>1, <1>8, WritesAreCold DEF ApplyPut, relall
  <2> QED BY <2>1
<1> QED BY <1>3, <1>4, <1>5, <1>6, <1>7, <1>8 DEF PanelProc

\* The two phases of writepads
LEMMA PhasesDone ==
    ASSUME SwitchInv, NEW p \in PanelProcs, ApplyPut(p)
    PROVE  /\ padStage[p] = "put1" => OffDone(p)'
           /\ padStage[p] = "put2" => OnDone(p)'
<1>1. /\ PanelInv /\ Putting(p) /\ panelPc[p] = "apply" /\ padStage[p] \in {"put1", "put2"}
  BY DEF SwitchInv, ApplyPut
<1>2. /\ pads' = pads
      /\ dirs'[p] = [x \in Pins |-> NewDir(p, x)] /\ vals'[p] = [x \in Pins |-> NewVal(p, x)]
  BY <1>1 DEF ApplyPut, PanelInv, PanelTypeOK
<1>3. ASSUME NEW t \in Toggles
      PROVE  /\ dirs'[p][CollPin[t]] = writetog(p, t, dirs[p], vals[p]).coll
             /\ vals'[p][BasePin[t]] = writetog(p, t, dirs[p], vals[p]).base
             /\ dirs'[p][BasePin[t]] = 0 /\ vals'[p][CollPin[t]] = 0
  <2>1. /\ dirs'[p][CollPin[t]] = NewDir(p, CollPin[t]) /\ vals'[p][CollPin[t]] = NewVal(p, CollPin[t])
        /\ dirs'[p][BasePin[t]] = NewDir(p, BasePin[t]) /\ vals'[p][BasePin[t]] = NewVal(p, BasePin[t])
    BY <1>2, PinsOfSwitches
  <2> QED BY <2>1, PinsOfToggle DEF NewDir, NewVal
<1>4. ASSUME NEW b \in PanelButtons
      PROVE  dirs'[p][ButtonPin[b]] = writebut(p, b) /\ vals'[p][ButtonPin[b]] = writebut(p, b)
  <2>1. /\ dirs'[p][ButtonPin[b]] = NewDir(p, ButtonPin[b])
        /\ vals'[p][ButtonPin[b]] = NewVal(p, ButtonPin[b])
    BY <1>2, PinsOfSwitches
  <2>2. /\ ButtonPin[b] \notin CollPins /\ ButtonPin[b] \notin BasePins
        /\ (CHOOSE c \in PanelButtons : ButtonPin[b] = ButtonPin[c]) = b
    BY PinAssumption
  <2> QED BY <2>1, <2>2 DEF NewDir, NewVal
<1>5. ASSUME NEW t \in Toggles
      PROVE  /\ pads[p].ovr[t] \in BOOLEAN /\ pads[p].val[t] \in {0, 1}
             /\ dirs[p][CollPin[t]] \in {0, 1} /\ vals[p][BasePin[t]] \in {0, 1}
  BY <1>1, PinsOfSwitches DEF PanelInv, PanelTypeOK, Panels, PinBits
<1>6. CASE padStage[p] = "put1"
  <2>1. ASSUME NEW t \in Toggles
        PROVE  /\ ~ Low(p, t) => writetog(p, t, dirs[p], vals[p]).coll = 1
               /\ ~ High(p, t) => writetog(p, t, dirs[p], vals[p]).base = 1
    BY <1>5 DEF writetog, Low, High
  <2> QED BY <1>2, <1>3, <1>6, <2>1 DEF OffDone, Low, High
<1>7. CASE padStage[p] = "put2"
  <2>1. OffDone(p)
    BY <1>1, <1>7 DEF Putting
  <2>2. ASSUME NEW t \in Toggles
        PROVE  /\ writetog(p, t, dirs[p], vals[p]).coll = IF Low(p, t) THEN 0 ELSE 1
               /\ writetog(p, t, dirs[p], vals[p]).base = IF High(p, t) THEN 0 ELSE 1
    <3>1. /\ ~ Low(p, t) => dirs[p][CollPin[t]] = 1
          /\ ~ High(p, t) => vals[p][BasePin[t]] = 1
      BY <2>1 DEF OffDone
    <3>2. CASE ~ pads[p].ovr[t]
      BY <1>5, <3>2 DEF writetog, Low, High
    <3>3. CASE pads[p].ovr[t] /\ pads[p].val[t] = 1
      BY <1>5, <3>1, <3>3 DEF writetog, Low, High
    <3>4. CASE pads[p].ovr[t] /\ pads[p].val[t] = 0
      BY <1>5, <3>1, <3>4 DEF writetog, Low, High
    <3> QED BY <1>5, <3>2, <3>3, <3>4
  <2>3. \A b \in PanelButtons :
          IF pads'[p].button[b] THEN dirs'[p][ButtonPin[b]] = 0 /\ vals'[p][ButtonPin[b]] = 0
          ELSE dirs'[p][ButtonPin[b]] = 1
    BY <1>2, <1>4 DEF writebut
  <2>4. OnDone(p)'
    BY <1>2, <1>3, <2>2, <2>3 DEF OnDone, Low, High
  <2> QED BY <1>7, <2>4
<1> QED BY <1>1, <1>6, <1>7

LEMMA OwnPutting ==
    ASSUME SwitchInv, NEW p \in PanelProcs, PanelProc(p)
    PROVE  Putting(p)'
<1> USE DEF PanelInv, PanelTypeOK, panelLocal, PGoto
<1>1. PanelInv /\ Putting(p)
  BY DEF SwitchInv
<1>2. CASE LockWrite(p) \/ LockLook(p) \/ LockRelease(p)
  <2>1. /\ panelPc[p] \in {"lock", "look", "release"} /\ padStage'[p] = padStage[p]
        /\ panelPc'[p] \in {"lock", "look", "release", "rddir", "apply"}
    BY <1>1, <1>2 DEF LockWrite, LockLook, LockRelease
  <2>2. padStage'[p] # "put2"
    BY <1>1, <2>1 DEF Putting
  <2> QED BY <2>1, <2>2 DEF Putting
<1>3. CASE Unlock(p) \/ Command(p) \/ Modify(p) \/ Killed(p)
  <2>1. \/ panelPc'[p] \in {"modify", "idle", "dead"}
        \/ panelPc'[p] = "lock" /\ padStage'[p] # "put2"
    BY <1>1, <1>3 DEF Unlock, Command, Modify, Killed
  <2> QED BY <2>1 DEF Putting
<1>4. CASE ReadDir(p) \/ ReadVal(p)
  <2>1. padStage'[p] = padStage[p] /\ panelPc[p] \in {"rddir", "rdval"}
    BY <1>1, <1>4 DEF ReadDir, ReadVal
  <2>2. panelPc'[p] \in {"rddir", "rdval", "apply"}
    <3>1. CASE ReadDir(p)
      BY <1>1, <3>1 DEF ReadDir
    <3>2. CASE ReadVal(p)
      BY <1>1, <3>2, ChipsInTurn DEF ReadVal, PanelSteps, Critical
    <3> QED BY <1>4, <3>1, <3>2
  <2>3. padStage'[p] # "put2"
    BY <1>1, <2>1 DEF Putting
  <2> QED BY <2>2, <2>3 DEF Putting
<1>5. CASE ApplyGet(p)
  <2>1. panelPc'[p] = "unlk" /\ padStage'[p] = "get"
    BY <1>1, <1>5 DEF ApplyGet
  <2> QED BY <2>1 DEF Putting
<1>6. CASE ApplyPut(p)
  <2>1. panelPc'[p] = "wrdir" /\ padStage'[p] = padStage[p] /\ padStage[p] \in {"put1", "put2"}
    BY <1>1, <1>6 DEF ApplyPut
  <2> QED BY <1>6, <2>1, PhasesDone DEF Putting
<1>7. CASE relall(p)
  <2>1. /\ panelPc'[p] = "wrdir" /\ padStage'[p] = "all"
        /\ dirs'[p] = Released /\ vals'[p] = Released
    BY <1>1, <1>7 DEF relall
  <2> QED BY <2>1 DEF Putting, Released
<1>8. CASE WriteDir(p)
  <2>1. /\ panelPc[p] = "wrdir" /\ panelPc'[p] \in {"wrdir", "wrlat"}
        /\ UNCHANGED <<padStage, pads, dirs, vals>>
    BY <1>1, <1>8 DEF WriteDir
  <2> QED BY <1>1, <2>1 DEF Putting, OffDone, OnDone, Low, High
<1>9. CASE WriteLat(p)
  <2>1. panelPc[p] = "wrlat" /\ padStage[p] # "get" /\ UNCHANGED <<pads, dirs, vals>>
    BY <1>1, <1>9 DEF WriteLat, AtWork, Writing
  <2>2. /\ padStage[p] = "put1" => OffDone(p) /\ OffDone(p)'
        /\ padStage[p] = "put2" => OnDone(p) /\ OnDone(p)'
        /\ padStage[p] = "all" => \A x \in Pins : dirs'[p][x] = 1 /\ vals'[p][x] = 1
    BY <1>1, <2>1 DEF Putting, OffDone, OnDone, Low, High
  <2>3. CASE NextChip(p, "wrdir", AfterWrite(p))
    <3>1. AfterWrite(p) \in PanelSteps /\ AfterWrite(p) = IF padStage[p] = "put1" THEN "apply" ELSE "unlk"
      BY DEF AfterWrite, PanelSteps, Critical
    <3>2. IF chip[p] < Chips
          THEN chip'[p] = chip[p] + 1 /\ panelPc'[p] = "wrdir"
          ELSE chip[p] = Chips /\ chip'[p] = 1 /\ panelPc'[p] = AfterWrite(p)
      BY <1>1, <2>3, <3>1, ChipsInTurn DEF PanelSteps, Critical
    <3>3. chip[p] \in Nat /\ chip'[p] \in Nat /\ chip[p] \in 1 .. Chips /\ Chips \in Nat \ {0}
      BY <1>1, <3>2, ChipAssumption
    <3>4. padStage'[p] = IF chip[p] = Chips /\ padStage[p] = "put1" THEN "put2" ELSE padStage[p]
      <4>1. chip'[p] # chip[p] \/ panelPc'[p] # "wrlat"
        BY <3>1, <3>2, <3>3
      <4>2. padStage' = [padStage EXCEPT ![p] =
                           IF chip[p] = Chips /\ @ = "put1" THEN "put2" ELSE @]
        BY <1>1, <1>9, <4>1 DEF WriteLat
      <4> QED BY <1>1, <4>2
    <3>5. CASE chip[p] < Chips
      <4>1. padStage'[p] = padStage[p] /\ panelPc'[p] = "wrdir"
        BY <3>2, <3>3, <3>4, <3>5
      <4> QED BY <2>2, <4>1 DEF Putting
    <3>6. CASE ~ chip[p] < Chips
      <4>1. chip[p] = Chips /\ \A x \in Pins : ChipOf[x] =< chip[p]
        BY <3>2, <3>6, ChipAssumption
      <4>2. \A x \in Pins : Same(p, x)'
        BY <1>1, <1>9, <4>1, WrittenSame
      <4>3. IF padStage[p] = "put1" THEN padStage'[p] = "put2" /\ panelPc'[p] = "apply"
            ELSE padStage'[p] = padStage[p] /\ panelPc'[p] = "unlk"
        BY <3>1, <3>2, <3>4, <3>6, <4>1
      <4> QED BY <2>1, <2>2, <4>2, <4>3 DEF Putting
    <3> QED BY <3>5, <3>6
  <2>4. CASE PGoto(p, "wrlat") /\ UNCHANGED <<chip, padStage>>
    <3>1. panelPc'[p] = "wrlat" /\ padStage'[p] = padStage[p]
      BY <1>1, <2>4
    <3> QED BY <2>2, <3>1 DEF Putting
  <2> QED BY <1>9, <2>3, <2>4 DEF WriteLat
<1> QED BY <1>2, <1>3, <1>4, <1>5, <1>6, <1>7, <1>8, <1>9 DEF PanelProc

LEMMA SwitchPreserved == SwitchInv /\ [PanelNext]_panelVars => SwitchInv'
<1> SUFFICES ASSUME SwitchInv, [PanelNext]_panelVars PROVE SwitchInv'
  OBVIOUS
<1>1. PanelInv /\ PanelInv' /\ \A p \in PanelProcs : Reading(p) /\ Putting(p)
  BY PanelPreserved DEF SwitchInv
<1>2. CASE UNCHANGED panelVars \/ UserMoves
  <2>1. UNCHANGED <<iodir, olat, panelPc, pads, padStage, chip, dirs, vals>>
    BY <1>2 DEF panelVars, panelLocal, UserMoves
  <2>2. \A p \in PanelProcs : Reading(p)'
    BY <1>1, <2>1 DEF Reading, Found, Settled, Held, Overridden, TransistorOn, Driven, GotPads
  <2>3. \A p \in PanelProcs : Putting(p)'
    BY <1>1, <2>1 DEF Putting, OffDone, OnDone, Low, High, Same
  <2> QED BY <1>1, <2>2, <2>3 DEF SwitchInv
<1>3. ASSUME NEW p \in PanelProcs, PanelProc(p) PROVE SwitchInv'
  <2>1. ASSUME NEW q \in PanelProcs \ {p} PROVE Reading(q)' /\ Putting(q)'
    <3>1. /\ panelPc'[q] = panelPc[q] /\ padStage'[q] = padStage[q] /\ chip'[q] = chip[q]
          /\ dirs'[q] = dirs[q] /\ vals'[q] = vals[q] /\ pads'[q] = pads[q]
      BY <1>1, <1>3, OthersKept DEF PanelInv
    <3>2. CASE panelPc[q] \in Critical
      <4>1. panelPc[p] \notin Critical
        BY <1>1, <3>2 DEF PanelInv, Locked
      <4>2. iodir' = iodir /\ olat' = olat
        BY <1>3, <4>1, ChipsKept DEF Critical
      <4>3. Reading(q)'
        <5>1. GotPads(q)' = GotPads(q)
          BY <3>1 DEF GotPads
        <5>2. \A x \in Pins : Found(q, x) => Found(q, x)'
          BY <3>1, <4>2, FoundKept
        <5> QED BY <1>1, <3>1, <4>2, <5>1, <5>2 DEF Reading
      <4>4. Putting(q)'
        BY <1>1, <3>1, <4>2 DEF Putting, OffDone, OnDone, Low, High, Same
      <4> QED BY <4>3, <4>4
    <3>3. CASE panelPc[q] \notin Critical
      BY <1>1, <3>1, <3>3 DEF Reading, Putting, Critical
    <3> QED BY <3>2, <3>3
  <2>2. Reading(p)' /\ Putting(p)'
    BY <1>3, OwnReading, OwnPutting
  <2> QED BY <1>1, <2>1, <2>2 DEF SwitchInv
<1> QED BY <1>2, <1>3 DEF PanelNext

LEMMA SwitchesRight == SwitchInv => SwitchesAsWanted
<1> SUFFICES ASSUME SwitchInv, NEW p \in PanelProcs, panelPc[p] = "unlk", NEW t \in Toggles
             PROVE  /\ padStage[p] # "all" => pads[p].ovr[t] = Overridden(t)
                    /\ padStage[p] # "all" /\ Overridden(t) => pads[p].val[t] = Level(CollPin[t])
                    /\ padStage[p] = "all" => ~ Overridden(t)
                    /\ \A b \in PanelButtons :
                          padStage[p] # "all" => pads[p].button[b] = (Level(ButtonPin[b]) = 0)
  BY DEF SwitchesAsWanted
<1> USE DEF PanelInv, PanelTypeOK
<1>1. /\ PanelInv /\ Reading(p) /\ Putting(p)
      /\ padStage[p] \in {"get", "put2", "all"}
  BY DEF SwitchInv, Putting
<1>2. /\ Overridden(t) <=> iodir[CollPin[t]] = 0 \/ (iodir[BasePin[t]] = 0 /\ olat[BasePin[t]] = 0)
      /\ BasePin[t] \in Pins /\ CollPin[t] \in Pins
      /\ Settled(BasePin[t]) /\ (Overridden(t) => Settled(CollPin[t]))
      /\ iodir[CollPin[t]] \in {0, 1} /\ olat[BasePin[t]] \in {0, 1} /\ iodir[BasePin[t]] \in {0, 1}
      /\ pads[p].ovr[t] \in BOOLEAN /\ pads[p].val[t] \in {0, 1}
  <2>1. Settled(BasePin[t]) /\ (Overridden(t) => Settled(CollPin[t]))
    BY PinAssumption DEF Settled
  <2> QED BY <1>1, <2>1, PinsOfSwitches DEF Overridden, TransistorOn, Driven, Panels, PinBits
<1>3. Overridden(t) => Level(CollPin[t]) = Held(CollPin[t])
  BY <1>2, SettledLevel
<1>4. ASSUME NEW b \in PanelButtons
      PROVE  /\ ButtonPin[b] \in Pins /\ Settled(ButtonPin[b])
             /\ Level(ButtonPin[b]) = Held(ButtonPin[b])
             /\ pads[p].button[b] \in BOOLEAN
  <2>1. ButtonPin[b] \in Pins /\ Settled(ButtonPin[b])
    BY PinAssumption, PinsOfSwitches DEF Settled, CollPins
  <2> QED BY <1>1, <2>1, SettledLevel DEF Panels
<1>5. CASE padStage[p] = "get"
  <2>1. pads[p] = GotPads(p) /\ \A x \in Pins : Found(p, x)
    BY <1>1, <1>5 DEF Reading
  <2>2. dirs[p][CollPin[t]] = iodir[CollPin[t]] /\ vals[p][BasePin[t]] = Held(BasePin[t])
    BY <1>2, <2>1 DEF Found
  <2>3. pads[p].ovr[t] <=> Overridden(t)
    <3>1. GotPads(p).ovr[t] = ~ (dirs[p][CollPin[t]] = 1 /\ vals[p][BasePin[t]] = 1)
      BY DEF GotPads
    <3>2. pads[p].ovr[t] = ~ (dirs[p][CollPin[t]] = 1 /\ vals[p][BasePin[t]] = 1)
      BY <2>1, <3>1, Zenon
    <3>3. pads[p].ovr[t] <=> ~ (dirs[p][CollPin[t]] = 1 /\ vals[p][BasePin[t]] = 1)
      BY <3>2, Zenon
    <3> QED BY <1>2, <2>2, <3>3 DEF Held
  <2>4. Overridden(t) => pads[p].val[t] = Level(CollPin[t])
    BY <1>2, <1>3, <2>1 DEF Found, GotPads
  <2>5. ASSUME NEW b \in PanelButtons PROVE pads[p].button[b] = (Level(ButtonPin[b]) = 0)
    BY <1>4, <2>1 DEF Found, GotPads
  <2>6. pads[p].ovr[t] = Overridden(t)
    BY <1>2, <2>3 DEF Overridden
  <2> QED BY <1>5, <2>4, <2>5, <2>6
<1>6. CASE padStage[p] = "put2"
  <2>1. OnDone(p) /\ \A x \in Pins : Same(p, x)
    BY <1>1, <1>6 DEF Putting
  <2>2. /\ iodir[BasePin[t]] = 0 /\ olat[CollPin[t]] = 0
        /\ iodir[CollPin[t]] = IF Low(p, t) THEN 0 ELSE 1
        /\ olat[BasePin[t]] = IF High(p, t) THEN 0 ELSE 1
    BY <1>2, <2>1 DEF OnDone, Same
  <2>3. pads[p].ovr[t] <=> Overridden(t)
    BY <1>2, <2>2 DEF Low, High
  <2>4. Overridden(t) => pads[p].val[t] = Level(CollPin[t])
    BY <1>2, <1>3, <2>2, <2>3 DEF Held, Low, High
  <2>5. ASSUME NEW b \in PanelButtons PROVE pads[p].button[b] = (Level(ButtonPin[b]) = 0)
    <3>1. IF pads[p].button[b] THEN iodir[ButtonPin[b]] = 0 /\ olat[ButtonPin[b]] = 0
          ELSE iodir[ButtonPin[b]] = 1
      BY <1>4, <2>1 DEF OnDone, Same
    <3>2. pads[p].button[b] <=> Level(ButtonPin[b]) = 0
      BY <1>4, <3>1 DEF Held
    <3> QED BY <1>4, <3>2
  <2>6. pads[p].ovr[t] = Overridden(t)
    BY <1>2, <2>3 DEF Overridden
  <2> QED BY <1>6, <2>4, <2>5, <2>6
<1>7. CASE padStage[p] = "all"
  <2>1. \A x \in Pins : Same(p, x) /\ dirs[p][x] = 1 /\ vals[p][x] = 1
    BY <1>1, <1>7 DEF Putting
  <2> QED BY <1>2, <1>7, <2>1 DEF Same
<1> QED BY <1>1, <1>5, <1>6, <1>7

\* i2czlib.cc, z8lpanel.cc: whoever has written its switches has put every one of them
\* where it wanted it, and whoever has read them knows which are overridden and where to,
\* for any number of processes and switches, boards however wired, and whoever was killed
\* between any two writes before.
THEOREM SwitchesAreAsWanted == PanelSpec => []SwitchesAsWanted
<1>1. PanelIdle => SwitchInv
  <2>1. PanelIdle => \A p \in PanelProcs : Reading(p) /\ Putting(p)
    BY DEF PanelIdle, Reading, Putting
  <2> QED BY <2>1, PanelInitially DEF SwitchInv
<1> QED BY <1>1, SwitchPreserved, SwitchesRight, PTL DEF PanelSpec

-----------------------------------------------------------------------------
Commands8l == [cmd : {"setsw"}, sw : PadSwitches, val : {0, 1}] \cup [cmd : {"flushit", "getreg"}]
Frames == [Words -> Nat]
PadTypeOK ==
    /\ now \in Nat /\ seq \in Nat /\ request \in Nat /\ pinged \in Nat /\ flushed \in Nat
    /\ outputs \in [PadSwitches -> {0, 1}] /\ wrpads \in [PadSwitches -> {0, 1}]
    /\ padPresses \in [PadSwitches -> Nat] /\ padAsked \in [PadSwitches -> Nat]
    /\ rdpads \in Frames /\ wrpadsdirty \in BOOLEAN /\ rdpadsvalid \in BOOLEAN
    /\ padmutex \in {"free"} \cup Threads /\ padIo \in {"write", "read", "done"} /\ padAt \in Words
    /\ script \in Seq(Commands8l)
    /\ network \subseteq [to : {"server", "status"}, seq : Nat, frame : Frames]

\* No thread at work.
LEMMA PadInitTyped == PadIdle => PadTypeOK
<1> SUFFICES ASSUME PadIdle PROVE PadTypeOK
  OBVIOUS
<1>1. script \in Seq(Commands8l)
  BY ScriptAssumption DEF PadIdle, Commands8l
<1>2. 1 \in Words /\ NoFrame \in Frames
  BY PaddleAssumption DEF Words, NoFrame, Frames
<1> QED BY <1>1, <1>2 DEF PadIdle, PadTypeOK, NoRequest

\* A script and the rest of it.
LEMMA HeadTail ==
    ASSUME NEW S, NEW s \in Seq(S), s # <<>>
    PROVE  Head(s) \in S /\ Tail(s) \in Seq(S) /\ Head(s) = s[1]
           /\ Len(Tail(s)) = Len(s) - 1 /\ \A i \in 1 .. Len(s) - 1 : Tail(s)[i] = s[i + 1]
OBVIOUS
\* What each thread is at holds the lock, and a script that has it has a command.
PadAtWork ==
    /\ padmutex = "udp" => request # NoRequest
    /\ padmutex = "tcl" => script # << >> /\ Head(script).cmd \in {"flushit", "getreg"}

\* An answer to the latest ping was read after it; so is what is being read for one.
AnswersFresh ==
    /\ pinged <= now /\ request <= seq
    /\ \A d \in network : /\ d.seq <= seq
                          /\ d.to = "status" /\ d.seq = seq => \A w \in Words : d.frame[w] >= pinged
    /\ padmutex = "udp" /\ request = seq =>
          /\ padIo = "done" => \A w \in Words : rdpads[w] >= pinged
          /\ padIo = "read" => \A w \in 1 .. padAt - 1 : rdpads[w] >= pinged

\* What is valid in the cache was read after the last flush, and so is what the
\* script reads for a getreg.
CacheFresh ==
    /\ flushed <= now
    /\ rdpadsvalid => \A w \in Words : rdpads[w] >= flushed
    /\ padmutex # "free" /\ padIo = "read" => \A w \in 1 .. padAt - 1 : rdpads[w] >= flushed
    /\ padmutex = "tcl" /\ padIo = "done" /\ Head(script).cmd = "getreg" =>
          \A w \in Words : rdpads[w] >= flushed

FreshInv == PadTypeOK /\ PadAtWork /\ AnswersFresh /\ CacheFresh

USE DEF NoRequest, Words

LEMMA FreshInitially == PadIdle => FreshInv
<1> SUFFICES ASSUME PadIdle PROVE FreshInv
  OBVIOUS
<1>1. PadTypeOK
  BY PadInitTyped
<1>2. PadAtWork /\ AnswersFresh /\ CacheFresh
  BY DEF PadIdle, PadAtWork, AnswersFresh, CacheFresh, NoFrame
<1> QED BY <1>1, <1>2 DEF FreshInv

\* The threads' steps: what is fresh stays fresh.
LEMMA FreshLights == FreshInv /\ LightsChange => FreshInv'
BY DEF FreshInv, PadTypeOK, PadAtWork, AnswersFresh, CacheFresh, LightsChange, padCopies, padStatus

LEMMA FreshWrite == FreshInv /\ WritePaddle => FreshInv'
<1> SUFFICES ASSUME FreshInv, WritePaddle PROVE FreshInv'
  OBVIOUS
<1> USE DEF FreshInv, PadTypeOK, WritePaddle, padStatus, padCopies
<1>1. padPresses' \in [PadSwitches -> Nat] /\ outputs' \in [PadSwitches -> {0, 1}]
  OBVIOUS
<1>2. padAt' \in Words /\ padIo' \in {"write", "read", "done"}
  BY PaddleAssumption
<1>3. rdpadsvalid' => rdpadsvalid
  OBVIOUS
<1>3a. wrpadsdirty' \in BOOLEAN /\ rdpadsvalid' \in BOOLEAN
  OBVIOUS
<1>4. PadTypeOK'
  <2>1. UNCHANGED <<now, wrpads, rdpads, padmutex, script, request, network, seq, pinged, flushed, padAsked>>
    OBVIOUS
  <2> HIDE DEF WritePaddle
  <2> QED BY <1>1, <1>2, <1>3a, <2>1
<1>5. padIo' = "done" => padmutex = "tcl" /\ Head(script).cmd = "flushit"
  BY DEF Reads, PadAtWork, Threads
<1>6. padIo' = "read" => padAt' = 1
  OBVIOUS
<1>7. PadAtWork'
  BY DEF PadAtWork
<1>8. AnswersFresh'
  BY <1>5, <1>6 DEF AnswersFresh
<1>9. CacheFresh'
  BY <1>3, <1>5, <1>6 DEF CacheFresh
<1> QED BY <1>4, <1>7, <1>8, <1>9

LEMMA FreshRead == FreshInv /\ ReadPaddle => FreshInv'
<1> SUFFICES ASSUME FreshInv, ReadPaddle PROVE FreshInv'
  OBVIOUS
<1> USE DEF FreshInv, PadTypeOK, ReadPaddle, padStatus, padCopies
<1>1. rdpads' \in Frames /\ rdpads' = [rdpads EXCEPT ![padAt] = now]
  BY DEF Frames
<1>2. padAt' \in Words /\ padIo' \in {"write", "read", "done"}
  BY PaddleAssumption
<1>2a. rdpadsvalid' \in BOOLEAN
  BY Zenon
<1>3. PadTypeOK'
  BY <1>1, <1>2, <1>2a
<1>4. /\ padIo' = "read" => padAt' = padAt + 1
      /\ padIo' # "read" => padIo' = "done" /\ padAt = Paddles
  BY PaddleAssumption
<1>4a. padIo' = "read" => rdpadsvalid' = rdpadsvalid
  BY Zenon
<1>5. PadAtWork'
  BY DEF PadAtWork
<1>6. ASSUME NEW bound \in Nat, bound <= now,
             \A w \in 1 .. padAt - 1 : rdpads[w] >= bound
      PROVE  \A w \in 1 .. padAt : rdpads'[w] >= bound
  BY <1>1, <1>6 DEF Frames
<1>7. AnswersFresh'
  <2>1. UNCHANGED <<now, pinged, request, seq, network, padmutex>>
    OBVIOUS
  <2>2. padmutex = "udp" /\ request = seq => \A w \in 1 .. padAt : rdpads'[w] >= pinged
    BY <1>6 DEF AnswersFresh
  <2> QED BY <1>4, <2>1, <2>2 DEF AnswersFresh
<1>8. CacheFresh'
  BY <1>1, <1>4, <1>4a, <1>6 DEF CacheFresh, Frames
<1> QED BY <1>3, <1>5, <1>7, <1>8

LEMMA FreshSet == FreshInv /\ cmd_setsw => FreshInv'
<1> SUFFICES ASSUME FreshInv, cmd_setsw PROVE FreshInv'
  OBVIOUS
<1> USE DEF FreshInv, PadTypeOK, cmd_setsw, padStatus, setpin, Command1
<1>1. script' \in Seq(Commands8l) /\ Head(script) \in Commands8l
  BY HeadTail
<1>1a. Command1.sw \in PadSwitches /\ Command1.val \in {0, 1}
  BY <1>1 DEF Commands8l
<1>2. wrpads' \in [PadSwitches -> {0, 1}] /\ padAsked' \in [PadSwitches -> Nat]
  BY <1>1a
<1>3. wrpadsdirty' \in BOOLEAN
  OBVIOUS
<1>4. PadTypeOK'
  BY <1>1, <1>2, <1>3
<1>5. PadAtWork' /\ AnswersFresh' /\ CacheFresh'
  BY DEF PadAtWork, AnswersFresh, CacheFresh
<1> QED BY <1>4, <1>5

LEMMA FreshFlush == FreshInv /\ cmd_flushit_getreg => FreshInv'
<1> SUFFICES ASSUME FreshInv, cmd_flushit_getreg PROVE FreshInv'
  OBVIOUS
<1> USE DEF FreshInv, PadTypeOK, cmd_flushit_getreg, padStatus, Begin, InvalidateTcl, Command1
<1>1. rdpadsvalid' => rdpadsvalid /\ flushed' = flushed
  OBVIOUS
<1>2. padIo' = "done" => Command1.cmd = "flushit" \/ rdpadsvalid'
  OBVIOUS
<1>3. PadTypeOK'
  BY <1>1, PaddleAssumption DEF Threads
<1>4. PadAtWork' /\ AnswersFresh'
  BY DEF PadAtWork, AnswersFresh
<1>5. CacheFresh'
  BY <1>1, <1>2 DEF CacheFresh
<1> QED BY <1>3, <1>4, <1>5

LEMMA FreshDone == FreshInv /\ TclDone => FreshInv'
<1> SUFFICES ASSUME FreshInv, TclDone PROVE FreshInv'
  OBVIOUS
<1> USE DEF FreshInv, PadTypeOK, TclDone, padStatus, padCopies
<1>1. script' \in Seq(Commands8l)
  BY HeadTail DEF PadAtWork
<1>2. PadTypeOK'
  BY <1>1
<1>3. PadAtWork' /\ AnswersFresh' /\ CacheFresh'
  BY DEF PadAtWork, AnswersFresh, CacheFresh
<1> QED BY <1>2, <1>3

LEMMA FreshUdp == FreshInv /\ (UdpReceive \/ UdpLock \/ UdpAnswer) => FreshInv'
<1> SUFFICES ASSUME FreshInv, UdpReceive \/ UdpLock \/ UdpAnswer PROVE FreshInv'
  OBVIOUS
<1> USE DEF FreshInv, PadTypeOK, padStatus, padCopies
<1>1. CASE UdpReceive
  <2>1. PICK d \in network : request' = d.seq
    BY <1>1 DEF UdpReceive
  <2>2. d.seq \in Nat /\ d.seq <= seq
    BY DEF AnswersFresh
  <2>3. UNCHANGED <<now, padmutex, padIo, padAt, script, network, seq, pinged, flushed, outputs, wrpads,
                    rdpads, wrpadsdirty, rdpadsvalid, padPresses, padAsked>> /\ padmutex # "udp"
    BY <1>1 DEF UdpReceive, PadAtWork
  <2>4. PadTypeOK' /\ PadAtWork'
    BY <2>1, <2>2, <2>3 DEF PadAtWork
  <2>5. AnswersFresh' /\ CacheFresh'
    BY <2>1, <2>2, <2>3 DEF AnswersFresh, CacheFresh
  <2> QED BY <2>4, <2>5
<1>2. CASE UdpLock
  <2>1. /\ padmutex' = "udp" /\ padIo' \in {"write", "read"} /\ padAt' = 1 /\ rdpadsvalid' = FALSE
        /\ request # NoRequest
    BY <1>2 DEF UdpLock, Begin
  <2>2. UNCHANGED <<now, outputs, wrpads, rdpads, wrpadsdirty, script, request, network, seq,
                    pinged, flushed, padPresses, padAsked>>
    BY <1>2 DEF UdpLock
  <2>3. PadTypeOK'
    <3>1. padmutex' \in {"free"} \cup Threads /\ padAt' \in Words
      BY <2>1, PaddleAssumption DEF Threads
    <3>2. padIo' \in {"write", "read", "done"} /\ rdpadsvalid' \in BOOLEAN
      BY <2>1
    <3> QED BY <3>1, <3>2, <2>2
  <2>4. PadAtWork' /\ AnswersFresh' /\ CacheFresh'
    BY <2>1, <2>2 DEF PadAtWork, AnswersFresh, CacheFresh
  <2> QED BY <2>3, <2>4
<1>3. CASE UdpAnswer
  <2> DEFINE d == Datagram("status", request, rdpads)
  <2>1. d.to = "status" /\ d.seq = request /\ d.frame = rdpads
        /\ d \in [to : {"server", "status"}, seq : Nat, frame : Frames]
    BY DEF Datagram
  <2>2. network' = network \cup {d}
    BY <1>3 DEF UdpAnswer
  <2> HIDE DEF d
  <2>3. PadTypeOK'
    BY <1>3, <2>1, <2>2 DEF UdpAnswer
  <2>4. AnswersFresh'
    BY <1>3, <2>1, <2>2 DEF UdpAnswer, AnswersFresh
  <2>5. PadAtWork' /\ CacheFresh'
    BY <1>3 DEF UdpAnswer, PadAtWork, CacheFresh
  <2> QED BY <2>3, <2>4, <2>5
<1> QED BY <1>1, <1>2, <1>3

LEMMA FreshStatus == FreshInv /\ (Ping \/ Answered) => FreshInv'
<1> SUFFICES ASSUME FreshInv, Ping \/ Answered PROVE FreshInv'
  OBVIOUS
<1> USE DEF FreshInv, PadTypeOK, padCopies
<1>1. CASE Ping
  <2> DEFINE d == Datagram("server", seq + 1, NoFrame)
  <2>1. d.to = "server" /\ d.seq = seq + 1
        /\ d \in [to : {"server", "status"}, seq : Nat, frame : Frames]
    BY DEF Datagram, NoFrame, Frames
  <2>2. network' = network \cup {d}
    BY <1>1 DEF Ping
  <2> HIDE DEF d
  <2>3. PadTypeOK'
    BY <1>1, <2>1, <2>2 DEF Ping
  <2>4. AnswersFresh'
    BY <1>1, <2>1, <2>2 DEF Ping, AnswersFresh
  <2>5. PadAtWork' /\ CacheFresh'
    BY <1>1 DEF Ping, PadAtWork, CacheFresh
  <2> QED BY <2>3, <2>4, <2>5
<1>2. CASE Answered
  BY <1>2 DEF Answered, PadAtWork, AnswersFresh, CacheFresh
<1> QED BY <1>1, <1>2

LEMMA FreshPreserved == FreshInv /\ [PadNext]_padVars => FreshInv'
<1> SUFFICES ASSUME FreshInv, [PadNext]_padVars PROVE FreshInv'
  OBVIOUS
<1>1. CASE UNCHANGED padVars
  BY <1>1 DEF padVars, FreshInv, PadTypeOK, PadAtWork, AnswersFresh, CacheFresh
<1> QED BY <1>1, FreshLights, FreshWrite, FreshRead, FreshSet, FreshFlush, FreshDone, FreshUdp,
           FreshStatus DEF PadNext

\* The lights a status answer shows were read after its request was sent, and what getreg
\* returns was read after the last flush (pipan8l.cc 800-851, 288-296), for any script and
\* any paddles, answers lost or late.
THEOREM NothingStale == PadSpec => ReadsFresh
<1>1. FreshInv /\ [PadNext]_padVars =>
        [/\ shown' # shown => \A w \in Words : shown'[w] >= pinged
         /\ got' # got => \A w \in Words : got'[w] >= flushed]_padVars
  <2> SUFFICES ASSUME FreshInv, PadNext
               PROVE  /\ shown' # shown => \A w \in Words : shown'[w] >= pinged
                      /\ got' # got => \A w \in Words : got'[w] >= flushed
    OBVIOUS
  <2>1. shown' # shown => Answered
    BY DEF PadNext, LightsChange, WritePaddle, ReadPaddle, cmd_setsw, cmd_flushit_getreg, TclDone,
           UdpReceive, UdpLock, UdpAnswer, Ping, padStatus
  <2>2. got' # got => TclDone
    BY DEF PadNext, LightsChange, WritePaddle, ReadPaddle, cmd_setsw, cmd_flushit_getreg, Answered,
           UdpReceive, UdpLock, UdpAnswer, Ping
  <2>3. Answered => \A w \in Words : shown'[w] >= pinged
    BY DEF Answered, Accepted, FreshInv, AnswersFresh
  <2>4. TclDone => got' = got \/ \A w \in Words : got'[w] >= flushed
    BY DEF TclDone, Command1, FreshInv, CacheFresh
  <2> QED BY <2>1, <2>2, <2>3, <2>4
<1> QED BY <1>1, FreshInitially, FreshPreserved, PTL DEF PadSpec, ReadsFresh

-----------------------------------------------------------------------------
\* Between any two settings of a switch the script flushes, and getreg flushes too.
FlushedApart(s) ==
    \A i, j \in 1 .. Len(s) :
        i < j /\ s[i].cmd = "setsw" /\ s[j].cmd = "setsw" /\ s[i].sw = s[j].sw =>
            \E k \in i .. j : s[k].cmd # "setsw"
Patient == \A s \in Scripts : FlushedApart(s)

\* A script flushes before it sets a switch again.
FlushDue(s, sw) ==
    \A j \in 1 .. Len(s) :
        s[j].cmd = "setsw" /\ s[j].sw = sw => \E k \in 1 .. j : s[k].cmd # "setsw"

\* Presses the machine has not seen are the switches the copy has pressed and the
\* paddles have not, and what is not written yet is flushed before it changes again.
Unseen(sw) == IF wrpads[sw] = 1 /\ outputs[sw] = 0 THEN 1 ELSE 0
FlicksDue ==
    /\ FlushedApart(script)
    /\ \A sw \in PadSwitches : padAsked[sw] = padPresses[sw] + Unseen(sw)
    /\ \A sw \in PadSwitches : wrpads[sw] # outputs[sw] => FlushDue(script, sw)

\* A flush writes the paddles in order, and whoever goes on has written all.
Written8l ==
    /\ ~ wrpadsdirty => wrpads = outputs
    /\ padmutex # "free" /\ padIo = "write" =>
          \A sw \in PadSwitches : PaddleOf[sw] < padAt => wrpads[sw] = outputs[sw]
    /\ padmutex # "free" /\ padIo # "write" => wrpads = outputs

FlickInv == PadTypeOK /\ Written8l /\ FlicksDue

\* The rest of a script that flushes in between flushes in between.
LEMMA ApartTail ==
    ASSUME NEW s \in Seq(Commands8l), s # << >>, FlushedApart(s)
    PROVE  FlushedApart(Tail(s))
<1> USE DEF FlushedApart
<1> SUFFICES ASSUME NEW i \in 1 .. Len(s) - 1, NEW j \in 1 .. Len(s) - 1, i < j,
                    s[i + 1].cmd = "setsw", s[j + 1].cmd = "setsw", s[i + 1].sw = s[j + 1].sw
             PROVE  \E k \in i .. j : s[k + 1].cmd # "setsw"
  <2>1. /\ Len(Tail(s)) = Len(s) - 1
        /\ \A i \in 1 .. Len(s) - 1 : Tail(s)[i] = s[i + 1]
    BY HeadTail
  <2> SUFFICES ASSUME NEW i \in 1 .. Len(Tail(s)), NEW j \in 1 .. Len(Tail(s)), i < j,
                      Tail(s)[i].cmd = "setsw", Tail(s)[j].cmd = "setsw",
                      Tail(s)[i].sw = Tail(s)[j].sw
               PROVE  \E k \in i .. j : Tail(s)[k].cmd # "setsw"
    OBVIOUS
  <2>2. i \in 1 .. Len(s) - 1 /\ j \in 1 .. Len(s) - 1 /\ Tail(s)[i] = s[i + 1]
        /\ Tail(s)[j] = s[j + 1]
    BY <2>1
  <2>3. PICK k \in i .. j : s[k + 1].cmd # "setsw"
    BY <2>2
  <2>4. k \in 1 .. Len(s) - 1
    BY <2>2
  <2> QED BY <2>1, <2>3, <2>4
<1>1. PICK k \in i + 1 .. j + 1 : s[k].cmd # "setsw"
  OBVIOUS
<1>2. k - 1 \in i .. j /\ (k - 1) + 1 = k
  OBVIOUS
<1> QED BY <1>1, <1>2

\* What is due before the next setting is due in the rest of the script.
LEMMA DueTail ==
    ASSUME NEW s \in Seq(Commands8l), s # << >>, NEW sw, Head(s).cmd = "setsw", FlushDue(s, sw)
    PROVE  FlushDue(Tail(s), sw)
<1> USE DEF FlushDue
<1> SUFFICES ASSUME NEW j \in 1 .. Len(s) - 1, s[j + 1].cmd = "setsw", s[j + 1].sw = sw
             PROVE  \E k \in 1 .. j : s[k + 1].cmd # "setsw"
  BY HeadTail
<1>1. PICK k \in 1 .. j + 1 : s[k].cmd # "setsw"
  OBVIOUS
<1>2. k # 1
  BY <1>1, HeadTail
<1>3. k - 1 \in 1 .. j /\ (k - 1) + 1 = k
  BY <1>2
<1> QED BY <1>1, <1>3

\* After a setting the flush is due.
LEMMA DueNext ==
    ASSUME NEW s \in Seq(Commands8l), s # << >>, Head(s).cmd = "setsw", FlushedApart(s)
    PROVE  FlushDue(Tail(s), Head(s).sw)
<1> USE DEF FlushDue, FlushedApart
<1> SUFFICES ASSUME NEW j \in 1 .. Len(s) - 1, s[j + 1].cmd = "setsw", s[j + 1].sw = s[1].sw
             PROVE  \E k \in 1 .. j : s[k + 1].cmd # "setsw"
  BY HeadTail
<1>0. s[1].cmd = "setsw"
  BY HeadTail
<1>1. PICK k \in 1 .. j + 1 : s[k].cmd # "setsw"
  BY <1>0
<1>2. k # 1
  BY <1>1, <1>0
<1>3. k - 1 \in 1 .. j /\ (k - 1) + 1 = k
  BY <1>2
<1> QED BY <1>1, <1>3

LEMMA FlickInitially == Patient /\ PadIdle => FlickInv
<1> SUFFICES ASSUME Patient, PadIdle PROVE FlickInv
  OBVIOUS
<1>1. PadTypeOK
  BY PadInitTyped
<1>2. Written8l
  BY DEF PadIdle, Written8l
<1>3. FlicksDue
  BY DEF PadIdle, FlicksDue, Unseen, Patient
<1> QED BY <1>1, <1>2, <1>3 DEF FlickInv

\* A paddle is written: its switches are seen.
LEMMA FlickWrite == FlickInv /\ WritePaddle => Written8l' /\ FlicksDue'
<1> SUFFICES ASSUME FlickInv, WritePaddle PROVE Written8l' /\ FlicksDue'
  OBVIOUS
<1> USE DEF FlickInv, PadTypeOK
<1>1. /\ outputs' = [s \in PadSwitches |-> IF PaddleOf[s] = padAt THEN wrpads[s] ELSE outputs[s]]
      /\ padPresses' = [s \in PadSwitches |->
                      padPresses[s] + IF outputs[s] = 0 /\ outputs'[s] = 1 THEN 1 ELSE 0]
      /\ UNCHANGED <<wrpads, padAsked, script, padmutex>> /\ padmutex # "free" /\ padIo = "write"
  BY DEF WritePaddle
<1>2. \/ padAt < Paddles /\ padAt' = padAt + 1 /\ UNCHANGED <<padIo, wrpadsdirty>>
      \/ padAt = Paddles /\ padIo' # "write"
  BY PaddleAssumption DEF WritePaddle
<1>3. \A sw \in PadSwitches : PaddleOf[sw] \in Nat /\ PaddleOf[sw] <= Paddles
  BY PaddleAssumption
<1>4. \A sw \in PadSwitches : PaddleOf[sw] < padAt + 1 => wrpads[sw] = outputs'[sw]
  BY <1>1, <1>3 DEF Written8l
<1>5. CASE padAt < Paddles
  <2>1. wrpads = outputs => outputs' = outputs
    BY <1>1
  <2> QED BY <1>1, <1>2, <1>4, <1>5, <2>1 DEF Written8l, FlicksDue, Unseen
<1>6. CASE padAt = Paddles
  <2>1. wrpads = outputs'
    BY <1>1, <1>3, <1>4, <1>6
  <2>2. padIo' # "write"
    BY <1>2, <1>6
  <2>3. Written8l'
    BY <1>1, <2>1, <2>2 DEF Written8l
  <2>4. FlicksDue'
    BY <1>1, <2>1 DEF FlicksDue, Unseen
  <2> QED BY <2>3, <2>4
<1> QED BY <1>5, <1>6, PaddleAssumption

\* A switch is set: the one before it has been written.
LEMMA FlickSet == FlickInv /\ cmd_setsw => Written8l' /\ FlicksDue'
<1> SUFFICES ASSUME FlickInv, cmd_setsw PROVE Written8l' /\ FlicksDue'
  OBVIOUS
<1> USE DEF FlickInv, PadTypeOK
<1> DEFINE sw == Head(script).sw  val == Head(script).val
<1>1. /\ script # << >> /\ Head(script).cmd = "setsw" /\ script' = Tail(script)
      /\ UNCHANGED <<outputs, padPresses, padmutex, padIo>> /\ padmutex = "free"
      /\ wrpads' = [wrpads EXCEPT ![sw] = val]
      /\ padAsked' = [padAsked EXCEPT ![sw] = @ + IF val > wrpads[sw] THEN 1 ELSE 0]
  BY DEF cmd_setsw, Command1, setpin
<1>2. ~ wrpadsdirty' => ~ wrpadsdirty /\ wrpads[sw] = val
  BY Zenon DEF cmd_setsw, Command1, setpin
<1>3. sw \in PadSwitches /\ val \in {0, 1} /\ Head(script) = script[1]
  <2>1. Head(script) \in Commands8l /\ Head(script) = script[1]
    BY <1>1, HeadTail
  <2> QED BY <1>1, <2>1 DEF Commands8l
<1>4. ~ FlushDue(script, sw)
  <2>1. 1 \in 1 .. Len(script) /\ script[1].cmd = "setsw" /\ script[1].sw = sw
    BY <1>1, <1>3
  <2> QED BY <2>1 DEF FlushDue
<1>5. wrpads[sw] = outputs[sw]
  BY <1>3, <1>4 DEF FlicksDue
<1>6. \A t \in PadSwitches : FlushDue(script, t) => FlushDue(Tail(script), t)
  BY <1>1, DueTail
<1>7. FlushDue(Tail(script), sw) /\ FlushedApart(Tail(script))
  BY <1>1, DueNext, ApartTail DEF FlicksDue
<1> HIDE DEF sw, val
<1>8. Written8l'
  BY <1>1, <1>2, <1>3 DEF Written8l
<1>9. FlicksDue'
  <2>1. \A t \in PadSwitches : t # sw => UNCHANGED <<wrpads[t], padAsked[t]>>
    BY <1>1, <1>3
  <2>2. wrpads'[sw] = val /\ padAsked'[sw] = padAsked[sw] + IF val > wrpads[sw] THEN 1 ELSE 0
    BY <1>1, <1>3
  <2>3. padAsked'[sw] = padPresses[sw] + IF val = 1 /\ outputs[sw] = 0 THEN 1 ELSE 0
    BY <1>3, <1>5, <2>2 DEF FlicksDue, Unseen
  <2>4. (\A t \in PadSwitches : padAsked[t] = padPresses[t] + Unseen(t))'
    BY <1>1, <2>1, <2>2, <2>3 DEF FlicksDue, Unseen
  <2>5. (\A t \in PadSwitches : wrpads[t] # outputs[t] => FlushDue(script, t))'
    BY <1>1, <1>6, <1>7, <2>1 DEF FlicksDue
  <2> QED BY <1>1, <1>7, <2>4, <2>5 DEF FlicksDue
<1> QED BY <1>8, <1>9

LEMMA FlickDone == FlickInv /\ PadAtWork /\ TclDone => Written8l' /\ FlicksDue'
<1> SUFFICES ASSUME FlickInv, PadAtWork, TclDone PROVE Written8l' /\ FlicksDue'
  OBVIOUS
<1>1. /\ UNCHANGED padCopies /\ padmutex' = "free" /\ script' = Tail(script)
      /\ padmutex = "tcl" /\ padIo = "done" /\ script # << >>
  BY DEF TclDone, PadAtWork
<1>2. wrpads = outputs
  BY <1>1 DEF FlickInv, Written8l
<1>3. FlushedApart(Tail(script))
  BY <1>1, ApartTail DEF FlickInv, FlicksDue, PadTypeOK
<1> QED BY <1>1, <1>2, <1>3 DEF FlickInv, Written8l, FlicksDue, padCopies, Unseen

LEMMA FlickBegin == FlickInv /\ (cmd_flushit_getreg \/ UdpLock) => Written8l' /\ FlicksDue'
<1> SUFFICES ASSUME FlickInv, cmd_flushit_getreg \/ UdpLock PROVE Written8l' /\ FlicksDue'
  OBVIOUS
<1>1. /\ UNCHANGED <<wrpadsdirty, wrpads, outputs, padPresses, padAsked, script>>
      /\ padIo' = "write" => padAt' = 1
      /\ padIo' # "write" => ~ wrpadsdirty
  BY DEF cmd_flushit_getreg, UdpLock, Begin
<1>2. Written8l'
  BY <1>1, PaddleAssumption DEF FlickInv, Written8l
<1> QED BY <1>1, <1>2 DEF FlickInv, FlicksDue, Unseen

\* The other steps leave switches, copy and paddles alone.
LEMMA FlickOthers ==
    FlickInv /\ (LightsChange \/ ReadPaddle \/ UdpReceive \/ UdpAnswer \/ Ping \/ Answered) =>
        Written8l' /\ FlicksDue'
<1> SUFFICES ASSUME FlickInv,
                    LightsChange \/ ReadPaddle \/ UdpReceive \/ UdpAnswer \/ Ping \/ Answered
             PROVE  Written8l' /\ FlicksDue'
  OBVIOUS
<1>1. /\ UNCHANGED <<wrpadsdirty, wrpads, outputs, padPresses, padAsked, script>>
      /\ padmutex' # "free" => padmutex # "free"
      /\ padIo' = "write" => padIo = "write" /\ padAt' = padAt
      /\ padIo' # "write" => padIo # "write"
  BY DEF LightsChange, ReadPaddle, UdpReceive, UdpAnswer, Ping, Answered, padCopies
<1>2. Written8l'
  BY <1>1 DEF FlickInv, Written8l
<1> QED BY <1>1, <1>2 DEF FlickInv, FlicksDue, Unseen

LEMMA FlickPreserved == FreshInv /\ FlickInv /\ [PadNext]_padVars => FlickInv'
<1> SUFFICES ASSUME FreshInv, FlickInv, [PadNext]_padVars PROVE FlickInv'
  OBVIOUS
<1>1. PadTypeOK'
  BY FreshPreserved DEF FreshInv
<1>2. CASE UNCHANGED padVars
  BY <1>1, <1>2 DEF padVars, FlickInv, Written8l, FlicksDue, Unseen
<1> QED BY <1>1, <1>2, FlickWrite, FlickSet, FlickDone, FlickBegin, FlickOthers
        DEF PadNext, FlickInv, FreshInv

\* No flick of a switch is missed by the machine (pipan8l.cc 617-626, 203-208), for any
\* scripts that flush between two settings of a switch as flicksw does (pipan8lini.tcl
\* 269-280), and any paddles; without that a switch set and reset in the copy is never written.
THEOREM FlicksAreSeen == Patient => (PadSpec => []FlicksSeen)
<1> SUFFICES ASSUME Patient PROVE PadSpec => []FlicksSeen
  OBVIOUS
<1>1. FlickInv => FlicksSeen
  <2> SUFFICES ASSUME FlickInv PROVE FlicksSeen
    OBVIOUS
  <2>1. ASSUME wrpads = outputs, NEW sw \in PadSwitches PROVE padAsked[sw] = padPresses[sw]
    <3>1. Unseen(sw) = 0 /\ padPresses[sw] \in Nat
      BY <2>1 DEF FlickInv, Unseen, PadTypeOK
    <3> QED BY <3>1 DEF FlickInv, FlicksDue
  <2> QED BY <2>1 DEF FlickInv, Written8l, FlicksSeen, PadTypeOK
<1>2. PadIdle => FreshInv /\ FlickInv
  BY FreshInitially, FlickInitially
<1>3. FreshInv /\ FlickInv /\ [PadNext]_padVars => FreshInv' /\ FlickInv'
  BY FreshPreserved, FlickPreserved
<1> QED BY <1>1, <1>2, <1>3, PTL DEF PadSpec

-----------------------------------------------------------------------------
(* The CM lock. *)

(***************************************************************************)
(* The inductive invariant.  Mutual exclusion rests on what each process   *)
(* knows of the cell: an owner's pid is in it, a process that does not own *)
(* the lock and is not about to find out has no pid in it, and a process   *)
(* about to clear the cell of somebody else's pid saw that one dead.       *)
(***************************************************************************)
UnlockerRead == \A p \in Procs : pc[p] = "unlk" => lkpid[p] = p

ReleaseOnlyDead ==
    \A p \in Procs :
        pc[p] = "release" => lkpid[p] \in Procs /\ ~ Alive(lkpid[p])

OutsidersNotInCell ==
    \A p \in Procs : pc[p] \in {"idle", "try", "probe", "release"} => armlock # p

IInv ==
    /\ TypeOK
    /\ HolderInCell
    /\ UnlockerRead
    /\ ReleaseOnlyDead
    /\ OutsidersNotInCell

USE NoPidAssumption, MaxProbesAssumption

LEMMA InitInv == Init => IInv
  BY DEF Init, IInv, TypeOK, HolderInCell, UnlockerRead, ReleaseOnlyDead,
         OutsidersNotInCell, Holds, Pids, Steps, Alive

LEMMA NextInv == IInv /\ [Next]_lockvars => IInv'
<1> SUFFICES ASSUME IInv, [Next]_lockvars
             PROVE  IInv'
  OBVIOUS
<1> USE DEF IInv, TypeOK, HolderInCell, UnlockerRead, ReleaseOnlyDead,
            OutsidersNotInCell, Holds, Pids, Steps, Goto, Alive
<1>1. ASSUME NEW p \in Procs, LockCall(p) PROVE IInv'
  BY <1>1 DEF LockCall
<1>2. ASSUME NEW p \in Procs, TryWrite(p) PROVE IInv'
  BY <1>2 DEF TryWrite, WriteCell
<1>3. ASSUME NEW p \in Procs, TryRead(p) PROVE IInv'
  BY <1>3 DEF TryRead
<1>4. ASSUME NEW p \in Procs, GiveUp(p) PROVE IInv'
  BY <1>4 DEF GiveUp
<1>5. ASSUME NEW p \in Procs, ProbeHolder(p) PROVE IInv'
  BY <1>5 DEF ProbeHolder
<1>6. ASSUME NEW p \in Procs, ReleaseDead(p) PROVE IInv'
  BY <1>6 DEF ReleaseDead, WriteCell
<1>7. ASSUME NEW p \in Procs, UnlockRead(p) PROVE IInv'
  BY <1>7 DEF UnlockRead
<1>8. ASSUME NEW p \in Procs, UnlockWrite(p) PROVE IInv'
  BY <1>8 DEF UnlockWrite, WriteCell
<1>9. ASSUME NEW p \in Procs, Crash(p) PROVE IInv'
  BY <1>9 DEF Crash
<1>10. CASE UNCHANGED lockvars
  BY <1>10 DEF lockvars
<1> QED
  BY <1>1, <1>2, <1>3, <1>4, <1>5, <1>6, <1>7, <1>8, <1>9, <1>10
     DEF Next, CmLockStep, CmUnlkStep

LEMMA Invariance == Spec => []IInv
  BY InitInv, NextInv, PTL DEF Spec

(***************************************************************************)
(* Type correctness of the lock.                                           *)
(***************************************************************************)
THEOREM TypeCorrect == Spec => []TypeOK
<1>1. IInv => TypeOK
  BY DEF IInv
<1> QED
  BY <1>1, Invariance, PTL

(***************************************************************************)
(* The pid of an owner stays in the cell (the ASSERT of cmunlk).           *)
(***************************************************************************)
THEOREM OwnerInCell == Spec => []HolderInCell
<1>1. IInv => HolderInCell
  BY DEF IInv
<1> QED
  BY <1>1, Invariance, PTL

(***************************************************************************)
(* At most one process owns the lock, whatever crashes and recoveries      *)
(* happen around it.                                                       *)
(***************************************************************************)
THEOREM AtMostOneOwner == Spec => []MutualExclusion
<1>1. IInv => MutualExclusion
  BY DEF IInv, HolderInCell, MutualExclusion
<1> QED
  BY <1>1, Invariance, PTL

(***************************************************************************)
(* A cell that holds a process's pid changes only after that process died  *)
(* or by its own cmunlk.                                                   *)
(***************************************************************************)
THEOREM RobbedOnlyWhenDead == Spec => OnlyTheDeadAreRobbed
<1>1. IInv /\ [Next]_lockvars
        => [\A p \in Procs :
              armlock = p /\ armlock' # p => ~ Alive(p) \/ pc[p] = "unlk"]_lockvars
  <2> SUFFICES ASSUME IInv, Next, NEW p \in Procs, armlock = p, armlock' # p
               PROVE  ~ Alive(p) \/ pc[p] = "unlk"
    BY DEF lockvars
  <2> USE DEF IInv, TypeOK, UnlockerRead, ReleaseOnlyDead, OutsidersNotInCell,
              Pids, Alive, WriteCell
  <2>1. PICK q \in Procs : TryWrite(q) \/ ReleaseDead(q) \/ UnlockWrite(q)
    BY DEF Next, CmLockStep, CmUnlkStep, LockCall, TryRead, GiveUp, ProbeHolder,
           UnlockRead, Crash
  <2>2. CASE TryWrite(q)
    BY <2>2 DEF TryWrite
  <2>3. CASE ReleaseDead(q)
    BY <2>3 DEF ReleaseDead
  <2>4. CASE UnlockWrite(q)
    BY <2>4 DEF UnlockWrite
  <2> QED
    BY <2>1, <2>2, <2>3, <2>4
<1> QED
  BY <1>1, Invariance, PTL DEF Spec, OnlyTheDeadAreRobbed

-----------------------------------------------------------------------------
(***************************************************************************)
(* Refinement.  Owner is the process that holds the lock when there is one.*)
(***************************************************************************)
LEMMA OwnerIs ==
    ASSUME IInv, NEW p \in Procs, Holds(p)
    PROVE  Owner = p
  BY DEF IInv, HolderInCell, Owner

LEMMA OwnerIsNobody ==
    ASSUME \A p \in Procs : ~ Holds(p)
    PROVE  Owner = NoPid
  BY DEF Owner

LEMMA OwnerInitial == Init => M!Init
  BY OwnerIsNobody DEF Init, M!Init, Holds

LEMMA OwnerStep == IInv /\ IInv' /\ [Next]_lockvars => [M!Next]_Owner
<1> SUFFICES ASSUME IInv, IInv', [Next]_lockvars
             PROVE  [M!Next]_Owner
  OBVIOUS
<1> USE DEF Goto
<1>1. ASSUME IInv', NEW p \in Procs, Holds(p)' PROVE Owner' = p
  BY <1>1 DEF IInv, HolderInCell, Owner
<1>2. ASSUME \A p \in Procs : ~ Holds(p)' PROVE Owner' = NoPid
  BY <1>2 DEF Owner
<1>3. pc \in [Procs -> Steps] /\ pc' \in [Procs -> Steps]
  BY DEF IInv, TypeOK
<1>4. ASSUME \A q \in Procs : Holds(q)' = Holds(q) PROVE Owner' = Owner
  <2>1. CASE \E p \in Procs : Holds(p)
    BY <1>1, <1>4, <2>1, OwnerIs
  <2>2. CASE \A p \in Procs : ~ Holds(p)
    BY <1>2, <1>4, <2>2, OwnerIsNobody
  <2> QED
    BY <2>1, <2>2
<1>5. ASSUME NEW p \in Procs, ~ Holds(p), Holds(p)',
             \A q \in Procs \ {p} : Holds(q)' = Holds(q)
      PROVE  M!Acquire(p)
  <2>1. \A q \in Procs : ~ Holds(q)
    BY <1>5 DEF IInv, HolderInCell
  <2> QED
    BY <1>1, <1>5, <2>1, OwnerIsNobody DEF M!Acquire
<1>6. ASSUME NEW p \in Procs, Holds(p), ~ Holds(p)',
             \A q \in Procs \ {p} : Holds(q)' = Holds(q)
      PROVE  M!Leave(p)
  <2>1. \A q \in Procs : ~ Holds(q)'
    BY <1>6 DEF IInv, HolderInCell
  <2> QED
    BY <1>2, <1>6, <2>1, OwnerIs DEF M!Leave
<1>7. CASE UNCHANGED lockvars
  BY <1>4, <1>7 DEF lockvars, Holds
<1>8. ASSUME NEW p \in Procs, LockCall(p) \/ CmLockStep(p) \/ CmUnlkStep(p) \/ Crash(p)
      PROVE  [M!Next]_Owner
  <2>1. \A q \in Procs \ {p} : pc'[q] = pc[q]
    BY <1>3, <1>8 DEF LockCall, CmLockStep, TryWrite, TryRead, GiveUp, ProbeHolder,
                 ReleaseDead, CmUnlkStep, UnlockRead, UnlockWrite, Crash
  <2>2. \A q \in Procs \ {p} : Holds(q)' = Holds(q)
    BY <2>1 DEF Holds
  <2>3. CASE Holds(p)' = Holds(p)
    BY <1>4, <2>2, <2>3
  <2>4. CASE ~ Holds(p) /\ Holds(p)'
    BY <1>5, <2>2, <2>4 DEF M!Next
  <2>5. CASE Holds(p) /\ ~ Holds(p)'
    BY <1>6, <2>2, <2>5 DEF M!Next
  <2>6. Holds(p) \in BOOLEAN /\ Holds(p)' \in BOOLEAN
    BY DEF Holds
  <2> QED
    BY <2>3, <2>4, <2>5, <2>6
<1> QED
  BY <1>7, <1>8 DEF Next

(***************************************************************************)
(* cmlock and cmunlk implement the abstract lock: every step of a process  *)
(* is an acquisition, a departure or invisible to the lock's users.        *)
(***************************************************************************)
THEOREM ImplementsMutex == Spec => MutexSpec
<1>1. Init => M!Init
  BY OwnerInitial
<1>2. IInv /\ IInv' /\ [Next]_lockvars => [M!Next]_Owner
  BY OwnerStep
<1> QED
  BY <1>1, <1>2, Invariance, PTL DEF Spec, MutexSpec, M!Spec
=============================================================================
