-------------------------------- MODULE Panel --------------------------------
(***************************************************************************)
(* The switches of a real PDP-8/L's front panel, read and overridden by    *)
(* z8lpanel (z8lpanel.cc, i2czlib.cc): four MCP23017 chips on an i2c bus   *)
(* between the panel's switches and the processor.                         *)
(*                                                                         *)
(* A toggle switch has a collector pin on its line and a base pin that     *)
(* turns on the transistor that pulls the line high:                       *)
(*     the switch works: base high, collector hi-Z;                        *)
(*     drive 0: base high, collector low; drive 1: base low, collector hi-Z*)
(* With base and collector both low the transistor drives into the pin.    *)
(* The two pins can be on different chips, and a chip's direction and      *)
(* latch registers are written one after the other, any process may be     *)
(* killed between two writes, and a transfer that failed may or may not    *)
(* have reached the chip before it is tried again.                         *)
(*                                                                         *)
(* Nobody presses a physical button, as writepads assumes; toggles move at *)
(* any time.  A line's level stands for the switch's position (MPRT, DFLD, *)
(* IFLD and STEP are active low).  The lights are left out.                *)
(***************************************************************************)
EXTENDS Naturals

CONSTANTS
    PanelProcs,         \* processes, by pid
    Free,               \* no pid: the lock cell is zero
    Toggles, PanelButtons,   \* the switches
    CollPin, BasePin,   \* the two pins of each toggle
    ButtonPin,          \* the pin of each button
    ChipOf, Chips,      \* the chip of each pin; the number of chips
    MaxPanel            \* bound: commands, switches moved, processes killed

CollPins == {CollPin[t] : t \in Toggles}
BasePins == {BasePin[t] : t \in Toggles}
Pins == CollPins \cup BasePins \cup {ButtonPin[b] : b \in PanelButtons}

ASSUME PinAssumption ==
    /\ Toggles \cap PanelButtons = {}
    /\ \A t, u \in Toggles : CollPin[t] # BasePin[u]
    /\ \A t, u \in Toggles : CollPin[t] = CollPin[u] \/ BasePin[t] = BasePin[u] => t = u
    /\ \A b \in PanelButtons : ButtonPin[b] \notin CollPins \cup BasePins
    /\ \A b, c \in PanelButtons : ButtonPin[b] = ButtonPin[c] => b = c
ASSUME ChipAssumption == Chips \in Nat \ {0} /\ ChipOf \in [Pins -> 1 .. Chips]
ASSUME FreeAssumption == Free \notin PanelProcs
ASSUME PanelBoundAssumption == MaxPanel \in Nat

VARIABLES
    iodir, olat,        \* the chips' registers: 1 = input (hi-Z); the output's level
    realSwitch,         \* the position of each physical toggle
    fpLock,             \* the test-and-set cell of pdp8lfpi2c.v
    panelPc,            \* where each process is
    lockPid,            \* the pid it has seen in the cell
    panelCmd,           \* the command it executes
    pads,               \* its togovr, togval and button
    padStage,              \* readpads ("get"), writepads ("put1", "put2") or relall ("all")
    chip,               \* the chip it reads or writes
    dirs, vals,         \* its copies of the registers
    panelCount          \* what is left of the bound

panelLocal == <<lockPid, panelCmd, pads, padStage, chip, dirs, vals>>
panelVars == <<iodir, olat, realSwitch, fpLock, panelPc, panelLocal, panelCount>>

PinBits == {0, 1}
\* A getsw stands for every command that only reads: getreg and the status display.
Commands ==
    [kind : {"setsw"}, sw : Toggles \cup PanelButtons, val : PinBits]
    \cup [kind : {"relsw"}, sw : Toggles, val : {0}]
    \cup {[kind |-> k, sw |-> "all", val |-> 0] : k \in {"getsw", "relall"}}
Panels == [ovr : [Toggles -> BOOLEAN], val : [Toggles -> PinBits], button : [PanelButtons -> BOOLEAN]]
NoPads == [ovr |-> [t \in Toggles |-> FALSE], val |-> [t \in Toggles |-> 0],
           button |-> [b \in PanelButtons |-> FALSE]]
Released == [x \in Pins |-> 1]

\* "lock": about to write its pid; "look": about to read it back; "release": it
\* saw a dead pid; "rddir" .. "wrlat": about to read or write a register of the chip
Critical == {"rddir", "rdval", "apply", "wrdir", "wrlat", "unlk"}
PanelSteps == {"idle", "lock", "look", "release", "modify", "dead"} \cup Critical

PanelTypeOK ==
    /\ iodir \in [Pins -> PinBits] /\ olat \in [Pins -> PinBits]
    /\ realSwitch \in [Toggles -> PinBits]
    /\ fpLock \in PanelProcs \cup {Free}
    /\ panelPc \in [PanelProcs -> PanelSteps]
    /\ lockPid \in [PanelProcs -> PanelProcs \cup {Free}]
    /\ panelCmd \in [PanelProcs -> Commands]
    /\ pads \in [PanelProcs -> Panels]
    /\ padStage \in [PanelProcs -> {"get", "put1", "put2", "all"}]
    /\ chip \in [PanelProcs -> 1 .. Chips]
    /\ dirs \in [PanelProcs -> [Pins -> PinBits]] /\ vals \in [PanelProcs -> [Pins -> PinBits]]
    /\ panelCount \in 0 .. MaxPanel

\* The chips have just been powered on.
PanelIdle ==
    /\ iodir = Released /\ olat = [x \in Pins |-> 0]
    /\ realSwitch = [t \in Toggles |-> 0]
    /\ fpLock = Free
    /\ panelPc = [p \in PanelProcs |-> "idle"]
    /\ lockPid = [p \in PanelProcs |-> Free]
    /\ panelCmd = [p \in PanelProcs |-> [kind |-> "getsw", sw |-> "all", val |-> 0]]
    /\ pads = [p \in PanelProcs |-> NoPads]
    /\ padStage = [p \in PanelProcs |-> "get"]
    /\ chip = [p \in PanelProcs |-> 1]
    /\ dirs = [p \in PanelProcs |-> Released] /\ vals = [p \in PanelProcs |-> Released]
    /\ panelCount = MaxPanel

-----------------------------------------------------------------------------
(* The chips and the lines. *)

Driven(x) == iodir[x] = 0
TransistorOn(t) == Driven(BasePin[t]) /\ olat[BasePin[t]] = 0
Overridden(t) == Driven(CollPin[t]) \/ TransistorOn(t)

\* The level of a pin, as GPIO reads it; an undriven base floats high.
Level(x) ==
    IF Driven(x) THEN olat[x]
    ELSE IF \E t \in Toggles : x = CollPin[t]
         THEN LET t == CHOOSE u \in Toggles : x = CollPin[u]
              IN IF TransistorOn(t) THEN 1 ELSE realSwitch[t]
         ELSE 1

OnChip(p, x) == ChipOf[x] = chip[p]
Copied(p, mine, register) == [x \in Pins |-> IF OnChip(p, x) THEN register[x] ELSE mine[x]]
StoredPins(p, register, mine) == [x \in Pins |-> IF OnChip(p, x) THEN mine[x] ELSE register[x]]

PGoto(p, step) == panelPc' = [panelPc EXCEPT ![p] = step]
NextChip(p, same, after) ==
    IF chip[p] < Chips
    THEN chip' = [chip EXCEPT ![p] = @ + 1] /\ PGoto(p, same)
    ELSE chip' = [chip EXCEPT ![p] = 1] /\ PGoto(p, after)

-----------------------------------------------------------------------------
(* writepads. *)

\* Mutant: the collector is driven, or the transistor turned on, at once.
writetog_AtOnce(p, t, d, v) ==
    LET val == pads[p].val[t] IN
    [coll |-> IF ~ pads[p].ovr[t] \/ val = 1 THEN 1 ELSE 0,
     base |-> IF pads[p].ovr[t] /\ val = 1 THEN 0 ELSE 1]

\* The new direction of the collector and level of the base, d and v being the
\* registers so far: never both at once, so a change takes two calls.
writetog(p, t, d, v) ==
    LET coll == d[CollPin[t]]
        base == v[BasePin[t]]
    IN  CASE ~ pads[p].ovr[t] -> [coll |-> 1, base |-> 1]
          [] pads[p].ovr[t] /\ pads[p].val[t] = 1 ->
                [coll |-> 1, base |-> IF coll = 1 THEN 0 ELSE base]
          [] pads[p].ovr[t] /\ pads[p].val[t] = 0 ->
                [coll |-> IF base = 1 THEN 0 ELSE coll, base |-> 1]

\* A button is driven low when pressed, or left hi-Z.
writebut(p, b) == IF pads[p].button[b] THEN 0 ELSE 1

NewDir(p, x) ==
    IF x \in CollPins
    THEN writetog(p, CHOOSE t \in Toggles : x = CollPin[t], dirs[p], vals[p]).coll
    ELSE IF x \in BasePins THEN 0
    ELSE writebut(p, CHOOSE b \in PanelButtons : x = ButtonPin[b])
NewVal(p, x) ==
    IF x \in CollPins THEN 0
    ELSE IF x \in BasePins
         THEN writetog(p, CHOOSE t \in Toggles : x = BasePin[t], dirs[p], vals[p]).base
    ELSE writebut(p, CHOOSE b \in PanelButtons : x = ButtonPin[b])

-----------------------------------------------------------------------------
(* locki2c and unlki2c. *)

WriteLock(v) == fpLock' = IF fpLock = Free THEN v ELSE IF fpLock = v THEN Free ELSE fpLock

LockWrite(p) ==
    /\ panelPc[p] = "lock"
    /\ WriteLock(p)
    /\ PGoto(p, "look")
    /\ UNCHANGED <<iodir, olat, realSwitch, panelLocal, panelCount>>

\* Mutant: a pid other than its own is taken for a dead one.
LockLook_Rob(p) ==
    /\ panelPc[p] = "look"
    /\ lockPid' = [lockPid EXCEPT ![p] = fpLock]
    /\ IF fpLock = p
       THEN PGoto(p, IF padStage[p] = "all" THEN "apply" ELSE "rddir")
       ELSE PGoto(p, IF fpLock # Free THEN "release" ELSE "lock")
    /\ chip' = [chip EXCEPT ![p] = 1]
    /\ UNCHANGED <<iodir, olat, realSwitch, fpLock, panelCmd, pads, padStage, dirs, vals, panelCount>>

LockLook(p) ==
    /\ panelPc[p] = "look"
    /\ lockPid' = [lockPid EXCEPT ![p] = fpLock]
    /\ IF fpLock = p
       THEN PGoto(p, IF padStage[p] = "all" THEN "apply" ELSE "rddir")
       ELSE PGoto(p, IF fpLock # Free /\ panelPc[fpLock] = "dead" THEN "release" ELSE "lock")
    /\ chip' = [chip EXCEPT ![p] = 1]
    /\ UNCHANGED <<iodir, olat, realSwitch, fpLock, panelCmd, pads, padStage, dirs, vals, panelCount>>

LockRelease(p) ==
    /\ panelPc[p] = "release"
    /\ WriteLock(lockPid[p])
    /\ PGoto(p, "lock")
    /\ UNCHANGED <<iodir, olat, realSwitch, panelLocal, panelCount>>

\* A getsw ends with readpads; a setsw or relsw goes on with its pads.
Unlock(p) ==
    /\ panelPc[p] = "unlk"
    /\ WriteLock(p)
    /\ PGoto(p, IF padStage[p] = "get" /\ panelCmd[p].kind # "getsw" THEN "modify" ELSE "idle")
    /\ UNCHANGED <<iodir, olat, realSwitch, panelLocal, panelCount>>

-----------------------------------------------------------------------------
(* readi2c and writei2c; a transfer that reports an error is repeated. *)

ReadDir(p) ==
    /\ panelPc[p] = "rddir"
    /\ dirs' = [dirs EXCEPT ![p] = Copied(p, @, iodir)]
    /\ PGoto(p, "rdval")
    /\ UNCHANGED <<iodir, olat, realSwitch, fpLock, lockPid, panelCmd, pads, padStage, chip,
                   vals, panelCount>>

\* readpads reads the pins, writepads the latches.
ReadVal(p) ==
    /\ panelPc[p] = "rdval"
    /\ vals' = [vals EXCEPT ![p] =
                  Copied(p, @, IF padStage[p] = "get" THEN [x \in Pins |-> Level(x)] ELSE olat)]
    /\ NextChip(p, "rddir", "apply")
    /\ UNCHANGED <<iodir, olat, realSwitch, fpLock, lockPid, panelCmd, pads, padStage, dirs,
                   panelCount>>

WriteDir(p) ==
    /\ panelPc[p] = "wrdir"
    /\ iodir' = StoredPins(p, iodir, dirs[p])
    /\ \/ PGoto(p, "wrlat")
       \/ PGoto(p, "wrdir")
    /\ UNCHANGED <<olat, realSwitch, fpLock, panelLocal, panelCount>>

AfterWrite(p) == IF padStage[p] = "put1" THEN "apply" ELSE "unlk"
WriteLat(p) ==
    /\ panelPc[p] = "wrlat"
    /\ olat' = StoredPins(p, olat, vals[p])
    /\ \/ /\ NextChip(p, "wrdir", AfterWrite(p))
          /\ padStage' = [padStage EXCEPT ![p] =
                         IF chip[p] = Chips /\ @ = "put1" THEN "put2" ELSE @]
       \/ PGoto(p, "wrlat") /\ UNCHANGED <<chip, padStage>>
    /\ UNCHANGED <<iodir, realSwitch, fpLock, lockPid, panelCmd, pads, dirs, vals, panelCount>>

-----------------------------------------------------------------------------
(* What is done with the registers read. *)

\* readpads: a toggle is overridden unless its collector is hi-Z and its base high.
GotPads(p) ==
    [ovr |-> [t \in Toggles |-> ~ (dirs[p][CollPin[t]] = 1 /\ vals[p][BasePin[t]] = 1)],
     val |-> [t \in Toggles |-> vals[p][CollPin[t]]],
     button |-> [b \in PanelButtons |-> vals[p][ButtonPin[b]] = 0]]

ApplyGet(p) ==
    /\ panelPc[p] = "apply" /\ padStage[p] = "get"
    /\ pads' = [pads EXCEPT ![p] = GotPads(p)]
    /\ PGoto(p, "unlk")
    /\ UNCHANGED <<iodir, olat, realSwitch, fpLock, lockPid, panelCmd, padStage, chip, dirs,
                   vals, panelCount>>

\* writepads: "phase 1: hi-Z things; 2: drive things"
ApplyPut(p) ==
    /\ panelPc[p] = "apply" /\ padStage[p] \in {"put1", "put2"}
    /\ dirs' = [dirs EXCEPT ![p] = [x \in Pins |-> NewDir(p, x)]]
    /\ vals' = [vals EXCEPT ![p] = [x \in Pins |-> NewVal(p, x)]]
    /\ PGoto(p, "wrdir")
    /\ UNCHANGED <<iodir, olat, realSwitch, fpLock, lockPid, panelCmd, pads, padStage, chip,
                   panelCount>>

relall(p) ==
    /\ panelPc[p] = "apply" /\ padStage[p] = "all"
    /\ dirs' = [dirs EXCEPT ![p] = Released] /\ vals' = [vals EXCEPT ![p] = Released]
    /\ PGoto(p, "wrdir")
    /\ UNCHANGED <<iodir, olat, realSwitch, fpLock, lockPid, panelCmd, pads, padStage, chip,
                   panelCount>>

-----------------------------------------------------------------------------
(* The commands. *)

Count == panelCount > 0 /\ panelCount' = panelCount - 1

Command(p) ==
    /\ panelPc[p] = "idle" /\ Count
    /\ \E c \in Commands :
          /\ panelCmd' = [panelCmd EXCEPT ![p] = c]
          /\ padStage' = [padStage EXCEPT ![p] = IF c.kind = "relall" THEN "all" ELSE "get"]
    /\ PGoto(p, "lock")
    /\ UNCHANGED <<iodir, olat, realSwitch, fpLock, lockPid, pads, chip, dirs, vals>>

\* setsw overrides the toggle, relsw no longer does; the rest is as read.
Modified(old, c) ==
    CASE c.kind = "setsw" /\ c.sw \in Toggles ->
            [old EXCEPT !.ovr[c.sw] = TRUE, !.val[c.sw] = c.val]
      [] c.kind = "setsw" /\ c.sw \in PanelButtons -> [old EXCEPT !.button[c.sw] = c.val = 1]
      [] c.kind = "relsw" -> [old EXCEPT !.ovr[c.sw] = FALSE]
      [] OTHER -> old

Modify(p) ==
    /\ panelPc[p] = "modify"
    /\ pads' = [pads EXCEPT ![p] = Modified(@, panelCmd[p])]
    /\ padStage' = [padStage EXCEPT ![p] = "put1"]
    /\ PGoto(p, "lock")
    /\ UNCHANGED <<iodir, olat, realSwitch, fpLock, lockPid, panelCmd, chip, dirs, vals,
                   panelCount>>

\* The user moves a toggle; a process is killed or gives up.
UserMoves ==
    /\ Count
    /\ \E t \in Toggles : realSwitch' = [realSwitch EXCEPT ![t] = 1 - @]
    /\ UNCHANGED <<iodir, olat, fpLock, panelPc, panelLocal>>

Killed(p) ==
    /\ panelPc[p] # "dead" /\ Count
    /\ PGoto(p, "dead")
    /\ UNCHANGED <<iodir, olat, realSwitch, fpLock, panelLocal>>

PanelProc(p) ==
    \/ LockWrite(p) \/ LockLook(p) \/ LockRelease(p) \/ Unlock(p)
    \/ ReadDir(p) \/ ReadVal(p) \/ WriteDir(p) \/ WriteLat(p)
    \/ ApplyGet(p) \/ ApplyPut(p) \/ relall(p)
    \/ Command(p) \/ Modify(p) \/ Killed(p)
PanelNext == UserMoves \/ \E p \in PanelProcs : PanelProc(p)

PanelSpec == PanelIdle /\ [][PanelNext]_panelVars

-----------------------------------------------------------------------------
(* Properties. *)

\* i2czlib.cc: "cannot have the transistor on (base low) and driving collector
\* line low at same time or it will cook the collector line".  Not even between
\* the writes to two chips, when a process is killed there and another one goes
\* on from what it left, or when two processes want the switch in both positions.
NeverCooked ==
    \A t \in Toggles :
        ~ (TransistorOn(t) /\ Driven(CollPin[t]) /\ olat[CollPin[t]] = 0)

\* When writepads is done every switch is in the position wanted, from whatever
\* position, overridden or not, it came, and no other is overridden; when
\* readpads is done it has seen which toggles are overridden and where to, and
\* which button lines are low, though the two pins of a toggle are read at
\* different times.
SwitchesAsWanted ==
    \A p \in PanelProcs : panelPc[p] = "unlk" => \A t \in Toggles :
        /\ padStage[p] # "all" => pads[p].ovr[t] = Overridden(t)
        /\ padStage[p] # "all" /\ Overridden(t) => pads[p].val[t] = Level(CollPin[t])
        /\ padStage[p] = "all" => ~ Overridden(t)
        /\ \A b \in PanelButtons :
              padStage[p] # "all" => pads[p].button[b] = (Level(ButtonPin[b]) = 0)
=============================================================================
