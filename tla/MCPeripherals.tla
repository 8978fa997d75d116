---------------------------- MODULE MCPeripherals ----------------------------
(***************************************************************************)
(* The programs around the processor share nothing but the machine, so one *)
(* run checks them side by side: dev is the one that is at work, the       *)
(* others stay as they are when they are idle.                             *)
(***************************************************************************)
EXTENDS Z8lTty, PaperTape, TclMain, Panel, PanelBoards, Pipan8l, SimLib, Z8lVc8, Assemble,
        ExtMemMap
LOCAL INSTANCE TLC

VARIABLE dev

\* z8ltty: both boards; a string whose start comes twice.
McStarts == {[board |-> "TT", stdintty |-> FALSE], [board |-> "DC", upcase |-> TRUE]}
McTtyBounds == {[print |-> 3, command |-> 1, event |-> 1],
                [print |-> 1, command |-> 1, event |-> 2]}
McTape == <<97>>
McStopStrings == {<<65, 65, 66>>}

\* z8lptr and z8lptp
McPtrTapes == {<<10, 13, 10, 65>>, <<65, 138>>}
McPtrOptions == {{}, {"inscr", "7bit"}, {"inscr", "clear"}}
McPtpOptions == {{"clear", "leader"}, {"7bit", "remcr", "remnul", "trailer"}, {"remdel"}}

\* The front panel: a toggle with its pins on two chips; the chip of the button
\* is taken with the second of them.
McToggles == {"SR00"}
McCollPin == [t \in McToggles |-> Board3.SR00]
McBasePin == [t \in McToggles |-> Board3.RSR00]
McButtonPin == [b \in {"CONT"} |-> Board3.CONT]
McChipOf == [x \in Pins |-> IF Chip(x) = 1 THEN 1 ELSE 2]

\* pipan8l
SetSwitch(sw, val) == [cmd |-> "setsw", sw |-> sw, val |-> val]
McScripts ==
    {<<SetSwitch("cont", 1), SetSwitch("bncy", 0), [cmd |-> "flushit"], SetSwitch("cont", 0),
       [cmd |-> "getreg"], [cmd |-> "flushit"], [cmd |-> "getreg"]>>}
McPaddleOf == ("cont" :> 1) @@ ("bncy" :> 2)

\* simlib: two instructions out of these, then HLT.
McFieldSwitches == {<<0, 1>>, <<1, 0>>}
First == {\o7260, \o1210, \o6001, \o6212}
Second == {\o0210, \o1210, \o2211, \o4211, \o5212, \o5201, \o1410, \o2610, \o3612, \o4612,
           \o5612, \o5410, \o7004, \o7012, \o7002, \o7111, \o7041, \o7540, \o7470, \o7624,
           \o6002, \o6036, \o6046, \o6045, \o6035, \o6211, \o6213, \o6224, \o6234, \o6244}
Hlt == \o7402
McPrograms ==
    { (<<0, \o200>> :> a) @@ (<<0, \o201>> :> b) @@ (<<0, \o210>> :> \o5252)
      @@ (<<0, \o211>> :> \o7777) @@ (<<0, \o212>> :> \o213) @@ (<<0, 8>> :> \o220)
      @@ (<<0, 9>> :> Hlt) : a \in First, b \in Second }

\* z8lvc8
McVcBounds == {[plot |-> 4, load |-> 0], [plot |-> 2, load |-> 1]}

\* assemble: all instructions but those of group 3
McOpcodes == {w \in 0 .. 4095 : w < \o7400 \/ w % 2 = 0}

-----------------------------------------------------------------------------
IdleBut(name) ==
    /\ name # "tty" => TtyIdle
    /\ name # "tape" => TapeIdle
    /\ name # "tcl" => TclIdle
    /\ name # "panel" => PanelIdle
    /\ name # "pad" => PadIdle
    /\ name # "sim" => SimIdle
    /\ name # "vc" => VcIdle
    /\ name # "asm" => AsmIdle
    /\ name # "ext" => ExtIdle

Init ==
    \/ dev = "tty" /\ TtyInit /\ IdleBut("tty")
    \/ dev = "tape" /\ TapeInit /\ IdleBut("tape")
    \/ dev = "tcl" /\ TclInit /\ IdleBut("tcl")
    \/ dev = "panel" /\ PanelIdle /\ IdleBut("panel")
    \/ dev = "pad" /\ PadIdle /\ IdleBut("pad")
    \/ dev = "sim" /\ SimInit /\ IdleBut("sim")
    \/ dev = "vc" /\ VcInit /\ IdleBut("vc")
    \/ dev = "asm" /\ AsmInit /\ IdleBut("asm")
    \/ dev = "ext" /\ ExtInit /\ IdleBut("ext")

TtyWorks ==
    /\ dev = "tty" /\ TtyNext
    /\ UNCHANGED <<dev, tapeVars, tclVars, panelVars, padVars, simVars, vcVars, asmVars, extVars>>
TapeWorks ==
    /\ dev = "tape" /\ TapeNext
    /\ UNCHANGED <<dev, ttyVars, tclVars, panelVars, padVars, simVars, vcVars, asmVars, extVars>>
TclWorks ==
    /\ dev = "tcl" /\ TclNext
    /\ UNCHANGED <<dev, ttyVars, tapeVars, panelVars, padVars, simVars, vcVars, asmVars, extVars>>
PanelWorks ==
    /\ dev = "panel" /\ PanelNext
    /\ UNCHANGED <<dev, ttyVars, tapeVars, tclVars, padVars, simVars, vcVars, asmVars, extVars>>
PadWorks ==
    /\ dev = "pad" /\ PadNext
    /\ UNCHANGED <<dev, ttyVars, tapeVars, tclVars, panelVars, simVars, vcVars, asmVars, extVars>>
SimWorks ==
    /\ dev = "sim" /\ SimNext
    /\ UNCHANGED <<dev, ttyVars, tapeVars, tclVars, panelVars, padVars, vcVars, asmVars, extVars>>
VcWorks ==
    /\ dev = "vc" /\ VcNext
    /\ UNCHANGED <<dev, ttyVars, tapeVars, tclVars, panelVars, padVars, simVars, asmVars, extVars>>
AsmWorks ==
    /\ dev = "asm" /\ AsmNext
    /\ UNCHANGED <<dev, ttyVars, tapeVars, tclVars, panelVars, padVars, simVars, vcVars, extVars>>
ExtWorks ==
    /\ dev = "ext" /\ ExtNext
    /\ UNCHANGED <<dev, ttyVars, tapeVars, tclVars, panelVars, padVars, simVars, vcVars, asmVars>>

Next ==
    \/ TtyWorks \/ TapeWorks \/ TclWorks \/ PanelWorks
    \/ PadWorks \/ SimWorks \/ VcWorks \/ AsmWorks \/ ExtWorks

vars == <<dev, ttyVars, tapeVars, tclVars, panelVars, padVars, simVars, vcVars, asmVars, extVars>>

\* TtyFair, TapeFair, SimFair and ExtFair of the one at work
Fair ==
    /\ WF_ttyVars(dev = "tty" /\ TtyRuns) /\ SF_ttyVars(dev = "tty" /\ TtyTakes)
    /\ WF_tapeVars(dev = "tape" /\ TapeProgram)
    /\ WF_extVars(dev = "ext" /\ ExtClocks(TRUE))
    /\ WF_simVars(dev = "sim" /\ SimRuns) /\ WF_simVars(dev = "sim" /\ Join)

Spec == Init /\ [][Next]_vars /\ Fair

-----------------------------------------------------------------------------
\* What the PDP-8/L or a script waits for comes: a character printed during a
\* run is taken, the paper tape's flag is raised unless the program ends, the
\* simulator's thread stops, whatever instructions it runs, a write to memory ends.
SomebodyWaits ==
    \/ dev = "tty" /\ PrinterWaits
    \/ dev = "tape" /\ TapeWaits
    \/ dev = "sim" /\ CallerWaits
    \/ dev = "ext" /\ PortWaits
AllAnswered == SomebodyWaits ~> ~ SomebodyWaits
=============================================================================
