------------------------------- MODULE Pipan8l -------------------------------
(***************************************************************************)
(* pipan8l reads the front panel's lights and works its switches from a    *)
(* Raspberry PI (pipan8l.cc, i2clib.cc).  Two threads share its copy of    *)
(* the paddles under padmutex: the one that runs the Tcl script, whose     *)
(* setsw only changes the copy until something flushes it, and the one     *)
(* that answers "pipan8l -status" processes over udp, which flushes too.   *)
(*                                                                         *)
(* A paddle is read or written in one i2c transfer, the machine runs on    *)
(* between two of them.  A datagram stays in the network: it may be         *)
(* received never, once, or again, and in any order.                       *)
(*                                                                         *)
(* What the lights of a paddle show is the time at which they show it.     *)
(***************************************************************************)
EXTENDS Naturals
LOCAL INSTANCE Sequences

CONSTANTS
    Paddles,            \* the number of paddles (P_NU16S)
    PadSwitches,        \* switches
    PaddleOf,           \* the paddle of each switch
    Scripts,            \* what the Tcl thread may run
    MaxTime, MaxPings   \* bounds: changes of the lights, pings of a status process

ASSUME PaddleAssumption ==
    Paddles \in Nat \ {0} /\ PaddleOf \in [PadSwitches -> 1 .. Paddles]
ASSUME ScriptAssumption ==
    Scripts \subseteq Seq([cmd : {"setsw"}, sw : PadSwitches, val : {0, 1}]
                          \cup [cmd : {"flushit", "getreg"}])

VARIABLES
    now,            \* time, as the lights show it
    outputs,        \* the switches as the paddles drive them
    wrpads, rdpads, \* pipan8l's copies: switches; when each paddle was read
    wrpadsdirty, rdpadsvalid,
    padmutex,       \* the thread that has the lock
    padIo,          \* what that thread does: "write" or "read" a paddle, or "done"
    padAt,          \* the paddle
    script,         \* what is left of the script
    request,        \* the sequence number the udp thread is answering
    network,        \* datagrams: [to, seq, frame]
    seq,            \* the status process's sequence number
    waiting,        \* whether it still waits for that answer
    shown,          \* the frame it shows
    pinged,         \* history: when it sent the ping of that sequence number
    flushed,        \* history: when the script last flushed
    got,            \* history: when the lights of its last getreg were read
    padPresses,        \* history: how often the machine has seen each switch pressed
    padAsked           \* history: how often the script has pressed it

padVars == <<now, outputs, wrpads, rdpads, wrpadsdirty, rdpadsvalid, padmutex, padIo, padAt,
             script, request, network, seq, waiting, shown, pinged, flushed, got, padPresses, padAsked>>
padCopies == <<outputs, wrpads, rdpads, wrpadsdirty, rdpadsvalid, padPresses, padAsked>>
padStatus == <<seq, waiting, shown, pinged>>

Threads == {"tcl", "udp"}
Words == 1 .. Paddles
NoFrame == [w \in Words |-> 0]
NoRequest == 0

\* main: the switches' copy is what the paddles drive.
PadIdle ==
    /\ now = 0 /\ flushed = 0 /\ got = NoFrame
    /\ outputs = [s \in PadSwitches |-> 0] /\ wrpads = outputs
    /\ padPresses = [s \in PadSwitches |-> 0] /\ padAsked = padPresses
    /\ rdpads = NoFrame /\ wrpadsdirty = FALSE /\ rdpadsvalid = FALSE
    /\ padmutex = "free" /\ padIo = "done" /\ padAt = 1
    /\ script \in Scripts
    /\ request = NoRequest /\ network = {}
    /\ seq = 0 /\ waiting = FALSE /\ shown = NoFrame /\ pinged = 0

LightsChange ==
    /\ now < MaxTime /\ now' = now + 1
    /\ UNCHANGED <<padCopies, padmutex, padIo, padAt, script, request, network, padStatus,
                   flushed, got>>

-----------------------------------------------------------------------------
(* The paddles, with padmutex held. *)

\* Mutant: the switch is put back, and nothing seems to be left to write.
setpin_Clean(sw, val) ==
    /\ wrpads' = [wrpads EXCEPT ![sw] = val]
    /\ wrpadsdirty' = (val # outputs[sw])

setpin(sw, val) ==
    /\ wrpads' = [wrpads EXCEPT ![sw] = val]
    /\ wrpadsdirty' = (wrpadsdirty \/ wrpads[sw] # val)

\* Where a thread goes on that has the lock: to flush, to read the lights into
\* the cache if there is nothing valid, or nowhere.
Begin(thread, dirty, valid, reads) ==
    /\ padmutex = "free" /\ padmutex' = thread
    /\ padIo' = IF dirty THEN "write" ELSE IF reads /\ ~ valid THEN "read" ELSE "done"
    /\ padAt' = 1

\* What the udp thread and getreg want, and flushit does not
Reads == padmutex = "udp" \/ (script # << >> /\ Head(script).cmd = "getreg")

\* writepads
WritePaddle ==
    /\ padmutex # "free" /\ padIo = "write"
    /\ outputs' = [s \in PadSwitches |-> IF PaddleOf[s] = padAt THEN wrpads[s] ELSE outputs[s]]
    /\ padPresses' = [s \in PadSwitches |->
                      padPresses[s] + IF outputs[s] = 0 /\ outputs'[s] = 1 THEN 1 ELSE 0]
    /\ IF padAt < Paddles
       THEN padAt' = padAt + 1 /\ UNCHANGED <<padIo, wrpadsdirty, rdpadsvalid>>
       ELSE /\ padAt' = 1 /\ padIo' = IF Reads THEN "read" ELSE "done"
            /\ wrpadsdirty' = FALSE /\ rdpadsvalid' = FALSE
    /\ UNCHANGED <<now, wrpads, rdpads, padmutex, script, request, network, padStatus,
                   flushed, got, padAsked>>

\* readpads
ReadPaddle ==
    /\ padmutex # "free" /\ padIo = "read"
    /\ rdpads' = [rdpads EXCEPT ![padAt] = now]
    /\ IF padAt < Paddles
       THEN padAt' = padAt + 1 /\ UNCHANGED <<padIo, rdpadsvalid>>
       ELSE padAt' = 1 /\ padIo' = "done" /\ rdpadsvalid' = TRUE
    /\ UNCHANGED <<now, outputs, wrpads, wrpadsdirty, padmutex, script, request, network,
                   padStatus, flushed, got, padPresses, padAsked>>

-----------------------------------------------------------------------------
(* The Tcl thread. *)

Command1 == Head(script)

cmd_setsw ==
    /\ script # << >> /\ padmutex = "free" /\ Command1.cmd = "setsw"
    /\ setpin(Command1.sw, Command1.val)
    /\ padAsked' = [padAsked EXCEPT ![Command1.sw] = @ + IF Command1.val > wrpads[Command1.sw] THEN 1 ELSE 0]
    /\ script' = Tail(script)
    /\ UNCHANGED <<now, outputs, rdpads, rdpadsvalid, padmutex, padIo, padAt, request, network,
                   padStatus, flushed, got, padPresses>>

\* Mutant: what was read stays valid when there is nothing to write.
InvalidateTcl_Dirty == rdpadsvalid' = (rdpadsvalid /\ ~ wrpadsdirty /\ Command1.cmd = "flushit")

\* flushit invalidates the cache whether or not something had to be written.
InvalidateTcl == rdpadsvalid' = (rdpadsvalid /\ Command1.cmd # "flushit")

cmd_flushit_getreg ==
    /\ script # << >> /\ Command1.cmd \in {"flushit", "getreg"}
    /\ Begin("tcl", wrpadsdirty, rdpadsvalid, Command1.cmd = "getreg")
    /\ InvalidateTcl
    /\ flushed' = IF Command1.cmd = "flushit" THEN now ELSE flushed
    /\ UNCHANGED <<now, outputs, wrpads, rdpads, wrpadsdirty, script, request, network,
                   padStatus, got, padPresses, padAsked>>

TclDone ==
    /\ padmutex = "tcl" /\ padIo = "done"
    /\ padmutex' = "free"
    /\ got' = IF Command1.cmd = "getreg" THEN rdpads ELSE got
    /\ script' = Tail(script)
    /\ UNCHANGED <<now, padCopies, padIo, padAt, request, network, padStatus, flushed>>

-----------------------------------------------------------------------------
(* udpthread. *)

Datagram(to, n, frame) == [to |-> to, seq |-> n, frame |-> frame]

UdpReceive ==
    /\ request = NoRequest
    /\ \E d \in network :
          /\ d.to = "server"
          /\ request' = d.seq
    /\ UNCHANGED <<now, padCopies, padmutex, padIo, padAt, script, network, padStatus,
                   flushed, got>>

UdpLock ==
    /\ request # NoRequest
    /\ Begin("udp", wrpadsdirty, FALSE, TRUE)
    /\ rdpadsvalid' = FALSE
    /\ UNCHANGED <<now, outputs, wrpads, rdpads, wrpadsdirty, script, request, network,
                   padStatus, flushed, got, padPresses, padAsked>>

UdpAnswer ==
    /\ padmutex = "udp" /\ padIo = "done"
    /\ padmutex' = "free"
    /\ network' = network \cup {Datagram("status", request, rdpads)}
    /\ request' = NoRequest
    /\ UNCHANGED <<now, padCopies, padIo, padAt, script, padStatus, flushed, got>>

-----------------------------------------------------------------------------
(* showstatus. *)

\* A ping, also when the answer does not come within 100 ms
Ping ==
    /\ seq < MaxPings
    /\ seq' = seq + 1 /\ waiting' = TRUE
    /\ pinged' = now
    /\ network' = network \cup {Datagram("server", seq', NoFrame)}
    /\ UNCHANGED <<now, padCopies, padmutex, padIo, padAt, script, request, shown, flushed, got>>

Accepted(d) == d.seq = seq

Answered ==
    /\ waiting
    /\ \E d \in network :
          /\ d.to = "status" /\ Accepted(d)
          /\ shown' = d.frame
    /\ waiting' = FALSE
    /\ UNCHANGED <<now, padCopies, padmutex, padIo, padAt, script, request, network, seq,
                   pinged, flushed, got>>

PadNext ==
    \/ LightsChange \/ WritePaddle \/ ReadPaddle
    \/ cmd_setsw \/ cmd_flushit_getreg \/ TclDone
    \/ UdpReceive \/ UdpLock \/ UdpAnswer
    \/ Ping \/ Answered

PadSpec == PadIdle /\ [][PadNext]_padVars

-----------------------------------------------------------------------------
(* Properties. *)

\* The machine sees a switch pressed exactly as often as the script padAsked for
\* it between two flushes, though the udp thread flushes at any moment in
\* between; and what it does not see yet is still marked to be written.
FlicksSeen ==
    /\ ~ wrpadsdirty => wrpads = outputs
    /\ wrpads = outputs => padPresses = padAsked

\* A frame that is put on the screen was read after the ping it answers, and a
\* getreg that follows a flushit returns lights read after that flush: neither
\* an old datagram nor the cache stands in for the machine.
ReadsFresh ==
    [][/\ shown' # shown => \A w \in Words : shown'[w] >= pinged
       /\ got' # got => \A w \in Words : got'[w] >= flushed]_padVars
=============================================================================
