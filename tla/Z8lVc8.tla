------------------------------- MODULE Z8lVc8 -------------------------------
(***************************************************************************)
(* The VC8/E point display: the processor's program puts points into a     *)
(* ring in the gate array (pdp8lvc8.v); z8lvc8 (z8lvc8.cc) takes them out  *)
(* every 50 ms, keeps them in a ring of its own until they fade, and draws *)
(* in an X window, which scales several points to the same pixel.          *)
(*                                                                         *)
(* z8lvc8 inserts into its ring modulo MAXBUFFPTS, but goes through it     *)
(* modulo XYSIZE * XYSIZE, over positions that never held a point.         *)
(***************************************************************************)
EXTENDS Integers
LOCAL INSTANCE Sequences

CONSTANTS
    Coords,             \* the coordinates of points: 0 .. n
    Grays,              \* intensities
    Scales,             \* points in a pixel, by the size of the window
    HwRing,             \* points the gate array has room for
    BuffPts, RingSize,  \* MAXBUFFPTS, XYSIZE * XYSIZE
    VcBounds            \* bounds: [plot: points plotted; load: status registers loaded]

ASSUME RingAssumption == BuffPts \in Nat /\ RingSize \in Nat /\ 1 < BuffPts /\ BuffPts < RingSize

VARIABLES
    queue,              \* the gate array's ring
    eflags,             \* its flags: "ST" storage mode, "ER" erase, "DN" done
    stage,              \* where z8lvc8's loop is
    allpoints,          \* its ring
    allins, allnew, allrem,
    indices,            \* the latest entry of the ring at each pixel, or -1
    winscale,           \* the window's size
    oldeflags, neweflags,
    orflags,            \* the flags read to or the done flag into
    lit,                \* the window: a gray level per pixel, or Dark
    wiped,              \* history: pixels cleared with the button since they were drawn
    overflowed,         \* history: the ring has been full
    vcCount             \* what is left of the bounds

vcVars == <<queue, eflags, stage, allpoints, allins, allnew, allrem, indices, winscale,
            oldeflags, neweflags, orflags, lit, wiped, overflowed, vcCount>>
vcHardware == <<queue, eflags, vcCount>>
vcRing == <<allpoints, allins, allnew, allrem, overflowed>>
vcScreen == <<indices, winscale, lit, wiped>>
vcFlags == <<oldeflags, neweflags, orflags>>

Dark == -1
Gone == -1
Pixels == Coords
VcPoint(x, t) == [x |-> x, t |-> t]

VcStart(scale, bounds) ==
    /\ queue = << >> /\ eflags = {} /\ stage = "sleep"
    /\ allpoints = [i \in 0 .. RingSize - 1 |-> VcPoint(0, 0)]
    /\ allins = 0 /\ allnew = 0 /\ allrem = 0
    /\ indices = [m \in Pixels |-> Gone] /\ winscale = scale
    /\ oldeflags = {} /\ neweflags = {} /\ orflags = {}
    /\ lit = [m \in Pixels |-> Dark] /\ wiped = {} /\ overflowed = FALSE
    /\ vcCount = bounds
VcIdle == VcStart(CHOOSE scale \in Scales : TRUE, [plot |-> 0, load |-> 0])
VcInit == \E scale \in Scales, bounds \in VcBounds : VcStart(scale, bounds)

-----------------------------------------------------------------------------
(* The processor's program. *)

VcProgram == UNCHANGED <<stage, vcRing, vcScreen, vcFlags>>
VcTake(what) == vcCount[what] > 0 /\ vcCount' = [vcCount EXCEPT ![what] = @ - 1]

\* DIXY; the oldest point is dropped when there is no room.
DIXY(x, t) ==
    /\ VcTake("plot")
    /\ LET q == Append(queue, VcPoint(x, t))
       IN  queue' = IF Len(q) < HwRing THEN q ELSE Tail(q)
    /\ UNCHANGED eflags

\* DILE and DICD
DILE(flags) ==
    /\ VcTake("load")
    /\ eflags' = flags \cup (eflags \cap {"DN"})
    /\ UNCHANGED queue

DICD == "DN" \in eflags /\ eflags' = eflags \ {"DN"} /\ UNCHANGED <<queue, vcCount>>

VcReset ==
    /\ VcTake("load")
    /\ queue' = << >> /\ eflags' = {}

VcPdp ==
    /\ \/ \E x \in Coords, t \in Grays : DIXY(x, t)
       \/ \E flags \in SUBSET {"ST", "ER"} : DILE(flags)
       \/ DICD
       \/ VcReset
    /\ VcProgram

-----------------------------------------------------------------------------
(* z8lvc8's ring and window. *)

mappedxy(p, scale) == p.x \div scale
Next1(i) == (i + 1) % RingSize

\* The entries from one to before another, and how far along an entry is
Along(from, i) == (i - from + RingSize) % RingSize
Span(from, to) == {i \in 0 .. RingSize - 1 : Along(from, i) < Along(from, to)}

\* Mutant: an entry is drawn whatever came to its pixel since.
Latest_Any(i) == TRUE

Latest(i) == indices[mappedxy(allpoints[i], winscale)] = i

drawpt(i, erase) ==
    LET m == mappedxy(allpoints[i], winscale)
    IN  IF Latest(i)
        THEN /\ lit' = [lit EXCEPT ![m] = IF erase THEN Dark ELSE allpoints[i].t]
             /\ wiped' = wiped \ {m}
             /\ indices' = IF erase THEN [indices EXCEPT ![m] = Gone] ELSE indices
        ELSE UNCHANGED <<lit, wiped, indices>>

At(s) == stage = s
VcGoto(s) == stage' = s

Awake ==
    /\ At("sleep") /\ VcGoto("dequeue")
    /\ allnew' = allins
    /\ UNCHANGED <<vcHardware, allpoints, allins, allrem, overflowed, vcScreen, vcFlags>>

Dequeue ==
    /\ At("dequeue") /\ queue # << >>
    /\ queue' = Tail(queue)
    /\ indices' = [indices EXCEPT ![mappedxy(Head(queue), winscale)] = allins]
    /\ allpoints' = [allpoints EXCEPT ![allins] = Head(queue)]
    /\ allins' = (allins + 1) % BuffPts
    /\ allrem' = IF allrem = allins' THEN (allrem + 1) % BuffPts ELSE allrem
    /\ overflowed' = (overflowed \/ allrem = allins' \/ (allrem >= BuffPts /\ allins' = 0))
    /\ UNCHANGED <<eflags, vcCount, stage, allnew, winscale, lit, wiped, vcFlags>>

ReadFlags ==
    /\ At("dequeue") /\ queue = << >>
    /\ neweflags' = eflags
    /\ VcGoto(IF "ER" \in eflags \ oldeflags THEN "erase" ELSE "resize")
    /\ UNCHANGED <<vcHardware, vcRing, vcScreen, oldeflags, orflags>>

\* The window is cleared first; 450 ms later the rings are.
EraseWindow ==
    /\ At("erase") /\ VcGoto("erasing")
    /\ lit' = [m \in Pixels |-> Dark]
    /\ UNCHANGED <<vcHardware, vcRing, indices, winscale, wiped, vcFlags>>

EraseRings ==
    /\ At("erasing") /\ VcGoto("done")
    /\ allins' = 0 /\ allnew' = 0 /\ allrem' = 0
    /\ queue' = << >>
    /\ orflags' = eflags
    /\ UNCHANGED <<eflags, vcCount, allpoints, overflowed, vcScreen, oldeflags, neweflags>>

\* The done flag is or'ed in, whatever the program loaded since the read.
EraseDone ==
    /\ At("done") /\ VcGoto("resize")
    /\ eflags' = orflags \cup {"DN"} /\ orflags' = {}
    /\ UNCHANGED <<queue, vcCount, vcRing, vcScreen, oldeflags, neweflags>>

\* A new size: the index is made again, and what was there before is drawn.
Resize ==
    /\ At("resize") /\ VcGoto("expire")
    /\ \E scale \in Scales :
        LET \* the entries of a pixel from one to before another
            on(m, to) == {i \in Span(allrem, to) : mappedxy(allpoints[i], scale) = m}
            last(s) == CHOOSE i \in s : \A j \in s : Along(allrem, j) <= Along(allrem, i)
            index == [m \in Pixels |-> IF on(m, allins) = {} THEN Gone ELSE last(on(m, allins))]
        IN  IF scale = winscale THEN UNCHANGED vcScreen
            ELSE /\ winscale' = scale /\ wiped' = {}
                 /\ indices' = index
                 /\ lit' = [m \in Pixels |->
                              IF index[m] \in on(m, allnew) THEN allpoints[index[m]].t ELSE Dark]
    /\ UNCHANGED <<vcHardware, vcRing, vcFlags>>

\* Ephemeral mode: the oldest entry goes when it has faded, or came to a pixel
\* that has a later one.
Expire ==
    /\ At("expire") /\ "ST" \notin neweflags /\ allrem # allnew
    /\ drawpt(allrem, TRUE)
    /\ allrem' = Next1(allrem)
    /\ UNCHANGED <<vcHardware, stage, allpoints, allins, allnew, overflowed, winscale, vcFlags>>

Expired ==
    /\ At("expire") /\ VcGoto("draw")
    /\ "ST" \in neweflags \/ allrem = allnew \/ Latest(allrem)
    /\ UNCHANGED <<vcHardware, vcRing, vcScreen, vcFlags>>

DrawNew ==
    /\ At("draw") /\ allnew # allins
    /\ drawpt(allnew, FALSE)
    /\ allnew' = Next1(allnew)
    /\ UNCHANGED <<vcHardware, stage, allpoints, allins, allrem, overflowed, winscale, vcFlags>>

\* The CLEAR button of storage mode
VcButtons ==
    /\ At("draw") /\ allnew = allins /\ VcGoto("sleep")
    /\ oldeflags' = neweflags
    /\ \/ UNCHANGED <<lit, wiped>>
       \/ "ST" \in neweflags /\ lit' = [m \in Pixels |-> Dark] /\ wiped' = Pixels
    /\ UNCHANGED <<vcHardware, vcRing, indices, winscale, neweflags, orflags>>

VcThread ==
    \/ Awake \/ Dequeue \/ ReadFlags \/ EraseWindow \/ EraseRings \/ EraseDone
    \/ Resize \/ Expire \/ Expired \/ DrawNew \/ VcButtons

VcNext == VcPdp \/ VcThread
VcSpec == VcInit /\ [][VcNext]_vcVars

-----------------------------------------------------------------------------
(* Properties. *)

\* The entries for a pixel: points went into the first BuffPts positions only.
Entries(m) == {i \in Span(allrem, allins) : i < BuffPts /\ mappedxy(allpoints[i], winscale) = m}

\* A new size of the window, while the ring goes past its end, has put a position
\* that never held a point into the index; it is taken for one at (0,0).
NeverCame(m) == /\ m = mappedxy(VcPoint(0, 0), winscale)
                /\ indices[m] \in Span(allrem, allins) /\ indices[m] >= BuffPts

\* Between two rounds a pixel is lit exactly if a point that came to it is still in
\* the ring, in the gray of the latest: nothing stays on the screen that the removal
\* of old points does not come to, and removing an old point does not darken a newer
\* one.  Only the corner's pixel may show what never came there.
ScreenTrue ==
    stage = "sleep" /\ ~ overflowed =>
        \A m \in Pixels \ wiped :
            \/ NeverCame(m)
            \/ /\ Entries(m) = {} => lit[m] = Dark
               /\ \A i \in Entries(m) :
                     (\A j \in Entries(m) : Along(allrem, j) <= Along(allrem, i)) => lit[m] = allpoints[i].t
=============================================================================
