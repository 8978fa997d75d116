------------------------------- MODULE CmLock -------------------------------
(***************************************************************************)
(* The lock in front of the core memory DMA controller: the test-and-set   *)
(* cell of pdp8lcmem.v (register 3) and the two functions of z8lutil.cc    *)
(* that use it, Z8LPage::cmlock and Z8LPage::cmunlk.  Several Linux        *)
(* processes (z8lrk8je, z8ltc08, ...) share the cell; each may be killed   *)
(* at any point, leaving its pid in it.                                    *)
(*                                                                         *)
(* Every access to the cell is one bus transaction, so the write of the    *)
(* pid and the read that follows are separate steps of a process.          *)
(***************************************************************************)
EXTENDS Naturals

CONSTANTS Procs,        \* process ids of every program run; ids are not reused
          NoPid,        \* the zero in a free cell
          MaxProbes     \* failed batches that fit in the time before giving up

ASSUME NoPidAssumption == NoPid \notin Procs
ASSUME MaxProbesAssumption == MaxProbes \in Nat \ {0}

VARIABLES armlock,      \* the test-and-set cell
          pc,           \* where each process is in cmlock/cmunlk
          lkpid,        \* each process's local copy of the cell
          probes        \* batches of attempts that have failed so far

lockvars == <<armlock, pc, lkpid, probes>>

Pids == Procs \cup {NoPid}

\* "idle"    outside the functions
\* "try"     about to write mypid
\* "look"    mypid written, about to read the cell back
\* "probe"   a whole batch of attempts failed, about to examine the holder
\* "release" the holder was seen dead, about to write its pid back
\* "held"    cmlock has returned
\* "unlk"    cmunlk has read the cell, about to write the pid back
\* "aborted" ABORT () called: the controller seems stuck, or the cell is not its own
\* "dead"    killed from outside
Steps == {"idle", "try", "look", "probe", "release", "held", "unlk", "aborted", "dead"}

TypeOK ==
    /\ armlock \in Pids
    /\ pc \in [Procs -> Steps]
    /\ lkpid \in [Procs -> Pids]
    /\ probes \in [Procs -> 0 .. MaxProbes]

Init ==
    /\ armlock = NoPid
    /\ pc = [p \in Procs |-> "idle"]
    /\ lkpid = [p \in Procs |-> NoPid]
    /\ probes = [p \in Procs |-> 0]

Alive(p) == pc[p] \notin {"aborted", "dead"}
Holds(p) == pc[p] \in {"held", "unlk"}

Goto(p, step) == pc' = [pc EXCEPT ![p] = step]

(***************************************************************************)
(* The cell: a free cell takes any value, writing the value it holds       *)
(* clears it, every other write is ignored.                                *)
(***************************************************************************)
\* Mutant: a write over any pid, instead of only its own, clears the cell.
WriteCellClearsAny(v) ==
    armlock' = IF armlock = NoPid THEN v ELSE NoPid

WriteCell(v) ==
    armlock' = IF armlock = NoPid THEN v
               ELSE IF armlock = v THEN NoPid ELSE armlock

-----------------------------------------------------------------------------
LockCall(p) ==
    /\ pc[p] = "idle"
    /\ Goto(p, "try")
    /\ probes' = [probes EXCEPT ![p] = 0]
    /\ UNCHANGED <<armlock, lkpid>>

TryWrite(p) ==
    /\ pc[p] = "try"
    /\ WriteCell(p)
    /\ Goto(p, "look")
    /\ UNCHANGED <<lkpid, probes>>

\* The inner loop ends with the lock, with another attempt, or, its count
\* used up, with a look at the holder.
TryRead(p) ==
    /\ pc[p] = "look"
    /\ lkpid' = [lkpid EXCEPT ![p] = armlock]
    /\ \/ armlock = p /\ Goto(p, "held")
       \/ armlock # p /\ Goto(p, "try")
       \/ armlock # p /\ Goto(p, "probe")
    /\ UNCHANGED <<armlock, probes>>

\* "cmem controller is stuck": the clock says that too much time has passed
\* since the first failed batch, which itself never aborts.
GiveUp(p) ==
    /\ pc[p] = "probe"
    /\ probes[p] > 0
    /\ Goto(p, "aborted")
    /\ UNCHANGED <<armlock, lkpid, probes>>

\* Mutant: the answer of kill () is not looked at.
ProbeHolderBlind(p) ==
    /\ pc[p] = "probe"
    /\ probes[p] < MaxProbes
    /\ probes' = [probes EXCEPT ![p] = @ + 1]
    /\ Goto(p, IF lkpid[p] # NoPid THEN "release" ELSE "try")
    /\ UNCHANGED <<armlock, lkpid>>

\* Mutant: the time of the first failed batch is not kept.
ProbeHolderForgetful(p) ==
    /\ pc[p] = "probe"
    /\ IF lkpid[p] # NoPid /\ ~ Alive(lkpid[p])
       THEN Goto(p, "release")
       ELSE Goto(p, "try")
    /\ UNCHANGED <<armlock, lkpid, probes>>

\* kill (lkpid, 0) tells whether the process last seen in the cell exists.
ProbeHolder(p) ==
    /\ pc[p] = "probe"
    /\ probes[p] < MaxProbes
    /\ probes' = [probes EXCEPT ![p] = @ + 1]
    /\ IF lkpid[p] # NoPid /\ ~ Alive(lkpid[p])
       THEN Goto(p, "release")
       ELSE Goto(p, "try")
    /\ UNCHANGED <<armlock, lkpid>>

\* Mutant: the process writes its own pid instead of the dead one's.
ReleaseDeadOwnPid(p) ==
    /\ pc[p] = "release"
    /\ WriteCell(p)
    /\ Goto(p, "try")
    /\ UNCHANGED <<lkpid, probes>>

ReleaseDead(p) ==
    /\ pc[p] = "release"
    /\ WriteCell(lkpid[p])
    /\ Goto(p, "try")
    /\ UNCHANGED <<lkpid, probes>>

\* ASSERT (lkpid == mypid) aborts the process when the cell is not its own.
UnlockRead(p) ==
    /\ pc[p] = "held"
    /\ lkpid' = [lkpid EXCEPT ![p] = armlock]
    /\ Goto(p, IF armlock = p THEN "unlk" ELSE "aborted")
    /\ UNCHANGED <<armlock, probes>>

UnlockWrite(p) ==
    /\ pc[p] = "unlk"
    /\ WriteCell(lkpid[p])
    /\ Goto(p, "idle")
    /\ UNCHANGED <<lkpid, probes>>

\* A process may be killed between any two of its bus accesses.
Crash(p) ==
    /\ Alive(p)
    /\ Goto(p, "dead")
    /\ UNCHANGED <<armlock, lkpid, probes>>

CmLockStep(p) ==
    TryWrite(p) \/ TryRead(p) \/ GiveUp(p) \/ ProbeHolder(p) \/ ReleaseDead(p)

CmUnlkStep(p) == UnlockRead(p) \/ UnlockWrite(p)

Next ==
    \E p \in Procs : LockCall(p) \/ CmLockStep(p) \/ CmUnlkStep(p) \/ Crash(p)

Spec == Init /\ [][Next]_lockvars

(***************************************************************************)
(* Fairness: Linux goes on scheduling a process that is inside cmlock, and *)
(* a live owner finishes its DMA cycle and calls cmunlk.  Nothing obliges  *)
(* a process to call cmlock, and nothing obliges one to crash.  The choice *)
(* of TryRead is fair in the sense that a batch of attempts is finite: a   *)
(* process whose read keeps failing comes to the end of the batch.         *)
(***************************************************************************)
BatchEnds(p) == TryRead(p) /\ pc'[p] # "try"

Fairness ==
    \A p \in Procs :
        /\ WF_lockvars(CmLockStep(p))
        /\ WF_lockvars(CmUnlkStep(p))
        /\ SF_lockvars(BatchEnds(p))

LiveSpec == Spec /\ Fairness

-----------------------------------------------------------------------------
(***************************************************************************)
(* At most one process is between cmlock and the end of cmunlk.  Two       *)
(* processes recovering the same dead holder at once is the case to fear.  *)
(***************************************************************************)
MutualExclusion == \A p, q \in Procs : Holds(p) /\ Holds(q) => p = q

(***************************************************************************)
(* While a live process holds the lock the cell shows its pid, so the      *)
(* ASSERT of cmunlk cannot fail and nobody's late write frees the lock.    *)
(***************************************************************************)
HolderInCell == \A p \in Procs : Holds(p) => armlock = p

(***************************************************************************)
(* The lock is taken away from a process only once that process is dead:   *)
(* a step that changes a cell holding p's pid is p's own cmunlk or comes   *)
(* after p's death, or p had not yet read its success back and is dead     *)
(* too.                                                                    *)
(***************************************************************************)
OnlyTheDeadAreRobbed ==
    [][\A p \in Procs :
         armlock = p /\ armlock' # p => ~ Alive(p) \/ pc[p] = "unlk"]_lockvars

(***************************************************************************)
(* A process that calls cmlock gets the lock or aborts: the loop ends.     *)
(***************************************************************************)
CmLockReturns ==
    \A p \in Procs : pc[p] = "try" ~> Holds(p) \/ ~ Alive(p)

(***************************************************************************)
(* The pid of a dead process leaves the cell once a process that has not   *)
(* failed a batch yet asks for the lock, unless that one is killed: the    *)
(* first look at the holder cannot be the one that gives up, so a dead     *)
(* owner alone makes nobody abort.                                         *)
(***************************************************************************)
DeadPidCleared ==
    \A d, p \in Procs :
        (~ Alive(d) /\ armlock = d /\ pc[p] = "try" /\ probes[p] = 0)
            ~> (armlock # d \/ pc[p] = "dead")

(***************************************************************************)
(* Refinement: the lock as its users see it.                               *)
(***************************************************************************)
Owner == IF \E p \in Procs : Holds(p) THEN CHOOSE p \in Procs : Holds(p) ELSE NoPid

M == INSTANCE Mutex WITH owner <- Owner, Nobody <- NoPid

MutexSpec == M!Spec
=============================================================================
