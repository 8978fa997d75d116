------------------------------- MODULE Mutex --------------------------------
(***************************************************************************)
(* What the CM lock promises its users: at most one running process owns   *)
(* the DMA controller at a time, an owner leaves only by giving the lock   *)
(* up or by dying, and the lock never passes directly from one process to  *)
(* another.                                                                *)
(***************************************************************************)

CONSTANTS Procs,        \* the processes that may ask for the lock
          Nobody        \* the owner while the lock is free

VARIABLE owner

TypeOK == owner \in Procs \cup {Nobody}

Init == owner = Nobody

Acquire(p) == owner = Nobody /\ owner' = p

Leave(p) == owner = p /\ owner' = Nobody

Next == \E p \in Procs : Acquire(p) \/ Leave(p)

Spec == Init /\ [][Next]_owner
=============================================================================
