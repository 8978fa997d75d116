---------------------------- MODULE AtomicMemory ----------------------------
(***************************************************************************)
(* What DMA promises: a memory in which a program's cycles read, increment *)
(* or store a word, and in which a pending request takes effect at once.   *)
(***************************************************************************)
CONSTANTS Requests, CpuCells, CpuWords, InitMem, NoRequest,
          Plus1(_),       \* increment of a word
          Effect(_, _)    \* memory after a request, from memory before it

VARIABLES memory, pending, request

Init == memory = InitMem /\ pending = FALSE /\ request = NoRequest

\* A cycle of the running program.
ProgramCycle ==
    /\ \E cell \in CpuCells :
          \/ \E word \in CpuWords : memory' = [memory EXCEPT ![cell] = word]
          \/ memory' = [memory EXCEPT ![cell] = Plus1(@)]
    /\ UNCHANGED <<pending, request>>

Submit ==
    /\ ~ pending
    /\ request' \in Requests
    /\ pending' = TRUE
    /\ UNCHANGED memory

Serve ==
    /\ pending
    /\ memory' = Effect(memory, request)
    /\ pending' = FALSE
    /\ UNCHANGED request

Next == ProgramCycle \/ Submit \/ Serve

Spec == Init /\ [][Next]_<<memory, pending, request>>
=============================================================================
