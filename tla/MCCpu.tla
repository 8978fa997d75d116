------------------------------- MODULE MCCpu -------------------------------
(***************************************************************************)
(* The processor with two fields of a few words.  Every kind of            *)
(* instruction that the model tells apart is among the programs.           *)
(***************************************************************************)
EXTENDS Cpu

Memory(op, ind, page, off) ==
    [op |-> op, ind |-> ind, page |-> page, off |-> off, io |-> "none", fld |-> 0]
Io(op, io, fld) ==
    [op |-> op, ind |-> FALSE, page |-> FALSE, off |-> 0, io |-> io, fld |-> fld]

\* TAD, ISZ, JMS and JMP, direct and indirect, in both pages; the io
\* instructions, CDF and CIF with both fields, and the operates.
Programs ==
    {Memory(op, ind, page, 1) : op \in {1, 2, 4, 5}, ind \in BOOLEAN, page \in BOOLEAN}
    \cup {Io(6, io, 0) : io \in {"ION", "IOF", "RMF", "other"}}
    \cup {Io(6, io, fld) : io \in {"CDF", "CIF", "CDFCIF"}, fld \in {0, 1}}
    \cup {Io(7, io, 0) : io \in {"G1", "G2", "HLT"}}
=============================================================================
