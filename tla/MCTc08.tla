------------------------------- MODULE MCTc08 -------------------------------
(***************************************************************************)
(* Tc08 with a tape of two blocks of two words, and a memory of three.     *)
(***************************************************************************)
EXTENDS Tc08

Cmd(f, c, r) == [func |-> f, contin |-> c, go |-> TRUE, rev |-> r]
MCCommands ==
    {Cmd(f, FALSE, r) : f \in {Search, WriteData}, r \in BOOLEAN}
      \cup {Cmd(f, TRUE, r) : f \in {Search, ReadData}, r \in BOOLEAN}
      \cup {Cmd(WriteData, TRUE, FALSE), Cmd(ReadAll, FALSE, TRUE), Cmd(ReadData, FALSE, FALSE),
            Cmd(Move, FALSE, FALSE), Cmd(5, FALSE, FALSE), NoCommand}
MCInitMem == [a \in Addrs |-> 1]
MCInitTape == [b \in BlockNos |-> [i \in 1 .. BlockWords |-> IF i = 1 THEN b ELSE 2]]
=============================================================================
