------------------------------- MODULE MCRk8je -------------------------------
(***************************************************************************)
(* Rk8je with a memory of two words, so that a block of two wraps around,  *)
(* and the last disk address and the first bad one.                        *)
(***************************************************************************)
EXTENDS Rk8je

Cmd(f, h) == [func |-> f, half |-> h]
MCCommands == {Cmd(2, FALSE), Cmd(4, TRUE), Cmd(6, FALSE)}
MCAbortCommands == {Cmd(1, TRUE), Cmd(5, FALSE)}
MCInitMem == [a \in Addrs |-> IF a = 1 THEN 1 ELSE 0]
MCInitDisk == [b \in Blocks |-> [i \in 1 .. BlockWords |-> 1]]
=============================================================================
