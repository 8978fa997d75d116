------------------------------- MODULE MCCmDma -------------------------------
(***************************************************************************)
(* CmDma on a small instance: words of two bits, two fields, and requests  *)
(* of both kinds that share the cells of the word count and the current    *)
(* address with each other and with the program.                           *)
(***************************************************************************)
EXTENDS CmDma

MCInitMem == [c \in Cells |-> IF c = <<0, 2>> THEN 3 ELSE IF c = <<0, 3>> THEN 1 ELSE 0]

CountedWrite == [write |-> TRUE, threecyc |-> TRUE, cainc |-> TRUE,
                 field |-> 1, offset |-> 2, data |-> 3]
CountedRead  == [write |-> FALSE, threecyc |-> TRUE, cainc |-> FALSE,
                 field |-> 0, offset |-> 2, data |-> 0]
PlainRead    == [write |-> FALSE, threecyc |-> FALSE, cainc |-> FALSE,
                 field |-> 0, offset |-> 3, data |-> 0]

MCRequests == {CountedWrite, CountedRead, PlainRead}
MCCpuCells == {<<0, 2>>}
MCCpuWords == {0}
=============================================================================
