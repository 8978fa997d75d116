----------------------------- MODULE PanelBoards -----------------------------
(***************************************************************************)
(* The pins of the two front panel boards (i2czlib.cc): a pin is a port    *)
(* bit of one of four MCP23017 chips.  A toggle switch has two of them: X  *)
(* is the pin at its collector line, RX the one at its transistor's base.  *)
(***************************************************************************)
EXTENDS Naturals

\* Chip u, connector pin n: 21 .. 28 are port A, 1 .. 8 port B.
P(u, n) == 64 * (u - 1) + (IF n > 20 THEN n - 21 ELSE n + 7)
Chip(pin) == 1 + (pin \div 64)

\* Through-hole parts (FPPCB == 3)
Board3 ==
    [MPRT |-> P(1, 1), RMPRT |-> P(1, 2), DFLD |-> P(1, 3), RIFLD |-> P(1, 4),
     RSR04 |-> P(1, 5), RSR01 |-> P(1, 6), LINK |-> P(1, 7), RSR00 |-> P(1, 8),
     SR01 |-> P(1, 21), RSR02 |-> P(1, 22), SR02 |-> P(1, 23), SR04 |-> P(1, 24),
     RSR03 |-> P(1, 25), SR03 |-> P(1, 26), IFLD |-> P(1, 27), RDFLD |-> P(1, 28),
     RSR10 |-> P(2, 21), RSR09 |-> P(2, 22), SR10 |-> P(2, 23), SR09 |-> P(2, 24),
     SR00 |-> P(2, 25), SR08 |-> P(3, 1), RSR07 |-> P(3, 2), SR06 |-> P(3, 3),
     SR05 |-> P(3, 4), FET |-> P(3, 5), ION |-> P(3, 6), IR01 |-> P(3, 7),
     EXE |-> P(3, 21), PARE |-> P(3, 22), IR00 |-> P(3, 23), RSR05 |-> P(3, 24),
     RSR06 |-> P(3, 26), SR07 |-> P(3, 27), RSR08 |-> P(3, 28), IR02 |-> P(4, 1),
     DEFER |-> P(4, 2), WCT |-> P(4, 3), BNCY |-> P(4, 4), CONT |-> P(4, 5),
     LDAD |-> P(4, 6), EXAM |-> P(4, 7), RSTEP |-> P(4, 8), DEP |-> P(4, 21),
     STEP |-> P(4, 22), START |-> P(4, 23), STOP |-> P(4, 24), SR11 |-> P(4, 25),
     CAD |-> P(4, 26), PRTE |-> P(4, 27), RSR11 |-> P(4, 28)]

\* Surface-mount parts (FPPCB == 4)
Board4 ==
    [SR00 |-> P(1, 1), SR03 |-> P(1, 2), SR02 |-> P(1, 3), SR01 |-> P(1, 4),
     MPRT |-> P(1, 24), IFLD |-> P(1, 25), LINK |-> P(1, 26), SR04 |-> P(1, 27),
     DFLD |-> P(1, 28), RSR04 |-> P(2, 1), RDFLD |-> P(2, 2), RIFLD |-> P(2, 3),
     RMPRT |-> P(2, 4), SR10 |-> P(2, 21), RSR09 |-> P(2, 22), SR09 |-> P(2, 23),
     RSR10 |-> P(2, 24), RSR02 |-> P(2, 25), RSR01 |-> P(2, 26), RSR00 |-> P(2, 27),
     RSR03 |-> P(2, 28), SR06 |-> P(3, 1), EXE |-> P(3, 2), SR08 |-> P(3, 3),
     ION |-> P(3, 4), SR07 |-> P(3, 5), IR01 |-> P(3, 6), SR05 |-> P(3, 7),
     IR00 |-> P(3, 21), RSR05 |-> P(3, 22), PARE |-> P(3, 24), RSR08 |-> P(3, 25),
     RSR06 |-> P(3, 26), FET |-> P(3, 27), RSR07 |-> P(3, 28), LDAD |-> P(4, 1),
     BNCY |-> P(4, 2), CONT |-> P(4, 3), SR11 |-> P(4, 4), STEP |-> P(4, 5),
     EXAM |-> P(4, 6), DEP |-> P(4, 7), RSTEP |-> P(4, 8), STOP |-> P(4, 21),
     IR02 |-> P(4, 22), PRTE |-> P(4, 23), DEFER |-> P(4, 24), CAD |-> P(4, 25),
     START |-> P(4, 26), WCT |-> P(4, 27), RSR11 |-> P(4, 28)]

\* No pin has two uses.
ASSUME PinsDistinct ==
    \A board \in {Board3, Board4} : \A x, y \in DOMAIN board : board[x] = board[y] => x = y
=============================================================================
