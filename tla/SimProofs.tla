----------------------------- MODULE SimProofs -----------------------------
(***************************************************************************)
(* The simulator of simlib.cc, that goes through an instruction one major  *)
(* state at a time in a thread of its own, leaves registers and memory as  *)
(* z8lsimtest.cc expects of the whole instruction (SimRight), for any      *)
(* memory, program, switches and keys.                                     *)
(*                                                                         *)
(* Both have the same registers when an instruction ends.  In its middle,  *)
(* what is still to come, done by the test on registers that agree with    *)
(* the simulator's, makes what is expected (Fits).  So each step of the    *)
(* simulator is compared with its part of the test's instruction alone.    *)
(*                                                                         *)
(* Then the assembler and the disassembler (assemble.cc, disassemble.cc):  *)
(* a line of micro operations is what seven slots hold one after the       *)
(* other, in an order that the table of conflicts allows, so that every    *)
(* operation is taken and the bits of all of them are the instruction's.   *)
(***************************************************************************)
EXTENDS SimLib, Assemble, SequenceTheorems, TLAPS

-----------------------------------------------------------------------------
(* Words and their bits: And, Or and the turns are made of them. *)

\* The number of twelve digits, from the left.
TwelveDigits(b) ==
    2048 * b[1] + 1024 * b[2] + 512 * b[3] + 256 * b[4] + 128 * b[5] + 64 * b[6]
    + 32 * b[7] + 16 * b[8] + 8 * b[9] + 4 * b[10] + 2 * b[11] + b[12]

\* The recursion of WordOf, unfolded: twelve bits from the left, and a word.
LEMMA WordOfIs ==
    ASSUME NEW b \in [1 .. 12 -> 0 .. 1]
    PROVE  WordOf(b) = TwelveDigits(b) /\ WordOf(b) \in SimWords
<1> DEFINE F(f) == [n \in 0 .. 12 |-> IF n = 0 THEN 0 ELSE 2 * f[n - 1] + b[n]]
           w == CHOOSE f : f = F(f)
           s1 == b[1]
           s2 == 2 * s1 + b[2]
           s3 == 2 * s2 + b[3]
           s4 == 2 * s3 + b[4]
           s5 == 2 * s4 + b[5]
           s6 == 2 * s5 + b[6]
           s7 == 2 * s6 + b[7]
           s8 == 2 * s7 + b[8]
           s9 == 2 * s8 + b[9]
           s10 == 2 * s9 + b[10]
           s11 == 2 * s10 + b[11]
           s12 == 2 * s11 + b[12]
           v == <<s1, s2, s3, s4, s5, s6, s7, s8, s9, s10, s11, s12>>
           u == [n \in 0 .. 12 |-> IF n = 0 THEN 0 ELSE v[n]]
<1>1. u = F(u)
  <2>1. \A n \in 0 .. 12 : u[n] = IF n = 0 THEN 0 ELSE 2 * u[n - 1] + b[n]
    <3> TAKE n \in 0 .. 12
    <3>1. n \in {0, 1, 2, 3, 4, 5, 6, 7, 8, 9, 10, 11, 12}
      OBVIOUS
    <3> QED BY <3>1
  <2> QED BY <2>1
<1>2. w = F(w)
  BY <1>1
<1>3. w[12] = WordOf(b)
  BY DEF WordOf
<1> HIDE DEF w
<1>4. \A n \in 1 .. 12 : w[n] = 2 * w[n - 1] + b[n]
  BY <1>2
<1>5. w[0] = 0
  BY <1>2
<1> DEFINE c1 == b[1]
           c2 == b[2]
           c3 == b[3]
           c4 == b[4]
           c5 == b[5]
           c6 == b[6]
           c7 == b[7]
           c8 == b[8]
           c9 == b[9]
           c10 == b[10]
           c11 == b[11]
           c12 == b[12]
           w1 == w[1]
           w2 == w[2]
           w3 == w[3]
           w4 == w[4]
           w5 == w[5]
           w6 == w[6]
           w7 == w[7]
           w8 == w[8]
           w9 == w[9]
           w10 == w[10]
           w11 == w[11]
           w12 == w[12]
<1>6a. /\ w1 = 2 * w[0] + c1 /\ w2 = 2 * w1 + c2 /\ w3 = 2 * w2 + c3
  BY <1>4
<1>7a. /\ c1 \in 0 .. 1 /\ c2 \in 0 .. 1 /\ c3 \in 0 .. 1
  OBVIOUS
<1>6b. /\ w4 = 2 * w3 + c4 /\ w5 = 2 * w4 + c5 /\ w6 = 2 * w5 + c6
  BY <1>4
<1>7b. /\ c4 \in 0 .. 1 /\ c5 \in 0 .. 1 /\ c6 \in 0 .. 1
  OBVIOUS
<1>6c. /\ w7 = 2 * w6 + c7 /\ w8 = 2 * w7 + c8 /\ w9 = 2 * w8 + c9
  BY <1>4
<1>7c. /\ c7 \in 0 .. 1 /\ c8 \in 0 .. 1 /\ c9 \in 0 .. 1
  OBVIOUS
<1>6d. /\ w10 = 2 * w9 + c10 /\ w11 = 2 * w10 + c11 /\ w12 = 2 * w11 + c12
  BY <1>4
<1>7d. /\ c10 \in 0 .. 1 /\ c11 \in 0 .. 1 /\ c12 \in 0 .. 1
  OBVIOUS
<1>8. TwelveDigits(b) = 2048 * c1 + 1024 * c2 + 512 * c3 + 256 * c4 + 128 * c5 + 64 * c6
                  + 32 * c7 + 16 * c8 + 8 * c9 + 4 * c10 + 2 * c11 + c12
  BY DEF TwelveDigits
<1>9. w12 = WordOf(b)
  BY <1>3
<1> HIDE DEF c1, c2, c3, c4, c5, c6, c7, c8, c9, c10, c11, c12, w1, w2, w3, w4, w5, w6, w7, w8, w9, w10, w11, w12
<1>10. w3 = 4 * c1 + 2 * c2 + c3 /\ w3 \in 0 .. 7
  BY <1>5, <1>6a, <1>7a
<1>11. w6 = 8 * w3 + 4 * c4 + 2 * c5 + c6 /\ w6 \in 0 .. 63
  <2>1. w3 \in 0 .. 7
    BY <1>10
  <2> QED BY <2>1, <1>6b, <1>7b
<1>12. w9 = 8 * w6 + 4 * c7 + 2 * c8 + c9 /\ w9 \in 0 .. 511
  <2>1. w6 \in 0 .. 63
    BY <1>11
  <2> QED BY <2>1, <1>6c, <1>7c
<1>13. w12 = 8 * w9 + 4 * c10 + 2 * c11 + c12 /\ w12 \in 0 .. 4095
  <2>1. w9 \in 0 .. 511
    BY <1>12
  <2> QED BY <2>1, <1>6d, <1>7d
<1>14. w12 = TwelveDigits(b)
  <2>1. /\ c1 \in Int /\ c2 \in Int /\ c3 \in Int /\ c4 \in Int /\ c5 \in Int /\ c6 \in Int
        /\ c7 \in Int /\ c8 \in Int /\ c9 \in Int /\ c10 \in Int /\ c11 \in Int /\ c12 \in Int
    BY <1>7a, <1>7b, <1>7c, <1>7d
  <2>2. w6 = 32 * c1 + 16 * c2 + 8 * c3 + 4 * c4 + 2 * c5 + c6
    BY <2>1, <1>10, <1>11
  <2>3. w9 = 256 * c1 + 128 * c2 + 64 * c3 + 32 * c4 + 16 * c5 + 8 * c6 + 4 * c7 + 2 * c8 + c9
    BY <2>1, <2>2, <1>12
  <2>4. w12 = 2048 * c1 + 1024 * c2 + 512 * c3 + 256 * c4 + 128 * c5 + 64 * c6
              + 32 * c7 + 16 * c8 + 8 * c9 + 4 * c10 + 2 * c11 + c12
    <3>1. w12 = 8 * w9 + 4 * c10 + 2 * c11 + c12
      BY <1>13
    <3> QED BY <2>1, <2>3, <3>1
  <2> QED BY <1>8, <2>4
<1> QED BY <1>9, <1>13, <1>14 DEF SimWords

\* Each bit is what halving leaves over.
LEMMA WordDigits ==
    ASSUME NEW x \in SimWords
    PROVE  (\A n \in 1 .. 12 : Bit(x, n) \in 0 .. 1) /\ x = TwelveDigits([n \in 1 .. 12 |-> Bit(x, n)])
<1> DEFINE c1 == Bit(x, 1)
           c2 == Bit(x, 2)
           c3 == Bit(x, 3)
           c4 == Bit(x, 4)
           c5 == Bit(x, 5)
           c6 == Bit(x, 6)
           c7 == Bit(x, 7)
           c8 == Bit(x, 8)
           c9 == Bit(x, 9)
           c10 == Bit(x, 10)
           c11 == Bit(x, 11)
           c12 == Bit(x, 12)
           h1 == x \div 2048
           h2 == x \div 1024
           h3 == x \div 512
           h4 == x \div 256
           h5 == x \div 128
           h6 == x \div 64
           h7 == x \div 32
           h8 == x \div 16
           h9 == x \div 8
           h10 == x \div 4
           h11 == x \div 2
           h12 == x
<1>1. c1 = h1 % 2 /\ h1 = 2 * 0 + (h1 % 2) /\ h1 % 2 \in 0 .. 1
  <2>1. 2 ^ (12 - 1) = 2048
    OBVIOUS
  <2>2. c1 = h1 % 2
    BY <2>1 DEF Bit
  <2>3. h1 = 2 * 0 + (h1 % 2)
    BY DEF SimWords
  <2>4. h1 % 2 \in 0 .. 1
    BY DEF SimWords
  <2> QED BY <2>2, <2>3, <2>4
<1>2. c2 = h2 % 2 /\ h2 = 2 * h1 + (h2 % 2) /\ h2 % 2 \in 0 .. 1
  <2>1. 2 ^ (12 - 2) = 1024
    OBVIOUS
  <2>2. c2 = h2 % 2
    BY <2>1 DEF Bit
  <2>3. h2 = 2 * h1 + (h2 % 2)
    BY DEF SimWords
  <2>4. h2 % 2 \in 0 .. 1
    BY DEF SimWords
  <2> QED BY <2>2, <2>3, <2>4
<1>3. c3 = h3 % 2 /\ h3 = 2 * h2 + (h3 % 2) /\ h3 % 2 \in 0 .. 1
  <2>1. 2 ^ (12 - 3) = 512
    OBVIOUS
  <2>2. c3 = h3 % 2
    BY <2>1 DEF Bit
  <2>3. h3 = 2 * h2 + (h3 % 2)
    BY DEF SimWords
  <2>4. h3 % 2 \in 0 .. 1
    BY DEF SimWords
  <2> QED BY <2>2, <2>3, <2>4
<1>4. c4 = h4 % 2 /\ h4 = 2 * h3 + (h4 % 2) /\ h4 % 2 \in 0 .. 1
  <2>1. 2 ^ (12 - 4) = 256
    OBVIOUS
  <2>2. c4 = h4 % 2
    BY <2>1 DEF Bit
  <2>3. h4 = 2 * h3 + (h4 % 2)
    BY DEF SimWords
  <2>4. h4 % 2 \in 0 .. 1
    BY DEF SimWords
  <2> QED BY <2>2, <2>3, <2>4
<1>5. c5 = h5 % 2 /\ h5 = 2 * h4 + (h5 % 2) /\ h5 % 2 \in 0 .. 1
  <2>1. 2 ^ (12 - 5) = 128
    OBVIOUS
  <2>2. c5 = h5 % 2
    BY <2>1 DEF Bit
  <2>3. h5 = 2 * h4 + (h5 % 2)
    BY DEF SimWords
  <2>4. h5 % 2 \in 0 .. 1
    BY DEF SimWords
  <2> QED BY <2>2, <2>3, <2>4
<1>6. c6 = h6 % 2 /\ h6 = 2 * h5 + (h6 % 2) /\ h6 % 2 \in 0 .. 1
  <2>1. 2 ^ (12 - 6) = 64
    OBVIOUS
  <2>2. c6 = h6 % 2
    BY <2>1 DEF Bit
  <2>3. h6 = 2 * h5 + (h6 % 2)
    BY DEF SimWords
  <2>4. h6 % 2 \in 0 .. 1
    BY DEF SimWords
  <2> QED BY <2>2, <2>3, <2>4
<1>7. c7 = h7 % 2 /\ h7 = 2 * h6 + (h7 % 2) /\ h7 % 2 \in 0 .. 1
  <2>1. 2 ^ (12 - 7) = 32
    OBVIOUS
  <2>2. c7 = h7 % 2
    BY <2>1 DEF Bit
  <2>3. h7 = 2 * h6 + (h7 % 2)
    BY DEF SimWords
  <2>4. h7 % 2 \in 0 .. 1
    BY DEF SimWords
  <2> QED BY <2>2, <2>3, <2>4
<1>8. c8 = h8 % 2 /\ h8 = 2 * h7 + (h8 % 2) /\ h8 % 2 \in 0 .. 1
  <2>1. 2 ^ (12 - 8) = 16
    OBVIOUS
  <2>2. c8 = h8 % 2
    BY <2>1 DEF Bit
  <2>3. h8 = 2 * h7 + (h8 % 2)
    BY DEF SimWords
  <2>4. h8 % 2 \in 0 .. 1
    BY DEF SimWords
  <2> QED BY <2>2, <2>3, <2>4
<1>9. c9 = h9 % 2 /\ h9 = 2 * h8 + (h9 % 2) /\ h9 % 2 \in 0 .. 1
  <2>1. 2 ^ (12 - 9) = 8
    OBVIOUS
  <2>2. c9 = h9 % 2
    BY <2>1 DEF Bit
  <2>3. h9 = 2 * h8 + (h9 % 2)
    BY DEF SimWords
  <2>4. h9 % 2 \in 0 .. 1
    BY DEF SimWords
  <2> QED BY <2>2, <2>3, <2>4
<1>10. c10 = h10 % 2 /\ h10 = 2 * h9 + (h10 % 2) /\ h10 % 2 \in 0 .. 1
  <2>1. 2 ^ (12 - 10) = 4
    OBVIOUS
  <2>2. c10 = h10 % 2
    BY <2>1 DEF Bit
  <2>3. h10 = 2 * h9 + (h10 % 2)
    BY DEF SimWords
  <2>4. h10 % 2 \in 0 .. 1
    BY DEF SimWords
  <2> QED BY <2>2, <2>3, <2>4
<1>11. c11 = h11 % 2 /\ h11 = 2 * h10 + (h11 % 2) /\ h11 % 2 \in 0 .. 1
  <2>1. 2 ^ (12 - 11) = 2
    OBVIOUS
  <2>2. c11 = h11 % 2
    BY <2>1 DEF Bit
  <2>3. h11 = 2 * h10 + (h11 % 2)
    BY DEF SimWords
  <2>4. h11 % 2 \in 0 .. 1
    BY DEF SimWords
  <2> QED BY <2>2, <2>3, <2>4
<1>12. c12 = x % 2 /\ h12 = 2 * h11 + (x % 2) /\ x % 2 \in 0 .. 1
  <2>1. 2 ^ (12 - 12) = 1
    OBVIOUS
  <2>2. c12 = x % 2
    BY <2>1 DEF Bit, SimWords
  <2>3. h12 = 2 * h11 + (x % 2)
    BY DEF SimWords
  <2>4. x % 2 \in 0 .. 1
    BY DEF SimWords
  <2> QED BY <2>2, <2>3, <2>4
<1>13. TwelveDigits([n \in 1 .. 12 |-> Bit(x, n)])
          = 2048 * c1 + 1024 * c2 + 512 * c3 + 256 * c4 + 128 * c5 + 64 * c6
            + 32 * c7 + 16 * c8 + 8 * c9 + 4 * c10 + 2 * c11 + c12
  BY DEF TwelveDigits
<1>14. h12 = x
  OBVIOUS
<1> HIDE DEF h1, h2, h3, h4, h5, h6, h7, h8, h9, h10, h11, h12
<1>15. c1 \in 0 .. 1 /\ h1 = 2 * 0 + c1
  BY <1>1
<1>16. c2 \in 0 .. 1 /\ h2 = 2 * h1 + c2
  BY <1>2
<1>17. c3 \in 0 .. 1 /\ h3 = 2 * h2 + c3
  BY <1>3
<1>18. c4 \in 0 .. 1 /\ h4 = 2 * h3 + c4
  BY <1>4
<1>19. c5 \in 0 .. 1 /\ h5 = 2 * h4 + c5
  BY <1>5
<1>20. c6 \in 0 .. 1 /\ h6 = 2 * h5 + c6
  BY <1>6
<1>21. c7 \in 0 .. 1 /\ h7 = 2 * h6 + c7
  BY <1>7
<1>22. c8 \in 0 .. 1 /\ h8 = 2 * h7 + c8
  BY <1>8
<1>23. c9 \in 0 .. 1 /\ h9 = 2 * h8 + c9
  BY <1>9
<1>24. c10 \in 0 .. 1 /\ h10 = 2 * h9 + c10
  BY <1>10
<1>25. c11 \in 0 .. 1 /\ h11 = 2 * h10 + c11
  BY <1>11
<1>26. c12 \in 0 .. 1 /\ h12 = 2 * h11 + c12
  BY <1>12
<1>27. \A n \in 1 .. 12 : Bit(x, n) \in 0 .. 1
  <2> SUFFICES ASSUME NEW n \in 1 .. 12 PROVE Bit(x, n) \in 0 .. 1
    OBVIOUS
  <2>1. n \in {1, 2, 3, 4, 5, 6, 7, 8, 9, 10, 11, 12}
    OBVIOUS
  <2> QED BY Zenon, <2>1, <1>15, <1>16, <1>17, <1>18, <1>19, <1>20, <1>21, <1>22, <1>23, <1>24, <1>25, <1>26
<1> HIDE DEF c1, c2, c3, c4, c5, c6, c7, c8, c9, c10, c11, c12
<1>28. h3 = 4 * c1 + 2 * c2 + c3 /\ h3 \in Int
  BY <1>15, <1>16, <1>17
<1>29. h6 = 8 * h3 + 4 * c4 + 2 * c5 + c6 /\ h6 \in Int
  BY <1>18, <1>19, <1>20, <1>28
<1>30. h9 = 8 * h6 + 4 * c7 + 2 * c8 + c9 /\ h9 \in Int
  BY <1>21, <1>22, <1>23, <1>29
<1>31. h12 = 8 * h9 + 4 * c10 + 2 * c11 + c12 /\ h12 \in Int
  BY <1>24, <1>25, <1>26, <1>30
<1>32. /\ c1 \in Int /\ c2 \in Int /\ c3 \in Int /\ c4 \in Int /\ c5 \in Int /\ c6 \in Int
       /\ c7 \in Int /\ c8 \in Int /\ c9 \in Int /\ c10 \in Int /\ c11 \in Int /\ c12 \in Int
  BY <1>15, <1>16, <1>17, <1>18, <1>19, <1>20, <1>21, <1>22, <1>23, <1>24, <1>25, <1>26
<1>33. h6 = 32 * c1 + 16 * c2 + 8 * c3 + 4 * c4 + 2 * c5 + c6
  BY <1>28, <1>29, <1>32
<1>34. h9 = 256 * c1 + 128 * c2 + 64 * c3 + 32 * c4 + 16 * c5 + 8 * c6 + 4 * c7 + 2 * c8 + c9
  BY <1>30, <1>32, <1>33
<1>35. h12 = 2048 * c1 + 1024 * c2 + 512 * c3 + 256 * c4 + 128 * c5 + 64 * c6
             + 32 * c7 + 16 * c8 + 8 * c9 + 4 * c10 + 2 * c11 + c12
  BY <1>31, <1>32, <1>34
<1> QED BY <1>13, <1>14, <1>27, <1>35

\* AND and OR of two words are words.
LEMMA LogicIs ==
    ASSUME NEW x \in SimWords, NEW y \in SimWords
    PROVE  And(x, y) \in SimWords /\ Or(x, y) \in SimWords
<1>1. [n \in 1 .. 12 |-> Bit(x, n) * Bit(y, n)] \in [1 .. 12 -> 0 .. 1]
  <2> SUFFICES ASSUME NEW n \in 1 .. 12 PROVE Bit(x, n) * Bit(y, n) \in 0 .. 1
    OBVIOUS
  <2>1. Bit(x, n) \in 0 .. 1 /\ Bit(y, n) \in 0 .. 1
    BY WordDigits
  <2>2. (Bit(x, n) = 0 \/ Bit(x, n) = 1) /\ (Bit(y, n) = 0 \/ Bit(y, n) = 1)
    BY <2>1
  <2>3. 0 * 0 = 0 /\ 0 * 1 = 0 /\ 1 * 0 = 0 /\ 1 * 1 = 1 /\ 0 \in 0 .. 1 /\ 1 \in 0 .. 1
    OBVIOUS
  <2> QED BY Zenon, <2>2, <2>3
<1>2. [n \in 1 .. 12 |-> IF Bit(x, n) = 1 THEN 1 ELSE Bit(y, n)] \in [1 .. 12 -> 0 .. 1]
  BY WordDigits
<1> QED BY <1>1, <1>2, WordOfIs DEF And, Or
-----------------------------------------------------------------------------
(* The bits of the link and the accumulator moved around are the shifts of
   simlib.cc, in each of the four rotations. *)

\* A bit by itself
Flag == 0 .. 1

\* The bits of the accumulator after a turn
Turning(r, by) == [n \in 1 .. 12 |-> Bits(r)[(n + by) % 13]]

\* However far it is turned, every place of the accumulator holds a bit.
LEMMA TurnBits ==
    ASSUME NEW r, r.ac \in SimWords, r.link \in Flag, NEW by \in 0 .. 12
    PROVE  /\ Bits(r) \in [0 .. 12 -> 0 .. 1] /\ Bits(r)[0] = r.link /\ r.ac = TwelveDigits(Bits(r))
           /\ \A n \in 1 .. 12 : Turning(r, by)[n] = Bits(r)[(n + by) % 13]
           /\ WordOf(Turning(r, by)) = TwelveDigits(Turning(r, by)) /\ WordOf(Turning(r, by)) \in SimWords
<1>1. \A n \in 1 .. 12 : Bit(r.ac, n) \in 0 .. 1
  BY WordDigits
<1>2. Bits(r) \in [0 .. 12 -> 0 .. 1] /\ Bits(r)[0] = r.link /\ \A n \in 1 .. 12 : Bits(r)[n] = Bit(r.ac, n)
  BY <1>1 DEF Bits, Flag
<1>3. r.ac = TwelveDigits(Bits(r))
  <2> DEFINE b == [n \in 1 .. 12 |-> Bit(r.ac, n)]
  <2>1. \A n \in 1 .. 12 : b[n] = Bits(r)[n]
    BY <1>2
  <2>2. r.ac = TwelveDigits(b)
    BY WordDigits
  <2> HIDE DEF b
  <2>3. TwelveDigits(b) = TwelveDigits(Bits(r))
    BY <2>1 DEF TwelveDigits
  <2> QED BY <2>2, <2>3
<1>4. \A n \in 1 .. 12 : (n + by) % 13 \in 0 .. 12
  OBVIOUS
<1>5. Turning(r, by) \in [1 .. 12 -> 0 .. 1]
  BY <1>2, <1>4 DEF Turning
<1>6. WordOf(Turning(r, by)) = TwelveDigits(Turning(r, by)) /\ WordOf(Turning(r, by)) \in SimWords
  BY <1>5, WordOfIs
<1> QED BY <1>2, <1>3, <1>6 DEF Turning

\* RAL: the bits turn left by 1.
LEMMA TurnRAL ==
    ASSUME NEW r, r.ac \in SimWords, r.link \in Flag
    PROVE  /\ WordOf(Turning(r, 1)) = (2 * r.ac + r.link) % 4096
           /\ WordOf(Turning(r, 1)) \in SimWords
           /\ Bits(r)[1] = ((2 * r.ac + r.link) \div 4096) % 2 /\ Bits(r)[1] \in Flag
<1> DEFINE acc == r.ac
           m == WordOf(Turning(r, 1))
           x0 == Bits(r)[0]
           x1 == Bits(r)[1]
           x2 == Bits(r)[2]
           x3 == Bits(r)[3]
           x4 == Bits(r)[4]
           x5 == Bits(r)[5]
           x6 == Bits(r)[6]
           x7 == Bits(r)[7]
           x8 == Bits(r)[8]
           x9 == Bits(r)[9]
           x10 == Bits(r)[10]
           x11 == Bits(r)[11]
           x12 == Bits(r)[12]
<1>1. /\ x0 \in 0 .. 1 /\ x1 \in 0 .. 1 /\ x2 \in 0 .. 1 /\ x3 \in 0 .. 1 /\ x4 \in 0 .. 1
      /\ x5 \in 0 .. 1 /\ x6 \in 0 .. 1 /\ x7 \in 0 .. 1 /\ x8 \in 0 .. 1
      /\ x9 \in 0 .. 1 /\ x10 \in 0 .. 1 /\ x11 \in 0 .. 1 /\ x12 \in 0 .. 1
  BY TurnBits
<1>2. acc = 2048 * x1 + 1024 * x2 + 512 * x3 + 256 * x4 + 128 * x5 + 64 * x6 +
            32 * x7 + 16 * x8 + 8 * x9 + 4 * x10 + 2 * x11 + x12
  BY TurnBits DEF TwelveDigits
<1>3. m = 2048 * x2 + 1024 * x3 + 512 * x4 + 256 * x5 + 128 * x6 + 64 * x7 +
          32 * x8 + 16 * x9 + 8 * x10 + 4 * x11 + 2 * x12 + x0
  <2>1. /\ (1 + 1) % 13 = 2 /\ (2 + 1) % 13 = 3 /\ (3 + 1) % 13 = 4 /\ (4 + 1) % 13 = 5
        /\ (5 + 1) % 13 = 6 /\ (6 + 1) % 13 = 7 /\ (7 + 1) % 13 = 8 /\ (8 + 1) % 13 = 9
        /\ (9 + 1) % 13 = 10 /\ (10 + 1) % 13 = 11 /\ (11 + 1) % 13 = 12 /\ (12 + 1) % 13 = 0
    OBVIOUS
  <2>2. /\ Turning(r, 1)[1] = x2 /\ Turning(r, 1)[2] = x3 /\ Turning(r, 1)[3] = x4
        /\ Turning(r, 1)[4] = x5 /\ Turning(r, 1)[5] = x6 /\ Turning(r, 1)[6] = x7
        /\ Turning(r, 1)[7] = x8 /\ Turning(r, 1)[8] = x9 /\ Turning(r, 1)[9] = x10
        /\ Turning(r, 1)[10] = x11 /\ Turning(r, 1)[11] = x12 /\ Turning(r, 1)[12] = x0
    BY <2>1, TurnBits
  <2> QED BY <2>2, TurnBits DEF TwelveDigits
<1>4. acc \in 0 .. 4095 /\ m \in 0 .. 4095 /\ x0 = r.link
  <2>1. acc \in SimWords /\ m \in SimWords
    BY TurnBits
  <2>2. x0 = r.link
    BY TurnBits
  <2> HIDE DEF acc, m
  <2> QED BY <2>1, <2>2 DEF SimWords
<1> DEFINE k == 1024 * x2 + 512 * x3 + 256 * x4 + 128 * x5 + 64 * x6 + 32 * x7 +
                16 * x8 + 8 * x9 + 4 * x10 + 2 * x11 + x12
<1> HIDE DEF m, acc, x0, x1, x2, x3, x4, x5, x6, x7, x8, x9, x10, x11, x12
<1>5. k \in Int
  BY <1>1
<1>6. acc = 2048 * x1 + k
  BY <1>1, <1>2
<1>7. m = 2 * k + x0
  BY <1>1, <1>3
<1>8. x0 \in 0 .. 1 /\ x1 \in 0 .. 1
  BY <1>1
<1> HIDE DEF k
<1>9. (2 * acc + x0) % 4096 = m /\ ((2 * acc + x0) \div 4096) % 2 = x1
  <2> DEFINE v == 2 * acc + x0
  <2>1. v = 4096 * x1 + m
    BY <1>4, <1>5, <1>6, <1>7, <1>8
  <2> HIDE DEF v
  <2>2. v % 4096 = m /\ v \div 4096 = x1
    BY <2>1, <1>4, <1>8
  <2>3. x1 % 2 = x1
    BY <1>8
  <2> QED BY <2>2, <2>3 DEF v
<1>10. r.ac = acc /\ r.link = x0
  BY <1>4 DEF acc
<1>11. WordOf(Turning(r, 1)) \in SimWords /\ Bits(r)[1] \in Flag
  BY TurnBits DEF Flag
<1> QED BY <1>9, <1>10, <1>11 DEF m, x1

\* RTL: the bits turn left by 2.
LEMMA TurnRTL ==
    ASSUME NEW r, r.ac \in SimWords, r.link \in Flag
    PROVE  /\ WordOf(Turning(r, 2)) = ((4 * r.ac + 2 * r.link + r.ac \div 2048) % 8192) % 4096
           /\ WordOf(Turning(r, 2)) \in SimWords
           /\ Bits(r)[2] = (((4 * r.ac + 2 * r.link + r.ac \div 2048) % 8192) \div 4096) % 2 /\ Bits(r)[2] \in Flag
<1> DEFINE acc == r.ac
           m == WordOf(Turning(r, 2))
           x0 == Bits(r)[0]
           x1 == Bits(r)[1]
           x2 == Bits(r)[2]
           x3 == Bits(r)[3]
           x4 == Bits(r)[4]
           x5 == Bits(r)[5]
           x6 == Bits(r)[6]
           x7 == Bits(r)[7]
           x8 == Bits(r)[8]
           x9 == Bits(r)[9]
           x10 == Bits(r)[10]
           x11 == Bits(r)[11]
           x12 == Bits(r)[12]
<1>1. /\ x0 \in 0 .. 1 /\ x1 \in 0 .. 1 /\ x2 \in 0 .. 1 /\ x3 \in 0 .. 1 /\ x4 \in 0 .. 1
      /\ x5 \in 0 .. 1 /\ x6 \in 0 .. 1 /\ x7 \in 0 .. 1 /\ x8 \in 0 .. 1
      /\ x9 \in 0 .. 1 /\ x10 \in 0 .. 1 /\ x11 \in 0 .. 1 /\ x12 \in 0 .. 1
  BY TurnBits
<1>2. acc = 2048 * x1 + 1024 * x2 + 512 * x3 + 256 * x4 + 128 * x5 + 64 * x6 +
            32 * x7 + 16 * x8 + 8 * x9 + 4 * x10 + 2 * x11 + x12
  BY TurnBits DEF TwelveDigits
<1>3. m = 2048 * x3 + 1024 * x4 + 512 * x5 + 256 * x6 + 128 * x7 + 64 * x8 +
          32 * x9 + 16 * x10 + 8 * x11 + 4 * x12 + 2 * x0 + x1
  <2>1. /\ (1 + 2) % 13 = 3 /\ (2 + 2) % 13 = 4 /\ (3 + 2) % 13 = 5 /\ (4 + 2) % 13 = 6
        /\ (5 + 2) % 13 = 7 /\ (6 + 2) % 13 = 8 /\ (7 + 2) % 13 = 9 /\ (8 + 2) % 13 = 10
        /\ (9 + 2) % 13 = 11 /\ (10 + 2) % 13 = 12 /\ (11 + 2) % 13 = 0 /\ (12 + 2) % 13 = 1
    OBVIOUS
  <2>2. /\ Turning(r, 2)[1] = x3 /\ Turning(r, 2)[2] = x4 /\ Turning(r, 2)[3] = x5
        /\ Turning(r, 2)[4] = x6 /\ Turning(r, 2)[5] = x7 /\ Turning(r, 2)[6] = x8
        /\ Turning(r, 2)[7] = x9 /\ Turning(r, 2)[8] = x10 /\ Turning(r, 2)[9] = x11
        /\ Turning(r, 2)[10] = x12 /\ Turning(r, 2)[11] = x0 /\ Turning(r, 2)[12] = x1
    BY <2>1, TurnBits
  <2> QED BY <2>2, TurnBits DEF TwelveDigits
<1>4. acc \in 0 .. 4095 /\ m \in 0 .. 4095 /\ x0 = r.link
  <2>1. acc \in SimWords /\ m \in SimWords
    BY TurnBits
  <2>2. x0 = r.link
    BY TurnBits
  <2> HIDE DEF acc, m
  <2> QED BY <2>1, <2>2 DEF SimWords
<1> DEFINE k == 512 * x3 + 256 * x4 + 128 * x5 + 64 * x6 + 32 * x7 + 16 * x8 + 8 * x9 +
                4 * x10 + 2 * x11 + x12
<1> HIDE DEF m, acc, x0, x1, x2, x3, x4, x5, x6, x7, x8, x9, x10, x11, x12
<1>5. k \in Int
  BY <1>1
<1>6. acc = 2048 * x1 + 1024 * x2 + k
  BY <1>1, <1>2
<1>7. m = 4 * k + 2 * x0 + x1
  BY <1>1, <1>3
<1>8. x0 \in 0 .. 1 /\ x1 \in 0 .. 1 /\ x2 \in 0 .. 1
  BY <1>1
<1> HIDE DEF k
<1>9. /\ ((4 * acc + 2 * x0 + acc \div 2048) % 8192) % 4096 = m
      /\ (((4 * acc + 2 * x0 + acc \div 2048) % 8192) \div 4096) % 2 = x2
  <2> DEFINE v == 4 * acc + 2 * x0 + acc \div 2048
             x == 4096 * x2 + m
  <2>0. 0 <= m /\ m <= 4095
    BY <1>4
  <2>7. 0 <= k
    BY <2>0, <1>5, <1>7, <1>8
  <2>8. k <= 1023
    BY <2>0, <1>5, <1>7, <1>8
  <2>1. 0 <= k /\ k <= 1023
    BY <2>7, <2>8
  <2>2. acc \div 2048 = x1
    BY <2>1, <1>5, <1>6, <1>8
  <2>3. v = 8192 * x1 + x
    BY <2>2, <1>4, <1>5, <1>6, <1>7, <1>8
  <2>4. x \in 0 .. 8191 /\ x % 4096 = m /\ x \div 4096 = x2
    BY <1>4, <1>8
  <2> HIDE DEF v, x
  <2>5. v % 8192 = x
    BY <2>3, <2>4, <1>8
  <2>6. x2 % 2 = x2
    BY <1>8
  <2> QED BY <2>4, <2>5, <2>6 DEF v
<1>10. r.ac = acc /\ r.link = x0
  BY <1>4 DEF acc
<1>11. WordOf(Turning(r, 2)) \in SimWords /\ Bits(r)[2] \in Flag
  BY TurnBits DEF Flag
<1> QED BY <1>9, <1>10, <1>11 DEF m, x2

\* RAR: the bits turn left by 12.
LEMMA TurnRAR ==
    ASSUME NEW r, r.ac \in SimWords, r.link \in Flag
    PROVE  /\ WordOf(Turning(r, 12)) = (r.ac \div 2) + 2048 * r.link
           /\ WordOf(Turning(r, 12)) \in SimWords
           /\ Bits(r)[12] = r.ac % 2 /\ Bits(r)[12] \in Flag
<1> DEFINE acc == r.ac
           m == WordOf(Turning(r, 12))
           x0 == Bits(r)[0]
           x1 == Bits(r)[1]
           x2 == Bits(r)[2]
           x3 == Bits(r)[3]
           x4 == Bits(r)[4]
           x5 == Bits(r)[5]
           x6 == Bits(r)[6]
           x7 == Bits(r)[7]
           x8 == Bits(r)[8]
           x9 == Bits(r)[9]
           x10 == Bits(r)[10]
           x11 == Bits(r)[11]
           x12 == Bits(r)[12]
<1>1. /\ x0 \in 0 .. 1 /\ x1 \in 0 .. 1 /\ x2 \in 0 .. 1 /\ x3 \in 0 .. 1 /\ x4 \in 0 .. 1
      /\ x5 \in 0 .. 1 /\ x6 \in 0 .. 1 /\ x7 \in 0 .. 1 /\ x8 \in 0 .. 1
      /\ x9 \in 0 .. 1 /\ x10 \in 0 .. 1 /\ x11 \in 0 .. 1 /\ x12 \in 0 .. 1
  BY TurnBits
<1>2. acc = 2048 * x1 + 1024 * x2 + 512 * x3 + 256 * x4 + 128 * x5 + 64 * x6 +
            32 * x7 + 16 * x8 + 8 * x9 + 4 * x10 + 2 * x11 + x12
  BY TurnBits DEF TwelveDigits
<1>3. m = 2048 * x0 + 1024 * x1 + 512 * x2 + 256 * x3 + 128 * x4 + 64 * x5 +
          32 * x6 + 16 * x7 + 8 * x8 + 4 * x9 + 2 * x10 + x11
  <2>1. /\ (1 + 12) % 13 = 0 /\ (2 + 12) % 13 = 1 /\ (3 + 12) % 13 = 2 /\ (4 + 12) % 13 = 3
        /\ (5 + 12) % 13 = 4 /\ (6 + 12) % 13 = 5 /\ (7 + 12) % 13 = 6 /\ (8 + 12) % 13 = 7
        /\ (9 + 12) % 13 = 8 /\ (10 + 12) % 13 = 9 /\ (11 + 12) % 13 = 10 /\ (12 + 12) % 13 = 11
    OBVIOUS
  <2>2. /\ Turning(r, 12)[1] = x0 /\ Turning(r, 12)[2] = x1 /\ Turning(r, 12)[3] = x2
        /\ Turning(r, 12)[4] = x3 /\ Turning(r, 12)[5] = x4 /\ Turning(r, 12)[6] = x5
        /\ Turning(r, 12)[7] = x6 /\ Turning(r, 12)[8] = x7 /\ Turning(r, 12)[9] = x8
        /\ Turning(r, 12)[10] = x9 /\ Turning(r, 12)[11] = x10 /\ Turning(r, 12)[12] = x11
    BY <2>1, TurnBits
  <2> QED BY <2>2, TurnBits DEF TwelveDigits
<1>4. acc \in 0 .. 4095 /\ m \in 0 .. 4095 /\ x0 = r.link
  <2>1. acc \in SimWords /\ m \in SimWords
    BY TurnBits
  <2>2. x0 = r.link
    BY TurnBits
  <2> HIDE DEF acc, m
  <2> QED BY <2>1, <2>2 DEF SimWords
<1> DEFINE k == 1024 * x1 + 512 * x2 + 256 * x3 + 128 * x4 + 64 * x5 + 32 * x6 +
                16 * x7 + 8 * x8 + 4 * x9 + 2 * x10 + x11
<1> HIDE DEF m, acc, x0, x1, x2, x3, x4, x5, x6, x7, x8, x9, x10, x11, x12
<1>5. k \in Int
  BY <1>1
<1>6. acc = 2 * k + x12
  BY <1>1, <1>2
<1>7. m = 2048 * x0 + k
  BY <1>1, <1>3
<1>8. x0 \in 0 .. 1 /\ x12 \in 0 .. 1
  BY <1>1
<1> HIDE DEF k
<1>9. (acc \div 2) + 2048 * x0 = m /\ acc % 2 = x12
  <2>1. acc \div 2 = k /\ acc % 2 = x12
    BY <1>5, <1>6, <1>8
  <2> QED BY <2>1, <1>5, <1>7, <1>8
<1>10. r.ac = acc /\ r.link = x0
  BY <1>4 DEF acc
<1>11. WordOf(Turning(r, 12)) \in SimWords /\ Bits(r)[12] \in Flag
  BY TurnBits DEF Flag
<1> QED BY <1>9, <1>10, <1>11 DEF m, x12

\* RTR: the bits turn left by 11.
LEMMA TurnRTR ==
    ASSUME NEW r, r.ac \in SimWords, r.link \in Flag
    PROVE  /\ WordOf(Turning(r, 11)) = (r.ac \div 4 + 1024 * r.link + 2048 * (r.ac % 4)) % 4096
           /\ WordOf(Turning(r, 11)) \in SimWords
           /\ Bits(r)[11] = ((r.ac \div 4 + 1024 * r.link + 2048 * (r.ac % 4)) \div 4096) % 2 /\ Bits(r)[11] \in Flag
<1> DEFINE acc == r.ac
           m == WordOf(Turning(r, 11))
           x0 == Bits(r)[0]
           x1 == Bits(r)[1]
           x2 == Bits(r)[2]
           x3 == Bits(r)[3]
           x4 == Bits(r)[4]
           x5 == Bits(r)[5]
           x6 == Bits(r)[6]
           x7 == Bits(r)[7]
           x8 == Bits(r)[8]
           x9 == Bits(r)[9]
           x10 == Bits(r)[10]
           x11 == Bits(r)[11]
           x12 == Bits(r)[12]
<1>1. /\ x0 \in 0 .. 1 /\ x1 \in 0 .. 1 /\ x2 \in 0 .. 1 /\ x3 \in 0 .. 1 /\ x4 \in 0 .. 1
      /\ x5 \in 0 .. 1 /\ x6 \in 0 .. 1 /\ x7 \in 0 .. 1 /\ x8 \in 0 .. 1
      /\ x9 \in 0 .. 1 /\ x10 \in 0 .. 1 /\ x11 \in 0 .. 1 /\ x12 \in 0 .. 1
  BY TurnBits
<1>2. acc = 2048 * x1 + 1024 * x2 + 512 * x3 + 256 * x4 + 128 * x5 + 64 * x6 +
            32 * x7 + 16 * x8 + 8 * x9 + 4 * x10 + 2 * x11 + x12
  BY TurnBits DEF TwelveDigits
<1>3. m = 2048 * x12 + 1024 * x0 + 512 * x1 + 256 * x2 + 128 * x3 + 64 * x4 +
          32 * x5 + 16 * x6 + 8 * x7 + 4 * x8 + 2 * x9 + x10
  <2>1. /\ (1 + 11) % 13 = 12 /\ (2 + 11) % 13 = 0 /\ (3 + 11) % 13 = 1 /\ (4 + 11) % 13 = 2
        /\ (5 + 11) % 13 = 3 /\ (6 + 11) % 13 = 4 /\ (7 + 11) % 13 = 5 /\ (8 + 11) % 13 = 6
        /\ (9 + 11) % 13 = 7 /\ (10 + 11) % 13 = 8 /\ (11 + 11) % 13 = 9 /\ (12 + 11) % 13 = 10
    OBVIOUS
  <2>2. /\ Turning(r, 11)[1] = x12 /\ Turning(r, 11)[2] = x0 /\ Turning(r, 11)[3] = x1
        /\ Turning(r, 11)[4] = x2 /\ Turning(r, 11)[5] = x3 /\ Turning(r, 11)[6] = x4
        /\ Turning(r, 11)[7] = x5 /\ Turning(r, 11)[8] = x6 /\ Turning(r, 11)[9] = x7
        /\ Turning(r, 11)[10] = x8 /\ Turning(r, 11)[11] = x9 /\ Turning(r, 11)[12] = x10
    BY <2>1, TurnBits
  <2> QED BY <2>2, TurnBits DEF TwelveDigits
<1>4. acc \in 0 .. 4095 /\ m \in 0 .. 4095 /\ x0 = r.link
  <2>1. acc \in SimWords /\ m \in SimWords
    BY TurnBits
  <2>2. x0 = r.link
    BY TurnBits
  <2> HIDE DEF acc, m
  <2> QED BY <2>1, <2>2 DEF SimWords
<1> DEFINE k == 512 * x1 + 256 * x2 + 128 * x3 + 64 * x4 + 32 * x5 + 16 * x6 + 8 * x7 +
                4 * x8 + 2 * x9 + x10
<1> HIDE DEF m, acc, x0, x1, x2, x3, x4, x5, x6, x7, x8, x9, x10, x11, x12
<1>5. k \in Int
  BY <1>1
<1>6. acc = 4 * k + 2 * x11 + x12
  BY <1>1, <1>2
<1>7. m = 2048 * x12 + 1024 * x0 + k
  BY <1>1, <1>3
<1>8. x0 \in 0 .. 1 /\ x11 \in 0 .. 1 /\ x12 \in 0 .. 1
  BY <1>1
<1> HIDE DEF k
<1>9. /\ (acc \div 4 + 1024 * x0 + 2048 * (acc % 4)) % 4096 = m
      /\ ((acc \div 4 + 1024 * x0 + 2048 * (acc % 4)) \div 4096) % 2 = x11
  <2> DEFINE v == acc \div 4 + 1024 * x0 + 2048 * (acc % 4)
  <2>1. acc \div 4 = k /\ acc % 4 = 2 * x11 + x12
    BY <1>5, <1>6, <1>8
  <2>2. v = 4096 * x11 + m
    BY <2>1, <1>5, <1>7, <1>8
  <2> HIDE DEF v
  <2>3. v % 4096 = m /\ v \div 4096 = x11
    BY <2>2, <1>4, <1>8
  <2>4. x11 % 2 = x11
    BY <1>8
  <2> QED BY <2>3, <2>4 DEF v
<1>10. r.ac = acc /\ r.link = x0
  BY <1>4 DEF acc
<1>11. WordOf(Turning(r, 11)) \in SimWords /\ Bits(r)[11] \in Flag
  BY TurnBits DEF Flag
<1> QED BY <1>9, <1>10, <1>11 DEF m, x11

-----------------------------------------------------------------------------
(* Registers and memory, and the steps they take alike. *)

\* What memory may hold
Memories == UNION {[c -> SimWords] : c \in SUBSET ((0 .. 7) \X SimWords)}

\* Memories is the set of what IsMemory describes.
LEMMA MemoryIs == ASSUME NEW m PROVE m \in Memories <=> IsMemory(m)
  BY DEF Memories, IsMemory

\* What memory holds is a word, whatever field and address are read.
LEMMA WordIs == ASSUME NEW s, s.mem \in Memories, NEW f, NEW a PROVE Word(s, f, a) \in SimWords
<1>1. s.mem \in [DOMAIN s.mem -> SimWords]
  BY MemoryIs DEF IsMemory
<1>2. 0 \in SimWords
  BY DEF SimWords
<1>3. <<f, a>> \in DOMAIN s.mem => s.mem[<<f, a>>] \in SimWords
  BY <1>1
<1> QED BY SimAssumption, <1>2, <1>3 DEF Word

\* A memory stays one when a word is stored, in any field.
LEMMA StoredIs ==
    ASSUME NEW m \in Memories, NEW f \in 0 .. 7, NEW a \in SimWords, NEW w \in SimWords
    PROVE  Stored(m, f, a, w) \in Memories
<1>1. DOMAIN m \subseteq (0 .. 7) \X SimWords /\ m \in [DOMAIN m -> SimWords]
  BY MemoryIs DEF IsMemory
<1>2. IsMemory([x \in DOMAIN m \cup {<<f, a>>} |-> IF x = <<f, a>> THEN w ELSE m[x]])
  BY <1>1 DEF IsMemory
<1>3. CASE f >= MemFields
  BY <1>3 DEF Stored
<1>4. CASE ~ (f >= MemFields)
  BY <1>2, <1>4, MemoryIs DEF Stored
<1> QED BY <1>3, <1>4

\* Addresses, increments and field numbers stay in range.
LEMMA AddressIs ==
    ASSUME NEW i \in SimWords, NEW a \in SimWords
    PROVE  Direct(i, a) \in SimWords /\ Inc(a) \in SimWords /\ Field3(i) \in 0 .. 7
<1>1. 128 * (a \div 128) + (i % 128) \in 0 .. 4095
  BY DEF SimWords
<1>4. 0 + (i % 128) \in 0 .. 4095
  BY DEF SimWords
<1>2. Inc(a) \in SimWords
  BY DEF Inc, SimWords
<1>3. Field3(i) \in 0 .. 7
  BY DEF Field3, SimWords
<1> QED BY <1>1, <1>2, <1>3, <1>4 DEF Direct, SimWords

-----------------------------------------------------------------------------
\* The simulator's registers, and those the test has
States == {"NUL", "FET", "DEF", "EXE"}
Regs ==
    [state : States, ac : SimWords, link : Flag, ir : 0 .. 7, ma : SimWords, mb : SimWords,
     ea : 0 .. 7, pc : SimWords, ion : BOOLEAN, idelay : BOOLEAN, inh : BOOLEAN,
     dfld : 0 .. 7, ifld : 0 .. 7, ifaj : 0 .. 7, sdf : 0 .. 7, sif : 0 .. 7,
     mem : Memories, kbflag : BOOLEAN, kbchar : SimWords, prflag : BOOLEAN,
     prfull : BOOLEAN, inten : BOOLEAN, intrq : BOOLEAN]

TestRegs ==
    [ac : SimWords, link : Flag, pc : SimWords, ion : BOOLEAN, idelay : BOOLEAN, inh : BOOLEAN,
     dfld : 0 .. 7, ifld : 0 .. 7, ifaj : 0 .. 7, sdf : 0 .. 7, sif : 0 .. 7, mem : Memories]

\* s has the registers r, whatever else s has.
Agree(s, r) ==
    /\ s.ac = r.ac /\ s.link = r.link /\ s.pc = r.pc /\ s.ion = r.ion /\ s.idelay = r.idelay
    /\ s.inh = r.inh /\ s.dfld = r.dfld /\ s.ifld = r.ifld /\ s.ifaj = r.ifaj
    /\ s.sdf = r.sdf /\ s.sif = r.sif /\ s.mem = r.mem

\* Two sets of registers that agree are the same.
LEMMA SameRegs == ASSUME NEW x \in TestRegs, NEW y \in TestRegs, Agree(x, y) PROVE x = y
  BY DEF Agree, TestRegs

\* The registers that z8lsimtest.cc looks at, out of all of the simulator's.
LEMMA RegistersAre == ASSUME NEW s \in Regs PROVE Registers(s) \in TestRegs /\ Agree(s, Registers(s))
<1>1. Registers(s) \in TestRegs
  BY DEF Registers, TestRegs, Regs
<1>2. Agree(s, Registers(s))
  BY DEF Agree, Registers
<1> QED BY <1>1, <1>2

\* To agree is to have these registers.
LEMMA Agreed == ASSUME NEW s \in Regs, NEW r \in TestRegs PROVE Agree(s, r) <=> Registers(s) = r
<1>1. Agree(s, r) => Agree(Registers(s), r)
  BY DEF Agree, Registers
<1> QED BY <1>1, RegistersAre, SameRegs

\* An interrupt: the save fields, the fields, and the program counter into location 0.
LEMMA InterruptedRight ==
    ASSUME NEW s \in Regs, NEW r \in TestRegs, Agree(s, r), ~ s.inh
    PROVE  /\ Interrupted(s) \in Regs /\ Interrupted(s).state = "EXE"
           /\ TestInterrupt(r) \in TestRegs /\ Agree(Interrupted(s), TestInterrupt(r))
<1>0. 0 \in SimWords /\ 1 \in SimWords /\ 0 \in 0 .. 7 /\ s.pc \in SimWords /\ s.mem \in Memories
  BY DEF SimWords, Regs
<1>1. Stored(s.mem, 0, 0, s.pc) \in Memories
  BY <1>0, StoredIs
<1>2. Interrupted(s) \in Regs /\ Interrupted(s).state = "EXE"
  BY <1>0, <1>1 DEF Interrupted, writemem, Regs, States
<1>3. Inc(0) = 1
  BY DEF Inc
<1>4. Stored(r.mem, 0, 0, r.pc) \in Memories
  BY <1>1 DEF Agree
<1>5. TestInterrupt(r) \in TestRegs
  BY <1>0, <1>3, <1>4 DEF TestInterrupt, TestJms, TestRegs
<1>6. Agree(Interrupted(s), TestInterrupt(r))
  <2> DEFINE x == Interrupted(s)
             t == TestInterrupt(r)
  <2>1. /\ x.ac = s.ac /\ x.link = s.link /\ x.pc = 1 /\ x.dfld = 0 /\ x.ifld = 0 /\ x.ifaj = 0
        /\ x.sdf = s.dfld /\ x.sif = s.ifld /\ x.mem = Stored(s.mem, 0, 0, s.pc)
    BY DEF Interrupted, writemem, Regs
  <2>2. x.ion = FALSE /\ x.idelay = FALSE /\ x.inh = s.inh
    BY DEF Interrupted, writemem, Regs
  <2>3. /\ t.ac = r.ac /\ t.link = r.link /\ t.pc = 1 /\ t.dfld = 0 /\ t.ifld = 0 /\ t.ifaj = 0
        /\ t.sdf = r.dfld /\ t.sif = r.ifld /\ t.mem = Stored(r.mem, 0, 0, r.pc)
    BY <1>3 DEF TestInterrupt, TestJms, TestRegs
  <2>4. t.ion = FALSE /\ t.idelay = FALSE /\ t.inh = FALSE
    BY DEF TestInterrupt, TestJms, TestRegs
  <2>5. s.inh = FALSE
    BY DEF Regs
  <2> HIDE DEF x, t
  <2>6. Agree(x, t)
    BY <2>1, <2>2, <2>3, <2>4, <2>5 DEF Agree
  <2> QED BY <2>6 DEF x, t
<1> QED BY <1>2, <1>5, <1>6

-----------------------------------------------------------------------------

\* A skip
LEMMA SkipRight ==
    ASSUME NEW s \in Regs, NEW r \in TestRegs, Agree(s, r), NEW b \in BOOLEAN
    PROVE  /\ Skip(s, b) \in Regs /\ Skip(r, b) \in TestRegs /\ Agree(Skip(s, b), Skip(r, b))
           /\ Skip(s, b).state = s.state /\ Skip(s, b).ma = s.ma /\ Skip(s, b).mb = s.mb /\ Skip(s, b).ir = s.ir
<1>1. Inc(s.pc) \in SimWords /\ s.pc = r.pc
  BY AddressIs DEF Agree, Regs
<1>2. CASE b
  <2>1. Skip(s, b) = [s EXCEPT !.pc = Inc(s.pc)] /\ Skip(r, b) = [r EXCEPT !.pc = Inc(s.pc)]
    BY <1>1, <1>2 DEF Skip
  <2>2. [s EXCEPT !.pc = Inc(s.pc)] \in Regs /\ [r EXCEPT !.pc = Inc(s.pc)] \in TestRegs
    BY <1>1 DEF Regs, TestRegs
  <2>3. Agree([s EXCEPT !.pc = Inc(s.pc)], [r EXCEPT !.pc = Inc(s.pc)])
    BY DEF Agree, Regs, TestRegs
  <2>4. LET x == [s EXCEPT !.pc = Inc(s.pc)]
        IN  x.state = s.state /\ x.ma = s.ma /\ x.mb = s.mb /\ x.ir = s.ir
    BY DEF Regs
  <2> QED BY <2>1, <2>2, <2>3, <2>4
<1>3. CASE ~ b
  BY <1>3 DEF Skip
<1> QED BY <1>2, <1>3

\* What fetch and the other states go by, besides the registers
Kept(x, s) == x.state = s.state /\ x.ir = s.ir /\ x.ma = s.ma /\ x.mb = s.mb

\* A new link and accumulator
WithAcc(s, c, v) == [s EXCEPT !.link = c, !.ac = v]
AccWith(s, c, v) == [s EXCEPT !.ac = v, !.link = c]

\* A new link and accumulator for both, in either order
LEMMA SetRight ==
    ASSUME NEW s \in Regs, NEW r \in TestRegs, Agree(s, r), NEW c \in Flag, NEW v \in SimWords
    PROVE  /\ WithAcc(s, c, v) \in Regs /\ WithAcc(r, c, v) \in TestRegs
           /\ Agree(WithAcc(s, c, v), WithAcc(r, c, v)) /\ Kept(WithAcc(s, c, v), s)
           /\ WithAcc(s, c, v).ac = v /\ WithAcc(s, c, v).link = c /\ WithAcc(s, c, v).pc = s.pc
           /\ WithAcc(r, c, v).ac = v /\ WithAcc(r, c, v).link = c
           /\ WithAcc(s, c, v) = AccWith(s, c, v) /\ WithAcc(r, c, v) = AccWith(r, c, v)
<1> DEFINE x == WithAcc(s, c, v)
           t == WithAcc(r, c, v)
<1> USE DEF WithAcc, AccWith
<1>1. x \in Regs /\ Kept(x, s) /\ x.ac = v /\ x.link = c /\ x.pc = s.pc
  BY DEF Regs, Kept
<1>2. t \in TestRegs /\ t.ac = v /\ t.link = c
  BY DEF TestRegs
<1>3. Agree(x, t)
  <2>1. /\ x.ac = v /\ x.link = c /\ x.pc = s.pc /\ x.ion = s.ion /\ x.idelay = s.idelay
        /\ x.inh = s.inh /\ x.dfld = s.dfld /\ x.ifld = s.ifld /\ x.ifaj = s.ifaj
        /\ x.sdf = s.sdf /\ x.sif = s.sif /\ x.mem = s.mem
    BY DEF Regs
  <2>2. /\ t.ac = v /\ t.link = c /\ t.pc = r.pc /\ t.ion = r.ion /\ t.idelay = r.idelay
        /\ t.inh = r.inh /\ t.dfld = r.dfld /\ t.ifld = r.ifld /\ t.ifaj = r.ifaj
        /\ t.sdf = r.sdf /\ t.sif = r.sif /\ t.mem = r.mem
    BY DEF TestRegs
  <2> QED BY <2>1, <2>2 DEF Agree
<1>4. x = [s EXCEPT !.ac = v, !.link = c]
  BY DEF Regs
<1>5. t = [r EXCEPT !.ac = v, !.link = c]
  BY DEF TestRegs
<1> QED BY <1>1, <1>2, <1>3, <1>4, <1>5

\* The 13 bits of a sum, in either order of adding
LEMMA SumIs ==
    ASSUME NEW p \in SimWords, NEW q \in Flag, NEW w \in SimWords
    PROVE  /\ 4096 * q + p + w = p + 4096 * q + w
           /\ ((4096 * q + p + w) \div 4096) % 2 \in Flag /\ (4096 * q + p + w) % 4096 \in SimWords
<1>1. p \in 0 .. 4095 /\ q \in 0 .. 1 /\ w \in 0 .. 4095
  BY DEF SimWords, Flag
<1>2. 4096 * q + p + w = p + 4096 * q + w
  BY <1>1
<1> DEFINE u == 4096 * q + p + w
<1>3. u \in 0 .. 16383
  BY <1>1
<1> HIDE DEF u
<1>4. u \div 4096 \in 0 .. 3
  BY <1>3
<1>5. (u \div 4096) % 2 \in 0 .. 1
  BY <1>4
<1>6. u % 4096 \in 0 .. 4095
  BY <1>3
<1> QED BY <1>2, <1>5, <1>6 DEF u, SimWords, Flag

\* TAD as the test adds
TestAdd(r, w) ==
    LET sum == r.ac + 4096 * r.link + w
    IN  [r EXCEPT !.ac = sum % 4096, !.link = (sum \div 4096) % 2]

\* TAD
LEMMA AddRight ==
    ASSUME NEW s \in Regs, NEW r \in TestRegs, Agree(s, r), NEW w \in SimWords
    PROVE  /\ WithLAC(s, LAC(s) + w) \in Regs /\ TestAdd(r, w) \in TestRegs
           /\ Agree(WithLAC(s, LAC(s) + w), TestAdd(r, w)) /\ Kept(WithLAC(s, LAC(s) + w), s)
<1> DEFINE acc == s.ac
           lnk == s.link
<1>1. acc \in SimWords /\ lnk \in Flag /\ r.ac = acc /\ r.link = lnk
  BY DEF Agree, Regs
<1>2. LAC(s) + w = 4096 * lnk + acc + w
  BY DEF LAC
<1>3. TestAdd(r, w) = LET sum == acc + 4096 * lnk + w IN [r EXCEPT !.ac = sum % 4096, !.link = (sum \div 4096) % 2]
  BY <1>1 DEF TestAdd
<1> HIDE DEF acc, lnk
<1> DEFINE total == 4096 * lnk + acc + w
           carry == (total \div 4096) % 2
           low == total % 4096
<1>4. total = acc + 4096 * lnk + w /\ carry \in Flag /\ low \in SimWords
  <2>1. 4096 * lnk + acc + w = acc + 4096 * lnk + w
    BY <1>1, SumIs
  <2>2. ((4096 * lnk + acc + w) \div 4096) % 2 \in Flag
    BY <1>1, SumIs
  <2>3. (4096 * lnk + acc + w) % 4096 \in SimWords
    BY <1>1, SumIs
  <2> QED BY <2>1, <2>2, <2>3
<1> HIDE DEF total
<1>5. TestAdd(r, w) = AccWith(r, carry, low)
  BY <1>3, <1>4 DEF AccWith
<1>6. WithLAC(s, LAC(s) + w) = WithAcc(s, carry, low)
  <2>1. LAC(s) + w = total
    BY <1>2 DEF total
  <2>2. WithLAC(s, total) = WithAcc(s, carry, low)
    BY DEF WithLAC, WithAcc, Regs
  <2> QED BY <2>1, <2>2
<1> HIDE DEF carry, low
<1>8. carry \in Flag /\ low \in SimWords
  BY <1>4
<1>7. /\ WithAcc(s, carry, low) \in Regs /\ WithAcc(r, carry, low) \in TestRegs
      /\ Agree(WithAcc(s, carry, low), WithAcc(r, carry, low)) /\ Kept(WithAcc(s, carry, low), s)
      /\ WithAcc(r, carry, low) = AccWith(r, carry, low)
  BY <1>8, SetRight
<1> QED BY <1>5, <1>6, <1>7

\* A memory reference in any field but the jump of JMS: and, tad, isz, dca.
LEMMA MemRefRight ==
    ASSUME NEW s \in Regs, NEW r \in TestRegs, Agree(s, r), s.ir \in 0 .. 3,
           NEW f \in 0 .. 7, NEW a \in SimWords, NEW x, x = [s EXCEPT !.ea = f, !.ma = a]
    PROVE  /\ domemref(x) \in Regs /\ domemref(x).state = "EXE"
           /\ TestMemRef(r, s.ir, f, a) \in TestRegs /\ Agree(domemref(x), TestMemRef(r, s.ir, f, a))
<1> DEFINE w == Word(s, f, a)
           y == readmem([x EXCEPT !.state = "EXE"], f, a)
<1>1. x \in Regs /\ x.ea = f /\ x.ma = a /\ x.ir = s.ir /\ x.mem = s.mem /\ x.ac = s.ac
  BY DEF Regs
<1>2. w \in SimWords /\ Inc(w) \in SimWords
  <2>1. w \in SimWords
    BY WordIs DEF Regs
  <2> QED BY <2>1, AddressIs
<1>3. Word(r, f, a) = w /\ Word(x, f, a) = w
  BY <1>1 DEF Word, Agree
<1>4. Word([x EXCEPT !.state = "EXE"], f, a) = w
  BY <1>1 DEF Word, Regs
<1> HIDE DEF w
<1>5. /\ y \in Regs /\ y.state = "EXE" /\ y.mb = w /\ y.ea = f /\ y.ma = a /\ Agree(y, r)
      /\ y.ac = s.ac /\ y.link = s.link /\ y.pc = s.pc /\ y.mem = s.mem
  <2>1. y \in Regs
    <3> DEFINE z == [x EXCEPT !.state = "EXE"]
    <3>1. z \in Regs
      BY <1>1 DEF Regs, States
    <3>2. Word(z, f, a) = w
      BY <1>4
    <3> HIDE DEF z
    <3>3. readmem(z, f, a) \in Regs
      BY <1>2, <3>1, <3>2 DEF readmem, Regs
    <3> QED BY <3>3 DEF z
  <2>2. y.state = "EXE" /\ y.mb = w /\ y.ea = f /\ y.ma = a
    BY <1>1, <1>4 DEF readmem, Regs
  <2>3. /\ y.ac = s.ac /\ y.link = s.link /\ y.pc = s.pc /\ y.ion = s.ion /\ y.idelay = s.idelay
        /\ y.inh = s.inh /\ y.dfld = s.dfld /\ y.ifld = s.ifld /\ y.ifaj = s.ifaj
        /\ y.sdf = s.sdf /\ y.sif = s.sif /\ y.mem = s.mem
    BY <1>1 DEF readmem, Regs
  <2> HIDE DEF y
  <2>4. Agree(y, r)
    BY <2>3 DEF Agree
  <2> QED BY <2>1, <2>2, <2>3, <2>4
<1>6. /\ s.ir = 0 => domemref(x) = [y EXCEPT !.ac = And(@, w)]
      /\ s.ir = 1 => domemref(x) = WithLAC(y, LAC(y) + w)
      /\ s.ir = 2 => domemref(x) = Skip(writemem(y, f, a, Inc(w)), Inc(w) = 0)
      /\ s.ir = 3 => domemref(x) = [writemem(y, f, a, s.ac) EXCEPT !.ac = 0]
  BY <1>1, <1>5 DEF domemref
<1> HIDE DEF y
<1> DEFINE d == domemref(x)
           t == TestMemRef(r, s.ir, f, a)
<1>7. CASE s.ir = 0
  <2>1. d = [y EXCEPT !.ac = And(y.ac, w)] /\ t = [r EXCEPT !.ac = And(r.ac, w)]
    BY <1>3, <1>6, <1>7 DEF TestMemRef
  <2>2. And(y.ac, w) \in SimWords /\ And(y.ac, w) = And(r.ac, w)
    BY <1>2, <1>5, LogicIs DEF Regs, Agree
  <2> HIDE DEF d, t
  <2>3. d \in Regs /\ d.state = "EXE"
    BY <1>5, <2>1, <2>2 DEF Regs
  <2>4. t \in TestRegs
    BY <2>1, <2>2 DEF TestRegs
  <2>5. Agree(d, t)
    BY <1>5, <2>1, <2>2 DEF Agree, Regs, TestRegs
  <2> QED BY <2>3, <2>4, <2>5 DEF d, t
<1>8. CASE s.ir = 1
  <2>1. d = WithLAC(y, LAC(y) + w)
    BY <1>6, <1>8
  <2>2. t = TestAdd(r, w)
    BY <1>3, <1>8 DEF TestMemRef, TestAdd
  <2> HIDE DEF d, t
  <2>3. d \in Regs /\ t \in TestRegs /\ Agree(d, t) /\ Kept(d, y)
    BY <1>2, <1>5, <2>1, <2>2, AddRight
  <2> QED BY <1>5, <2>3 DEF d, t, Kept
<1>9. CASE s.ir = 2
  <2> DEFINE m == Stored(y.mem, f, a, Inc(w))
             z == writemem(y, f, a, Inc(w))
             q == [r EXCEPT !.mem = m]
  <2>1. m \in Memories
    BY <1>2, <1>5, StoredIs DEF Regs
  <2>2. d = Skip(z, Inc(w) = 0) /\ t = Skip(q, Inc(w) = 0)
    BY <1>3, <1>5, <1>6, <1>9 DEF TestMemRef, Agree
  <2>3. z \in Regs /\ z.state = "EXE" /\ z.mem = m /\ z.pc = y.pc
    BY <1>2, <1>5, <2>1 DEF writemem, Regs
  <2>4. q \in TestRegs
    BY <2>1 DEF TestRegs
  <2>5. Agree(z, q)
    BY <1>5 DEF Agree, writemem, Regs, TestRegs
  <2> HIDE DEF d, t, z, q, m
  <2>6. Skip(z, Inc(w) = 0) \in Regs /\ Skip(z, Inc(w) = 0).state = "EXE"
        /\ Skip(q, Inc(w) = 0) \in TestRegs /\ Agree(Skip(z, Inc(w) = 0), Skip(q, Inc(w) = 0))
    BY <2>3, <2>4, <2>5, SkipRight
  <2> QED BY <2>2, <2>6 DEF d, t
<1>10. CASE s.ir = 3
  <2> DEFINE m == Stored(y.mem, f, a, y.ac)
             z == writemem(y, f, a, y.ac)
  <2>1. m \in Memories
    BY <1>5, StoredIs DEF Regs
  <2>2. d = [z EXCEPT !.ac = 0] /\ t = [r EXCEPT !.mem = m, !.ac = 0]
    <3>1. [[r EXCEPT !.mem = m] EXCEPT !.ac = 0] = [r EXCEPT !.mem = m, !.ac = 0]
      OBVIOUS
    <3> QED BY <1>3, <1>5, <1>6, <1>10, <3>1 DEF TestMemRef, Agree
  <2>3. z \in Regs /\ z.state = "EXE"
    BY <1>5, <2>1 DEF writemem, Regs
  <2>4. 0 \in SimWords
    BY DEF SimWords
  <2>5. Agree([z EXCEPT !.ac = 0], [r EXCEPT !.mem = m, !.ac = 0])
    <3>1. /\ z.link = y.link /\ z.pc = y.pc /\ z.ion = y.ion /\ z.idelay = y.idelay
          /\ z.inh = y.inh /\ z.dfld = y.dfld /\ z.ifld = y.ifld /\ z.ifaj = y.ifaj
          /\ z.sdf = y.sdf /\ z.sif = y.sif /\ z.mem = m
      BY <1>5 DEF writemem, Regs
    <3> HIDE DEF z, m, d, t
    <3> DEFINE g == [z EXCEPT !.ac = 0]
               h == [r EXCEPT !.mem = m, !.ac = 0]
    <3>2. /\ g.ac = 0 /\ g.link = z.link /\ g.pc = z.pc /\ g.ion = z.ion /\ g.idelay = z.idelay
          /\ g.inh = z.inh /\ g.dfld = z.dfld /\ g.ifld = z.ifld /\ g.ifaj = z.ifaj
          /\ g.sdf = z.sdf /\ g.sif = z.sif /\ g.mem = z.mem
      BY <2>3 DEF Regs
    <3>3. /\ h.ac = 0 /\ h.link = r.link /\ h.pc = r.pc /\ h.ion = r.ion /\ h.idelay = r.idelay
          /\ h.inh = r.inh /\ h.dfld = r.dfld /\ h.ifld = r.ifld /\ h.ifaj = r.ifaj
          /\ h.sdf = r.sdf /\ h.sif = r.sif /\ h.mem = m
      BY DEF TestRegs
    <3> HIDE DEF g, h
    <3>4. Agree(g, h)
      BY <1>5, <3>1, <3>2, <3>3 DEF Agree
    <3> QED BY <3>4 DEF g, h
  <2> HIDE DEF z, m, d, t
  <2>6. d \in Regs /\ d.state = "EXE"
    BY <2>2, <2>3, <2>4 DEF Regs
  <2>7. t \in TestRegs
    BY <2>1, <2>2, <2>4 DEF TestRegs
  <2> QED BY <2>2, <2>5, <2>6, <2>7 DEF d, t
<1> QED BY <1>7, <1>8, <1>9, <1>10
-----------------------------------------------------------------------------
(* Operate instructions keep the two sets of registers in step. *)

\* x and t come from s and its registers, and stay in step.
Alike(x, t, s) == x \in Regs /\ t \in TestRegs /\ Agree(x, t) /\ Kept(x, s)

\* SetRight, in these terms
LEMMA SetAlike ==
    ASSUME NEW s \in Regs, NEW r \in TestRegs, Agree(s, r), NEW c \in Flag, NEW v \in SimWords
    PROVE  /\ Alike(WithAcc(s, c, v), WithAcc(r, c, v), s)
           /\ Alike(AccWith(s, c, v), AccWith(r, c, v), s)
  BY SetRight DEF Alike

\* Link and accumulator are the same on both sides.
LEMMA AccIs ==
    ASSUME NEW s \in Regs, NEW r \in TestRegs, Agree(s, r)
    PROVE  s.ac \in SimWords /\ s.link \in Flag /\ r.ac \in SimWords /\ r.link \in Flag /\ r.ac = s.ac /\ r.link = s.link
  BY DEF Agree, Regs

\* Turned sets the link and the accumulator to the bits after the turn.
LEMMA TurnedIs ==
    ASSUME NEW r, NEW by
    PROVE  Turned(r, by) = WithAcc(r, Bits(r)[by], WordOf(Turning(r, by)))
  BY DEF Turned, Turning, WithAcc

\* Rotating left and right, by one and two: the shift makes the same of the
\* link and accumulator as the bits moved around.
LEMMA RALAlike ==
    ASSUME NEW s \in Regs, NEW r \in TestRegs, Agree(s, r)
    PROVE  Alike(Rotated(s, 2), Turned(r, 1), s)
<1> DEFINE acc == s.ac
           lnk == s.link
           carry == ((2 * acc + lnk) \div 4096) % 2
           low == (2 * acc + lnk) % 4096
<1>1. /\ r.ac = acc /\ r.link = lnk /\ r.ac \in SimWords /\ r.link \in Flag
      /\ Rotated(s, 2) = WithAcc(s, carry, low)
  <2>1. r.ac = acc /\ r.link = lnk /\ r.ac \in SimWords /\ r.link \in Flag
    BY AccIs
  <2>2. Rotated(s, 2) = WithAcc(s, carry, low)
    BY DEF Rotated, WithLAC, WithAcc
  <2> QED BY <2>1, <2>2
<1> HIDE DEF acc, lnk
<1>2. WordOf(Turning(r, 1)) = low /\ Bits(r)[1] = carry
  BY <1>1, TurnRAL
<1>3. WordOf(Turning(r, 1)) \in SimWords /\ Bits(r)[1] \in Flag
  BY <1>1, TurnRAL
<1> HIDE DEF carry, low
<1>4. low \in SimWords /\ carry \in Flag /\ Turned(r, 1) = WithAcc(r, carry, low)
  BY <1>2, <1>3, TurnedIs
<1> QED BY <1>1, <1>4, SetAlike

LEMMA RTLAlike ==
    ASSUME NEW s \in Regs, NEW r \in TestRegs, Agree(s, r)
    PROVE  Alike(Rotated(s, 3), Turned(r, 2), s)
<1> DEFINE acc == s.ac
           lnk == s.link
           carry == (((4 * acc + 2 * lnk + acc \div 2048) % 8192) \div 4096) % 2
           low == ((4 * acc + 2 * lnk + acc \div 2048) % 8192) % 4096
<1>1. /\ r.ac = acc /\ r.link = lnk /\ r.ac \in SimWords /\ r.link \in Flag
      /\ Rotated(s, 3) = WithAcc(s, carry, low)
  <2>1. r.ac = acc /\ r.link = lnk /\ r.ac \in SimWords /\ r.link \in Flag
    BY AccIs
  <2>2. Rotated(s, 3) = WithAcc(s, carry, low)
    BY DEF Rotated, WithLAC, WithAcc
  <2> QED BY <2>1, <2>2
<1> HIDE DEF acc, lnk
<1>2. WordOf(Turning(r, 2)) = low /\ Bits(r)[2] = carry
  BY <1>1, TurnRTL
<1>3. WordOf(Turning(r, 2)) \in SimWords /\ Bits(r)[2] \in Flag
  BY <1>1, TurnRTL
<1> HIDE DEF carry, low
<1>4. low \in SimWords /\ carry \in Flag /\ Turned(r, 2) = WithAcc(r, carry, low)
  BY <1>2, <1>3, TurnedIs
<1> QED BY <1>1, <1>4, SetAlike

LEMMA RARAlike ==
    ASSUME NEW s \in Regs, NEW r \in TestRegs, Agree(s, r)
    PROVE  Alike(Rotated(s, 4), Turned(r, 12), s)
<1> DEFINE acc == s.ac
           lnk == s.link
           carry == acc % 2
           low == (acc \div 2) + 2048 * lnk
<1>1. /\ r.ac = acc /\ r.link = lnk /\ r.ac \in SimWords /\ r.link \in Flag
      /\ Rotated(s, 4) = AccWith(s, carry, low)
  <2>1. r.ac = acc /\ r.link = lnk /\ r.ac \in SimWords /\ r.link \in Flag
    BY AccIs
  <2>2. Rotated(s, 4) = AccWith(s, carry, low)
    BY DEF Rotated, WithLAC, AccWith
  <2> QED BY <2>1, <2>2
<1> HIDE DEF acc, lnk
<1>2. WordOf(Turning(r, 12)) = low /\ Bits(r)[12] = carry
  BY <1>1, TurnRAR
<1>3. WordOf(Turning(r, 12)) \in SimWords /\ Bits(r)[12] \in Flag
  BY <1>1, TurnRAR
<1> HIDE DEF carry, low
<1>4. low \in SimWords /\ carry \in Flag /\ Turned(r, 12) = WithAcc(r, carry, low)
  BY <1>2, <1>3, TurnedIs
<1>5. AccWith(s, carry, low) = WithAcc(s, carry, low)
  BY <1>4, SetRight
<1> QED BY <1>1, <1>4, <1>5, SetAlike

LEMMA RTRAlike ==
    ASSUME NEW s \in Regs, NEW r \in TestRegs, Agree(s, r)
    PROVE  Alike(Rotated(s, 5), Turned(r, 11), s)
<1> DEFINE acc == s.ac
           lnk == s.link
           carry == ((acc \div 4 + 1024 * lnk + 2048 * (acc % 4)) \div 4096) % 2
           low == (acc \div 4 + 1024 * lnk + 2048 * (acc % 4)) % 4096
<1>1. /\ r.ac = acc /\ r.link = lnk /\ r.ac \in SimWords /\ r.link \in Flag
      /\ Rotated(s, 5) = WithAcc(s, carry, low)
  <2>1. r.ac = acc /\ r.link = lnk /\ r.ac \in SimWords /\ r.link \in Flag
    BY AccIs
  <2>2. Rotated(s, 5) = WithAcc(s, carry, low)
    BY DEF Rotated, WithLAC, WithAcc
  <2> QED BY <2>1, <2>2
<1> HIDE DEF acc, lnk
<1>2. WordOf(Turning(r, 11)) = low /\ Bits(r)[11] = carry
  BY <1>1, TurnRTR
<1>3. WordOf(Turning(r, 11)) \in SimWords /\ Bits(r)[11] \in Flag
  BY <1>1, TurnRTR
<1> HIDE DEF carry, low
<1>4. low \in SimWords /\ carry \in Flag /\ Turned(r, 11) = WithAcc(r, carry, low)
  BY <1>2, <1>3, TurnedIs
<1> QED BY <1>1, <1>4, SetAlike

\* Kept is transitive, and Alike one step after the other.
LEMMA KeptIs == ASSUME NEW x, NEW y, NEW z, Kept(x, y), Kept(y, z) PROVE Kept(x, z)
  BY DEF Kept

LEMMA AlikeIs ==
    ASSUME NEW x, NEW t, NEW s, Alike(x, t, s)
    PROVE  x \in Regs /\ t \in TestRegs /\ Agree(x, t) /\ Kept(x, s)
  BY DEF Alike

LEMMA AlikeThen ==
    ASSUME NEW x, NEW t, NEW y, NEW u, NEW s, Alike(x, t, s), Alike(y, u, x)
    PROVE  Alike(y, u, s)
  BY DEF Alike, Kept

LEMMA AlikeSelf ==
    ASSUME NEW s \in Regs, NEW r \in TestRegs, Agree(s, r)
    PROVE  Alike(s, r, s)
  BY DEF Alike, Kept

\* BSW
LEMMA SwapAlike ==
    ASSUME NEW s \in Regs, NEW r \in TestRegs, Agree(s, r)
    PROVE  Alike(Rotated(s, 1), [r EXCEPT !.ac = 64 * (@ % 64) + @ \div 64], s)
<1> DEFINE acc == s.ac
           low == 64 * (acc % 64) + acc \div 64
           x == [s EXCEPT !.ac = low]
           t == [r EXCEPT !.ac = low]
<1>1. acc \in SimWords /\ r.ac = acc
  BY AccIs
<1>2. Rotated(s, 1) = x
  BY DEF Rotated
<1>3. [r EXCEPT !.ac = 64 * (@ % 64) + @ \div 64] = t
  BY <1>1
<1> HIDE DEF acc
<1>4. low \in SimWords
  <2>0. acc \in 0 .. 4095
    BY <1>1 DEF SimWords
  <2> DEFINE g == acc % 64
             h == acc \div 64
  <2>3. g \in 0 .. 63
    BY <2>0
  <2>4. h \in 0 .. 63
    BY <2>0
  <2>1. g \in 0 .. 63 /\ h \in 0 .. 63
    BY <2>3, <2>4
  <2> HIDE DEF g, h
  <2>2. 64 * g + h \in 0 .. 4095
    BY <2>1
  <2> QED BY <2>2 DEF g, h, SimWords
<1> HIDE DEF low
<1>5. x \in Regs /\ t \in TestRegs /\ Kept(x, s)
  BY <1>4 DEF Regs, TestRegs, Kept
<1>6. Agree(x, t)
  BY DEF Agree, Regs, TestRegs
<1> QED BY <1>2, <1>3, <1>5, <1>6 DEF Alike

\* All the rotations of group 1
LEMMA RotatedAlike ==
    ASSUME NEW s \in Regs, NEW r \in TestRegs, Agree(s, r), NEW how \in 0 .. 7
    PROVE  Alike(Rotated(s, how),
                 CASE how = 1 -> [r EXCEPT !.ac = 64 * (@ % 64) + @ \div 64]
                   [] how \in {2, 3} -> Turned(r, how - 1)
                   [] how \in {4, 5} -> Turned(r, 16 - how)
                   [] OTHER -> r, s)
<1>1. CASE how = 1
  BY <1>1, SwapAlike
<1>2. CASE how = 2
  <2>1. how - 1 = 1
    BY <1>2
  <2> QED BY <1>2, <2>1, RALAlike
<1>3. CASE how = 3
  <2>1. how - 1 = 2
    BY <1>3
  <2> QED BY <1>3, <2>1, RTLAlike
<1>4. CASE how = 4
  <2>1. 16 - how = 12
    BY <1>4
  <2> QED BY <1>4, <2>1, RARAlike
<1>5. CASE how = 5
  <2>1. 16 - how = 11
    BY <1>5
  <2> QED BY <1>5, <2>1, RTRAlike
<1>6. CASE how \in {0, 6, 7}
  <2>1. Rotated(s, how) = s
    BY <1>6 DEF Rotated
  <2>2. Alike(s, r, s)
    BY AlikeSelf
  <2> QED BY <1>6, <2>1, <2>2
<1> QED BY <1>1, <1>2, <1>3, <1>4, <1>5, <1>6

\* IAC
LEMMA CountAlike ==
    ASSUME NEW s \in Regs, NEW r \in TestRegs, Agree(s, r)
    PROVE  Alike(WithLAC(s, LAC(s) + 1), TestIncrement(r), s)
<1> DEFINE acc == s.ac
           lnk == s.link
           carry == ((4096 * lnk + acc + 1) \div 4096) % 2
           low == (4096 * lnk + acc + 1) % 4096
           carry2 == IF (acc + 1) % 4096 = 0 THEN 1 - lnk ELSE lnk
           low2 == (acc + 1) % 4096
<1>1. r.ac = acc /\ r.link = lnk /\ acc \in SimWords /\ lnk \in Flag
  BY AccIs
<1>2. WithLAC(s, LAC(s) + 1) = WithAcc(s, carry, low)
  BY DEF WithLAC, LAC, WithAcc
<1>3. TestIncrement(r) = AccWith(r, carry2, low2)
  BY <1>1 DEF TestIncrement, AccWith, Inc
<1> HIDE DEF acc, lnk
<1>4. carry = carry2 /\ low = low2 /\ carry \in Flag /\ low \in SimWords
  <2>1. acc \in 0 .. 4095 /\ lnk \in 0 .. 1
    BY <1>1 DEF SimWords, Flag
  <2>2. CASE acc = 4095
    <3>1. lnk = 0 \/ lnk = 1
      BY <2>1
    <3>2. low2 = 0 /\ carry2 = 1 - lnk
      BY <2>2
    <3>3. low = 0 /\ carry = 1 - lnk
      BY <2>2, <3>1
    <3> QED BY <2>1, <3>1, <3>2, <3>3 DEF SimWords, Flag
  <2>3. CASE acc # 4095
    <3>1. acc + 1 \in 1 .. 4095
      BY <2>1, <2>3
    <3> DEFINE n == acc + 1
    <3>6. low2 = n % 4096
      OBVIOUS
    <3>7. carry2 = IF n % 4096 = 0 THEN 1 - lnk ELSE lnk
      OBVIOUS
    <3>8. n \in 1 .. 4095
      BY <3>1
    <3> HIDE DEF n, low2, carry2
    <3>9. n % 4096 = n /\ n # 0
      BY <3>8
    <3>2. low2 = acc + 1 /\ carry2 = lnk
      BY <3>6, <3>7, <3>9 DEF n
    <3>3. (4096 * lnk + n) % 4096 = n /\ ((4096 * lnk + n) \div 4096) % 2 = lnk
      BY <2>1, <3>1 DEF n
    <3>4. 4096 * lnk + acc + 1 = 4096 * lnk + n
      BY <2>1 DEF n
    <3>5. low = n /\ carry = lnk
      BY <3>3, <3>4
    <3> QED BY <2>1, <3>1, <3>2, <3>5 DEF SimWords, Flag, n
  <2> QED BY <2>2, <2>3
<1> HIDE DEF carry, low, carry2, low2
<1>5. AccWith(r, carry, low) = WithAcc(r, carry, low)
  BY <1>4, SetRight
<1> QED BY <1>2, <1>3, <1>4, <1>5, SetAlike

\* The parts of a group 1 instruction
Cleared(s, i) == AccWith(s, IF Has(i, \o100) THEN 0 ELSE s.link, IF Has(i, \o200) THEN 0 ELSE s.ac)
Flipped(s, i) == AccWith(s, IF Has(i, \o20) THEN 1 - s.link ELSE s.link,
                            IF Has(i, \o40) THEN 4095 - s.ac ELSE s.ac)

\* CLA and CLL
LEMMA ClearedAlike ==
    ASSUME NEW s \in Regs, NEW r \in TestRegs, Agree(s, r), NEW i
    PROVE  Alike(Cleared(s, i), Cleared(r, i), s)
<1> DEFINE carry == IF Has(i, \o100) THEN 0 ELSE s.link
           low == IF Has(i, \o200) THEN 0 ELSE s.ac
<1>1. s.ac \in SimWords /\ s.link \in Flag /\ r.ac = s.ac /\ r.link = s.link /\ 0 \in SimWords /\ 0 \in Flag
  BY AccIs DEF SimWords, Flag
<1>2. carry \in Flag /\ low \in SimWords
  BY <1>1
<1>3. Cleared(s, i) = AccWith(s, carry, low) /\ Cleared(r, i) = AccWith(r, carry, low)
  BY <1>1 DEF Cleared
<1> HIDE DEF carry, low
<1> QED BY <1>2, <1>3, SetAlike

\* CMA and CML
LEMMA FlippedAlike ==
    ASSUME NEW s \in Regs, NEW r \in TestRegs, Agree(s, r), NEW i
    PROVE  Alike(Flipped(s, i), Flipped(r, i), s)
<1> DEFINE carry == IF Has(i, \o20) THEN 1 - s.link ELSE s.link
           low == IF Has(i, \o40) THEN 4095 - s.ac ELSE s.ac
<1>1. s.ac \in SimWords /\ s.link \in Flag /\ r.ac = s.ac /\ r.link = s.link
  BY AccIs
<1>2. 1 - s.link \in Flag /\ 4095 - s.ac \in SimWords
  <2> DEFINE acc == s.ac
             lnk == s.link
  <2>1. acc \in 0 .. 4095 /\ lnk \in 0 .. 1
    BY <1>1 DEF SimWords, Flag
  <2> HIDE DEF acc, lnk
  <2>2. 1 - lnk \in 0 .. 1
    BY <2>1
  <2>3. 4095 - acc \in 0 .. 4095
    BY <2>1
  <2> QED BY <2>2, <2>3 DEF SimWords, Flag, acc, lnk
<1>3. carry \in Flag /\ low \in SimWords
  BY <1>1, <1>2
<1>4. Flipped(s, i) = AccWith(s, carry, low) /\ Flipped(r, i) = AccWith(r, carry, low)
  BY <1>1 DEF Flipped
<1> HIDE DEF carry, low
<1> QED BY <1>3, <1>4, SetAlike

\* Group 1: clear, complement, increment, rotate, in this order on both sides
LEMMA Group1Alike ==
    ASSUME NEW s \in Regs, NEW r \in TestRegs, Agree(s, r), NEW i \in SimWords, NEW sr, ~ Has(i, \o400)
    PROVE  Alike(Group1(s, i), TestOperate(r, i, sr), s)
<1> DEFINE x1 == Cleared(s, i)
           t1 == Cleared(r, i)
           x2 == Flipped(x1, i)
           t2 == Flipped(t1, i)
           x3 == IF Has(i, 1) THEN WithLAC(x2, LAC(x2) + 1) ELSE x2
           t3 == IF Has(i, 1) THEN TestIncrement(t2) ELSE t2
           turn == (i \div 2) % 8
<1>1. Group1(s, i) = Rotated(x3, turn)
  BY DEF Group1, Cleared, Flipped, AccWith
<1>2. TestOperate(r, i, sr) = CASE turn = 1 -> [t3 EXCEPT !.ac = 64 * (@ % 64) + @ \div 64]
                                [] turn \in {2, 3} -> Turned(t3, turn - 1)
                                [] turn \in {4, 5} -> Turned(t3, 16 - turn)
                                [] OTHER -> t3
  BY DEF TestOperate, Cleared, Flipped, AccWith
<1>3. turn \in 0 .. 7
  BY DEF SimWords
<1>4. Alike(x1, t1, s)
  BY ClearedAlike
<1> HIDE DEF x1, t1, turn
<1>5. Alike(x2, t2, x1)
  BY <1>4, AlikeIs, FlippedAlike
<1> HIDE DEF x2, t2
<1>6. Alike(x3, t3, x2)
  <2>1. x2 \in Regs /\ t2 \in TestRegs /\ Agree(x2, t2)
    BY <1>5, AlikeIs
  <2>2. CASE Has(i, 1)
    BY <2>1, <2>2, CountAlike
  <2>3. CASE ~ Has(i, 1)
    BY <2>1, <2>3, AlikeSelf
  <2> QED BY <2>2, <2>3
<1> HIDE DEF x3, t3
<1>7. Alike(Group1(s, i), TestOperate(r, i, sr), x3)
  BY <1>1, <1>2, <1>3, <1>6, AlikeIs, RotatedAlike
<1> QED BY <1>4, <1>5, <1>6, <1>7, AlikeThen

\* Group 2: the skip looks at the accumulator before it is cleared.
LEMMA Group2Alike ==
    ASSUME NEW s \in Regs, NEW r \in TestRegs, Agree(s, r), NEW i \in SimWords, NEW sr \in SimWords
    PROVE  Alike(Group2(s, i, sr), Group2(r, i, sr), s)
<1> DEFINE on == Group2Skips(s, i)
           kept == IF Has(i, \o200) THEN 0 ELSE s.ac
           low == IF Has(i, 4) THEN Or(kept, sr) ELSE kept
           x == Skip(s, on)
           t == Skip(r, on)
<1>1. s.ac \in SimWords /\ s.link \in Flag /\ r.ac = s.ac /\ r.link = s.link /\ 0 \in SimWords
  BY AccIs DEF SimWords
<1>2. on \in BOOLEAN /\ Group2Skips(r, i) = on
  BY <1>1 DEF Group2Skips
<1>3. Group2(s, i, sr) = [x EXCEPT !.ac = low]
  BY DEF Group2
<1>4. Group2(r, i, sr) = [t EXCEPT !.ac = low]
  BY <1>1, <1>2 DEF Group2
<1>5. kept \in SimWords
  BY <1>1
<1>6. low \in SimWords
  BY <1>5, LogicIs
<1> HIDE DEF on, kept, low
<1>7. x \in Regs /\ t \in TestRegs /\ Agree(x, t) /\ Kept(x, s)
  BY <1>2, SkipRight DEF Kept
<1> HIDE DEF x, t
<1>8. [x EXCEPT !.ac = low] \in Regs /\ [t EXCEPT !.ac = low] \in TestRegs /\ Kept([x EXCEPT !.ac = low], x)
  BY <1>6, <1>7 DEF Regs, TestRegs, Kept
<1>9. Agree([x EXCEPT !.ac = low], [t EXCEPT !.ac = low])
  BY <1>7 DEF Agree, Regs, TestRegs
<1> QED BY <1>3, <1>4, <1>7, <1>8, <1>9, KeptIs DEF Alike

\* dooperate, whatever the instruction
LEMMA OperateAlike ==
    ASSUME NEW s \in Regs, NEW r \in TestRegs, Agree(s, r), NEW i \in SimWords, NEW sr \in SimWords
    PROVE  Alike(dooperate(s, i, sr), TestOperate(r, i, sr), s)
<1>1. CASE ~ Has(i, \o400)
  BY <1>1, Group1Alike DEF dooperate
<1>2. CASE Has(i, \o400) /\ ~ Has(i, 1)
  BY <1>2, Group2Alike DEF dooperate, TestOperate
<1>3. CASE Has(i, \o400) /\ Has(i, 1)
  BY <1>3, AlikeSelf DEF dooperate, TestOperate
<1> QED BY <1>1, <1>2, <1>3
-----------------------------------------------------------------------------
(* So do the I/O instructions that are tested. *)

\* A new accumulator
LEMMA AccAlike ==
    ASSUME NEW s \in Regs, NEW r \in TestRegs, Agree(s, r), NEW v \in SimWords
    PROVE  Alike([s EXCEPT !.ac = v], [r EXCEPT !.ac = v], s)
<1>1. [s EXCEPT !.ac = v] \in Regs /\ [r EXCEPT !.ac = v] \in TestRegs /\ Kept([s EXCEPT !.ac = v], s)
  BY DEF Regs, TestRegs, Kept
<1>2. Agree([s EXCEPT !.ac = v], [r EXCEPT !.ac = v])
  BY DEF Agree, Regs, TestRegs
<1> QED BY <1>1, <1>2 DEF Alike

\* CDF, CIF, and both
LEMMA ChangeAlike ==
    ASSUME NEW s \in Regs, NEW r \in TestRegs, Agree(s, r), NEW i \in SimWords, i % 8 \in 1 .. 3
    PROVE  Alike(FieldIo(s, i), FieldIo(r, i), s)
<1> DEFINE d == IF Has(i, 1) THEN Field3(i) ELSE s.dfld
           j == IF Has(i, 2) THEN Field3(i) ELSE s.ifaj
           x == [s EXCEPT !.dfld = d, !.ifaj = j, !.inh = s.inh \/ Has(i, 2)]
           t == [r EXCEPT !.dfld = d, !.ifaj = j, !.inh = s.inh \/ Has(i, 2)]
<1>1. Field3(i) \in 0 .. 7 /\ s.dfld \in 0 .. 7 /\ s.ifaj \in 0 .. 7
  BY AddressIs DEF Regs
<1>2. d \in 0 .. 7 /\ j \in 0 .. 7
  BY <1>1
<1>3. r.dfld = s.dfld /\ r.ifaj = s.ifaj /\ r.inh = s.inh
  BY DEF Agree
<1>4. FieldIo(s, i) = x
  BY DEF FieldIo
<1>5. FieldIo(r, i) = t
  BY <1>3 DEF FieldIo
<1> HIDE DEF d, j
<1>6. x \in Regs /\ t \in TestRegs /\ Kept(x, s)
  BY <1>2 DEF Regs, TestRegs, Kept
<1>7. /\ x.ac = s.ac /\ x.link = s.link /\ x.pc = s.pc /\ x.ion = s.ion /\ x.idelay = s.idelay
      /\ x.dfld = d /\ x.ifld = s.ifld /\ x.ifaj = j
      /\ x.sdf = s.sdf /\ x.sif = s.sif /\ x.mem = s.mem
  BY DEF Regs
<1>8. /\ t.ac = r.ac /\ t.link = r.link /\ t.pc = r.pc /\ t.ion = r.ion /\ t.idelay = r.idelay
      /\ t.dfld = d /\ t.ifld = r.ifld /\ t.ifaj = j
      /\ t.sdf = r.sdf /\ t.sif = r.sif /\ t.mem = r.mem
  BY DEF TestRegs
<1>9. x.inh = t.inh
  BY DEF Regs, TestRegs
<1> HIDE DEF x, t
<1>10. Agree(x, t)
  BY <1>7, <1>8, <1>9 DEF Agree
<1> QED BY <1>4, <1>5, <1>6, <1>10 DEF Alike

\* RMF
LEMMA RestoreAlike ==
    ASSUME NEW s \in Regs, NEW r \in TestRegs, Agree(s, r)
    PROVE  Alike([s EXCEPT !.dfld = s.sdf, !.ifaj = s.sif], [r EXCEPT !.dfld = r.sdf, !.ifaj = r.sif], s)
<1> DEFINE x == [s EXCEPT !.dfld = s.sdf, !.ifaj = s.sif]
           t == [r EXCEPT !.dfld = r.sdf, !.ifaj = r.sif]
<1>1. x \in Regs /\ t \in TestRegs /\ Kept(x, s)
  BY DEF Regs, TestRegs, Kept
<1>2. /\ x.ac = s.ac /\ x.link = s.link /\ x.pc = s.pc /\ x.ion = s.ion /\ x.idelay = s.idelay
      /\ x.inh = s.inh /\ x.dfld = s.sdf /\ x.ifld = s.ifld /\ x.ifaj = s.sif
      /\ x.sdf = s.sdf /\ x.sif = s.sif /\ x.mem = s.mem
  BY DEF Regs
<1>3. /\ t.ac = r.ac /\ t.link = r.link /\ t.pc = r.pc /\ t.ion = r.ion /\ t.idelay = r.idelay
      /\ t.inh = r.inh /\ t.dfld = r.sdf /\ t.ifld = r.ifld /\ t.ifaj = r.sif
      /\ t.sdf = r.sdf /\ t.sif = r.sif /\ t.mem = r.mem
  BY DEF TestRegs
<1> HIDE DEF x, t
<1>4. Agree(x, t)
  BY <1>2, <1>3 DEF Agree
<1> QED BY <1>1, <1>4 DEF Alike, x, t

\* The memory extension's instructions
LEMMA FieldIoAlike ==
    ASSUME NEW s \in Regs, NEW r \in TestRegs, Agree(s, r), NEW i \in SimWords
    PROVE  Alike(FieldIo(s, i), FieldIo(r, i), s)
<1>1. CASE i % 8 \in 1 .. 3
  BY <1>1, ChangeAlike
<1>2. CASE i % 8 \notin 1 .. 3
  <2>1. s.ac \in SimWords /\ r.ac = s.ac
    BY AccIs
  <2>2. /\ r.dfld = s.dfld /\ r.ifld = s.ifld /\ r.sif = s.sif /\ r.sdf = s.sdf
        /\ s.dfld \in 0 .. 7 /\ s.ifld \in 0 .. 7 /\ s.sif \in 0 .. 7 /\ s.sdf \in 0 .. 7
    BY DEF Agree, Regs
  <2>3. \A f \in 0 .. 7, g \in 0 .. 7 : 8 * f \in SimWords /\ 8 * f + g \in SimWords
    BY DEF SimWords
  <2>4. CASE i = \o6214
    <3>1. FieldIo(s, i) = [s EXCEPT !.ac = Or(s.ac, 8 * s.dfld)] /\ FieldIo(r, i) = [r EXCEPT !.ac = Or(s.ac, 8 * s.dfld)]
      BY <2>1, <2>2, <2>4 DEF FieldIo
    <3> QED BY <2>1, <2>2, <2>3, <3>1, LogicIs, AccAlike
  <2>5. CASE i = \o6224
    <3>1. FieldIo(s, i) = [s EXCEPT !.ac = Or(s.ac, 8 * s.ifld)] /\ FieldIo(r, i) = [r EXCEPT !.ac = Or(s.ac, 8 * s.ifld)]
      BY <2>1, <2>2, <2>5 DEF FieldIo
    <3> QED BY <2>1, <2>2, <2>3, <3>1, LogicIs, AccAlike
  <2>6. CASE i = \o6234
    <3>1. /\ FieldIo(s, i) = [s EXCEPT !.ac = Or(s.ac, 8 * s.sif + s.sdf)]
          /\ FieldIo(r, i) = [r EXCEPT !.ac = Or(s.ac, 8 * s.sif + s.sdf)]
      BY <2>1, <2>2, <2>6 DEF FieldIo
    <3> QED BY <2>1, <2>2, <2>3, <3>1, LogicIs, AccAlike
  <2>7. CASE i = \o6244
    <3>1. /\ FieldIo(s, i) = [s EXCEPT !.dfld = s.sdf, !.ifaj = s.sif]
          /\ FieldIo(r, i) = [r EXCEPT !.dfld = r.sdf, !.ifaj = r.sif]
      BY <2>7 DEF FieldIo
    <3> QED BY <3>1, RestoreAlike
  <2>8. CASE i \notin {\o6214, \o6224, \o6234, \o6244}
    <3>1. FieldIo(s, i) = s /\ FieldIo(r, i) = r
      BY <1>2, <2>8 DEF FieldIo
    <3> QED BY <3>1, AlikeSelf
  <2> QED BY <2>4, <2>5, <2>6, <2>7, <2>8
<1> QED BY <1>1, <1>2

\* The teletype's are not tested: they keep the registers in their types.
LEMMA TtyIoIs ==
    ASSUME NEW s \in Regs, NEW i
    PROVE  TtyIo(s, i) \in Regs /\ Kept(TtyIo(s, i), s)
<1>1. s.kbchar \in SimWords /\ s.ac \in SimWords /\ 0 \in SimWords /\ Has(s.ac, 1) \in BOOLEAN
      /\ s.kbflag \in BOOLEAN /\ s.prflag \in BOOLEAN /\ s.intrq \in BOOLEAN
  BY DEF Regs, SimWords, Has
<1>2. \A b \in BOOLEAN : Skip(s, b) \in Regs /\ Kept(Skip(s, b), s)
  <2> SUFFICES ASSUME NEW b \in BOOLEAN PROVE Skip(s, b) \in Regs /\ Kept(Skip(s, b), s)
    OBVIOUS
  <2>1. Registers(s) \in TestRegs /\ Agree(s, Registers(s))
    BY RegistersAre
  <2> QED BY <2>1, SkipRight DEF Kept
<1>3. CASE i \in {\o6031, \o6041, \o6045}
  <2>1. TtyIo(s, i) \in {Skip(s, s.kbflag), Skip(s, s.prflag), Skip(s, s.intrq)}
    BY <1>3 DEF TtyIo
  <2> QED BY <1>1, <1>2, <2>1
<1>4. Or(s.ac, s.kbchar) \in SimWords
  BY <1>1, LogicIs
<1>5. CASE i = \o6032
  <2>1. TtyIo(s, i) = [s EXCEPT !.ac = 0, !.kbflag = FALSE]
    BY <1>5 DEF TtyIo
  <2> QED BY <1>1, <2>1 DEF Regs, Kept
<1>6. CASE i = \o6034
  <2>1. TtyIo(s, i) = [s EXCEPT !.ac = Or(s.ac, s.kbchar)]
    BY <1>6 DEF TtyIo
  <2> QED BY <1>4, <2>1 DEF Regs, Kept
<1>7. CASE i = \o6035
  <2>1. TtyIo(s, i) = [s EXCEPT !.inten = Has(s.ac, 1)]
    BY <1>7 DEF TtyIo
  <2> QED BY <1>1, <2>1 DEF Regs, Kept
<1>8. CASE i = \o6036
  <2>1. TtyIo(s, i) = [s EXCEPT !.ac = s.kbchar, !.kbflag = FALSE]
    BY <1>8 DEF TtyIo
  <2> QED BY <1>1, <2>1 DEF Regs, Kept
<1>9. CASE i = \o6042
  <2>1. TtyIo(s, i) = [s EXCEPT !.prflag = FALSE]
    BY <1>9 DEF TtyIo
  <2> QED BY <2>1 DEF Regs, Kept
<1>10. CASE i = \o6044
  <2>1. TtyIo(s, i) = [s EXCEPT !.prfull = TRUE]
    BY <1>10 DEF TtyIo
  <2> QED BY <2>1 DEF Regs, Kept
<1>11. CASE i = \o6046
  <2>1. TtyIo(s, i) = [s EXCEPT !.prflag = FALSE, !.prfull = TRUE]
    BY <1>11 DEF TtyIo
  <2> QED BY <2>1 DEF Regs, Kept
<1>12. CASE i \notin {\o6031, \o6041, \o6045, \o6032, \o6034, \o6035, \o6036, \o6042, \o6044, \o6046}
  <2>1. TtyIo(s, i) = s
    BY <1>12 DEF TtyIo
  <2> QED BY <2>1 DEF Kept
<1> QED BY <1>3, <1>5, <1>6, <1>7, <1>8, <1>9, <1>10, <1>11, <1>12

\* doioinst
LEMMA IoAlike ==
    ASSUME NEW s \in Regs, NEW r \in TestRegs, Agree(s, r), NEW i \in SimWords
    PROVE  /\ doioinst(s, i) \in Regs /\ Kept(doioinst(s, i), s)
           /\ i \in {\o6001, \o6002} \cup \o6200 .. \o6277 => Alike(doioinst(s, i), TestIo(r, i), s)
<1>1. CASE i = \o6001
  <2> DEFINE x == [s EXCEPT !.idelay = TRUE]
             t == [r EXCEPT !.idelay = TRUE]
  <2>1. x \in Regs /\ t \in TestRegs /\ Kept(x, s)
    BY DEF Regs, TestRegs, Kept
  <2>2. Agree(x, t)
    BY DEF Agree, Regs, TestRegs
  <2>3. doioinst(s, i) = x /\ TestIo(r, i) = t
    BY <1>1 DEF doioinst, TestIo
  <2> QED BY <2>1, <2>2, <2>3 DEF Alike
<1>2. CASE i = \o6002
  <2> DEFINE x == [s EXCEPT !.idelay = FALSE, !.ion = FALSE]
             t == [r EXCEPT !.idelay = FALSE, !.ion = FALSE]
  <2>1. x \in Regs /\ t \in TestRegs /\ Kept(x, s)
    BY DEF Regs, TestRegs, Kept
  <2>2. Agree(x, t)
    BY DEF Agree, Regs, TestRegs
  <2>3. doioinst(s, i) = x /\ TestIo(r, i) = t
    BY <1>2 DEF doioinst, TestIo
  <2> QED BY <2>1, <2>2, <2>3 DEF Alike
<1>3. CASE i \in \o6200 .. \o6277
  <2>1. doioinst(s, i) = FieldIo(s, i) /\ TestIo(r, i) = FieldIo(r, i)
    BY <1>3 DEF doioinst, TestIo
  <2> QED BY <2>1, FieldIoAlike, AlikeIs
<1>4. CASE i \notin {\o6001, \o6002} \cup \o6200 .. \o6277
  <2>1. doioinst(s, i) = TtyIo(s, i)
    BY <1>4 DEF doioinst
  <2> QED BY <1>4, <2>1, TtyIoIs
<1> QED BY <1>1, <1>2, <1>3, <1>4
-----------------------------------------------------------------------------
(* Memory references, direct and indirect. *)

\* The registers are the same, but for the inhibition that JMP and JMS lift.
AgreeButInh(s, r) ==
    /\ s.ac = r.ac /\ s.link = r.link /\ s.pc = r.pc /\ s.ion = r.ion /\ s.idelay = r.idelay
    /\ s.dfld = r.dfld /\ s.ifld = r.ifld /\ s.ifaj = r.ifaj
    /\ s.sdf = r.sdf /\ s.sif = r.sif /\ s.mem = r.mem
Near(s, r) == AgreeButInh(s, r) /\ (s.ir \in {4, 5} \/ s.inh = r.inh)

\* The last step of a memory reference
TestLast(r, code, f, a) ==
    CASE code < 4 -> TestMemRef(r, code, f, a)
      [] code = 4 -> TestJms(r, a)
      [] code = 5 -> [r EXCEPT !.inh = FALSE, !.ifld = r.ifaj, !.pc = a]

\* What it refers to, and the count of an auto-index register
Pointer(r, a) == IF IsAutoIndex(a) THEN Inc(Word(r, r.ifld, a)) ELSE Word(r, r.ifld, a)
Pointed(r, a) == IF IsAutoIndex(a) THEN [r EXCEPT !.mem = Stored(r.mem, r.ifld, a, Pointer(r, a))] ELSE r
TestRest(r, i, a) ==
    IF Has(i, \o400) THEN TestLast(Pointed(r, a), i \div 512, r.dfld, Pointer(r, a))
    ELSE TestLast(r, i \div 512, r.ifld, a)

\* JMS: the return address goes to the field that a CIF has asked for.
LEMMA JmsRight ==
    ASSUME NEW s \in Regs, NEW r \in TestRegs, AgreeButInh(s, r), s.ir = 4,
           NEW f \in 0 .. 7, NEW a \in SimWords
    PROVE  LET x == domemref([s EXCEPT !.ea = f, !.ma = a])
           IN  x \in Regs /\ x.state = "EXE" /\ TestJms(r, a) \in TestRegs /\ Agree(x, TestJms(r, a))
<1> DEFINE y == [s EXCEPT !.ea = f, !.ma = a]
           j == Jumped(y)
           m == Stored(s.mem, s.ifaj, a, s.pc)
           w == writemem(j, s.ifaj, a, s.pc)
           x == [w EXCEPT !.state = "EXE", !.pc = Inc(a)]
           t == TestJms(r, a)
<1>1. s.mem \in Memories /\ s.ifaj \in 0 .. 7 /\ s.pc \in SimWords /\ Inc(a) \in SimWords
  BY AddressIs DEF Regs
<1>2. m \in Memories
  BY <1>1, StoredIs
<1>3. y \in Regs /\ y.ma = a /\ y.pc = s.pc /\ y.ifaj = s.ifaj /\ y.mem = s.mem /\ y.ir = 4
  BY DEF Regs
<1>4. /\ y.ac = s.ac /\ y.link = s.link /\ y.ion = s.ion /\ y.idelay = s.idelay
      /\ y.dfld = s.dfld /\ y.sdf = s.sdf /\ y.sif = s.sif
  BY DEF Regs
<1> HIDE DEF y
<1>5. j \in Regs /\ j.ifld = s.ifaj
  BY <1>3 DEF Jumped, Regs
<1>6. domemref(y) = x
  <2>1. domemref(y) = [writemem(j, j.ifld, y.ma, y.pc) EXCEPT !.state = "EXE", !.pc = Inc(y.ma)]
    BY <1>3 DEF domemref
  <2> QED BY <1>3, <1>5, <2>1
<1>7. /\ j.ac = y.ac /\ j.link = y.link /\ j.ion = y.ion /\ j.idelay = y.idelay
      /\ j.dfld = y.dfld /\ j.ifaj = y.ifaj /\ j.sdf = y.sdf /\ j.sif = y.sif /\ j.mem = y.mem
  BY <1>3 DEF Jumped, Regs
<1>8. j.inh = FALSE
  BY <1>3 DEF Jumped, Regs
<1> HIDE DEF j
<1>9. w \in Regs /\ w.mem = m
  <2> HIDE DEF m
  <2>1. j.mem = s.mem
    BY <1>3, <1>7
  <2>2. Stored(j.mem, s.ifaj, a, s.pc) = m
    BY <2>1 DEF m
  <2> QED BY <1>1, <1>2, <1>5, <2>2 DEF writemem, Regs
<1>10. /\ w.ac = j.ac /\ w.link = j.link /\ w.ion = j.ion /\ w.idelay = j.idelay /\ w.inh = j.inh
       /\ w.dfld = j.dfld /\ w.ifld = j.ifld /\ w.ifaj = j.ifaj /\ w.sdf = j.sdf /\ w.sif = j.sif
  BY <1>5 DEF writemem, Regs
<1> HIDE DEF w, m
<1>11. x \in Regs /\ x.state = "EXE"
  BY <1>1, <1>9 DEF Regs, States
<1>12. /\ x.ac = w.ac /\ x.link = w.link /\ x.pc = Inc(a) /\ x.ion = w.ion /\ x.idelay = w.idelay
       /\ x.inh = w.inh /\ x.dfld = w.dfld /\ x.ifld = w.ifld /\ x.ifaj = w.ifaj
       /\ x.sdf = w.sdf /\ x.sif = w.sif /\ x.mem = w.mem
  BY <1>9 DEF Regs
<1>13. Stored(r.mem, r.ifaj, a, r.pc) = m
  BY DEF AgreeButInh, m
<1>14. t \in TestRegs
  BY <1>1, <1>2, <1>13 DEF TestJms, TestRegs
<1>15. /\ t.ac = r.ac /\ t.link = r.link /\ t.pc = Inc(a) /\ t.ion = r.ion /\ t.idelay = r.idelay
       /\ t.dfld = r.dfld /\ t.ifld = r.ifaj /\ t.ifaj = r.ifaj
       /\ t.sdf = r.sdf /\ t.sif = r.sif /\ t.mem = m
  BY <1>13 DEF TestJms, TestRegs
<1>16. t.inh = FALSE
  BY DEF TestJms, TestRegs
<1> HIDE DEF x, t
<1>17. Agree(x, t)
  <2>1. x.ac = t.ac /\ x.link = t.link /\ x.ion = t.ion /\ x.idelay = t.idelay /\ x.dfld = t.dfld
    BY <1>4, <1>7, <1>10, <1>12, <1>15 DEF AgreeButInh
  <2>2. x.ifld = t.ifld /\ x.ifaj = t.ifaj /\ x.sdf = t.sdf /\ x.sif = t.sif
    BY <1>3, <1>4, <1>5, <1>7, <1>10, <1>12, <1>15 DEF AgreeButInh
  <2>3. x.inh = t.inh /\ x.pc = t.pc /\ x.mem = t.mem
    BY <1>8, <1>9, <1>10, <1>12, <1>15, <1>16
  <2> QED BY <2>1, <2>2, <2>3 DEF Agree
<1> QED BY <1>6, <1>11, <1>14, <1>17 DEF t, y

\* The last step of a memory reference, whichever it is
LEMMA LastRight ==
    ASSUME NEW s \in Regs, NEW r \in TestRegs, Near(s, r), s.ir \in 0 .. 4,
           NEW f \in 0 .. 7, NEW a \in SimWords
    PROVE  LET x == domemref([s EXCEPT !.ea = f, !.ma = a])
           IN  /\ x \in Regs /\ x.state = "EXE"
               /\ TestLast(r, s.ir, f, a) \in TestRegs /\ Agree(x, TestLast(r, s.ir, f, a))
<1>1. CASE s.ir = 4
  <2>1. AgreeButInh(s, r)
    BY DEF Near
  <2>2. TestLast(r, s.ir, f, a) = TestJms(r, a)
    BY <1>1 DEF TestLast
  <2> QED BY <1>1, <2>1, <2>2, JmsRight
<1>2. CASE s.ir \in 0 .. 3
  <2>1. Agree(s, r)
    BY <1>2 DEF Near, Agree, AgreeButInh
  <2>2. TestLast(r, s.ir, f, a) = TestMemRef(r, s.ir, f, a)
    BY <1>2 DEF TestLast
  <2> DEFINE y == [s EXCEPT !.ea = f, !.ma = a]
  <2>3. y = [s EXCEPT !.ea = f, !.ma = a]
    OBVIOUS
  <2> HIDE DEF y
  <2>4. /\ domemref(y) \in Regs /\ domemref(y).state = "EXE"
        /\ TestMemRef(r, s.ir, f, a) \in TestRegs /\ Agree(domemref(y), TestMemRef(r, s.ir, f, a))
    BY <1>2, <2>1, <2>3, MemRefRight
  <2> QED BY <2>2, <2>4 DEF y
<1> QED BY <1>1, <1>2

\* The pointer of an indirect reference, counted up in 010 to 017
LEMMA PointerRight ==
    ASSUME NEW s \in Regs, NEW r \in TestRegs, Near(s, r), NEW a \in SimWords
    PROVE  LET q == readmem([s EXCEPT !.state = "DEF"], s.ifld, a)
               p == IF IsAutoIndex(a) THEN writemem(q, s.ifld, a, Inc(q.mb)) ELSE q
           IN  /\ p \in Regs /\ p.state = "DEF" /\ p.ir = s.ir /\ p.mb = Pointer(r, a)
               /\ Pointer(r, a) \in SimWords /\ Pointed(r, a) \in TestRegs /\ Near(p, Pointed(r, a))
               /\ p.dfld = r.dfld
<1> DEFINE z == [s EXCEPT !.state = "DEF"]
           w == Word(s, s.ifld, a)
           q == readmem(z, s.ifld, a)
           m == Stored(s.mem, s.ifld, a, Inc(w))
           pq == writemem(q, s.ifld, a, Inc(w))
<1>1. s.mem \in Memories /\ s.ifld \in 0 .. 7 /\ r.ifld = s.ifld /\ r.mem = s.mem /\ r.dfld = s.dfld
  BY DEF Regs, Near, AgreeButInh
<1>2. w \in SimWords /\ Inc(w) \in SimWords
  <2>1. w \in SimWords
    BY <1>1, WordIs
  <2> QED BY <2>1, AddressIs
<1>3. Word(r, r.ifld, a) = w /\ Word(z, s.ifld, a) = w
  BY <1>1 DEF Word, Regs
<1>4. z \in Regs
  BY DEF Regs, States
<1>5. q.mb = w /\ q.state = "DEF" /\ q.ir = s.ir
  BY <1>3 DEF readmem, Regs
<1>6. q \in Regs
  <2> HIDE DEF w, z
  <2> QED BY <1>1, <1>2, <1>3, <1>4 DEF readmem, Regs
<1>7. /\ q.ac = s.ac /\ q.link = s.link /\ q.pc = s.pc /\ q.ion = s.ion /\ q.idelay = s.idelay
      /\ q.dfld = s.dfld /\ q.ifld = s.ifld /\ q.ifaj = s.ifaj
      /\ q.sdf = s.sdf /\ q.sif = s.sif /\ q.mem = s.mem
  BY DEF readmem, Regs
<1>8. q.inh = s.inh
  BY DEF readmem, Regs
<1> HIDE DEF q, z, w
<1>9. CASE ~ IsAutoIndex(a)
  <2>1. Pointer(r, a) = w /\ Pointed(r, a) = r
    BY <1>3, <1>9 DEF Pointer, Pointed
  <2>2. Near(q, r)
    BY <1>5, <1>7, <1>8 DEF Near, AgreeButInh
  <2>3. q.dfld = r.dfld
    BY <1>1, <1>7
  <2> QED BY <1>2, <1>5, <1>6, <1>9, <2>1, <2>2, <2>3 DEF q, z
<1>10. CASE IsAutoIndex(a)
  <2> DEFINE t == [r EXCEPT !.mem = m]
  <2>1. Pointer(r, a) = Inc(w)
    BY <1>3, <1>10 DEF Pointer
  <2>2. Pointed(r, a) = t
    BY <1>1, <1>10, <2>1 DEF Pointed
  <2>3. m \in Memories /\ Stored(q.mem, s.ifld, a, Inc(w)) = m
    BY <1>1, <1>2, <1>7, StoredIs
  <2> HIDE DEF m
  <2>4. t \in TestRegs
    BY <2>3 DEF TestRegs
  <2>5. pq \in Regs
    BY <1>1, <1>2, <1>6, <2>3 DEF writemem, Regs
  <2>6. pq.mb = Inc(w) /\ pq.state = "DEF" /\ pq.ir = s.ir /\ pq.mem = m
    BY <1>5, <1>6, <2>3 DEF writemem, Regs
  <2>7. /\ pq.ac = q.ac /\ pq.link = q.link /\ pq.pc = q.pc /\ pq.ion = q.ion /\ pq.idelay = q.idelay
        /\ pq.dfld = q.dfld /\ pq.ifld = q.ifld /\ pq.ifaj = q.ifaj
        /\ pq.sdf = q.sdf /\ pq.sif = q.sif
    BY <1>6 DEF writemem, Regs
  <2>8. pq.inh = q.inh
    BY <1>6 DEF writemem, Regs
  <2>9. /\ t.ac = r.ac /\ t.link = r.link /\ t.pc = r.pc /\ t.ion = r.ion /\ t.idelay = r.idelay
        /\ t.dfld = r.dfld /\ t.ifld = r.ifld /\ t.ifaj = r.ifaj
        /\ t.sdf = r.sdf /\ t.sif = r.sif /\ t.mem = m
    BY DEF TestRegs
  <2>10. t.inh = r.inh
    BY DEF TestRegs
  <2> HIDE DEF pq, t
  <2>11. AgreeButInh(pq, t)
    BY <1>7, <2>6, <2>7, <2>9 DEF AgreeButInh, Near
  <2>12. Near(pq, t)
    BY <1>8, <2>6, <2>8, <2>10, <2>11 DEF Near
  <2>13. pq.dfld = r.dfld
    BY <1>1, <1>7, <2>7
  <2>14. writemem(q, s.ifld, a, Inc(q.mb)) = pq
    BY <1>5 DEF pq
  <2> QED BY <1>2, <1>10, <2>1, <2>2, <2>4, <2>5, <2>6, <2>12, <2>13, <2>14 DEF q, z
<1> QED BY <1>9, <1>10

\* A jump
LEMMA JumpRight ==
    ASSUME NEW p \in Regs, NEW n \in TestRegs, AgreeButInh(p, n), NEW a \in SimWords
    PROVE  LET x == [Jumped(p) EXCEPT !.pc = a]
               t == TestLast(n, 5, 0, a)
           IN  x \in Regs /\ t \in TestRegs /\ Agree(x, t) /\ Kept(x, p)
<1> DEFINE x == [Jumped(p) EXCEPT !.pc = a]
           t == TestLast(n, 5, 0, a)
<1>1. t = [n EXCEPT !.inh = FALSE, !.ifld = n.ifaj, !.pc = a]
  BY DEF TestLast
<1>2. x \in Regs /\ Kept(x, p)
  BY DEF Jumped, Regs, Kept
<1>3. t \in TestRegs
  BY <1>1 DEF TestRegs
<1>4. /\ x.ac = p.ac /\ x.link = p.link /\ x.pc = a /\ x.ion = p.ion /\ x.idelay = p.idelay
      /\ x.dfld = p.dfld /\ x.ifld = p.ifaj /\ x.ifaj = p.ifaj
      /\ x.sdf = p.sdf /\ x.sif = p.sif /\ x.mem = p.mem
  BY DEF Jumped, Regs
<1>5. /\ t.ac = n.ac /\ t.link = n.link /\ t.pc = a /\ t.ion = n.ion /\ t.idelay = n.idelay
      /\ t.dfld = n.dfld /\ t.ifld = n.ifaj /\ t.ifaj = n.ifaj
      /\ t.sdf = n.sdf /\ t.sif = n.sif /\ t.mem = n.mem
  BY <1>1 DEF TestRegs
<1>6. x.inh = FALSE
  BY DEF Jumped, Regs
<1>7. t.inh = FALSE
  BY <1>1 DEF TestRegs
<1> HIDE DEF x, t
<1>8. Agree(x, t)
  BY <1>4, <1>5, <1>6, <1>7 DEF Agree, AgreeButInh
<1> QED BY <1>2, <1>3, <1>8 DEF x, t
-----------------------------------------------------------------------------
(* What the simulator holds between two steps fits what is expected. *)

\* The three ways the simulator looks at an instruction's code are the same.
LEMMA CodeIs ==
    ASSUME NEW i \in SimWords
    PROVE  /\ i \div 512 \in 0 .. 7
           /\ (i \div 1024 = 2) <=> (i \div 512 \in {4, 5})
           /\ IsDirectJmp(i) <=> (i \div 512 = 5 /\ ~ Has(i, \o400))
<1> DEFINE q == i \div 256
<1>1. i \in 0 .. 4095
  BY DEF SimWords
<1>2. q \in 0 .. 15 /\ i \div 512 = q \div 2 /\ i \div 1024 = q \div 4
  <2>1. q \in 0 .. 15
    BY <1>1
  <2>2. i \div 512 = q \div 2
    BY <1>1
  <2>3. i \div 1024 = q \div 4
    BY <1>1
  <2> QED BY <2>1, <2>2, <2>3
<1>3. Has(i, \o400) <=> q % 2 = 1
  BY DEF Has
<1>4. IsDirectJmp(i) <=> q = 10
  BY DEF IsDirectJmp
<1> HIDE DEF q
<1>5. /\ q \div 2 \in 0 .. 7
      /\ (q \div 4 = 2) <=> (q \div 2 \in {4, 5})
      /\ q = 10 <=> (q \div 2 = 5 /\ ~ (q % 2 = 1))
  BY <1>2
<1> QED BY <1>2, <1>3, <1>4, <1>5

\* What the states between fetch and end hold
Shape(s) ==
    /\ s \in Regs
    /\ s.state = "FET" => s.ir = s.mb \div 512
    /\ s.state = "DEF" => s.ir \in 0 .. 5

\* The rest of the instruction makes of s what is expected.
Fits(s, t) ==
    /\ AtEnd(s) => t \in TestRegs /\ Agree(s, t)
    /\ ~ AtEnd(s) /\ s.state = "FET" =>
          \E r \in TestRegs : Near(s, r) /\ t = TestRest(r, s.mb, Direct(s.mb, s.ma))
    /\ ~ AtEnd(s) /\ s.state = "DEF" =>
          \E r \in TestRegs : Near(s, r) /\ t = TestLast(r, s.ir, r.dfld, s.mb)

\* When an instruction is at its end, by state and code
LEMMA EndIs ==
    ASSUME NEW s, Shape(s)
    PROVE  /\ s.state = "EXE" => AtEnd(s)
           /\ ~ AtEnd(s) => s.state \in {"FET", "DEF"}
           /\ ~ AtEnd(s) /\ s.state = "FET" =>
                 s.ir \in 0 .. 5 /\ s.ir = s.mb \div 512 /\ (~ Has(s.mb, \o400) => s.ir \in 0 .. 4)
           /\ ~ AtEnd(s) /\ s.state = "DEF" => s.ir \in 0 .. 4
           /\ s.state = "DEF" => (AtEnd(s) <=> s.ir = 5)
<1>1. s.state \in States /\ s.ir \in 0 .. 7 /\ s.mb \in SimWords
  BY DEF Shape, Regs
<1>2. IsDirectJmp(s.mb) <=> (s.mb \div 512 = 5 /\ ~ Has(s.mb, \o400))
  BY <1>1, CodeIs
<1>3. AtEnd(s) <=> \/ s.state \in {"NUL", "EXE"}
                   \/ s.state = "FET" /\ (IsDirectJmp(s.mb) \/ s.ir >= 6)
                   \/ s.state = "DEF" /\ s.ir = 5
  BY DEF AtEnd
<1>4. s.state = "FET" => s.ir = s.mb \div 512
  BY DEF Shape
<1>5. s.state = "DEF" => s.ir \in 0 .. 5
  BY DEF Shape
<1>6. ~ AtEnd(s) => s.state \in {"FET", "DEF"}
  BY <1>1, <1>3 DEF States
<1>7. s.state = "EXE" => AtEnd(s)
  BY <1>3
<1>8. ASSUME ~ AtEnd(s), s.state = "FET"
      PROVE  s.ir \in 0 .. 5 /\ s.ir = s.mb \div 512 /\ (~ Has(s.mb, \o400) => s.ir \in 0 .. 4)
  <2>1. ~ (s.ir >= 6) /\ ~ IsDirectJmp(s.mb) /\ s.ir = s.mb \div 512
    BY <1>3, <1>4, <1>8
  <2>2. s.ir \in 0 .. 5
    BY <1>1, <2>1
  <2>3. ~ (s.ir = 5 /\ ~ Has(s.mb, \o400))
    BY <1>2, <2>1
  <2> QED BY <2>1, <2>2, <2>3
<1>9. s.state = "DEF" => (AtEnd(s) <=> s.ir = 5)
  BY <1>3
<1>10. ~ AtEnd(s) /\ s.state = "DEF" => s.ir \in 0 .. 4
  BY <1>5, <1>9
<1> QED BY <1>6, <1>7, <1>8, <1>9, <1>10

\* One more step of an instruction leads to what was expected of it.
LEMMA ContinuedFits ==
    ASSUME NEW s, Shape(s), ~ AtEnd(s), NEW t, Fits(s, t)
    PROVE  Shape(Continued(s)) /\ Fits(Continued(s), t)
<1> DEFINE next == Continued(s)
           near == Direct(s.mb, s.ma)
<1>1. s \in Regs /\ s.mb \in SimWords /\ s.ma \in SimWords /\ s.dfld \in 0 .. 7 /\ s.ifld \in 0 .. 7
  BY DEF Shape, Regs
<1>2. near \in SimWords
  BY <1>1, AddressIs
<1>3. s.state \in {"FET", "DEF"}
  BY EndIs
<1>4. ASSUME NEW y, y \in Regs, y.state = "EXE", t \in TestRegs, Agree(y, t) PROVE Shape(y) /\ Fits(y, t)
  <2>1. Shape(y)
    BY <1>4 DEF Shape
  <2>2. AtEnd(y)
    BY <1>4, <2>1, EndIs
  <2> QED BY <1>4, <2>1, <2>2 DEF Fits
<1>5. CASE s.state = "DEF"
  <2>1. PICK r \in TestRegs : Near(s, r) /\ t = TestLast(r, s.ir, r.dfld, s.mb)
    BY <1>5 DEF Fits
  <2>2. s.ir \in 0 .. 4 /\ r.dfld = s.dfld
    BY <1>5, <2>1, EndIs DEF Near, AgreeButInh
  <2>3. next = domemref([s EXCEPT !.ea = s.dfld, !.ma = s.mb])
    BY <1>5 DEF Continued
  <2> HIDE DEF next
  <2>4. next \in Regs /\ next.state = "EXE" /\ t \in TestRegs /\ Agree(next, t)
    BY <1>1, <2>1, <2>2, <2>3, LastRight
  <2> QED BY <1>4, <2>4 DEF next
<1>6. CASE s.state = "FET" /\ ~ Has(s.mb, \o400)
  <2>1. PICK r \in TestRegs : Near(s, r) /\ t = TestRest(r, s.mb, near)
    BY <1>6 DEF Fits
  <2>2. s.ir \in 0 .. 4 /\ s.ir = s.mb \div 512 /\ r.ifld = s.ifld
    BY <1>6, <2>1, EndIs DEF Near, AgreeButInh
  <2>3. next = domemref([s EXCEPT !.ea = s.ifld, !.ma = near])
    BY <1>6 DEF Continued
  <2>4. t = TestLast(r, s.ir, s.ifld, near)
    BY <1>6, <2>1, <2>2 DEF TestRest
  <2> HIDE DEF next, near
  <2>5. next \in Regs /\ next.state = "EXE" /\ t \in TestRegs /\ Agree(next, t)
    <3>1. s.ir \in 0 .. 4 /\ Near(s, r) /\ s \in Regs /\ s.ifld \in 0 .. 7 /\ near \in SimWords
      BY <1>1, <1>2, <2>1, <2>2
    <3> QED BY <2>3, <2>4, <3>1, LastRight
  <2> QED BY <1>4, <2>5 DEF next
<1>7. CASE s.state = "FET" /\ Has(s.mb, \o400)
  <2>1. PICK r \in TestRegs : Near(s, r) /\ t = TestRest(r, s.mb, near)
    BY <1>7 DEF Fits
  <2> DEFINE q == readmem([s EXCEPT !.state = "DEF"], s.ifld, near)
             p == IF IsAutoIndex(near) THEN writemem(q, s.ifld, near, Inc(q.mb)) ELSE q
             n == Pointed(r, near)
  <2>2. s.ir \in 0 .. 5 /\ s.ir = s.mb \div 512
    BY <1>7, EndIs
  <2>3. next = IF s.ir = 5 THEN [Jumped(p) EXCEPT !.pc = p.mb] ELSE p
    BY <1>7 DEF Continued, Deferred
  <2>4. t = TestLast(n, s.ir, r.dfld, Pointer(r, near))
    BY <1>7, <2>1, <2>2 DEF TestRest
  <2>5. /\ p \in Regs /\ p.state = "DEF" /\ p.ir = s.ir /\ p.mb = Pointer(r, near)
        /\ Pointer(r, near) \in SimWords /\ n \in TestRegs /\ Near(p, n) /\ p.dfld = r.dfld
    BY <1>1, <1>2, <2>1, PointerRight
  <2> HIDE DEF q, p, n, next, near
  <2>6. CASE s.ir # 5
    <3>1. next = p
      BY <2>3, <2>6
    <3>2. Shape(p)
      BY <2>2, <2>5 DEF Shape
    <3>3. ~ AtEnd(p)
      BY <2>5, <2>6, <3>2, EndIs
    <3>4. n.dfld = r.dfld
      BY <2>5 DEF Near, AgreeButInh
    <3>5. t = TestLast(n, p.ir, n.dfld, p.mb)
      BY <2>4, <2>5, <3>4
    <3>6. Fits(p, t)
      BY <2>5, <3>3, <3>5 DEF Fits
    <3> QED BY <3>1, <3>2, <3>6 DEF next
  <2>7. CASE s.ir = 5
    <3> DEFINE j == [Jumped(p) EXCEPT !.pc = p.mb]
    <3>1. next = j
      BY <2>3, <2>7
    <3>2. t = TestLast(n, 5, 0, p.mb)
      BY <2>4, <2>5, <2>7 DEF TestLast
    <3>3. AgreeButInh(p, n) /\ p.mb \in SimWords
      BY <2>5 DEF Near
    <3>4. j \in Regs /\ t \in TestRegs /\ Agree(j, t) /\ Kept(j, p)
      BY <2>5, <3>2, <3>3, JumpRight
    <3> HIDE DEF j
    <3>5. Shape(j)
      BY <2>2, <2>5, <3>4 DEF Shape, Kept
    <3>6. AtEnd(j)
      BY <2>5, <2>7, <3>4, <3>5, EndIs DEF Kept
    <3>7. Fits(j, t)
      BY <3>4, <3>6 DEF Fits
    <3> QED BY <3>1, <3>5, <3>7 DEF next
  <2> QED BY <2>6, <2>7
<1> QED BY <1>3, <1>5, <1>6, <1>7

\* Whatever the simulator is in the middle of, something fits.
LEMMA SomeFits ==
    ASSUME NEW s, Shape(s)
    PROVE  \E t : Fits(s, t)
<1> DEFINE g == Registers(s)
<1>1. g \in TestRegs /\ Agree(s, g)
  BY RegistersAre DEF Shape
<1> HIDE DEF g
<1>2. Near(s, g)
  BY <1>1 DEF Near, Agree, AgreeButInh
<1>3. CASE AtEnd(s)
  BY <1>1, <1>3 DEF Fits
<1>4. CASE ~ AtEnd(s) /\ s.state = "FET"
  <2>1. Fits(s, TestRest(g, s.mb, Direct(s.mb, s.ma)))
    BY <1>1, <1>2, <1>4 DEF Fits
  <2> QED BY <2>1
<1>5. CASE ~ AtEnd(s) /\ s.state = "DEF"
  <2>1. Fits(s, TestLast(g, s.ir, g.dfld, s.mb))
    BY <1>1, <1>2, <1>5 DEF Fits
  <2> QED BY <2>1
<1> QED BY <1>3, <1>4, <1>5, EndIs

\* So a step is sound even where nothing is known to be expected.
LEMMA ContinuedIs ==
    ASSUME NEW s, Shape(s), ~ AtEnd(s)
    PROVE  Shape(Continued(s))
  BY SomeFits, ContinuedFits
-----------------------------------------------------------------------------
(* A fetch, and what is expected of the instruction it fetches. *)

\* What a fetch makes of the registers, before the instruction does anything
Instr(s) == Word(s, s.ifld, s.pc)
Fetched(s) ==
    [readmem([s EXCEPT !.ion = s.idelay, !.state = "FET"], s.ifld, s.pc) EXCEPT
        !.ir = Instr(s) \div 512, !.pc = Inc(@), !.inh = @ /\ Instr(s) \div 1024 # 2]
TestFetched(r) == [r EXCEPT !.ion = r.idelay, !.pc = Inc(@)]

\* Up to here the simulator and the test do the same, but for the inhibition,
\* that the simulator lifts with the fetch of a jump.
LEMMA FetchedIs ==
    ASSUME NEW s \in Regs, NEW r \in TestRegs, Agree(s, r)
    PROVE  /\ Fetched(s) \in Regs /\ TestFetched(r) \in TestRegs
           /\ Instr(s) \in SimWords /\ Instr(s) = Instr(r)
           /\ Fetched(s).state = "FET" /\ Fetched(s).ir = Instr(s) \div 512
           /\ Fetched(s).mb = Instr(s) /\ Fetched(s).ma = s.pc
           /\ Near(Fetched(s), TestFetched(r))
           /\ Fetched(s).ir \in {6, 7} => Agree(Fetched(s), TestFetched(r))
<1> DEFINE i == Instr(s)
           z == [s EXCEPT !.ion = s.idelay, !.state = "FET"]
           m == readmem(z, s.ifld, s.pc)
           f == [m EXCEPT !.ir = i \div 512, !.pc = Inc(s.pc), !.inh = s.inh /\ i \div 1024 # 2]
           n == TestFetched(r)
<1>1. s.mem \in Memories /\ s.ifld \in 0 .. 7 /\ s.pc \in SimWords /\ r.mem = s.mem /\ r.ifld = s.ifld /\ r.pc = s.pc
  BY DEF Regs, Agree
<1>2. i \in SimWords /\ Instr(r) = i /\ Inc(s.pc) \in SimWords
  <2>1. i \in SimWords
    BY <1>1, WordIs DEF Instr
  <2>2. Instr(r) = i
    BY <1>1 DEF Instr, Word
  <2> QED BY <1>1, <2>1, <2>2, AddressIs
<1>3. z \in Regs /\ Word(z, s.ifld, s.pc) = i
  <2>1. z \in Regs
    BY DEF Regs, States
  <2>2. z.mem = s.mem
    BY DEF Regs
  <2> HIDE DEF z
  <2> QED BY <2>1, <2>2 DEF Instr, Word
<1>4. m.mb = i /\ m.ma = s.pc /\ m.state = "FET" /\ m.pc = s.pc
  BY <1>3 DEF readmem, Regs
<1>5. m.inh = s.inh
  BY DEF readmem, Regs
<1>6. m \in Regs
  <2> HIDE DEF z, i
  <2> QED BY <1>1, <1>2, <1>3 DEF readmem, Regs
<1>7. /\ m.ac = s.ac /\ m.link = s.link /\ m.ion = s.idelay /\ m.idelay = s.idelay
      /\ m.dfld = s.dfld /\ m.ifld = s.ifld /\ m.ifaj = s.ifaj
      /\ m.sdf = s.sdf /\ m.sif = s.sif /\ m.mem = s.mem
  BY DEF readmem, Regs
<1>8. Fetched(s) = f
  <2>1. Fetched(s) = [m EXCEPT !.ir = i \div 512, !.pc = Inc(m.pc), !.inh = m.inh /\ i \div 1024 # 2]
    BY DEF Fetched
  <2> HIDE DEF m, i
  <2> QED BY <1>4, <1>5, <2>1
<1>9. i \div 512 \in 0 .. 7 /\ (i \div 1024 = 2 <=> i \div 512 \in {4, 5})
  BY <1>2, CodeIs
<1> DEFINE code == i \div 512
           jump == i \div 1024 # 2
<1>10. code \in 0 .. 7 /\ jump \in BOOLEAN /\ (jump <=> code \notin {4, 5})
  BY <1>9
<1> HIDE DEF m, z, i, code, jump
<1>11. f = [m EXCEPT !.ir = code, !.pc = Inc(s.pc), !.inh = s.inh /\ jump]
  BY DEF code, jump
<1> HIDE DEF f
<1>12. f \in Regs
  BY <1>2, <1>6, <1>10, <1>11 DEF Regs
<1>13. f.state = "FET" /\ f.ir = code /\ f.mb = i /\ f.ma = s.pc
  BY <1>4, <1>6, <1>11 DEF Regs
<1>14. /\ f.ac = m.ac /\ f.link = m.link /\ f.pc = Inc(s.pc) /\ f.ion = m.ion /\ f.idelay = m.idelay
       /\ f.dfld = m.dfld /\ f.ifld = m.ifld /\ f.ifaj = m.ifaj
       /\ f.sdf = m.sdf /\ f.sif = m.sif /\ f.mem = m.mem
  BY <1>6, <1>11 DEF Regs
<1>15. f.inh = (s.inh /\ jump)
  BY <1>6, <1>11 DEF Regs
<1>16. n \in TestRegs
  BY <1>1, <1>2 DEF TestFetched, TestRegs
<1>17. /\ n.ac = r.ac /\ n.link = r.link /\ n.pc = Inc(r.pc) /\ n.ion = r.idelay /\ n.idelay = r.idelay
       /\ n.dfld = r.dfld /\ n.ifld = r.ifld /\ n.ifaj = r.ifaj
       /\ n.sdf = r.sdf /\ n.sif = r.sif /\ n.mem = r.mem
  BY DEF TestFetched, TestRegs
<1>18. n.inh = r.inh
  BY DEF TestFetched, TestRegs
<1> HIDE DEF n
<1>19. AgreeButInh(f, n)
  BY <1>7, <1>14, <1>17 DEF Agree, AgreeButInh
<1>20. f.ir \in {4, 5} \/ f.inh = n.inh
  <2>1. r.inh = s.inh /\ s.inh \in BOOLEAN
    BY DEF Agree, Regs
  <2>2. CASE code \in {4, 5}
    BY <1>13, <2>2
  <2>3. CASE code \notin {4, 5}
    <3>1. jump
      BY <1>10, <2>3
    <3> QED BY <1>15, <1>18, <2>1, <3>1
  <2> QED BY <2>2, <2>3
<1>21. Near(f, n)
  BY <1>19, <1>20 DEF Near
<1>22. f.ir \in {6, 7} => Agree(f, n)
  <2>1. f.ir \in {6, 7} => f.inh = n.inh
    BY <1>20
  <2> QED BY <1>19, <2>1 DEF Agree, AgreeButInh
<1> QED BY <1>2, <1>8, <1>12, <1>13, <1>16, <1>21, <1>22 DEF n, i, code

\* What is expected of an instruction that is not interrupted, by its code
LEMMA TestedIs ==
    ASSUME NEW s \in Regs, NEW sr, NEW r, r = Registers(s), ~ WillInterrupt(s)
    PROVE  LET i == Instr(r)
               n == TestFetched(r)
           IN  /\ i \div 512 \in 0 .. 5 => Tested(s, sr) = TestRest(n, i, Direct(i, r.pc))
               /\ i \div 512 = 6 => Tested(s, sr) = TestIo(n, i)
               /\ i \div 512 = 7 => Tested(s, sr) = TestOperate(n, i, sr)
<1> DEFINE i == Instr(r)
           code == i \div 512
           near == Direct(i, r.pc)
           ind == code < 6 /\ Has(i, \o400)
           pointer == IF IsAutoIndex(near) THEN Inc(Word(r, r.ifld, near)) ELSE Word(r, r.ifld, near)
           m == IF ind /\ IsAutoIndex(near) THEN Stored(r.mem, r.ifld, near, pointer) ELSE r.mem
           n == [r EXCEPT !.ion = r.idelay, !.pc = Inc(@), !.mem = m]
           a == IF ind THEN pointer ELSE near
           f == TestFetched(r)
<1>1. r \in TestRegs /\ ~ (r.ion /\ s.intrq /\ ~ r.inh)
  <2>1. r \in TestRegs
    BY RegistersAre
  <2>2. r.ion = s.ion /\ r.inh = s.inh
    BY DEF Registers
  <2> QED BY <2>1, <2>2 DEF WillInterrupt
<1>2. Tested(s, sr) =
        CASE code < 4 -> TestMemRef(n, code, IF ind THEN n.dfld ELSE n.ifld, a)
          [] code = 4 -> TestJms(n, a)
          [] code = 5 -> [n EXCEPT !.inh = FALSE, !.ifld = n.ifaj, !.pc = a]
          [] code = 6 -> TestIo(n, i)
          [] code = 7 -> TestOperate(n, i, sr)
  <2> DEFINE g == Registers(s)
  <2>1. ~ (g.ion /\ s.intrq /\ ~ g.inh)
    BY <1>1
  <2>2. Tested(s, sr) =
          LET j == Word(g, g.ifld, g.pc)
              o == j \div 512
              nr == Direct(j, g.pc)
              id == o < 6 /\ Has(j, \o400)
              ptr == IF IsAutoIndex(nr) THEN Inc(Word(g, g.ifld, nr)) ELSE Word(g, g.ifld, nr)
              u == [g EXCEPT !.ion = g.idelay, !.pc = Inc(@),
                             !.mem = IF id /\ IsAutoIndex(nr) THEN Stored(@, g.ifld, nr, ptr) ELSE @]
              to == IF id THEN ptr ELSE nr
          IN  CASE o < 4 -> TestMemRef(u, o, IF id THEN u.dfld ELSE u.ifld, to)
                [] o = 4 -> TestJms(u, to)
                [] o = 5 -> [u EXCEPT !.inh = FALSE, !.ifld = u.ifaj, !.pc = to]
                [] o = 6 -> TestIo(u, j)
                [] o = 7 -> TestOperate(u, j, sr)
    BY <2>1 DEF Tested
  <2>3. g = r
    OBVIOUS
  <2> HIDE DEF g
  <2> QED BY <2>2, <2>3 DEF Instr
<1>3. f \in TestRegs /\ f.mem = r.mem /\ f.ifld = r.ifld /\ f.dfld = r.dfld
  <2>1. r.pc \in SimWords /\ Inc(r.pc) \in SimWords
    BY <1>1, AddressIs DEF TestRegs
  <2> QED BY <1>1, <2>1 DEF TestFetched, TestRegs
<1>4. n = [f EXCEPT !.mem = m]
  BY <1>1 DEF TestFetched, TestRegs
<1> HIDE DEF n, f, i
<1>5. n.dfld = f.dfld /\ n.ifld = f.ifld
  BY <1>3, <1>4 DEF TestRegs
<1>6. ~ (ind /\ IsAutoIndex(near)) => n = f
  <2>1. [f EXCEPT !.mem = f.mem] = f
    BY <1>3 DEF TestRegs
  <2>2. ~ (ind /\ IsAutoIndex(near)) => m = f.mem
    BY <1>3
  <2> HIDE DEF m
  <2> QED BY <1>4, <2>1, <2>2
<1>7. Pointer(f, near) = pointer
  BY <1>3 DEF Pointer, Word
<1>8. ind => n = Pointed(f, near)
  <2> HIDE DEF pointer, near
  <2>1. CASE ind /\ IsAutoIndex(near)
    BY <1>3, <1>4, <1>7, <2>1 DEF Pointed
  <2>2. CASE ~ (ind /\ IsAutoIndex(near))
    BY <1>6, <2>2 DEF Pointed
  <2> QED BY <2>1, <2>2
<1> HIDE DEF m, pointer, near
<1>9. CASE code \in 0 .. 5
  <2>1. code < 6 /\ (ind <=> Has(i, \o400))
    BY <1>9
  <2>2. Tested(s, sr) = TestLast(n, code, IF ind THEN n.dfld ELSE n.ifld, a)
    BY <1>2, <1>9 DEF TestLast
  <2>3. CASE ind
    <3>1. Tested(s, sr) = TestLast(n, code, n.dfld, pointer)
      BY <2>2, <2>3
    <3>2. TestRest(f, i, near) = TestLast(Pointed(f, near), code, f.dfld, Pointer(f, near))
      BY <2>1, <2>3 DEF TestRest
    <3> QED BY <1>5, <1>7, <1>8, <1>9, <2>3, <3>1, <3>2 DEF near, f, i
  <2>4. CASE ~ ind
    <3>1. Tested(s, sr) = TestLast(n, code, n.ifld, near)
      BY <2>2, <2>4
    <3>2. TestRest(f, i, near) = TestLast(f, code, f.ifld, near)
      BY <2>1, <2>4 DEF TestRest
    <3> QED BY <1>5, <1>6, <1>9, <2>4, <3>1, <3>2 DEF near, f, i
  <2> QED BY <2>3, <2>4
<1>10. CASE code = 6
  <2>1. ~ ind
    BY <1>10
  <2> QED BY <1>2, <1>6, <1>10, <2>1 DEF f, i
<1>11. CASE code = 7
  <2>1. ~ ind
    BY <1>11
  <2> QED BY <1>2, <1>6, <1>11, <2>1 DEF f, i
<1>12. CASE code \notin 0 .. 7
  BY <1>12 DEF i
<1> QED BY <1>9, <1>10, <1>11, <1>12

\* A fetch, interrupted or not: what it leaves fits what is expected.
LEMMA FetchFits ==
    ASSUME NEW s \in Regs, NEW sr \in SimWords
    PROVE  /\ Shape(dofetch(s, sr))
           /\ WillInterrupt(s) \/ IsTested(s) => Fits(dofetch(s, sr), Tested(s, sr))
<1> DEFINE r == Registers(s)
           next == dofetch(s, sr)
           want == Tested(s, sr)
<1>1. r \in TestRegs /\ Agree(s, r)
  BY RegistersAre
<1>2. CASE WillInterrupt(s)
  <2>1. ~ s.inh /\ next = Interrupted(s)
    BY <1>2 DEF WillInterrupt, dofetch
  <2>2. want = TestInterrupt(r)
    <3>1. r.ion = s.ion /\ r.inh = s.inh
      BY DEF Registers
    <3> QED BY <1>2, <3>1 DEF WillInterrupt, Tested
  <2> HIDE DEF r, next, want
  <2>3. next \in Regs /\ next.state = "EXE" /\ want \in TestRegs /\ Agree(next, want)
    BY <1>1, <2>1, <2>2, InterruptedRight
  <2>4. Shape(next)
    BY <2>3 DEF Shape
  <2>5. AtEnd(next)
    BY <2>3, <2>4, EndIs
  <2> QED BY <2>3, <2>4, <2>5 DEF Fits, next, want
<1>3. CASE ~ WillInterrupt(s)
  <2> DEFINE i == Instr(s)
             f == Fetched(s)
             n == TestFetched(r)
             code == i \div 512
             near == Direct(i, s.pc)
  <2>1. next = IF IsDirectJmp(i) THEN [Jumped(f) EXCEPT !.pc = Direct(i, f.ma)]
               ELSE IF f.ir = 6 THEN doioinst(f, i)
               ELSE IF f.ir = 7 THEN dooperate(f, i, sr)
               ELSE f
    <3> DEFINE z == readmem([s EXCEPT !.ion = s.idelay, !.state = "FET"], s.ifld, s.pc)
               g == [z EXCEPT !.ir = z.mb \div 512, !.pc = Inc(@), !.inh = @ /\ z.mb \div 1024 # 2]
    <3>1. next = IF IsDirectJmp(z.mb) THEN [Jumped(g) EXCEPT !.pc = Direct(z.mb, g.ma)]
                 ELSE IF g.ir = 6 THEN doioinst(g, z.mb)
                 ELSE IF g.ir = 7 THEN dooperate(g, z.mb, sr)
                 ELSE g
      BY <1>3 DEF dofetch
    <3>2. z.mb = i
      <4> DEFINE y == [s EXCEPT !.ion = s.idelay, !.state = "FET"]
      <4>1. y.mem = s.mem /\ y \in Regs
        BY DEF Regs, States
      <4> HIDE DEF y
      <4>2. readmem(y, s.ifld, s.pc).mb = Word(y, s.ifld, s.pc)
        BY <4>1 DEF readmem, Regs
      <4>3. Word(y, s.ifld, s.pc) = i
        BY <4>1 DEF Word, Instr
      <4> QED BY <4>2, <4>3 DEF y
    <3>3. f = [z EXCEPT !.ir = i \div 512, !.pc = Inc(@), !.inh = @ /\ i \div 1024 # 2]
      BY DEF Fetched
    <3> HIDE DEF z, i, next, f
    <3>4. g = f
      BY <3>2, <3>3
    <3> HIDE DEF g
    <3> QED BY <3>1, <3>2, <3>4
  <2>2. /\ f \in Regs /\ n \in TestRegs /\ i \in SimWords /\ i = Instr(r)
        /\ f.state = "FET" /\ f.ir = code /\ f.mb = i /\ f.ma = s.pc /\ Near(f, n)
        /\ f.ir \in {6, 7} => Agree(f, n)
    BY <1>1, FetchedIs
  <2>3. s.pc \in SimWords /\ r.pc = s.pc /\ near \in SimWords
    <3>1. s.pc \in SimWords /\ r.pc = s.pc
      BY <1>1 DEF Regs, Agree
    <3> HIDE DEF i
    <3> QED BY <2>2, <3>1, AddressIs
  <2>4. code \in 0 .. 7 /\ (IsDirectJmp(i) <=> (code = 5 /\ ~ Has(i, \o400)))
    <3> HIDE DEF i
    <3> QED BY <2>2, CodeIs
  <2>5. /\ code \in 0 .. 5 => want = TestRest(n, i, near)
        /\ code = 6 => want = TestIo(n, i)
        /\ code = 7 => want = TestOperate(n, i, sr)
    <3>1. r = Registers(s)
      OBVIOUS
    <3>2. LET j == Instr(r)
              t == TestFetched(r)
          IN  /\ j \div 512 \in 0 .. 5 => want = TestRest(t, j, Direct(j, r.pc))
              /\ j \div 512 = 6 => want = TestIo(t, j)
              /\ j \div 512 = 7 => want = TestOperate(t, j, sr)
      <4> HIDE DEF r
      <4> QED BY <1>3, <3>1, TestedIs
    <3> HIDE DEF r, i, want
    <3> QED BY <2>2, <2>3, <3>2
  <2>6. IsTested(s) /\ code = 6 => i \in {\o6001, \o6002} \cup \o6200 .. \o6277
    BY DEF IsTested, Instr
  <2> HIDE DEF r, next, want, i, f, n, near
  <2>7. Shape(f)
    BY <2>2 DEF Shape
  <2>8. CASE IsDirectJmp(i)
    <3>1. code = 5 /\ ~ Has(i, \o400) /\ code \in 0 .. 5
      BY <2>4, <2>8
    <3> DEFINE j == [Jumped(f) EXCEPT !.pc = near]
               t == TestLast(n, 5, 0, near)
    <3>2. next = j
      BY <2>1, <2>2, <2>8 DEF near
    <3>3. want = t
      BY <2>5, <3>1 DEF TestRest, TestLast
    <3>4. j \in Regs /\ t \in TestRegs /\ Agree(j, t) /\ Kept(j, f)
      BY <2>2, <2>3, JumpRight DEF Near
    <3> HIDE DEF j, t
    <3>5. j.state = "FET" /\ j.mb = i /\ j.ir = code
      BY <2>2, <3>4 DEF Kept
    <3>6. Shape(j)
      BY <3>4, <3>5 DEF Shape
    <3>7. AtEnd(j)
      BY <2>8, <3>5 DEF AtEnd
    <3> QED BY <3>2, <3>3, <3>4, <3>6, <3>7 DEF Fits, next, want
  <2>9. CASE code = 6
    <3>1. ~ IsDirectJmp(i) /\ f.ir = 6
      BY <2>2, <2>4, <2>9
    <3>2. next = doioinst(f, i)
      BY <2>1, <3>1
    <3>3. Agree(f, n)
      BY <2>2, <3>1
    <3>4. next \in Regs /\ Kept(next, f)
      BY <2>2, <3>2, <3>3, IoAlike
    <3>5. next.state = "FET" /\ next.mb = i /\ next.ir = code
      BY <2>2, <3>4 DEF Kept
    <3>6. Shape(next)
      BY <3>4, <3>5 DEF Shape
    <3>7. AtEnd(next)
      BY <2>9, <3>5 DEF AtEnd
    <3>8. IsTested(s) => Alike(next, TestIo(n, i), f)
      BY <2>2, <2>6, <2>9, <3>2, <3>3, IoAlike
    <3>9. IsTested(s) => Fits(next, want)
      BY <2>5, <2>9, <3>7, <3>8, AlikeIs DEF Fits
    <3> QED BY <1>3, <3>6, <3>9 DEF next, want
  <2>10. CASE code = 7
    <3>1. ~ IsDirectJmp(i) /\ f.ir = 7
      BY <2>2, <2>4, <2>10
    <3>2. next = dooperate(f, i, sr)
      BY <2>1, <3>1
    <3>3. Agree(f, n)
      BY <2>2, <3>1
    <3>4. Alike(next, want, f)
      BY <2>2, <2>5, <2>10, <3>2, <3>3, OperateAlike
    <3>5. next.state = "FET" /\ next.mb = i /\ next.ir = code /\ next \in Regs
      BY <2>2, <3>4, AlikeIs DEF Kept
    <3>6. Shape(next)
      BY <3>5 DEF Shape
    <3>7. AtEnd(next)
      BY <2>10, <3>5 DEF AtEnd
    <3> QED BY <3>4, <3>6, <3>7, AlikeIs DEF Fits, next, want
  <2>11. CASE ~ IsDirectJmp(i) /\ code \notin {6, 7}
    <3>1. code \in 0 .. 5 /\ next = f
      BY <2>1, <2>2, <2>4, <2>11
    <3>2. ~ AtEnd(f)
      BY <2>2, <2>11, <3>1 DEF AtEnd
    <3>3. want = TestRest(n, f.mb, Direct(f.mb, f.ma))
      BY <2>2, <2>5, <3>1 DEF near
    <3>4. Fits(f, want)
      BY <2>2, <3>2, <3>3 DEF Fits
    <3> QED BY <2>7, <3>1, <3>4 DEF next, want
  <2> QED BY <2>8, <2>9, <2>10, <2>11
<1> QED BY <1>2, <1>3
-----------------------------------------------------------------------------
(* The invariant, one action after the other. *)

\* The keyboard changes nothing that the test looks at.
LEMMA TypedIs ==
    ASSUME NEW s \in Regs, NEW t \in Typed(s)
    PROVE  t \in Regs /\ t.mem = s.mem /\ t.ifld = s.ifld /\ t.pc = s.pc
<1>1. CASE t = s
  BY <1>1
<1>2. CASE t # s
  <2>1. PICK k \in KeyCodes : t = [s EXCEPT !.kbflag = TRUE, !.kbchar = k]
    BY <1>2 DEF Typed
  <2>2. k \in SimWords
    BY SimAssumption
  <2>3. t \in Regs
    BY <2>1, <2>2 DEF Regs
  <2>4. t.mem = s.mem /\ t.ifld = s.ifld /\ t.pc = s.pc
    BY <2>1 DEF Regs
  <2> QED BY <2>3, <2>4
<1> QED BY <1>1, <1>2

\* Nor does the printer.
LEMMA PollIs ==
    ASSUME NEW s \in Regs, NEW p \in polltty(s)
    PROVE  p \in Regs /\ (IsTested(p) <=> IsTested(s))
<1> DEFINE printed == [s EXCEPT !.prflag = @ \/ s.prfull, !.prfull = FALSE]
<1>1. printed \in Regs /\ printed.mem = s.mem /\ printed.ifld = s.ifld /\ printed.pc = s.pc
  BY DEF Regs
<1>2. PICK t \in Typed(s) \cup Typed(printed) : p = [t EXCEPT !.intrq = t.inten /\ (t.kbflag \/ t.prflag)]
  BY DEF polltty
<1> HIDE DEF printed
<1>3. t \in Regs /\ t.mem = s.mem /\ t.ifld = s.ifld /\ t.pc = s.pc
  <2>1. t \in Typed(s) \/ t \in Typed(printed)
    OBVIOUS
  <2> QED BY <1>1, <2>1, TypedIs
<1> DEFINE due == t.inten /\ (t.kbflag \/ t.prflag)
<1>4. due \in BOOLEAN /\ p = [t EXCEPT !.intrq = due]
  BY <1>2
<1> HIDE DEF due
<1>5. p \in Regs
  BY <1>3, <1>4 DEF Regs
<1>6. p.mem = t.mem /\ p.ifld = t.ifld /\ p.pc = t.pc
  BY <1>3, <1>4 DEF Regs
<1>7. IsTested(p) <=> IsTested(s)
  BY <1>3, <1>6 DEF IsTested, Word
<1> QED BY <1>5, <1>7

\* Something fits, or nothing is expected.
Holds(s, t) == t = Unknown \/ Fits(s, t)

\* singlestep: what fits before a step fits after it.
LEMMA StepFits ==
    ASSUME NEW s, Shape(s), NEW sr \in SimWords, NEW o \in singlestep(s, sr)
    PROVE  Shape(o.regs) /\ (AtEnd(s) \/ Holds(s, tested) => Holds(o.regs, o.tested))
<1>1. CASE ~ AtEnd(s)
  <2>1. o.regs = Continued(s) /\ o.tested = tested
    BY <1>1 DEF singlestep
  <2>2. Shape(Continued(s))
    BY <1>1, ContinuedIs
  <2>3. Holds(s, tested) => Holds(Continued(s), tested)
    BY <1>1, ContinuedFits DEF Holds
  <2> QED BY <1>1, <2>1, <2>2, <2>3
<1>2. CASE AtEnd(s)
  <2>1. PICK p \in polltty(s) :
            o = [regs |-> dofetch(p, sr),
                 tested |-> IF IsTested(s) \/ WillInterrupt(p) THEN Tested(p, sr) ELSE Unknown]
    BY <1>2 DEF singlestep
  <2>2. /\ o.regs = dofetch(p, sr)
        /\ o.tested = IF IsTested(s) \/ WillInterrupt(p) THEN Tested(p, sr) ELSE Unknown
    BY <2>1
  <2>3. p \in Regs /\ (IsTested(p) <=> IsTested(s))
    BY PollIs DEF Shape
  <2>4. Shape(dofetch(p, sr)) /\ (WillInterrupt(p) \/ IsTested(p) => Fits(dofetch(p, sr), Tested(p, sr)))
    BY <2>3, FetchFits
  <2> QED BY <2>2, <2>3, <2>4 DEF Holds
<1> QED BY <1>1, <1>2

-----------------------------------------------------------------------------
\* Whatever is expected, if anything is, fits; the run thread has taken what is there; and
\* once the RUN flip-flop is off under it, somebody waits.
SimInv ==
    /\ Shape(sim) /\ Holds(sim, tested) /\ swreg \in SimWords
    /\ caller \in {"idle", "stop", "restart"} /\ runreg \in BOOLEAN
    /\ runthread = "step" => doing = sim
    /\ runthread = "step" /\ ~ runreg => caller # "idle"

\* Looking at memory
LEMMA ReadIs ==
    ASSUME NEW s \in Regs, NEW f \in 0 .. 7, NEW a \in SimWords
    PROVE  readmem(s, f, a) \in Regs /\ readmem(s, f, a).state = s.state
<1>1. Word(s, f, a) \in SimWords
  BY WordIs DEF Regs
<1> QED BY <1>1 DEF readmem, Regs

\* Between instructions the registers are what is expected of themselves.
LEMMA EndHolds ==
    ASSUME NEW s, Shape(s), AtEnd(s)
    PROVE  Holds(s, Registers(s))
  BY RegistersAre DEF Holds, Fits, Shape

\* It holds when pipan8l starts, whatever memory and idelay hold.
LEMMA SimInitInv == SimInit => SimInv
<1> SUFFICES ASSUME NEW m \in Programs, NEW garbage \in BOOLEAN, SimStart(m, garbage) PROVE SimInv
  BY DEF SimInit
<1> DEFINE z == [state |-> "NUL", ac |-> 0, link |-> 0, ir |-> 0, ma |-> 0, mb |-> 0,
                 ea |-> 0, pc |-> StartAt, ion |-> FALSE, idelay |-> garbage,
                 inh |-> FALSE, dfld |-> 0, ifld |-> 0, ifaj |-> 0, sdf |-> 0,
                 sif |-> 0, mem |-> m, kbflag |-> FALSE, kbchar |-> 0,
                 prflag |-> FALSE, prfull |-> FALSE, inten |-> TRUE,
                 intrq |-> FALSE]
<1>1. m \in Memories /\ StartAt \in SimWords /\ 0 \in SimWords /\ 0 \in Flag
  BY SimAssumption, MemoryIs DEF SimWords, Flag
<1>2. z \in Regs /\ z.mem = m /\ z.state = "NUL"
  BY <1>1 DEF Regs, States
<1>3. sim = readmem(z, 0, StartAt)
  BY DEF SimStart
<1> HIDE DEF z
<1>5. sim \in Regs /\ sim.state = "NUL"
  <2>1. 0 \in 0 .. 7
    OBVIOUS
  <2> QED BY <1>1, <1>2, <1>3, <2>1, ReadIs
<1>6. Shape(sim) /\ AtEnd(sim)
  BY <1>5 DEF Shape, AtEnd
<1> QED BY <1>1, <1>6, EndHolds DEF SimStart, SimInv

\* The switches: what they put into the registers
LEMMA DepositIs ==
    ASSUME NEW s \in Regs, NEW w \in SimWords
    PROVE  /\ [writemem(s, s.dfld, s.pc, w) EXCEPT !.pc = Inc(s.pc), !.state = "NUL"] \in Regs
           /\ [writemem(s, s.dfld, s.pc, w) EXCEPT !.pc = Inc(s.pc), !.state = "NUL"].state = "NUL"
<1> DEFINE m == Stored(s.mem, s.dfld, s.pc, w)
           z == writemem(s, s.dfld, s.pc, w)
<1>1. s.mem \in Memories /\ s.dfld \in 0 .. 7 /\ s.pc \in SimWords /\ Inc(s.pc) \in SimWords
  BY AddressIs DEF Regs
<1>2. m \in Memories
  BY <1>1, StoredIs
<1>3. z = [s EXCEPT !.ea = s.dfld, !.ma = s.pc, !.mb = w, !.mem = m]
  BY DEF writemem
<1> HIDE DEF m, z
<1>4. z \in Regs
  BY <1>1, <1>2, <1>3 DEF Regs
<1>5. [z EXCEPT !.pc = Inc(s.pc), !.state = "NUL"] \in Regs /\ [z EXCEPT !.pc = Inc(s.pc), !.state = "NUL"].state = "NUL"
  BY <1>1, <1>4 DEF Regs, States
<1> QED BY <1>5 DEF z

\* What the switches can be set to
LEMMA SwitchesAre == Switches \subseteq SimWords /\ \A p \in FieldSwitches : p[1] \in 0 .. 7 /\ p[2] \in 0 .. 7
  BY SimAssumption

\* A step of the run thread
LEMMA SimStepInv == SimInv /\ SimStep => SimInv'
<1> SUFFICES ASSUME SimInv, SimStep PROVE SimInv'
  OBVIOUS
<1>1. PICK o \in singlestep(doing, swreg) :
          /\ sim' = o.regs /\ tested' = o.tested
          /\ runreg' = (runreg /\ ~ (AtEnd(doing) /\ Halts(o.regs)))
  BY DEF SimStep
<1>2. doing = sim /\ runthread' = "test" /\ caller' = caller /\ swreg' = swreg
  BY DEF SimInv, SimStep
<1>3. Shape(sim) /\ swreg \in SimWords /\ Holds(sim, tested)
  BY DEF SimInv
<1>4. Shape(o.regs) /\ Holds(o.regs, o.tested)
  BY <1>2, <1>3, StepFits
<1>5. runreg' \in BOOLEAN
  BY <1>1
<1>6. Shape(sim)' /\ Holds(sim, tested)'
  BY <1>1, <1>4 DEF Shape, Holds, Fits, Unknown, AtEnd, Near, AgreeButInh, Agree
<1> QED BY <1>2, <1>5, <1>6 DEF SimInv

\* A change of who is running alone
LEMMA StillInv ==
    ASSUME SimInv, UNCHANGED <<sim, swreg, tested, caller, runreg>>, runthread' # "step" \/ doing' = sim,
           runthread' = "step" /\ ~ runreg' => caller' # "idle"
    PROVE  SimInv'
  BY DEF SimInv

\* The run thread looks at the RUN flip-flop.
LEMMA RunTestInv == SimInv /\ RunTest => SimInv'
  BY DEF SimInv, RunTest, GoesOn

\* The caller has waited for it.
LEMMA JoinInv == SimInv /\ Join => SimInv'
  BY DEF SimInv, Join

\* The switches that are worked while the run thread is not running
LEMMA QuietIs ==
    ASSUME SimInv, Quiet, NEW step, Press(step)
    PROVE  runthread # "step"
  BY DEF SimInv, Quiet, Press

\* What the switches leave behind while nothing runs
LEMMA StoppedInv ==
    ASSUME SimInv, Quiet, NEW step, Press(step), ThenStop(step), UNCHANGED <<doing, runthread>>,
           Shape(sim'), AtEnd(sim'), tested' = Registers(sim'), swreg' \in SimWords
    PROVE  SimInv'
<1>1. Holds(sim', tested')
  BY EndHolds
<1>2. runthread' # "step"
  BY QuietIs
<1>3. caller' \in {"idle", "stop", "restart"} /\ runreg' \in BOOLEAN
  BY DEF SimInv, ThenStop
<1> QED BY <1>1, <1>2, <1>3 DEF SimInv

\* The simulator is between instructions after a switch.
LEMMA NulIs ==
    ASSUME NEW s \in Regs, s.state = "NUL"
    PROVE  Shape(s) /\ AtEnd(s)
  BY DEF Shape, AtEnd

\* Deposit, examine, load address
LEMMA DepositInv == ASSUME SimInv, NEW step, NEW sr \in SimWords, Deposit(step, sr) PROVE SimInv'
<1>1. sim \in Regs
  BY DEF SimInv, Shape
<1>2. sim' \in Regs /\ sim'.state = "NUL"
  BY <1>1, DepositIs DEF Deposit, Set
<1> QED BY <1>2, NulIs, StoppedInv DEF Deposit, Set

LEMMA ExamineInv == ASSUME SimInv, NEW step, NEW sr \in SimWords, Examine(step, sr) PROVE SimInv'
<1>1. sim \in Regs /\ sim.dfld \in 0 .. 7 /\ sim.pc \in SimWords /\ Inc(sim.pc) \in SimWords
  BY AddressIs DEF SimInv, Shape, Regs
<1> DEFINE z == readmem(sim, sim.dfld, sim.pc)
<1>2. z \in Regs
  BY <1>1, ReadIs
<1>3. sim' = [z EXCEPT !.pc = Inc(sim.pc), !.state = "NUL"]
  BY DEF Examine, Set
<1> HIDE DEF z
<1>4. sim' \in Regs /\ sim'.state = "NUL"
  BY <1>1, <1>2, <1>3 DEF Regs, States
<1> QED BY <1>4, NulIs, StoppedInv DEF Examine, Set

LEMMA LoadAddressInv ==
    ASSUME SimInv, NEW step, NEW sr \in SimWords, NEW i \in 0 .. 7, NEW d \in 0 .. 7,
           LoadAddress(step, sr, i, d)
    PROVE  SimInv'
<1> DEFINE z == [sim EXCEPT !.dfld = d, !.ifld = i, !.ifaj = i, !.pc = sr, !.state = "NUL"]
<1>1. z \in Regs /\ z.state = "NUL"
  BY DEF SimInv, Shape, Regs, States
<1>2. sim' = readmem(z, i, sr)
  BY DEF LoadAddress, Set
<1> HIDE DEF z
<1>3. sim' \in Regs /\ sim'.state = "NUL"
  BY <1>1, <1>2, ReadIs
<1> QED BY <1>3, NulIs, StoppedInv DEF LoadAddress, Set

\* CONT and START, that begin or step from regs
LEMMA ContSwitchInv ==
    ASSUME SimInv, NEW step, NEW sr \in SimWords, NEW regs, Shape(regs), AtEnd(regs) <=> AtEnd(sim),
           contswitch(regs, step, sr)
    PROVE  SimInv'
<1>1. runthread' # "step" /\ caller' \in {"idle", "stop", "restart"} /\ runreg' \in BOOLEAN
  BY QuietIs DEF contswitch
<1>2. Holds(sim, tested)
  BY DEF SimInv
<1>3. Shape(sim') /\ Holds(sim', tested') /\ swreg' \in SimWords
  <2>1. CASE step
    <3>1. PICK o \in singlestep(regs, sr) :
              /\ Set(o.regs, sr)
              /\ tested' = IF AtEnd(sim) \/ regs = sim THEN o.tested ELSE Unknown
      BY <2>1 DEF contswitch
    <3>2. Shape(o.regs) /\ (AtEnd(regs) \/ Holds(regs, tested) => Holds(o.regs, o.tested))
      BY StepFits
    <3>3. sim' = o.regs /\ swreg' = sr
      BY <3>1 DEF Set
    <3>4. CASE AtEnd(sim) \/ regs = sim
      BY <1>2, <3>1, <3>2, <3>3, <3>4
    <3>5. CASE ~ (AtEnd(sim) \/ regs = sim)
      <4>1. tested' = Unknown
        BY <3>1, <3>5
      <4> QED BY <3>2, <3>3, <4>1 DEF Holds
    <3> QED BY <3>4, <3>5
  <2>2. CASE ~ step
    <3>1. /\ sim' = regs /\ swreg' = sr
          /\ tested' = IF AtEnd(sim) THEN Registers(regs) ELSE IF regs = sim THEN tested ELSE Unknown
      BY <2>2 DEF contswitch, Set
    <3>2. CASE AtEnd(sim)
      BY <3>1, <3>2, EndHolds
    <3>3. CASE ~ AtEnd(sim) /\ regs = sim
      BY <1>2, <3>1, <3>3
    <3>4. CASE ~ AtEnd(sim) /\ regs # sim
      BY <3>1, <3>4 DEF Holds
    <3> QED BY <3>1, <3>2, <3>3, <3>4
  <2> QED BY <2>1, <2>2
<1> QED BY <1>1, <1>3 DEF SimInv

\* The switches that leave the registers alone
LEMMA OtherSwitchInv ==
    ASSUME SimInv, NEW stop \in BOOLEAN, NEW step \in BOOLEAN, NEW sr \in SimWords, OtherSwitch(stop, step, sr)
    PROVE  SimInv'
  BY DEF SimInv, OtherSwitch, Set, ThenStop, Press

\* Any switches
LEMMA WritePadsInv == SimInv /\ WritePads => SimInv'
<1> SUFFICES ASSUME SimInv, NEW step \in BOOLEAN, NEW sr \in Switches,
                    \/ Deposit(step, sr) \/ Examine(step, sr)
                    \/ \E fields \in FieldSwitches : LoadAddress(step, sr, fields[1], fields[2])
                    \/ contswitch(sim, step, sr)
                    \/ contswitch([sim EXCEPT !.ac = 0, !.link = 0], step, sr)
                    \/ \E stop \in BOOLEAN : OtherSwitch(stop, step, sr)
             PROVE  SimInv'
  BY DEF WritePads
<1>1. sr \in SimWords
  BY SwitchesAre
<1>2. CASE \E fields \in FieldSwitches : LoadAddress(step, sr, fields[1], fields[2])
  BY <1>1, <1>2, SwitchesAre, LoadAddressInv
<1>3. CASE contswitch(sim, step, sr)
  <2>1. Shape(sim)
    BY DEF SimInv
  <2> QED BY <1>1, <1>3, <2>1, ContSwitchInv
<1>4. CASE contswitch([sim EXCEPT !.ac = 0, !.link = 0], step, sr)
  <2> DEFINE regs == [sim EXCEPT !.ac = 0, !.link = 0]
  <2>1. sim \in Regs /\ 0 \in SimWords /\ 0 \in Flag
    BY DEF SimInv, Shape, SimWords, Flag
  <2>2. regs \in Regs /\ regs.state = sim.state /\ regs.ir = sim.ir /\ regs.mb = sim.mb
    BY <2>1 DEF Regs
  <2> HIDE DEF regs
  <2>3. Shape(regs) /\ (AtEnd(regs) <=> AtEnd(sim))
    BY <2>2 DEF SimInv, Shape, AtEnd
  <2>4. contswitch(regs, step, sr)
    BY <1>4 DEF regs
  <2> QED BY <1>1, <2>3, <2>4, ContSwitchInv
<1>5. CASE \E stop \in BOOLEAN : OtherSwitch(stop, step, sr)
  BY <1>1, <1>5, OtherSwitchInv
<1> QED BY <1>1, <1>2, <1>3, <1>4, <1>5, DepositInv, ExamineInv

\* At the end of every instruction and of every interrupt, run or stepped
\* through, the accumulator, link, program counter, fields, interrupt
\* flip-flops and memory of simlib.cc are those that z8lsimtest.cc expects of
\* the machine, whatever memory holds; and writepads changes nothing while the
\* run thread is between taking the registers and putting them back.
THEOREM SimIsRight == SimSpec => []SimRight
<1>1. SimInv /\ [SimNext]_simVars => SimInv'
  <2> SUFFICES ASSUME SimInv, [SimNext]_simVars PROVE SimInv'
    OBVIOUS
  <2>1. CASE UNCHANGED simVars
    BY <2>1 DEF SimInv, simVars
  <2> QED BY <2>1, SimStepInv, RunTestInv, WritePadsInv, JoinInv DEF SimNext
<1>2. SimInv => SimRight
  <2> SUFFICES ASSUME SimInv PROVE SimRight
    OBVIOUS
  <2>1. SwitchesWait
    BY DEF SimInv, SwitchesWait
  <2>2. ASSUME AtEnd(sim), tested # Unknown PROVE Registers(sim) = tested
    <3>1. sim \in Regs /\ tested \in TestRegs /\ Agree(sim, tested)
      BY <2>2 DEF SimInv, Shape, Holds, Fits
    <3> QED BY <3>1, Agreed
  <2> QED BY <2>1, <2>2 DEF SimRight, SimAsTested
<1> QED BY SimInitInv, <1>1, <1>2, PTL DEF SimSpec

-----------------------------------------------------------------------------
(* The assembler: words and their bits again. *)

\* A word's digits are its own.
LEMMA DigitsSame ==
    ASSUME NEW b \in [1 .. 12 -> 0 .. 1], NEW c \in [1 .. 12 -> 0 .. 1],
           TwelveDigits(b) = TwelveDigits(c)
    PROVE  b = c
<1> DEFINE b1 == b[1]
           c1 == c[1]
           b2 == b[2]
           c2 == c[2]
           b3 == b[3]
           c3 == c[3]
           b4 == b[4]
           c4 == c[4]
           b5 == b[5]
           c5 == c[5]
           b6 == b[6]
           c6 == c[6]
           b7 == b[7]
           c7 == c[7]
           b8 == b[8]
           c8 == c[8]
           b9 == b[9]
           c9 == c[9]
           b10 == b[10]
           c10 == c[10]
           b11 == b[11]
           c11 == c[11]
           b12 == b[12]
           c12 == c[12]
<1>1. /\ b1 \in 0 .. 1 /\ c1 \in 0 .. 1
      /\ b2 \in 0 .. 1 /\ c2 \in 0 .. 1
      /\ b3 \in 0 .. 1 /\ c3 \in 0 .. 1
      /\ b4 \in 0 .. 1 /\ c4 \in 0 .. 1
      /\ b5 \in 0 .. 1 /\ c5 \in 0 .. 1
      /\ b6 \in 0 .. 1 /\ c6 \in 0 .. 1
      /\ b7 \in 0 .. 1 /\ c7 \in 0 .. 1
      /\ b8 \in 0 .. 1 /\ c8 \in 0 .. 1
      /\ b9 \in 0 .. 1 /\ c9 \in 0 .. 1
      /\ b10 \in 0 .. 1 /\ c10 \in 0 .. 1
      /\ b11 \in 0 .. 1 /\ c11 \in 0 .. 1
      /\ b12 \in 0 .. 1 /\ c12 \in 0 .. 1
  OBVIOUS
<1>2. 2048 * b1 + 1024 * b2 + 512 * b3 + 256 * b4 + 128 * b5 + 64 * b6 + 32 * b7 + 16 * b8 + 8 * b9 + 4 * b10 + 2 * b11 + b12
      = 2048 * c1 + 1024 * c2 + 512 * c3 + 256 * c4 + 128 * c5 + 64 * c6 + 32 * c7 + 16 * c8 + 8 * c9 + 4 * c10 + 2 * c11 + c12
  BY DEF TwelveDigits
<1> HIDE DEF b1, c1, b2, c2, b3, c3, b4, c4, b5, c5, b6, c6, b7, c7, b8, c8, b9, c9, b10, c10, b11, c11, b12, c12
<1>3. b12 = c12 /\ b11 = c11 /\ b10 = c10 /\ b9 = c9 /\ b8 = c8 /\ b7 = c7 /\ b6 = c6 /\ b5 = c5 /\ b4 = c4 /\ b3 = c3 /\ b2 = c2 /\ b1 = c1
  BY <1>1, <1>2
<1>4. \A n \in 1 .. 12 : b[n] = c[n]
  <2> TAKE n \in 1 .. 12
  <2>1. n \in {1, 2, 3, 4, 5, 6, 7, 8, 9, 10, 11, 12}
    OBVIOUS
  <2> QED BY <1>3, <2>1 DEF b1, c1, b2, c2, b3, c3, b4, c4, b5, c5, b6, c6, b7, c7, b8, c8, b9, c9, b10, c10, b11, c11, b12, c12
<1> QED BY <1>4

\* Two words with the same bits are the same; a word's digits are its bits.
LEMMA SameBits ==
    ASSUME NEW x \in SimWords, NEW y \in SimWords, \A n \in 1 .. 12 : Bit(x, n) = Bit(y, n)
    PROVE  x = y
<1>1. [n \in 1 .. 12 |-> Bit(x, n)] = [n \in 1 .. 12 |-> Bit(y, n)]
  OBVIOUS
<1> QED BY Zenon, <1>1, WordDigits

LEMMA BitsOfDigits ==
    ASSUME NEW b \in [1 .. 12 -> 0 .. 1], NEW n \in 1 .. 12
    PROVE  Bit(TwelveDigits(b), n) = b[n] /\ TwelveDigits(b) \in SimWords
<1> DEFINE x == TwelveDigits(b)
           c == [k \in 1 .. 12 |-> Bit(x, k)]
<1>1. x \in SimWords
  BY Zenon, WordOfIs
<1>2. (\A k \in 1 .. 12 : Bit(x, k) \in 0 .. 1) /\ x = TwelveDigits(c)
  BY Zenon, <1>1, WordDigits
<1>3. c \in [1 .. 12 -> 0 .. 1]
  BY <1>2
<1> HIDE DEF x, c
<1>4. TwelveDigits(b) = TwelveDigits(c)
  BY <1>2 DEF x
<1>5. b = c
  BY Zenon, <1>3, <1>4, DigitsSame
<1>6. b[n] = Bit(x, n)
  BY <1>5 DEF c
<1> QED BY <1>1, <1>6 DEF x

\* w | v has the bits of both: the recursion of WithBits, unfolded.
LEMMA WithBitsIs ==
    ASSUME NEW x \in SimWords, NEW y \in SimWords
    PROVE  /\ WithBits(x, y) \in SimWords
           /\ \A n \in 1 .. 12 : Bit(WithBits(x, y), n) = 1 <=> Bit(x, n) = 1 \/ Bit(y, n) = 1
<1> DEFINE g(n) == IF BitSet(x, 2 ^ (n - 1)) \/ BitSet(y, 2 ^ (n - 1)) THEN 2 ^ (n - 1) ELSE 0
           F(f) == [n \in 0 .. 12 |-> IF n = 0 THEN 0 ELSE f[n - 1] + g(n)]
           w == CHOOSE f : f = F(f)
           d == [n \in 1 .. 12 |-> IF Bit(x, n) = 1 \/ Bit(y, n) = 1 THEN 1 ELSE 0]
           s1 == g(1)
           s2 == s1 + g(2)
           s3 == s2 + g(3)
           s4 == s3 + g(4)
           s5 == s4 + g(5)
           s6 == s5 + g(6)
           s7 == s6 + g(7)
           s8 == s7 + g(8)
           s9 == s8 + g(9)
           s10 == s9 + g(10)
           s11 == s10 + g(11)
           s12 == s11 + g(12)
           v == <<s1, s2, s3, s4, s5, s6, s7, s8, s9, s10, s11, s12>>
           u == [n \in 0 .. 12 |-> IF n = 0 THEN 0 ELSE v[n]]
<1>1. w[12] = WithBits(x, y)
  BY DEF WithBits
<1>2. /\ g(1) = 1 * d[12] /\ d[12] \in 0 .. 1
      /\ g(2) = 2 * d[11] /\ d[11] \in 0 .. 1
      /\ g(3) = 4 * d[10] /\ d[10] \in 0 .. 1
      /\ g(4) = 8 * d[9] /\ d[9] \in 0 .. 1
      /\ g(5) = 16 * d[8] /\ d[8] \in 0 .. 1
      /\ g(6) = 32 * d[7] /\ d[7] \in 0 .. 1
      /\ g(7) = 64 * d[6] /\ d[6] \in 0 .. 1
      /\ g(8) = 128 * d[5] /\ d[5] \in 0 .. 1
      /\ g(9) = 256 * d[4] /\ d[4] \in 0 .. 1
      /\ g(10) = 512 * d[3] /\ d[3] \in 0 .. 1
      /\ g(11) = 1024 * d[2] /\ d[2] \in 0 .. 1
      /\ g(12) = 2048 * d[1] /\ d[1] \in 0 .. 1
  <2>1. g(1) = 1 * d[12] /\ d[12] \in 0 .. 1
    <3>1. 2 ^ (1 - 1) = 1 /\ 2 ^ (12 - 12) = 1
      OBVIOUS
    <3>2. BitSet(x, 1) <=> Bit(x, 12) = 1
      BY <3>1 DEF BitSet, Bit
    <3>3. BitSet(y, 1) <=> Bit(y, 12) = 1
      BY <3>1 DEF BitSet, Bit
    <3>4. 1 * 1 = 1 /\ 1 * 0 = 0 /\ 1 \in 0 .. 1 /\ 0 \in 0 .. 1 /\ 12 \in 1 .. 12
      OBVIOUS
    <3> QED BY <3>1, <3>2, <3>3, <3>4
  <2>2. g(2) = 2 * d[11] /\ d[11] \in 0 .. 1
    <3>1. 2 ^ (2 - 1) = 2 /\ 2 ^ (12 - 11) = 2
      OBVIOUS
    <3>2. BitSet(x, 2) <=> Bit(x, 11) = 1
      BY <3>1 DEF BitSet, Bit
    <3>3. BitSet(y, 2) <=> Bit(y, 11) = 1
      BY <3>1 DEF BitSet, Bit
    <3>4. 2 * 1 = 2 /\ 2 * 0 = 0 /\ 1 \in 0 .. 1 /\ 0 \in 0 .. 1 /\ 11 \in 1 .. 12
      OBVIOUS
    <3> QED BY <3>1, <3>2, <3>3, <3>4
  <2>3. g(3) = 4 * d[10] /\ d[10] \in 0 .. 1
    <3>1. 2 ^ (3 - 1) = 4 /\ 2 ^ (12 - 10) = 4
      OBVIOUS
    <3>2. BitSet(x, 4) <=> Bit(x, 10) = 1
      BY <3>1 DEF BitSet, Bit
    <3>3. BitSet(y, 4) <=> Bit(y, 10) = 1
      BY <3>1 DEF BitSet, Bit
    <3>4. 4 * 1 = 4 /\ 4 * 0 = 0 /\ 1 \in 0 .. 1 /\ 0 \in 0 .. 1 /\ 10 \in 1 .. 12
      OBVIOUS
    <3> QED BY <3>1, <3>2, <3>3, <3>4
  <2>4. g(4) = 8 * d[9] /\ d[9] \in 0 .. 1
    <3>1. 2 ^ (4 - 1) = 8 /\ 2 ^ (12 - 9) = 8
      OBVIOUS
    <3>2. BitSet(x, 8) <=> Bit(x, 9) = 1
      BY <3>1 DEF BitSet, Bit
    <3>3. BitSet(y, 8) <=> Bit(y, 9) = 1
      BY <3>1 DEF BitSet, Bit
    <3>4. 8 * 1 = 8 /\ 8 * 0 = 0 /\ 1 \in 0 .. 1 /\ 0 \in 0 .. 1 /\ 9 \in 1 .. 12
      OBVIOUS
    <3> QED BY <3>1, <3>2, <3>3, <3>4
  <2>5. g(5) = 16 * d[8] /\ d[8] \in 0 .. 1
    <3>1. 2 ^ (5 - 1) = 16 /\ 2 ^ (12 - 8) = 16
      OBVIOUS
    <3>2. BitSet(x, 16) <=> Bit(x, 8) = 1
      BY <3>1 DEF BitSet, Bit
    <3>3. BitSet(y, 16) <=> Bit(y, 8) = 1
      BY <3>1 DEF BitSet, Bit
    <3>4. 16 * 1 = 16 /\ 16 * 0 = 0 /\ 1 \in 0 .. 1 /\ 0 \in 0 .. 1 /\ 8 \in 1 .. 12
      OBVIOUS
    <3> QED BY <3>1, <3>2, <3>3, <3>4
  <2>6. g(6) = 32 * d[7] /\ d[7] \in 0 .. 1
    <3>1. 2 ^ (6 - 1) = 32 /\ 2 ^ (12 - 7) = 32
      OBVIOUS
    <3>2. BitSet(x, 32) <=> Bit(x, 7) = 1
      BY <3>1 DEF BitSet, Bit
    <3>3. BitSet(y, 32) <=> Bit(y, 7) = 1
      BY <3>1 DEF BitSet, Bit
    <3>4. 32 * 1 = 32 /\ 32 * 0 = 0 /\ 1 \in 0 .. 1 /\ 0 \in 0 .. 1 /\ 7 \in 1 .. 12
      OBVIOUS
    <3> QED BY <3>1, <3>2, <3>3, <3>4
  <2>7. g(7) = 64 * d[6] /\ d[6] \in 0 .. 1
    <3>1. 2 ^ (7 - 1) = 64 /\ 2 ^ (12 - 6) = 64
      OBVIOUS
    <3>2. BitSet(x, 64) <=> Bit(x, 6) = 1
      BY <3>1 DEF BitSet, Bit
    <3>3. BitSet(y, 64) <=> Bit(y, 6) = 1
      BY <3>1 DEF BitSet, Bit
    <3>4. 64 * 1 = 64 /\ 64 * 0 = 0 /\ 1 \in 0 .. 1 /\ 0 \in 0 .. 1 /\ 6 \in 1 .. 12
      OBVIOUS
    <3> QED BY <3>1, <3>2, <3>3, <3>4
  <2>8. g(8) = 128 * d[5] /\ d[5] \in 0 .. 1
    <3>1. 2 ^ (8 - 1) = 128 /\ 2 ^ (12 - 5) = 128
      OBVIOUS
    <3>2. BitSet(x, 128) <=> Bit(x, 5) = 1
      BY <3>1 DEF BitSet, Bit
    <3>3. BitSet(y, 128) <=> Bit(y, 5) = 1
      BY <3>1 DEF BitSet, Bit
    <3>4. 128 * 1 = 128 /\ 128 * 0 = 0 /\ 1 \in 0 .. 1 /\ 0 \in 0 .. 1 /\ 5 \in 1 .. 12
      OBVIOUS
    <3> QED BY <3>1, <3>2, <3>3, <3>4
  <2>9. g(9) = 256 * d[4] /\ d[4] \in 0 .. 1
    <3>1. 2 ^ (9 - 1) = 256 /\ 2 ^ (12 - 4) = 256
      OBVIOUS
    <3>2. BitSet(x, 256) <=> Bit(x, 4) = 1
      BY <3>1 DEF BitSet, Bit
    <3>3. BitSet(y, 256) <=> Bit(y, 4) = 1
      BY <3>1 DEF BitSet, Bit
    <3>4. 256 * 1 = 256 /\ 256 * 0 = 0 /\ 1 \in 0 .. 1 /\ 0 \in 0 .. 1 /\ 4 \in 1 .. 12
      OBVIOUS
    <3> QED BY <3>1, <3>2, <3>3, <3>4
  <2>10. g(10) = 512 * d[3] /\ d[3] \in 0 .. 1
    <3>1. 2 ^ (10 - 1) = 512 /\ 2 ^ (12 - 3) = 512
      OBVIOUS
    <3>2. BitSet(x, 512) <=> Bit(x, 3) = 1
      BY <3>1 DEF BitSet, Bit
    <3>3. BitSet(y, 512) <=> Bit(y, 3) = 1
      BY <3>1 DEF BitSet, Bit
    <3>4. 512 * 1 = 512 /\ 512 * 0 = 0 /\ 1 \in 0 .. 1 /\ 0 \in 0 .. 1 /\ 3 \in 1 .. 12
      OBVIOUS
    <3> QED BY <3>1, <3>2, <3>3, <3>4
  <2>11. g(11) = 1024 * d[2] /\ d[2] \in 0 .. 1
    <3>1. 2 ^ (11 - 1) = 1024 /\ 2 ^ (12 - 2) = 1024
      OBVIOUS
    <3>2. BitSet(x, 1024) <=> Bit(x, 2) = 1
      BY <3>1 DEF BitSet, Bit
    <3>3. BitSet(y, 1024) <=> Bit(y, 2) = 1
      BY <3>1 DEF BitSet, Bit
    <3>4. 1024 * 1 = 1024 /\ 1024 * 0 = 0 /\ 1 \in 0 .. 1 /\ 0 \in 0 .. 1 /\ 2 \in 1 .. 12
      OBVIOUS
    <3> QED BY <3>1, <3>2, <3>3, <3>4
  <2>12. g(12) = 2048 * d[1] /\ d[1] \in 0 .. 1
    <3>1. 2 ^ (12 - 1) = 2048 /\ 2 ^ (12 - 1) = 2048
      OBVIOUS
    <3>2. BitSet(x, 2048) <=> Bit(x, 1) = 1
      BY <3>1 DEF BitSet, Bit
    <3>3. BitSet(y, 2048) <=> Bit(y, 1) = 1
      BY <3>1 DEF BitSet, Bit
    <3>4. 2048 * 1 = 2048 /\ 2048 * 0 = 0 /\ 1 \in 0 .. 1 /\ 0 \in 0 .. 1 /\ 1 \in 1 .. 12
      OBVIOUS
    <3> QED BY <3>1, <3>2, <3>3, <3>4
  <2> QED BY <2>1, <2>2, <2>3, <2>4, <2>5, <2>6, <2>7, <2>8, <2>9, <2>10, <2>11, <2>12
<1> HIDE DEF g
<1>3. u = F(u)
  <2>1. \A n \in 0 .. 12 : u[n] = IF n = 0 THEN 0 ELSE u[n - 1] + g(n)
    <3> TAKE n \in 0 .. 12
    <3>1. n \in {0, 1, 2, 3, 4, 5, 6, 7, 8, 9, 10, 11, 12}
      OBVIOUS
    <3>2. 0 + g(1) = g(1)
      BY <1>2
    <3> QED BY <3>1, <3>2
  <2> QED BY <2>1
<1>4. w = F(w)
  BY <1>3
<1> HIDE DEF w
<1>5. w[0] = 0 /\ \A n \in 1 .. 12 : w[n] = w[n - 1] + g(n)
  BY <1>4
<1>6. WithBits(x, y) = TwelveDigits(d)
  <2> HIDE DEF d
  <2>1. w[1] = d[12] /\ w[1] \in Nat
    <3>1. w[1] = w[0] + g(1)
      BY <1>5
    <3> QED BY <1>5, <1>2, <3>1
  <2>2. w[2] = d[12] + 2 * d[11] /\ w[2] \in Nat
    <3>1. w[2] = w[1] + g(2)
      BY <1>5
    <3> QED BY <1>2, <2>1, <3>1
  <2>3. w[3] = d[12] + 2 * d[11] + 4 * d[10] /\ w[3] \in Nat
    <3>1. w[3] = w[2] + g(3)
      BY <1>5
    <3> QED BY <1>2, <2>2, <3>1
  <2>4. w[4] = d[12] + 2 * d[11] + 4 * d[10] + 8 * d[9] /\ w[4] \in Nat
    <3>1. w[4] = w[3] + g(4)
      BY <1>5
    <3> QED BY <1>2, <2>3, <3>1
  <2>5. w[5] = d[12] + 2 * d[11] + 4 * d[10] + 8 * d[9] + 16 * d[8] /\ w[5] \in Nat
    <3>1. w[5] = w[4] + g(5)
      BY <1>5
    <3> QED BY <1>2, <2>4, <3>1
  <2>6. w[6] = d[12] + 2 * d[11] + 4 * d[10] + 8 * d[9] + 16 * d[8] + 32 * d[7] /\ w[6] \in Nat
    <3>1. w[6] = w[5] + g(6)
      BY <1>5
    <3> QED BY <1>2, <2>5, <3>1
  <2>7. w[7] = d[12] + 2 * d[11] + 4 * d[10] + 8 * d[9] + 16 * d[8] + 32 * d[7] + 64 * d[6] /\ w[7] \in Nat
    <3>1. w[7] = w[6] + g(7)
      BY <1>5
    <3> QED BY <1>2, <2>6, <3>1
  <2>8. w[8] = d[12] + 2 * d[11] + 4 * d[10] + 8 * d[9] + 16 * d[8] + 32 * d[7] + 64 * d[6] + 128 * d[5] /\ w[8] \in Nat
    <3>1. w[8] = w[7] + g(8)
      BY <1>5
    <3> QED BY <1>2, <2>7, <3>1
  <2>9. w[9] = d[12] + 2 * d[11] + 4 * d[10] + 8 * d[9] + 16 * d[8] + 32 * d[7] + 64 * d[6] + 128 * d[5] + 256 * d[4] /\ w[9] \in Nat
    <3>1. w[9] = w[8] + g(9)
      BY <1>5
    <3> QED BY <1>2, <2>8, <3>1
  <2>10. w[10] = d[12] + 2 * d[11] + 4 * d[10] + 8 * d[9] + 16 * d[8] + 32 * d[7] + 64 * d[6] + 128 * d[5] + 256 * d[4] + 512 * d[3] /\ w[10] \in Nat
    <3>1. w[10] = w[9] + g(10)
      BY <1>5
    <3> QED BY <1>2, <2>9, <3>1
  <2>11. w[11] = d[12] + 2 * d[11] + 4 * d[10] + 8 * d[9] + 16 * d[8] + 32 * d[7] + 64 * d[6] + 128 * d[5] + 256 * d[4] + 512 * d[3] + 1024 * d[2] /\ w[11] \in Nat
    <3>1. w[11] = w[10] + g(11)
      BY <1>5
    <3> QED BY <1>2, <2>10, <3>1
  <2>12. w[12] = d[12] + 2 * d[11] + 4 * d[10] + 8 * d[9] + 16 * d[8] + 32 * d[7] + 64 * d[6] + 128 * d[5] + 256 * d[4] + 512 * d[3] + 1024 * d[2] + 2048 * d[1] /\ w[12] \in Nat
    <3>1. w[12] = w[11] + g(12)
      BY <1>5
    <3> QED BY <1>2, <2>11, <3>1
  <2> DEFINE e1 == d[1]
             e2 == d[2]
             e3 == d[3]
             e4 == d[4]
             e5 == d[5]
             e6 == d[6]
             e7 == d[7]
             e8 == d[8]
             e9 == d[9]
             e10 == d[10]
             e11 == d[11]
             e12 == d[12]
  <2>13. e1 \in Int /\ e2 \in Int /\ e3 \in Int /\ e4 \in Int /\ e5 \in Int /\ e6 \in Int /\ e7 \in Int /\ e8 \in Int /\ e9 \in Int /\ e10 \in Int /\ e11 \in Int /\ e12 \in Int
    BY <1>2
  <2>14. TwelveDigits(d) = 2048 * e1 + 1024 * e2 + 512 * e3 + 256 * e4 + 128 * e5 + 64 * e6 + 32 * e7 + 16 * e8 + 8 * e9 + 4 * e10 + 2 * e11 + e12
    BY DEF TwelveDigits
  <2>15. w[12] = e12 + 2 * e11 + 4 * e10 + 8 * e9 + 16 * e8 + 32 * e7 + 64 * e6 + 128 * e5 + 256 * e4 + 512 * e3 + 1024 * e2 + 2048 * e1
    BY <2>12
  <2> HIDE DEF e1, e2, e3, e4, e5, e6, e7, e8, e9, e10, e11, e12
  <2>16. 2048 * e1 + 1024 * e2 + 512 * e3 + 256 * e4 + 128 * e5 + 64 * e6 + 32 * e7 + 16 * e8 + 8 * e9 + 4 * e10 + 2 * e11 + e12 = e12 + 2 * e11 + 4 * e10 + 8 * e9 + 16 * e8 + 32 * e7 + 64 * e6 + 128 * e5 + 256 * e4 + 512 * e3 + 1024 * e2 + 2048 * e1
    BY <2>13
  <2> QED BY <1>1, <2>13, <2>14, <2>15
<1>7. d \in [1 .. 12 -> 0 .. 1]
  OBVIOUS
<1>8. ASSUME NEW n \in 1 .. 12
      PROVE  Bit(WithBits(x, y), n) = 1 <=> Bit(x, n) = 1 \/ Bit(y, n) = 1
  <2>1. Bit(WithBits(x, y), n) = d[n]
    BY Zenon, <1>6, <1>7, BitsOfDigits
  <2>2. d[n] = IF Bit(x, n) = 1 \/ Bit(y, n) = 1 THEN 1 ELSE 0
    OBVIOUS
  <2> QED BY <2>1, <2>2
<1>9. WithBits(x, y) \in SimWords
  BY Zenon, <1>6, <1>7, WordOfIs
<1> QED BY <1>8, <1>9

-----------------------------------------------------------------------------
(* A line of micro operations is what seven slots hold, one after the other. *)

MicroNames == Gr1 \cup Gr2
MicroTokens == [is : {"symbol", "delim"}, name : MicroNames \cup {"+", "*"}]
MicroLines == Seq(MicroTokens)

\* The group, and whether the skips are reversed
InGroup2(w) == Bit(w, 4) = 1
Reversed(w) == Bit(w, 9) = 1
RotateOf(w) == (w \div 2) % 8

SlotName(w, i) ==
    IF InGroup2(w)
    THEN CASE i = 1 -> IF Reversed(w) THEN "SPA" ELSE "SMA"
           [] i = 2 -> IF Reversed(w) THEN "SNA" ELSE "SZA"
           [] i = 3 -> IF Reversed(w) THEN "SZL" ELSE "SNL"
           [] i = 4 -> "SKP" [] i = 5 -> "CLA" [] i = 6 -> "OSR" [] i = 7 -> "HLT"
    ELSE CASE i = 1 -> "CLA" [] i = 2 -> "CLL" [] i = 3 -> "CMA" [] i = 4 -> "CML"
           [] i = 5 -> "IAC" [] i = 6 -> Rotates[RotateOf(w)] [] i = 7 -> "HLT"
SlotOn(w, i) ==
    IF InGroup2(w)
    THEN \/ i = 1 /\ Bit(w, 6) = 1
         \/ i = 2 /\ Bit(w, 7) = 1
         \/ i = 3 /\ Bit(w, 8) = 1
         \/ i = 4 /\ Reversed(w) /\ Bit(w, 6) # 1 /\ Bit(w, 7) # 1 /\ Bit(w, 8) # 1
         \/ i = 5 /\ Bit(w, 5) = 1
         \/ i = 6 /\ Bit(w, 10) = 1
         \/ i = 7 /\ Bit(w, 11) = 1
    ELSE \/ i = 1 /\ Bit(w, 5) = 1
         \/ i = 2 /\ Bit(w, 6) = 1
         \/ i = 3 /\ Bit(w, 7) = 1
         \/ i = 4 /\ Bit(w, 8) = 1
         \/ i = 5 /\ Bit(w, 12) = 1
         \/ i = 6 /\ RotateOf(w) # 0

\* A skip is joined to the next one.
SlotJoined(w, i) ==
    InGroup2(w) /\ \/ i = 1 /\ (Bit(w, 7) = 1 \/ Bit(w, 8) = 1)
                   \/ i = 2 /\ Bit(w, 8) = 1
SlotDelim(w) == Delim(IF Reversed(w) THEN "*" ELSE "+")

SlotItem(w, i) ==
    IF ~SlotOn(w, i) THEN << >>
    ELSE IF SlotJoined(w, i) THEN <<Sym(SlotName(w, i)), SlotDelim(w)>>
    ELSE <<Sym(SlotName(w, i))>>

\* What is left of the line from slot i
Left7(w) == SlotItem(w, 7)
Left6(w) == SlotItem(w, 6) \o Left7(w)
Left5(w) == SlotItem(w, 5) \o Left6(w)
Left4(w) == SlotItem(w, 4) \o Left5(w)
Left3(w) == SlotItem(w, 3) \o Left4(w)
Left2(w) == SlotItem(w, 2) \o Left3(w)
Left1(w) == SlotItem(w, 1) \o Left2(w)
LeftOf(w, i) ==
    CASE i = 1 -> Left1(w) [] i = 2 -> Left2(w) [] i = 3 -> Left3(w) [] i = 4 -> Left4(w)
      [] i = 5 -> Left5(w) [] i = 6 -> Left6(w) [] i = 7 -> Left7(w) [] i = 8 -> << >>

\* The words that are assembled from micro operations, with no rotate but the five
MicroWords == {w \in \o7000 .. \o7777 : InGroup2(w) \/ RotateOf(w) < 6}

\* The bits by number and by mask are the same.
LEMMA NumBits ==
    ASSUME NEW w
    PROVE  /\ (BitSet(w, 256) <=> Bit(w, 4) = 1) /\ (BitSet(w, 128) <=> Bit(w, 5) = 1)
           /\ (BitSet(w, 64) <=> Bit(w, 6) = 1) /\ (BitSet(w, 32) <=> Bit(w, 7) = 1)
           /\ (BitSet(w, 16) <=> Bit(w, 8) = 1) /\ (BitSet(w, 8) <=> Bit(w, 9) = 1)
           /\ (BitSet(w, 4) <=> Bit(w, 10) = 1) /\ (BitSet(w, 2) <=> Bit(w, 11) = 1)
           /\ (BitSet(w, 1) <=> Bit(w, 12) = 1)
<1>1. 2 ^ (12 - 4) = 256
  OBVIOUS
<1>2. 2 ^ (12 - 5) = 128
  OBVIOUS
<1>3. 2 ^ (12 - 6) = 64
  OBVIOUS
<1>4. 2 ^ (12 - 7) = 32
  OBVIOUS
<1>5. 2 ^ (12 - 8) = 16
  OBVIOUS
<1>6. 2 ^ (12 - 9) = 8
  OBVIOUS
<1>7. 2 ^ (12 - 10) = 4
  OBVIOUS
<1>8. 2 ^ (12 - 11) = 2
  OBVIOUS
<1>9. 2 ^ (12 - 12) = 1
  OBVIOUS
<1> QED BY <1>1, <1>2, <1>3, <1>4, <1>5, <1>6, <1>7, <1>8, <1>9 DEF BitSet, Bit

\* Names and tokens are what they are meant to be.
LEMMA SlotTypes ==
    ASSUME NEW w \in MicroWords, NEW i \in 1 .. 7
    PROVE  /\ SlotOn(w, i) => SlotName(w, i) \in MicroNames /\ Sym(SlotName(w, i)) \in MicroTokens
           /\ SlotDelim(w) \in MicroTokens
           /\ SlotItem(w, i) \in Seq(MicroTokens)
<1>1. SlotOn(w, i) => SlotName(w, i) \in MicroNames
  <2>1. i \in {1, 2, 3, 4, 5, 6, 7}
    OBVIOUS
  <2>2. CASE InGroup2(w)
    BY <2>1, <2>2 DEF SlotName, MicroNames, Gr2, Positive, Negative
  <2>3. CASE ~InGroup2(w) /\ i # 6
    BY <2>1, <2>3 DEF SlotName, SlotOn, MicroNames, Gr1, Gr2, Seq1, Seq2, Seq3
  <2>4. CASE ~InGroup2(w) /\ i = 6
    <3>1. RotateOf(w) \in 0 .. 5
      <4>1. w \in Nat
        BY DEF MicroWords
      <4> QED BY <2>4, <4>1 DEF MicroWords, RotateOf
    <3>2. RotateOf(w) # 0 => Rotates[RotateOf(w)] \in Seq4
      BY <3>1 DEF Rotates, Seq4
    <3> QED BY <2>4, <3>2 DEF SlotName, SlotOn, MicroNames, Gr1
  <2> QED BY <2>2, <2>3, <2>4
<1>2. SlotDelim(w) \in MicroTokens
  BY DEF SlotDelim, Delim, MicroTokens
<1>3. SlotOn(w, i) => Sym(SlotName(w, i)) \in MicroTokens
  BY <1>1 DEF Sym, MicroTokens
<1>4. SlotItem(w, i) \in Seq(MicroTokens)
  <2> DEFINE x == Sym(SlotName(w, i))
             d == SlotDelim(w)
  <2>1. SlotItem(w, i) = IF ~SlotOn(w, i) THEN << >> ELSE IF SlotJoined(w, i) THEN <<x, d>> ELSE <<x>>
    BY Zenon DEF SlotItem
  <2> HIDE DEF x, d
  <2>2. << >> \in Seq(MicroTokens) /\ (x \in MicroTokens => <<x>> \in Seq(MicroTokens))
        /\ (x \in MicroTokens /\ d \in MicroTokens => <<x, d>> \in Seq(MicroTokens))
    OBVIOUS
  <2>3. (SlotOn(w, i) => x \in MicroTokens) /\ d \in MicroTokens
    BY <1>2, <1>3 DEF x, d
  <2> QED BY Zenon, <2>1, <2>2, <2>3
<1> QED BY <1>1, <1>2, <1>3, <1>4

\* The line from slot i begins with the slot's own tokens.
LEMMA LeftStep ==
    ASSUME NEW w \in MicroWords
    PROVE  /\ \A i \in 1 .. 8 : LeftOf(w, i) \in Seq(MicroTokens)
           /\ \A i \in 1 .. 7 : LeftOf(w, i) = SlotItem(w, i) \o LeftOf(w, i + 1)
<1> DEFINE S == Seq(MicroTokens)
<1>1. << >> \in S /\ \A a \in S, b \in S : a \o b \in S
  BY ConcatProperties
<1>2. \A a \in S : a \o << >> = a
  BY ConcatEmptySeq
<1>3. \A i \in 1 .. 7 : SlotItem(w, i) \in S
  BY SlotTypes
<1> HIDE DEF S
<1>4. SlotItem(w, 1) \in S /\ SlotItem(w, 2) \in S /\ SlotItem(w, 3) \in S /\ SlotItem(w, 4) \in S
      /\ SlotItem(w, 5) \in S /\ SlotItem(w, 6) \in S /\ SlotItem(w, 7) \in S
  BY <1>3
<1>5. Left7(w) \in S /\ Left7(w) = SlotItem(w, 7) \o << >>
  BY Zenon, <1>2, <1>4 DEF Left7
<1>6. Left6(w) \in S
  BY Zenon, <1>1, <1>4, <1>5 DEF Left6
<1>7. Left5(w) \in S
  BY Zenon, <1>1, <1>4, <1>6 DEF Left5
<1>8. Left4(w) \in S
  BY Zenon, <1>1, <1>4, <1>7 DEF Left4
<1>9. Left3(w) \in S
  BY Zenon, <1>1, <1>4, <1>8 DEF Left3
<1>10. Left2(w) \in S
  BY Zenon, <1>1, <1>4, <1>9 DEF Left2
<1>11. Left1(w) \in S
  BY Zenon, <1>1, <1>4, <1>10 DEF Left1
<1>12. /\ LeftOf(w, 1) = Left1(w) /\ LeftOf(w, 2) = Left2(w) /\ LeftOf(w, 3) = Left3(w)
       /\ LeftOf(w, 4) = Left4(w) /\ LeftOf(w, 5) = Left5(w) /\ LeftOf(w, 6) = Left6(w)
       /\ LeftOf(w, 7) = Left7(w) /\ LeftOf(w, 8) = << >>
  BY DEF LeftOf
<1>13. \A i \in 1 .. 8 : LeftOf(w, i) \in S
  <2> TAKE i \in 1 .. 8
  <2>1. i \in {1, 2, 3, 4, 5, 6, 7, 8}
    OBVIOUS
  <2> QED BY Zenon, <2>1, <1>1, <1>5, <1>6, <1>7, <1>8, <1>9, <1>10, <1>11, <1>12
<1>14. \A i \in 1 .. 7 : LeftOf(w, i) = SlotItem(w, i) \o LeftOf(w, i + 1)
  <2> TAKE i \in 1 .. 7
  <2>1. i \in {1, 2, 3, 4, 5, 6, 7} /\ 1 + 1 = 2 /\ 2 + 1 = 3 /\ 3 + 1 = 4 /\ 4 + 1 = 5
        /\ 5 + 1 = 6 /\ 6 + 1 = 7 /\ 7 + 1 = 8
    OBVIOUS
  <2> QED BY Zenon, <2>1, <1>5, <1>12 DEF Left1, Left2, Left3, Left4, Left5, Left6
<1> QED BY <1>13, <1>14 DEF S

\* The next slot that is on, if there is one
LEMMA NextOn ==
    ASSUME NEW w \in MicroWords, NEW i \in 1 .. 8
    PROVE  \E k \in i .. 8 : /\ k = 8 \/ SlotOn(w, k)
                             /\ LeftOf(w, k) = LeftOf(w, i)
                             /\ \A j \in i .. k - 1 : ~SlotOn(w, j)
<1> DEFINE P(n) == \E k \in n .. 8 : /\ k = 8 \/ SlotOn(w, k)
                                     /\ LeftOf(w, k) = LeftOf(w, n)
                                     /\ \A j \in n .. k - 1 : ~SlotOn(w, j)
<1>1. P(8)
  OBVIOUS
<1>2. ASSUME NEW n \in 1 .. 7, P(n + 1) PROVE P(n)
  <2>1. CASE SlotOn(w, n)
    BY <2>1
  <2>2. CASE ~SlotOn(w, n)
    <3>1. SlotItem(w, n) = << >>
      BY <2>2 DEF SlotItem
    <3>2. LeftOf(w, n + 1) \in Seq(MicroTokens) /\ LeftOf(w, n) = << >> \o LeftOf(w, n + 1)
      <4>1. n \in 1 .. 7 /\ n + 1 \in 1 .. 8
        OBVIOUS
      <4> QED BY Zenon, <3>1, <4>1, LeftStep
    <3>3. LeftOf(w, n) = LeftOf(w, n + 1)
      BY Zenon, <3>2, ConcatEmptySeq
    <3>4. PICK k \in n + 1 .. 8 : /\ k = 8 \/ SlotOn(w, k)
                                  /\ LeftOf(w, k) = LeftOf(w, n + 1)
                                  /\ \A j \in n + 1 .. k - 1 : ~SlotOn(w, j)
      BY Zenon, <1>2
    <3>5. k \in n .. 8 /\ \A j \in n .. k - 1 : j = n \/ j \in n + 1 .. k - 1
      OBVIOUS
    <3> QED BY <2>2, <3>3, <3>4, <3>5
  <2> QED BY <2>1, <2>2
<1> HIDE DEF P
<1>3. P(7)
  BY <1>1, <1>2
<1>4. P(6)
  BY <1>3, <1>2
<1>5. P(5)
  BY <1>4, <1>2
<1>6. P(4)
  BY <1>5, <1>2
<1>7. P(3)
  BY <1>6, <1>2
<1>8. P(2)
  BY <1>7, <1>2
<1>9. P(1)
  BY <1>8, <1>2
<1>10. i \in {1, 2, 3, 4, 5, 6, 7, 8}
  OBVIOUS
<1>11. P(i)
  BY Zenon, <1>1, <1>3, <1>4, <1>5, <1>6, <1>7, <1>8, <1>9, <1>10
<1> QED BY <1>11 DEF P
-----------------------------------------------------------------------------
(* What the disassembler writes is the line of the slots. *)

\* Concatenations of lines, bracketed to the left and to the right
LEMMA ConcatTwo == \A f, g \in MicroLines : f \o g \in MicroLines
BY ConcatProperties DEF MicroLines

LEMMA ConcatThree == \A f, g, h \in MicroLines : (f \o g) \o h = f \o (g \o h)
BY ConcatAssociative DEF MicroLines

\* The skips are the first four slots.
LEMMA SkipsLine ==
    ASSUME NEW w \in MicroWords, InGroup2(w)
    PROVE  Skips(w) = SlotItem(w, 1) \o (SlotItem(w, 2) \o (SlotItem(w, 3) \o SlotItem(w, 4)))
<1> DEFINE T == MicroTokens
           S == MicroLines
           Cat(f, g) == f \o g
           One(a) == <<a>>
           Two(a, b) == <<a, b>>
           x == Sym(SlotName(w, 1))
           y == Sym(SlotName(w, 2))
           z == Sym(SlotName(w, 3))
           k == Sym("SKP")
           d == SlotDelim(w)
           e == << >>
           rev == Reversed(w)
           bx == Bit(w, 6) = 1
           by == Bit(w, 7) = 1
           bz == Bit(w, 8) = 1
           a1 == IF bx THEN One(x) ELSE e
           a2 == IF by THEN (IF a1 = e THEN One(y) ELSE Cat(a1, Two(d, y))) ELSE a1
           a3 == IF bz THEN (IF a2 = e THEN One(z) ELSE Cat(a2, Two(d, z))) ELSE a2
<1>1. Skips(w) = IF a3 = e /\ rev THEN One(k) ELSE a3
  BY NumBits DEF Skips, SlotName, Reversed, SlotDelim
<1>2. /\ SlotItem(w, 1) = IF bx THEN (IF by \/ bz THEN Two(x, d) ELSE One(x)) ELSE e
      /\ SlotItem(w, 2) = IF by THEN (IF bz THEN Two(y, d) ELSE One(y)) ELSE e
      /\ SlotItem(w, 3) = IF bz THEN One(z) ELSE e
      /\ SlotItem(w, 4) = IF rev /\ ~bx /\ ~by /\ ~bz THEN One(k) ELSE e
  BY DEF SlotItem, SlotOn, SlotJoined, SlotName
<1>3. x \in T /\ y \in T /\ z \in T /\ k \in T /\ d \in T
  BY DEF MicroTokens, MicroNames, Gr1, Gr2, Positive, Negative, Sym, Delim, SlotName, SlotDelim
<1>4. e \in S /\ \A a \in T : One(a) \in S
  BY DEF MicroLines
<1>5. \A f, g \in S : Cat(f, g) \in S
  BY ConcatTwo
<1>6. \A f, g, h \in S : Cat(Cat(f, g), h) = Cat(f, Cat(g, h))
  BY ConcatThree
<1>7. \A f \in S : Cat(f, e) = f /\ Cat(e, f) = f
  BY ConcatEmptySeq DEF MicroLines
<1>8. \A a, b \in T : Two(a, b) = Cat(One(a), One(b))
  <2> TAKE a \in T, b \in T
  <2>1. <<a>> \in Seq(T) /\ <<b>> \in Seq(T) /\ <<a, b>> \in Seq(T)
    OBVIOUS
  <2>2. <<a>> \o <<b>> \in Seq(T) /\ Len(<<a>> \o <<b>>) = 2 /\ Len(<<a, b>>) = 2
    BY <2>1
  <2>3. \A i \in 1 .. 2 : (<<a>> \o <<b>>)[i] = <<a, b>>[i]
    BY <2>1
  <2> QED BY <2>1, <2>2, <2>3, SeqEqual
<1>9. \A f \in S, a \in T : One(a) # e /\ Cat(f, One(a)) # e
  <2> TAKE f \in S, a \in T
  <2>0. f \in Seq(T)
    BY DEF MicroLines
  <2>1. Len(<<a>>) = 1 /\ Len(f \o <<a>>) = Len(f) + 1 /\ Len(f) \in Nat /\ Len(<< >>) = 0
    BY <2>0
  <2> QED BY <2>1
<1> HIDE DEF T, S, Cat, One, Two, x, y, z, k, d, e, rev, bx, by, bz
<1> DEFINE ox == One(x)
           oy == One(y)
           oz == One(z)
           od == One(d)
           dy == Two(d, y)
           dz == Two(d, z)
           xd == Two(x, d)
           yd == Two(y, d)
<1>a. /\ ox \in S /\ oy \in S /\ oz \in S /\ od \in S
      /\ dy = Cat(od, oy) /\ dz = Cat(od, oz) /\ xd = Cat(ox, od) /\ yd = Cat(oy, od)
  BY Zenon, <1>3, <1>4, <1>8
<1>b. dy \in S /\ dz \in S /\ xd \in S /\ yd \in S
  BY Zenon, <1>a, <1>5
<1>c. z \in T /\ y \in T /\ oy = One(y) /\ oz = One(z)
  BY Zenon, <1>3
<1> HIDE DEF ox, oy, oz, od, dy, dz, xd, yd
<1>d. Cat(ox, dy) = Cat(xd, oy) /\ Cat(xd, oy) # e /\ Cat(xd, oy) \in S
  BY <1>a, <1>b, <1>c, <1>5, <1>6, <1>9
<1>e. Cat(ox, dz) = Cat(xd, oz) /\ Cat(xd, oz) # e /\ Cat(xd, oz) \in S
  BY <1>a, <1>b, <1>c, <1>5, <1>6, <1>9
<1>f. Cat(oy, dz) = Cat(yd, oz) /\ Cat(yd, oz) # e /\ Cat(yd, oz) \in S
  BY <1>a, <1>b, <1>c, <1>5, <1>6, <1>9
<1>g. Cat(Cat(ox, dy), dz) = Cat(xd, Cat(yd, oz))
  <2>1. Cat(Cat(xd, oy), dz) = Cat(xd, Cat(oy, dz))
    BY <1>a, <1>b, <1>6
  <2> QED BY Zenon, <2>1, <1>d, <1>f
<1>h. Cat(xd, Cat(yd, oz)) \in S /\ Cat(xd, Cat(yd, oz)) # e
  <2>1. Cat(xd, Cat(yd, oz)) = Cat(Cat(xd, yd), oz) /\ Cat(xd, yd) \in S
    BY <1>a, <1>b, <1>5, <1>6
  <2> QED BY Zenon, <1>a, <1>b, <1>c, <1>f, <1>5, <1>9, <2>1
<1>10. /\ Cat(One(x), Two(d, y)) = Cat(Two(x, d), One(y)) /\ Cat(One(x), Two(d, y)) # e
       /\ Cat(One(x), Two(d, z)) = Cat(Two(x, d), One(z)) /\ Cat(One(x), Two(d, z)) # e
       /\ Cat(One(y), Two(d, z)) = Cat(Two(y, d), One(z)) /\ Cat(One(y), Two(d, z)) # e
  BY Zenon, <1>d, <1>e, <1>f DEF ox, oy, oz, dy, dz, xd, yd
<1>11. LET s == Cat(Cat(One(x), Two(d, y)), Two(d, z))
       IN  s # e /\ s = Cat(Two(x, d), Cat(Two(y, d), One(z)))
  BY Zenon, <1>g, <1>h DEF ox, oy, oz, dy, dz, xd, yd
<1>12. /\ One(x) \in S /\ One(y) \in S /\ One(z) \in S /\ One(k) \in S /\ e \in S
       /\ One(x) # e /\ One(y) # e /\ One(z) # e
       /\ Cat(Two(x, d), One(y)) \in S /\ Cat(Two(x, d), One(z)) \in S /\ Cat(Two(y, d), One(z)) \in S
       /\ Cat(Two(x, d), Cat(Two(y, d), One(z))) \in S
  <2>1. One(k) \in S /\ e \in S /\ One(x) # e /\ One(y) # e /\ One(z) # e
    BY Zenon, <1>3, <1>4, <1>9
  <2> QED BY Zenon, <2>1, <1>a, <1>d, <1>e, <1>f, <1>h DEF ox, oy, oz, xd, yd
<1> DEFINE all == Cat(SlotItem(w, 1), Cat(SlotItem(w, 2), Cat(SlotItem(w, 3), SlotItem(w, 4))))
<1>13. CASE bx /\ by /\ bz
  <2>1. all = Cat(Two(x, d), Cat(Two(y, d), One(z)))
    BY Zenon, <1>2, <1>7, <1>12, <1>13
  <2> QED BY Zenon, <1>1, <1>10, <1>11, <1>12, <1>13, <2>1 DEF Cat
<1>14. CASE bx /\ by /\ ~bz
  <2>1. all = Cat(Two(x, d), One(y))
    BY Zenon, <1>2, <1>7, <1>12, <1>14
  <2> QED BY Zenon, <1>1, <1>10, <1>12, <1>14, <2>1 DEF Cat
<1>15. CASE bx /\ ~by /\ bz
  <2>1. all = Cat(Two(x, d), One(z))
    BY Zenon, <1>2, <1>7, <1>12, <1>15
  <2> QED BY Zenon, <1>1, <1>10, <1>12, <1>15, <2>1 DEF Cat
<1>16. CASE bx /\ ~by /\ ~bz
  <2>1. all = One(x)
    BY Zenon, <1>2, <1>7, <1>12, <1>16
  <2> QED BY Zenon, <1>1, <1>12, <1>16, <2>1 DEF Cat
<1>17. CASE ~bx /\ by /\ bz
  <2>1. all = Cat(Two(y, d), One(z))
    BY Zenon, <1>2, <1>7, <1>12, <1>17
  <2> QED BY Zenon, <1>1, <1>10, <1>12, <1>17, <2>1 DEF Cat
<1>18. CASE ~bx /\ by /\ ~bz
  <2>1. all = One(y)
    BY Zenon, <1>2, <1>7, <1>12, <1>18
  <2> QED BY Zenon, <1>1, <1>12, <1>18, <2>1 DEF Cat
<1>19. CASE ~bx /\ ~by /\ bz
  <2>1. all = One(z)
    BY Zenon, <1>2, <1>7, <1>12, <1>19
  <2> QED BY Zenon, <1>1, <1>12, <1>19, <2>1 DEF Cat
<1>20. CASE ~bx /\ ~by /\ ~bz
  <2>1. all = IF rev THEN One(k) ELSE e
    BY Zenon, <1>2, <1>7, <1>12, <1>20
  <2>2. a3 = e
    BY <1>20
  <2> HIDE DEF a3
  <2>3. Skips(w) = IF rev THEN One(k) ELSE e
    BY <1>1, <2>2
  <2> QED BY Zenon, <2>1, <2>3 DEF Cat
<1> QED BY Zenon, <1>13, <1>14, <1>15, <1>16, <1>17, <1>18, <1>19, <1>20

\* A line of each group, and any line
LEMMA Group2Is ==
    ASSUME NEW w \in MicroWords, InGroup2(w)
    PROVE  Group2Line(w) = LeftOf(w, 1)
<1> DEFINE s1 == SlotItem(w, 1)
           s2 == SlotItem(w, 2)
           s3 == SlotItem(w, 3)
           s4 == SlotItem(w, 4)
           s5 == SlotItem(w, 5)
           s6 == SlotItem(w, 6)
           s7 == SlotItem(w, 7)
<1>1. Skips(w) = s1 \o (s2 \o (s3 \o s4))
  BY SkipsLine
<1>2. s5 = When(w, 128, "CLA") /\ s6 = When(w, 4, "OSR") /\ s7 = When(w, 2, "HLT")
  BY NumBits DEF SlotItem, SlotOn, SlotJoined, SlotName, When
<1>3. /\ s1 \in MicroLines /\ s2 \in MicroLines /\ s3 \in MicroLines /\ s4 \in MicroLines
      /\ s5 \in MicroLines /\ s6 \in MicroLines /\ s7 \in MicroLines
  BY SlotTypes DEF MicroLines
<1>4. LeftOf(w, 1) = s1 \o (s2 \o (s3 \o (s4 \o (s5 \o (s6 \o s7)))))
  <2>1. LeftOf(w, 1) = Left1(w)
    BY DEF LeftOf
  <2> QED BY Zenon, <2>1 DEF Left1, Left2, Left3, Left4, Left5, Left6, Left7
<1>5. Group2Line(w) = (((s1 \o (s2 \o (s3 \o s4))) \o s5) \o s6) \o s7
  BY Zenon, <1>1, <1>2 DEF Group2Line
<1> DEFINE p == s6 \o s7
           q == s5 \o p
           r == s3 \o s4
           u == s2 \o r
           v == s1 \o u
           x == v \o s5
<1> HIDE DEF s1, s2, s3, s4, s5, s6, s7
<1>6. p \in MicroLines /\ r \in MicroLines
  BY Zenon, <1>3, ConcatTwo
<1> HIDE DEF p, r
<1>7. q \in MicroLines /\ u \in MicroLines
  BY Zenon, <1>3, <1>6, ConcatTwo
<1>8. r \o q = s3 \o (s4 \o q)
  <2>1. q \in MicroLines /\ s3 \in MicroLines /\ s4 \in MicroLines
    BY <1>3, <1>7
  <2> HIDE DEF q, u, v, x
  <2> QED BY <2>1, ConcatThree DEF r
<1>9. u \o q = s2 \o (r \o q)
  <2>1. q \in MicroLines /\ s2 \in MicroLines /\ r \in MicroLines
    BY <1>3, <1>6, <1>7
  <2> HIDE DEF q, v, x
  <2> QED BY <2>1, ConcatThree DEF u
<1>10. v \o q = s1 \o (u \o q)
  <2>1. q \in MicroLines /\ s1 \in MicroLines /\ u \in MicroLines
    BY <1>3, <1>7
  <2> HIDE DEF q, u, x
  <2> QED BY <2>1, ConcatThree DEF v
<1> HIDE DEF u
<1>11. v \in MicroLines
  BY Zenon, <1>3, <1>7, ConcatTwo
<1> HIDE DEF v
<1>12. x \in MicroLines
  BY Zenon, <1>3, <1>11, ConcatTwo
<1>13. (x \o s6) \o s7 = x \o p
  <2>1. x \in MicroLines /\ s6 \in MicroLines /\ s7 \in MicroLines
    BY <1>3, <1>12
  <2> HIDE DEF q, x
  <2> QED BY <2>1, ConcatThree DEF p
<1>14. x \o p = v \o q
  <2>1. v \in MicroLines /\ s5 \in MicroLines /\ p \in MicroLines
    BY <1>3, <1>6, <1>11
  <2> QED BY <2>1, ConcatThree
<1> QED BY Zenon, <1>4, <1>5, <1>8, <1>9, <1>10, <1>13, <1>14 DEF p, q, r, u, v, x

LEMMA Group1Is ==
    ASSUME NEW w \in MicroWords, ~InGroup2(w)
    PROVE  Group1Line(w) = LeftOf(w, 1)
<1> DEFINE s1 == SlotItem(w, 1)
           s2 == SlotItem(w, 2)
           s3 == SlotItem(w, 3)
           s4 == SlotItem(w, 4)
           s5 == SlotItem(w, 5)
           s6 == SlotItem(w, 6)
<1>1. /\ s1 = When(w, 128, "CLA") /\ s2 = When(w, 64, "CLL") /\ s3 = When(w, 32, "CMA")
      /\ s4 = When(w, 16, "CML") /\ s5 = When(w, 1, "IAC")
      /\ s6 = IF RotateOf(w) = 0 THEN << >> ELSE <<Sym(Rotates[RotateOf(w)])>>
      /\ SlotItem(w, 7) = << >>
  BY NumBits DEF SlotItem, SlotOn, SlotJoined, SlotName, When
<1>2. s1 \in MicroLines /\ s2 \in MicroLines /\ s3 \in MicroLines /\ s4 \in MicroLines /\ s5 \in MicroLines /\ s6 \in MicroLines
  BY SlotTypes DEF MicroLines
<1>3. s6 \o << >> = s6
  BY Zenon, <1>2, ConcatEmptySeq DEF MicroLines
<1>4. LeftOf(w, 1) = s1 \o (s2 \o (s3 \o (s4 \o (s5 \o s6))))
  <2>1. LeftOf(w, 1) = Left1(w)
    BY DEF LeftOf
  <2> QED BY Zenon, <1>1, <1>3, <2>1 DEF Left1, Left2, Left3, Left4, Left5, Left6, Left7
<1>5. Group1Line(w) = ((((s1 \o s2) \o s3) \o s4) \o s5) \o s6
  BY Zenon, <1>1 DEF Group1Line, RotateOf
<1> DEFINE p == s5 \o s6
           q == s4 \o p
           r == s3 \o q
           u == s1 \o s2
           v == u \o s3
           x == v \o s4
<1> HIDE DEF s1, s2, s3, s4, s5, s6
<1>6. p \in MicroLines /\ u \in MicroLines
  BY Zenon, <1>2, ConcatTwo
<1> HIDE DEF p, u
<1>7. q \in MicroLines /\ v \in MicroLines
  BY Zenon, <1>2, <1>6, ConcatTwo
<1> HIDE DEF q, v
<1>8. r \in MicroLines /\ x \in MicroLines
  BY Zenon, <1>2, <1>7, ConcatTwo
<1> HIDE DEF r, x
<1>9. (x \o s5) \o s6 = x \o p
  <2>1. x \in MicroLines /\ s5 \in MicroLines /\ s6 \in MicroLines
    BY <1>2, <1>8
  <2> QED BY <2>1, ConcatThree DEF p
<1>10. x \o p = v \o q
  <2>1. v \in MicroLines /\ s4 \in MicroLines /\ p \in MicroLines
    BY <1>2, <1>6, <1>7
  <2> QED BY <2>1, ConcatThree DEF x, q
<1>11. v \o q = u \o r
  <2>1. u \in MicroLines /\ s3 \in MicroLines /\ q \in MicroLines
    BY <1>2, <1>6, <1>7
  <2> QED BY <2>1, ConcatThree DEF v, r
<1>12. u \o r = s1 \o (s2 \o r)
  <2>1. s1 \in MicroLines /\ s2 \in MicroLines /\ r \in MicroLines
    BY <1>2, <1>8
  <2> QED BY <2>1, ConcatThree DEF u
<1> QED BY Zenon, <1>4, <1>5, <1>9, <1>10, <1>11, <1>12 DEF p, q, r, u, v, x

LEMMA LineIs ==
    ASSUME NEW w \in MicroWords
    PROVE  OperateLine(w) = IF LeftOf(w, 1) = << >> THEN <<Sym("NOP")>> ELSE LeftOf(w, 1)
<1>1. BitSet(w, 256) <=> InGroup2(w)
  BY NumBits DEF InGroup2
<1> QED BY Zenon, <1>1, Group1Is, Group2Is DEF OperateLine

-----------------------------------------------------------------------------
(* The first tokens of a line. *)

\* One token, or two, before the rest
LEMMA OneFirst ==
    ASSUME NEW T, NEW x \in T, NEW rest \in Seq(T), NEW l, l = <<x>> \o rest
    PROVE  /\ l[1] = x /\ l # << >> /\ Len(l) = Len(rest) + 1
           /\ rest # << >> => l[2] = rest[1] /\ Len(l) > 1
           /\ rest = << >> => Len(l) = 1
           /\ SubSeq(l, 2, Len(l)) = rest
<1>1. /\ <<x>> \in Seq(T) /\ Len(<<x>>) = 1 /\ <<x>>[1] = x /\ Len(rest) \in Nat
      /\ (rest # << >> => Len(rest) > 0) /\ (rest = << >> => Len(rest) = 0)
  OBVIOUS
<1>2. /\ l \in Seq(T) /\ Len(l) = 1 + Len(rest)
      /\ \A i \in 1 .. 1 + Len(rest) : l[i] = IF i <= 1 THEN <<x>>[i] ELSE rest[i - 1]
  BY <1>1, ConcatProperties
<1>3. l[1] = x /\ (rest # << >> => l[2] = rest[1])
  BY <1>1, <1>2
<1>4. SubSeq(l, 2, Len(l)) = rest
  <2>1. /\ SubSeq(l, 2, Len(l)) \in Seq(T) /\ Len(SubSeq(l, 2, Len(l))) = Len(rest)
        /\ \A i \in 1 .. Len(rest) : SubSeq(l, 2, Len(l))[i] = l[i + 1]
    BY <1>1, <1>2
  <2>2. \A i \in 1 .. Len(rest) : l[i + 1] = rest[i]
    BY <1>1, <1>2
  <2> QED BY <2>1, <2>2, SeqEqual
<1> QED BY <1>1, <1>2, <1>3, <1>4

LEMMA TwoFirst ==
    ASSUME NEW T, NEW x \in T, NEW y \in T, NEW rest \in Seq(T), NEW l, l = <<x, y>> \o rest
    PROVE  /\ l[1] = x /\ l[2] = y /\ Len(l) > 1 /\ l # << >>
           /\ SubSeq(l, 3, Len(l)) = rest
<1>1. /\ <<x, y>> \in Seq(T) /\ Len(<<x, y>>) = 2 /\ <<x, y>>[1] = x /\ <<x, y>>[2] = y
      /\ Len(rest) \in Nat
  OBVIOUS
<1>2. /\ l \in Seq(T) /\ Len(l) = 2 + Len(rest)
      /\ \A i \in 1 .. 2 + Len(rest) : l[i] = IF i <= 2 THEN <<x, y>>[i] ELSE rest[i - 2]
  BY <1>1, ConcatProperties
<1>3. l[1] = x /\ l[2] = y
  BY <1>1, <1>2
<1>4. SubSeq(l, 3, Len(l)) = rest
  <2>1. /\ SubSeq(l, 3, Len(l)) \in Seq(T) /\ Len(SubSeq(l, 3, Len(l))) = Len(rest)
        /\ \A i \in 1 .. Len(rest) : SubSeq(l, 3, Len(l))[i] = l[i + 2]
    BY <1>1, <1>2
  <2>2. \A i \in 1 .. Len(rest) : l[i + 2] = rest[i]
    BY <1>1, <1>2
  <2> QED BY <2>1, <2>2, SeqEqual
<1> QED BY <1>1, <1>2, <1>3, <1>4

\* What follows a slot's tokens starts with a symbol, if it is not empty.
LEMMA LeftFirst ==
    ASSUME NEW w \in MicroWords, NEW i \in 1 .. 8, LeftOf(w, i) # << >>
    PROVE  LeftOf(w, i)[1].is = "symbol"
<1>1. PICK k \in i .. 8 : (k = 8 \/ SlotOn(w, k)) /\ LeftOf(w, k) = LeftOf(w, i)
  BY Zenon, NextOn
<1>2. LeftOf(w, 8) = << >>
  BY DEF LeftOf
<1>3. k \in 1 .. 7 /\ SlotOn(w, k)
  BY <1>1, <1>2
<1>4. LeftOf(w, k) = SlotItem(w, k) \o LeftOf(w, k + 1)
  BY Zenon, <1>3, LeftStep
<1> DEFINE tok == Sym(SlotName(w, k))
           sep == SlotDelim(w)
           more == LeftOf(w, k + 1)
<1>5. tok \in MicroTokens /\ sep \in MicroTokens
  BY Zenon, <1>3, SlotTypes
<1>6. more \in Seq(MicroTokens)
  <2>1. k + 1 \in 1 .. 8
    BY <1>3
  <2> QED BY Zenon, <2>1, LeftStep
<1>7. LeftOf(w, k) = <<tok>> \o more \/ LeftOf(w, k) = <<tok, sep>> \o more
  BY Zenon, <1>3, <1>4 DEF SlotItem
<1> HIDE DEF tok, sep, more
<1>8. LeftOf(w, k)[1] = tok
  <2>1. CASE LeftOf(w, k) = <<tok>> \o more
    BY <1>5, <1>6, <2>1, OneFirst
  <2>2. CASE LeftOf(w, k) = <<tok, sep>> \o more
    BY <1>5, <1>6, <2>2, TwoFirst
  <2> QED BY <1>7, <2>1, <2>2
<1> QED BY <1>1, <1>8 DEF tok, Sym

\* What MicroOp makes of the line from a slot that is on
LEMMA LineStep ==
    ASSUME NEW w \in MicroWords, NEW i \in 1 .. 7, SlotOn(w, i), NEW l, l = LeftOf(w, i)
    PROVE  /\ l[1] = Sym(SlotName(w, i)) /\ l # << >>
           /\ (Len(l) > 1 /\ l[2].is = "delim") <=> SlotJoined(w, i)
           /\ SlotJoined(w, i) => l[2] = SlotDelim(w)
           /\ SubSeq(l, IF SlotJoined(w, i) THEN 3 ELSE 2, Len(l)) = LeftOf(w, i + 1)
<1> DEFINE tok == Sym(SlotName(w, i))
           sep == SlotDelim(w)
           more == LeftOf(w, i + 1)
<1>1. tok \in MicroTokens /\ sep \in MicroTokens
  BY Zenon, SlotTypes
<1>2. i + 1 \in 1 .. 8
  OBVIOUS
<1>3. more \in Seq(MicroTokens)
  BY Zenon, <1>2, LeftStep
<1>4. l = (IF SlotJoined(w, i) THEN <<tok, sep>> ELSE <<tok>>) \o more
  <2>1. SlotItem(w, i) = IF SlotJoined(w, i) THEN <<tok, sep>> ELSE <<tok>>
    BY DEF SlotItem
  <2>2. l = SlotItem(w, i) \o more
    BY Zenon, LeftStep
  <2> QED BY <2>1, <2>2
<1>5. more # << >> => more[1].is = "symbol"
  BY Zenon, <1>2, LeftFirst
<1>6. sep.is = "delim"
  BY DEF SlotDelim, Delim
<1> HIDE DEF tok, sep, more
<1>7. CASE SlotJoined(w, i)
  <2>1. l = <<tok, sep>> \o more
    BY <1>4, <1>7
  <2>2. /\ l[1] = tok /\ l[2] = sep /\ Len(l) > 1 /\ l # << >> /\ SubSeq(l, 3, Len(l)) = more
    BY <1>1, <1>3, <2>1, TwoFirst
  <2> QED BY <1>6, <1>7, <2>2 DEF tok, sep, more
<1>8. CASE ~SlotJoined(w, i)
  <2>1. l = <<tok>> \o more
    BY <1>4, <1>8
  <2>2. /\ l[1] = tok /\ l # << >>
        /\ more # << >> => l[2] = more[1] /\ Len(l) > 1
        /\ more = << >> => Len(l) = 1
        /\ SubSeq(l, 2, Len(l)) = more
    BY <1>1, <1>3, <2>1, OneFirst
  <2>3. ~(Len(l) > 1 /\ l[2].is = "delim")
    <3>1. CASE more = << >>
      BY <2>2, <3>1
    <3>2. CASE more # << >>
      <4>1. l[2].is = "symbol"
        BY <1>5, <2>2, <3>2
      <4> QED BY <4>1
    <3> QED BY <3>1, <3>2
  <2> QED BY <1>8, <2>2, <2>3 DEF tok, more
<1> QED BY <1>7, <1>8

-----------------------------------------------------------------------------
(* The conflicts *)

\* An operation may not come after another.
Forbids(b, n) ==
    \/ b \in Seq4 /\ n \in Gr1 \cup Gr2
    \/ b \in Seq3 /\ n \in Seq1 \cup Seq2 \cup Gr2
    \/ b \in Seq2 /\ n \in Seq1 \cup Gr2
    \/ b = "CLL" /\ n \in Gr2 \ {"CLA"}
    \/ b = "HLT" /\ n \in Gr1 \cup Gr2
    \/ b = "OSR" /\ n \in (Gr1 \cup Gr2) \ {"HLT", "OSR"}
    \/ b = "CLA" /\ n \in Positive \cup Negative \cup {"SKP"}
    \/ b \in {"SKP"} /\ n \in (Gr1 \cup Positive \cup Negative) \ {"CLA"}
    \/ b \in Negative /\ n \in (Gr1 \cup Positive \cup {"SKP"}) \ {"CLA"}
    \/ b \in Positive /\ n \in (Gr1 \cup Negative \cup {"SKP"}) \ {"CLA"}

\* The table says so.
LEMMA OrdersForbid ==
    ASSUME NEW b, NEW n
    PROVE  (\E o \in Orders : b \in o[1] /\ n \in o[2]) => Forbids(b, n)
<1>1. ASSUME NEW o \in Orders, b \in o[1], n \in o[2] PROVE Forbids(b, n)
  BY <1>1 DEF Orders, Forbids
<1> QED BY <1>1

\* An operation that comes after those it may come after is taken.
LEMMA NoConflict ==
    ASSUME NEW n, \A b \in already : b # n /\ ~Forbids(b, n)
    PROVE  ~microconflict({n})
<1>1. already \cap {n} = {}
  OBVIOUS
<1>2. ASSUME NEW o \in Orders, already \cap o[1] # {}, {n} \cap o[2] # {} PROVE FALSE
  <2>1. PICK b \in already : b \in o[1]
    BY <1>2
  <2>2. n \in o[2]
    BY <1>2
  <2>3. Forbids(b, n)
    BY Zenon, <2>1, <2>2, OrdersForbid
  <2> QED BY <2>1, <2>3
<1> QED BY <1>1, <1>2 DEF microconflict

\* The operations of two slots agree in the order of the slots.
LEMMA SlotsAgree ==
    ASSUME NEW w \in MicroWords, NEW j \in 1 .. 7, NEW i \in 1 .. 7, j < i,
           SlotOn(w, j), SlotOn(w, i)
    PROVE  SlotName(w, j) # SlotName(w, i) /\ ~Forbids(SlotName(w, j), SlotName(w, i))
<1> DEFINE b == SlotName(w, j)
           n == SlotName(w, i)
<1>1. CASE InGroup2(w)
  <2>1. b = CASE j = 1 -> IF Reversed(w) THEN "SPA" ELSE "SMA"
              [] j = 2 -> IF Reversed(w) THEN "SNA" ELSE "SZA"
              [] j = 3 -> IF Reversed(w) THEN "SZL" ELSE "SNL"
              [] j = 4 -> "SKP" [] j = 5 -> "CLA" [] j = 6 -> "OSR" [] j = 7 -> "HLT"
    BY <1>1 DEF SlotName
  <2>2. n = CASE i = 1 -> IF Reversed(w) THEN "SPA" ELSE "SMA"
              [] i = 2 -> IF Reversed(w) THEN "SNA" ELSE "SZA"
              [] i = 3 -> IF Reversed(w) THEN "SZL" ELSE "SNL"
              [] i = 4 -> "SKP" [] i = 5 -> "CLA" [] i = 6 -> "OSR" [] i = 7 -> "HLT"
    BY <1>1 DEF SlotName
  <2>3. i # 4
    BY <1>1 DEF SlotOn
  <2> HIDE DEF b, n
  <2>4. (i = 2 \/ i = 3) => b # n /\ ~Forbids(b, n)
    BY <2>1, <2>2 DEF Forbids, Seq1, Seq2, Seq3, Seq4, Gr1, Gr2, Positive, Negative
  <2>5. i = 5 => b # n /\ ~Forbids(b, n)
    <3>1. SUFFICES ASSUME i = 5 PROVE b # n /\ ~Forbids(b, n)
      OBVIOUS
    <3>2. n = "CLA"
      BY <2>2, <3>1
    <3>3. j \in 1 .. 4
      BY <3>1
    <3>4. b \in {"SPA", "SMA", "SNA", "SZA", "SZL", "SNL", "SKP"}
      BY <2>1, <3>3
    <3> QED BY <3>2, <3>4 DEF Forbids, Seq1, Seq2, Seq3, Seq4, Gr1, Gr2, Positive, Negative
  <2>6. i = 6 => b # n /\ ~Forbids(b, n)
    <3>1. SUFFICES ASSUME i = 6 PROVE b # n /\ ~Forbids(b, n)
      OBVIOUS
    <3>2. n = "OSR"
      BY <2>2, <3>1
    <3>3. j \in 1 .. 5
      BY <3>1
    <3>4. b \in {"SPA", "SMA", "SNA", "SZA", "SZL", "SNL", "SKP", "CLA"}
      BY <2>1, <3>3
    <3> QED BY <3>2, <3>4 DEF Forbids, Seq1, Seq2, Seq3, Seq4, Gr1, Gr2, Positive, Negative
  <2>7. i = 7 => b # n /\ ~Forbids(b, n)
    <3>1. SUFFICES ASSUME i = 7 PROVE b # n /\ ~Forbids(b, n)
      OBVIOUS
    <3>2. n = "HLT"
      BY <2>2, <3>1
    <3>3. j \in 1 .. 6
      BY <3>1
    <3>4. b \in {"SPA", "SMA", "SNA", "SZA", "SZL", "SNL", "SKP", "CLA", "OSR"}
      BY <2>1, <3>3
    <3> QED BY <3>2, <3>4 DEF Forbids, Seq1, Seq2, Seq3, Seq4, Gr1, Gr2, Positive, Negative
  <2> QED BY <2>3, <2>4, <2>5, <2>6, <2>7 DEF b, n
<1>2. CASE ~InGroup2(w)
  <2>1. i \in 2 .. 6 /\ j \in 1 .. 5
    BY <1>2 DEF SlotOn
  <2>2. b = CASE j = 1 -> "CLA" [] j = 2 -> "CLL" [] j = 3 -> "CMA" [] j = 4 -> "CML"
              [] j = 5 -> "IAC"
    BY <1>2, <2>1 DEF SlotName
  <2>3. CASE i = 6
    <3>1. RotateOf(w) \in 1 .. 5
      <4>1. w \in Nat
        BY DEF MicroWords
      <4> QED BY <1>2, <2>3, <4>1 DEF MicroWords, RotateOf, SlotOn
    <3>2. n \in Seq4
      BY <1>2, <2>3, <3>1 DEF SlotName, Rotates, Seq4
    <3> HIDE DEF b, n
    <3>3. b # n /\ ~Forbids(b, n)
      BY <2>1, <2>2, <3>2 DEF Forbids, Seq1, Seq2, Seq3, Seq4, Gr1, Gr2, Positive, Negative
    <3> QED BY <3>3 DEF b, n
  <2>4. CASE i # 6
    <3>1. n = CASE i = 1 -> "CLA" [] i = 2 -> "CLL" [] i = 3 -> "CMA" [] i = 4 -> "CML"
                [] i = 5 -> "IAC"
      BY <1>2, <2>1, <2>4 DEF SlotName
    <3> HIDE DEF b, n
    <3>2. b # n /\ ~Forbids(b, n)
      BY <2>1, <2>2, <2>4, <3>1
         DEF Forbids, Seq1, Seq2, Seq3, Seq4, Gr1, Gr2, Positive, Negative
    <3> QED BY <3>2 DEF b, n
  <2> QED BY <2>3, <2>4
<1> QED BY <1>1, <1>2

-----------------------------------------------------------------------------
(* The bits of the operations *)

\* The bits of an operation's word
BitsOf(name) ==
    CASE name = "CLA" -> {1, 2, 3, 5} [] name = "CLL" -> {1, 2, 3, 6}
      [] name = "CMA" -> {1, 2, 3, 7} [] name = "CML" -> {1, 2, 3, 8}
      [] name = "IAC" -> {1, 2, 3, 12} [] name = "BSW" -> {1, 2, 3, 11}
      [] name = "RAL" -> {1, 2, 3, 10} [] name = "RTL" -> {1, 2, 3, 10, 11}
      [] name = "RAR" -> {1, 2, 3, 9} [] name = "RTR" -> {1, 2, 3, 9, 11}
      [] name = "SMA" -> {1, 2, 3, 4, 6} [] name = "SZA" -> {1, 2, 3, 4, 7}
      [] name = "SNL" -> {1, 2, 3, 4, 8} [] name = "SPA" -> {1, 2, 3, 4, 6, 9}
      [] name = "SNA" -> {1, 2, 3, 4, 7, 9} [] name = "SZL" -> {1, 2, 3, 4, 8, 9}
      [] name = "SKP" -> {1, 2, 3, 4, 9} [] name = "OSR" -> {1, 2, 3, 4, 10}
      [] name = "HLT" -> {1, 2, 3, 4, 11} [] name = "NOP" -> {1, 2, 3}

\* A word is known by its bits.
LEMMA HasBits ==
    ASSUME NEW s \in SUBSET (1 .. 12), NEW n \in 1 .. 12, NEW v,
           v = TwelveDigits([k \in 1 .. 12 |-> IF k \in s THEN 1 ELSE 0])
    PROVE  v \in SimWords /\ (Bit(v, n) = 1 <=> n \in s)
<1> DEFINE d == [k \in 1 .. 12 |-> IF k \in s THEN 1 ELSE 0]
<1>1. d \in [1 .. 12 -> 0 .. 1] /\ d[n] = IF n \in s THEN 1 ELSE 0
  OBVIOUS
<1> HIDE DEF d
<1>2. Bit(TwelveDigits(d), n) = d[n] /\ TwelveDigits(d) \in SimWords
  BY <1>1, BitsOfDigits
<1> QED BY <1>1, <1>2 DEF d

\* The word of each operation has its bits.
LEMMA MicroBits ==
    ASSUME NEW name \in MicroNames, NEW n \in 1 .. 12
    PROVE  Micro(name) \in SimWords /\ (Bit(Micro(name), n) = 1 <=> n \in BitsOf(name))
<1>1. BitsOf(name) \in SUBSET (1 .. 12)
  BY DEF BitsOf, MicroNames, Gr1, Gr2, Seq1, Seq2, Seq3, Seq4, Positive, Negative
<1>2. Micro(name) = TwelveDigits([k \in 1 .. 12 |-> IF k \in BitsOf(name) THEN 1 ELSE 0])
  <2>1. CASE name = "CLA"
    <3>1. Micro(name) = 3712 /\ BitsOf(name) = {1, 2, 3, 5}
      BY <2>1 DEF Micro, BitsOf
    <3> QED BY <3>1 DEF TwelveDigits
  <2>2. CASE name = "CLL"
    <3>1. Micro(name) = 3648 /\ BitsOf(name) = {1, 2, 3, 6}
      BY <2>2 DEF Micro, BitsOf
    <3> QED BY <3>1 DEF TwelveDigits
  <2>3. CASE name = "CMA"
    <3>1. Micro(name) = 3616 /\ BitsOf(name) = {1, 2, 3, 7}
      BY <2>3 DEF Micro, BitsOf
    <3> QED BY <3>1 DEF TwelveDigits
  <2>4. CASE name = "CML"
    <3>1. Micro(name) = 3600 /\ BitsOf(name) = {1, 2, 3, 8}
      BY <2>4 DEF Micro, BitsOf
    <3> QED BY <3>1 DEF TwelveDigits
  <2>5. CASE name = "IAC"
    <3>1. Micro(name) = 3585 /\ BitsOf(name) = {1, 2, 3, 12}
      BY <2>5 DEF Micro, BitsOf
    <3> QED BY <3>1 DEF TwelveDigits
  <2>6. CASE name = "BSW"
    <3>1. Micro(name) = 3586 /\ BitsOf(name) = {1, 2, 3, 11}
      BY <2>6 DEF Micro, BitsOf
    <3> QED BY <3>1 DEF TwelveDigits
  <2>7. CASE name = "RAL"
    <3>1. Micro(name) = 3588 /\ BitsOf(name) = {1, 2, 3, 10}
      BY <2>7 DEF Micro, BitsOf
    <3> QED BY <3>1 DEF TwelveDigits
  <2>8. CASE name = "RTL"
    <3>1. Micro(name) = 3590 /\ BitsOf(name) = {1, 2, 3, 10, 11}
      BY <2>8 DEF Micro, BitsOf
    <3> QED BY <3>1 DEF TwelveDigits
  <2>9. CASE name = "RAR"
    <3>1. Micro(name) = 3592 /\ BitsOf(name) = {1, 2, 3, 9}
      BY <2>9 DEF Micro, BitsOf
    <3> QED BY <3>1 DEF TwelveDigits
  <2>10. CASE name = "RTR"
    <3>1. Micro(name) = 3594 /\ BitsOf(name) = {1, 2, 3, 9, 11}
      BY <2>10 DEF Micro, BitsOf
    <3> QED BY <3>1 DEF TwelveDigits
  <2>11. CASE name = "SMA"
    <3>1. Micro(name) = 3904 /\ BitsOf(name) = {1, 2, 3, 4, 6}
      BY <2>11 DEF Micro, BitsOf
    <3> QED BY <3>1 DEF TwelveDigits
  <2>12. CASE name = "SZA"
    <3>1. Micro(name) = 3872 /\ BitsOf(name) = {1, 2, 3, 4, 7}
      BY <2>12 DEF Micro, BitsOf
    <3> QED BY <3>1 DEF TwelveDigits
  <2>13. CASE name = "SNL"
    <3>1. Micro(name) = 3856 /\ BitsOf(name) = {1, 2, 3, 4, 8}
      BY <2>13 DEF Micro, BitsOf
    <3> QED BY <3>1 DEF TwelveDigits
  <2>14. CASE name = "SPA"
    <3>1. Micro(name) = 3912 /\ BitsOf(name) = {1, 2, 3, 4, 6, 9}
      BY <2>14 DEF Micro, BitsOf
    <3> QED BY <3>1 DEF TwelveDigits
  <2>15. CASE name = "SNA"
    <3>1. Micro(name) = 3880 /\ BitsOf(name) = {1, 2, 3, 4, 7, 9}
      BY <2>15 DEF Micro, BitsOf
    <3> QED BY <3>1 DEF TwelveDigits
  <2>16. CASE name = "SZL"
    <3>1. Micro(name) = 3864 /\ BitsOf(name) = {1, 2, 3, 4, 8, 9}
      BY <2>16 DEF Micro, BitsOf
    <3> QED BY <3>1 DEF TwelveDigits
  <2>17. CASE name = "SKP"
    <3>1. Micro(name) = 3848 /\ BitsOf(name) = {1, 2, 3, 4, 9}
      BY <2>17 DEF Micro, BitsOf
    <3> QED BY <3>1 DEF TwelveDigits
  <2>18. CASE name = "OSR"
    <3>1. Micro(name) = 3844 /\ BitsOf(name) = {1, 2, 3, 4, 10}
      BY <2>18 DEF Micro, BitsOf
    <3> QED BY <3>1 DEF TwelveDigits
  <2>19. CASE name = "HLT"
    <3>1. Micro(name) = 3842 /\ BitsOf(name) = {1, 2, 3, 4, 11}
      BY <2>19 DEF Micro, BitsOf
    <3> QED BY <3>1 DEF TwelveDigits
  <2> QED BY <2>1, <2>2, <2>3, <2>4, <2>5, <2>6, <2>7, <2>8, <2>9, <2>10, <2>11, <2>12, <2>13, <2>14, <2>15, <2>16, <2>17, <2>18, <2>19
         DEF MicroNames, Gr1, Gr2, Seq1, Seq2, Seq3, Seq4, Positive, Negative
<1> QED BY <1>1, <1>2, HasBits

\* The operations before slot i, and the bits they have
Earlier(w, i) == {SlotName(w, j) : j \in {k \in 1 .. i - 1 : SlotOn(w, k)}}
BuiltBit(w, i, n) == \E j \in 1 .. i - 1 : SlotOn(w, j) /\ n \in BitsOf(SlotName(w, j))

\* The bits of an instruction of micro operations
LEMMA OperateBits ==
    ASSUME NEW w \in MicroWords
    PROVE  /\ w \in SimWords
           /\ \A n \in 1 .. 12 : Bit(w, n) \in 0 .. 1
           /\ Bit(w, 1) = 1 /\ Bit(w, 2) = 1 /\ Bit(w, 3) = 1
           /\ w = 3584 + 256 * Bit(w, 4) + 128 * Bit(w, 5) + 64 * Bit(w, 6) + 32 * Bit(w, 7)
                  + 16 * Bit(w, 8) + 8 * Bit(w, 9) + 4 * Bit(w, 10) + 2 * Bit(w, 11) + Bit(w, 12)
           /\ RotateOf(w) = 4 * Bit(w, 9) + 2 * Bit(w, 10) + Bit(w, 11)
           /\ w % 2 = Bit(w, 12)
<1>1. w \in SimWords /\ w \in 3584 .. 4095
  BY DEF MicroWords, SimWords
<1>2. (\A n \in 1 .. 12 : Bit(w, n) \in 0 .. 1) /\ w = TwelveDigits([n \in 1 .. 12 |-> Bit(w, n)])
  <2>1. w \in SimWords
    BY <1>1
  <2> QED BY Zenon, <2>1, WordDigits
<1> DEFINE b1 == Bit(w, 1)
           b2 == Bit(w, 2)
           b3 == Bit(w, 3)
           b4 == Bit(w, 4)
           b5 == Bit(w, 5)
           b6 == Bit(w, 6)
           b7 == Bit(w, 7)
           b8 == Bit(w, 8)
           b9 == Bit(w, 9)
           b10 == Bit(w, 10)
           b11 == Bit(w, 11)
           b12 == Bit(w, 12)
<1>3. w = 2048 * b1 + 1024 * b2 + 512 * b3 + 256 * b4 + 128 * b5 + 64 * b6
          + 32 * b7 + 16 * b8 + 8 * b9 + 4 * b10 + 2 * b11 + b12
  BY <1>2 DEF TwelveDigits
<1>4. /\ b1 \in 0 .. 1 /\ b2 \in 0 .. 1 /\ b3 \in 0 .. 1 /\ b4 \in 0 .. 1 /\ b5 \in 0 .. 1
      /\ b6 \in 0 .. 1 /\ b7 \in 0 .. 1 /\ b8 \in 0 .. 1 /\ b9 \in 0 .. 1 /\ b10 \in 0 .. 1
      /\ b11 \in 0 .. 1 /\ b12 \in 0 .. 1
  <2>1. \A n \in 1 .. 12 : Bit(w, n) \in 0 .. 1
    BY <1>2
  <2>2. 1 \in 1 .. 12 /\ 2 \in 1 .. 12 /\ 3 \in 1 .. 12 /\ 4 \in 1 .. 12 /\ 5 \in 1 .. 12
        /\ 6 \in 1 .. 12 /\ 7 \in 1 .. 12 /\ 8 \in 1 .. 12 /\ 9 \in 1 .. 12
        /\ 10 \in 1 .. 12 /\ 11 \in 1 .. 12 /\ 12 \in 1 .. 12
    OBVIOUS
  <2> QED BY Zenon, <2>1, <2>2
<1> HIDE DEF b1, b2, b3, b4, b5, b6, b7, b8, b9, b10, b11, b12
<1>5. b1 = 1 /\ b2 = 1 /\ b3 = 1
  BY <1>1, <1>3, <1>4
<1>6. w % 2 = b12
  BY <1>3, <1>4
<1>7. RotateOf(w) = 4 * b9 + 2 * b10 + b11
  <2>1. w \div 2 = 8 * (128 * b1 + 64 * b2 + 32 * b3 + 16 * b4 + 8 * b5 + 4 * b6 + 2 * b7 + b8)
                   + (4 * b9 + 2 * b10 + b11)
    BY <1>3, <1>4
  <2> QED BY <2>1, <1>4 DEF RotateOf
<1>8. w = 3584 + 256 * b4 + 128 * b5 + 64 * b6 + 32 * b7 + 16 * b8 + 8 * b9 + 4 * b10 + 2 * b11 + b12
  BY <1>3, <1>5
<1>9. \A n \in 1 .. 12 : Bit(w, n) \in 0 .. 1
  BY <1>2
<1>10. w = 3584 + 256 * Bit(w, 4) + 128 * Bit(w, 5) + 64 * Bit(w, 6) + 32 * Bit(w, 7)
           + 16 * Bit(w, 8) + 8 * Bit(w, 9) + 4 * Bit(w, 10) + 2 * Bit(w, 11) + Bit(w, 12)
  BY <1>8 DEF b4, b5, b6, b7, b8, b9, b10, b11, b12
<1>11. RotateOf(w) = 4 * Bit(w, 9) + 2 * Bit(w, 10) + Bit(w, 11) /\ w % 2 = Bit(w, 12)
  BY <1>6, <1>7 DEF b9, b10, b11, b12
<1>12. Bit(w, 1) = 1 /\ Bit(w, 2) = 1 /\ Bit(w, 3) = 1
  BY <1>5 DEF b1, b2, b3
<1>13. w \in SimWords
  BY <1>1
<1> QED BY <1>9, <1>10, <1>11, <1>12, <1>13

\* No slot is on in NOP.
LEMMA NothingOn ==
    ASSUME NEW w \in MicroWords, w < \o7400 \/ w % 2 = 0, \A j \in 1 .. 7 : ~SlotOn(w, j)
    PROVE  w \in {\o7000, \o7400}
<1>1. ~SlotOn(w, 1) /\ ~SlotOn(w, 2) /\ ~SlotOn(w, 3) /\ ~SlotOn(w, 4) /\ ~SlotOn(w, 5)
      /\ ~SlotOn(w, 6) /\ ~SlotOn(w, 7)
  OBVIOUS
<1>2. /\ \A n \in 1 .. 12 : Bit(w, n) \in 0 .. 1
      /\ w = 3584 + 256 * Bit(w, 4) + 128 * Bit(w, 5) + 64 * Bit(w, 6) + 32 * Bit(w, 7)
             + 16 * Bit(w, 8) + 8 * Bit(w, 9) + 4 * Bit(w, 10) + 2 * Bit(w, 11) + Bit(w, 12)
      /\ RotateOf(w) = 4 * Bit(w, 9) + 2 * Bit(w, 10) + Bit(w, 11)
      /\ w % 2 = Bit(w, 12)
  BY OperateBits
<1>3. /\ Bit(w, 4) \in 0 .. 1 /\ Bit(w, 5) \in 0 .. 1 /\ Bit(w, 6) \in 0 .. 1 /\ Bit(w, 7) \in 0 .. 1
      /\ Bit(w, 8) \in 0 .. 1 /\ Bit(w, 9) \in 0 .. 1 /\ Bit(w, 10) \in 0 .. 1
      /\ Bit(w, 11) \in 0 .. 1 /\ Bit(w, 12) \in 0 .. 1
  BY <1>2
<1>4. CASE InGroup2(w)
  <2>1. Bit(w, 4) = 1 /\ Bit(w, 5) = 0 /\ Bit(w, 6) = 0 /\ Bit(w, 7) = 0 /\ Bit(w, 8) = 0
        /\ Bit(w, 9) = 0 /\ Bit(w, 10) = 0 /\ Bit(w, 11) = 0
    BY <1>1, <1>3, <1>4 DEF SlotOn, InGroup2, Reversed
  <2>2. w >= \o7400
    BY <1>2, <1>3, <2>1
  <2> QED BY <1>2, <2>1, <2>2
<1>5. CASE ~InGroup2(w)
  <2>1. Bit(w, 4) = 0 /\ Bit(w, 5) = 0 /\ Bit(w, 6) = 0 /\ Bit(w, 7) = 0 /\ Bit(w, 8) = 0
        /\ Bit(w, 12) = 0 /\ RotateOf(w) = 0
    BY <1>1, <1>3, <1>5 DEF SlotOn, InGroup2
  <2>2. Bit(w, 9) = 0 /\ Bit(w, 10) = 0 /\ Bit(w, 11) = 0
    BY <1>2, <1>3, <2>1
  <2> QED BY <1>2, <2>1, <2>2
<1> QED BY <1>4, <1>5

\* The bits of all slots that are on
LEMMA AllSlots ==
    ASSUME NEW w, NEW n
    PROVE  BuiltBit(w, 8, n) <=> \/ SlotOn(w, 1) /\ n \in BitsOf(SlotName(w, 1))
                                 \/ SlotOn(w, 2) /\ n \in BitsOf(SlotName(w, 2))
                                 \/ SlotOn(w, 3) /\ n \in BitsOf(SlotName(w, 3))
                                 \/ SlotOn(w, 4) /\ n \in BitsOf(SlotName(w, 4))
                                 \/ SlotOn(w, 5) /\ n \in BitsOf(SlotName(w, 5))
                                 \/ SlotOn(w, 6) /\ n \in BitsOf(SlotName(w, 6))
                                 \/ SlotOn(w, 7) /\ n \in BitsOf(SlotName(w, 7))
<1>1. 1 .. 8 - 1 = {1, 2, 3, 4, 5, 6, 7}
  OBVIOUS
<1> DEFINE P(j) == SlotOn(w, j) /\ n \in BitsOf(SlotName(w, j))
<1>2. BuiltBit(w, 8, n) <=> \E j \in {1, 2, 3, 4, 5, 6, 7} : P(j)
  BY Zenon, <1>1 DEF BuiltBit
<1> HIDE DEF P
<1>3. BuiltBit(w, 8, n) <=> P(1) \/ P(2) \/ P(3) \/ P(4) \/ P(5) \/ P(6) \/ P(7)
  BY <1>2
<1> QED BY Zenon, <1>3 DEF P

\* The word of a line's operations has the instruction's bits; the bit of
\* group 2 comes with any operation but CLA.
LEMMA Group1Bits ==
    ASSUME NEW w \in MicroWords, ~InGroup2(w), NEW j \in 1 .. 7, SlotOn(w, j), NEW n \in 1 .. 12
    PROVE  BuiltBit(w, 8, n) <=> Bit(w, n) = 1
<1> DEFINE r == RotateOf(w)
<1>1. /\ Bit(w, 1) = 1 /\ Bit(w, 2) = 1 /\ Bit(w, 3) = 1
      /\ r = 4 * Bit(w, 9) + 2 * Bit(w, 10) + Bit(w, 11)
  BY OperateBits
<1>2. Bit(w, 9) \in 0 .. 1 /\ Bit(w, 10) \in 0 .. 1 /\ Bit(w, 11) \in 0 .. 1
  BY OperateBits
<1>3. r \in 0 .. 5
  BY <1>1, <1>2 DEF MicroWords
<1> HIDE DEF r
<1>4. /\ SlotOn(w, 1) <=> Bit(w, 5) = 1
      /\ SlotOn(w, 2) <=> Bit(w, 6) = 1
      /\ SlotOn(w, 3) <=> Bit(w, 7) = 1
      /\ SlotOn(w, 4) <=> Bit(w, 8) = 1
      /\ SlotOn(w, 5) <=> Bit(w, 12) = 1
      /\ SlotOn(w, 6) <=> r # 0
      /\ ~SlotOn(w, 7)
  BY DEF SlotOn, r
<1>5. /\ BitsOf(SlotName(w, 1)) = {1, 2, 3, 5} /\ BitsOf(SlotName(w, 2)) = {1, 2, 3, 6}
      /\ BitsOf(SlotName(w, 3)) = {1, 2, 3, 7} /\ BitsOf(SlotName(w, 4)) = {1, 2, 3, 8}
      /\ BitsOf(SlotName(w, 5)) = {1, 2, 3, 12}
  BY DEF SlotName, BitsOf
<1>6. r # 0 => (n \in BitsOf(SlotName(w, 6)) <=> n \in 1 .. 3 \/ (n \in 9 .. 11 /\ Bit(w, n) = 1))
  <2>1. SUFFICES ASSUME r # 0
                 PROVE  n \in BitsOf(SlotName(w, 6)) <=> n \in 1 .. 3 \/ (n \in 9 .. 11 /\ Bit(w, n) = 1)
    OBVIOUS
  <2>2. BitsOf(SlotName(w, 6)) = CASE r = 1 -> {1, 2, 3, 11} [] r = 2 -> {1, 2, 3, 10}
                                   [] r = 3 -> {1, 2, 3, 10, 11} [] r = 4 -> {1, 2, 3, 9}
                                   [] r = 5 -> {1, 2, 3, 9, 11}
    <3>1. SlotName(w, 6) = Rotates[r]
      BY DEF SlotName, r
    <3>2. r \in {1, 2, 3, 4, 5}
      BY <2>1, <1>3
    <3> QED BY <3>1, <3>2 DEF Rotates, BitsOf
  <2>3. /\ r = 1 => Bit(w, 9) = 0 /\ Bit(w, 10) = 0 /\ Bit(w, 11) = 1
        /\ r = 2 => Bit(w, 9) = 0 /\ Bit(w, 10) = 1 /\ Bit(w, 11) = 0
        /\ r = 3 => Bit(w, 9) = 0 /\ Bit(w, 10) = 1 /\ Bit(w, 11) = 1
        /\ r = 4 => Bit(w, 9) = 1 /\ Bit(w, 10) = 0 /\ Bit(w, 11) = 0
        /\ r = 5 => Bit(w, 9) = 1 /\ Bit(w, 10) = 0 /\ Bit(w, 11) = 1
    BY <1>1, <1>2
  <2>4. r = 1 \/ r = 2 \/ r = 3 \/ r = 4 \/ r = 5
    BY <2>1, <1>3
  <2> QED BY <2>2, <2>3, <2>4
<1>7. r = 0 => Bit(w, 9) = 0 /\ Bit(w, 10) = 0 /\ Bit(w, 11) = 0
  BY <1>1, <1>2
<1>8. Bit(w, 4) # 1
  BY DEF InGroup2
<1>9. SlotOn(w, 1) \/ SlotOn(w, 2) \/ SlotOn(w, 3) \/ SlotOn(w, 4) \/ SlotOn(w, 5) \/ SlotOn(w, 6)
  <2>1. j \in {1, 2, 3, 4, 5, 6, 7}
    OBVIOUS
  <2> QED BY Zenon, <1>4, <2>1
<1>10. BuiltBit(w, 8, n) <=> \/ SlotOn(w, 1) /\ n \in {1, 2, 3, 5}
                             \/ SlotOn(w, 2) /\ n \in {1, 2, 3, 6}
                             \/ SlotOn(w, 3) /\ n \in {1, 2, 3, 7}
                             \/ SlotOn(w, 4) /\ n \in {1, 2, 3, 8}
                             \/ SlotOn(w, 5) /\ n \in {1, 2, 3, 12}
                             \/ SlotOn(w, 6) /\ (n \in 1 .. 3 \/ (n \in 9 .. 11 /\ Bit(w, n) = 1))
  BY Zenon, <1>4, <1>5, <1>6, AllSlots
<1>11. n \in {1, 2, 3, 4, 5, 6, 7, 8, 9, 10, 11, 12}
  OBVIOUS
<1> QED BY <1>1, <1>4, <1>7, <1>8, <1>9, <1>10, <1>11

LEMMA Group2Bits ==
    ASSUME NEW w \in MicroWords, InGroup2(w), w % 2 = 0,
           NEW j \in 1 .. 7, SlotOn(w, j), NEW n \in 1 .. 12
    PROVE  BuiltBit(w, 8, n) <=> /\ Bit(w, n) = 1
                                 /\ n = 4 => \E i \in 1 .. 7 : i # 5 /\ SlotOn(w, i)
<1> DEFINE rev == Reversed(w)
           other == SlotOn(w, 1) \/ SlotOn(w, 2) \/ SlotOn(w, 3) \/ SlotOn(w, 4) \/ SlotOn(w, 6)
                    \/ SlotOn(w, 7)
<1>1. /\ Bit(w, 1) = 1 /\ Bit(w, 2) = 1 /\ Bit(w, 3) = 1 /\ Bit(w, 4) = 1 /\ Bit(w, 12) # 1
  BY OperateBits DEF InGroup2
<1>2. /\ SlotOn(w, 1) <=> Bit(w, 6) = 1
      /\ SlotOn(w, 2) <=> Bit(w, 7) = 1
      /\ SlotOn(w, 3) <=> Bit(w, 8) = 1
      /\ SlotOn(w, 4) <=> rev /\ Bit(w, 6) # 1 /\ Bit(w, 7) # 1 /\ Bit(w, 8) # 1
      /\ SlotOn(w, 5) <=> Bit(w, 5) = 1
      /\ SlotOn(w, 6) <=> Bit(w, 10) = 1
      /\ SlotOn(w, 7) <=> Bit(w, 11) = 1
  BY DEF SlotOn, InGroup2
<1>3. /\ BitsOf(SlotName(w, 1)) = IF rev THEN {1, 2, 3, 4, 6, 9} ELSE {1, 2, 3, 4, 6}
      /\ BitsOf(SlotName(w, 2)) = IF rev THEN {1, 2, 3, 4, 7, 9} ELSE {1, 2, 3, 4, 7}
      /\ BitsOf(SlotName(w, 3)) = IF rev THEN {1, 2, 3, 4, 8, 9} ELSE {1, 2, 3, 4, 8}
      /\ BitsOf(SlotName(w, 4)) = {1, 2, 3, 4, 9} /\ BitsOf(SlotName(w, 5)) = {1, 2, 3, 5}
      /\ BitsOf(SlotName(w, 6)) = {1, 2, 3, 4, 10} /\ BitsOf(SlotName(w, 7)) = {1, 2, 3, 4, 11}
  BY DEF SlotName, BitsOf, InGroup2
<1>4. other <=> \E i \in 1 .. 7 : i # 5 /\ SlotOn(w, i)
  <2>1. 1 .. 7 = {1, 2, 3, 4, 5, 6, 7} /\ 1 # 5 /\ 2 # 5 /\ 3 # 5 /\ 4 # 5 /\ 6 # 5 /\ 7 # 5
    OBVIOUS
  <2>2. other => \E i \in 1 .. 7 : i # 5 /\ SlotOn(w, i)
    BY Zenon, <2>1
  <2>3. ASSUME NEW i \in 1 .. 7, i # 5, SlotOn(w, i) PROVE other
    <3>1. i \in {1, 2, 3, 4, 6, 7}
      BY <2>3
    <3> QED BY Zenon, <3>1, <2>3
  <2> QED BY Zenon, <2>2, <2>3
<1>5. other \/ SlotOn(w, 5)
  <2>1. j \in {1, 2, 3, 4, 5, 6, 7}
    OBVIOUS
  <2> QED BY Zenon, <2>1
<1>6. rev <=> Bit(w, 9) = 1
  BY DEF Reversed
<1> HIDE DEF rev
<1>7. BuiltBit(w, 8, n) <=> \/ SlotOn(w, 1) /\ n \in IF rev THEN {1, 2, 3, 4, 6, 9} ELSE {1, 2, 3, 4, 6}
                            \/ SlotOn(w, 2) /\ n \in IF rev THEN {1, 2, 3, 4, 7, 9} ELSE {1, 2, 3, 4, 7}
                            \/ SlotOn(w, 3) /\ n \in IF rev THEN {1, 2, 3, 4, 8, 9} ELSE {1, 2, 3, 4, 8}
                            \/ SlotOn(w, 4) /\ n \in {1, 2, 3, 4, 9}
                            \/ SlotOn(w, 5) /\ n \in {1, 2, 3, 5}
                            \/ SlotOn(w, 6) /\ n \in {1, 2, 3, 4, 10}
                            \/ SlotOn(w, 7) /\ n \in {1, 2, 3, 4, 11}
  BY Zenon, <1>3, AllSlots
<1>8. n \in {1, 2, 3, 4, 5, 6, 7, 8, 9, 10, 11, 12}
  OBVIOUS
<1>9. BuiltBit(w, 8, n) <=> Bit(w, n) = 1 /\ (n = 4 => other)
  BY <1>1, <1>2, <1>5, <1>6, <1>7, <1>8
<1> QED BY Zenon, <1>4, <1>9

\* At the end of the line the word is the instruction, or group 1's CLA.
LEMMA Finished ==
    ASSUME NEW w \in MicroWords, w < \o7400 \/ w % 2 = 0,
           NEW j \in 1 .. 7, SlotOn(w, j), NEW v \in SimWords,
           \A n \in 1 .. 12 : Bit(v, n) = 1 <=> BuiltBit(w, 8, n)
    PROVE  v = w \/ (w = \o7600 /\ v = w - 256)
<1>1. w \in SimWords /\ (\A n \in 1 .. 12 : Bit(w, n) \in 0 .. 1)
  BY OperateBits
<1>2. \A n \in 1 .. 12 : Bit(v, n) \in 0 .. 1
  BY Zenon, WordDigits
<1>3. (\A n \in 1 .. 12 : Bit(v, n) = 1 <=> Bit(w, n) = 1) => v = w
  <2>1. SUFFICES ASSUME \A n \in 1 .. 12 : Bit(v, n) = 1 <=> Bit(w, n) = 1 PROVE v = w
    OBVIOUS
  <2>2. \A n \in 1 .. 12 : Bit(v, n) = Bit(w, n)
    BY <1>1, <1>2, <2>1
  <2> QED BY Zenon, <1>1, <2>2, SameBits
<1>4. CASE ~InGroup2(w)
  BY Zenon, <1>3, <1>4, Group1Bits
<1>5. CASE InGroup2(w) /\ \E i \in 1 .. 7 : i # 5 /\ SlotOn(w, i)
  <2>1. w % 2 = 0
    <3>1. w >= \o7400
      BY <1>1, <1>5, OperateBits DEF InGroup2
    <3> QED BY <1>1, <3>1 DEF SimWords
  <2> QED BY Zenon, <1>3, <1>5, <2>1, Group2Bits
<1>6. CASE InGroup2(w) /\ ~\E i \in 1 .. 7 : i # 5 /\ SlotOn(w, i)
  <2>1. w % 2 = 0
    <3>1. w >= \o7400
      BY <1>1, <1>6, OperateBits DEF InGroup2
    <3> QED BY <1>1, <3>1 DEF SimWords
  <2>2. ~SlotOn(w, 1) /\ ~SlotOn(w, 2) /\ ~SlotOn(w, 3) /\ ~SlotOn(w, 4) /\ ~SlotOn(w, 6)
        /\ ~SlotOn(w, 7) /\ SlotOn(w, 5)
    BY <1>6
  <2>3. Bit(w, 4) = 1 /\ Bit(w, 5) = 1 /\ Bit(w, 6) = 0 /\ Bit(w, 7) = 0 /\ Bit(w, 8) = 0
        /\ Bit(w, 9) = 0 /\ Bit(w, 10) = 0 /\ Bit(w, 11) = 0 /\ Bit(w, 12) = 0
    <3>1. /\ Bit(w, 6) \in 0 .. 1 /\ Bit(w, 7) \in 0 .. 1 /\ Bit(w, 8) \in 0 .. 1
          /\ Bit(w, 9) \in 0 .. 1 /\ Bit(w, 10) \in 0 .. 1 /\ Bit(w, 11) \in 0 .. 1
      BY <1>1
    <3>2. Bit(w, 12) = 0
      BY <2>1, OperateBits
    <3> QED BY <1>6, <2>2, <3>1, <3>2 DEF SlotOn, InGroup2, Reversed
  <2>4. w = \o7600
    <3>1. w = 3584 + 256 * Bit(w, 4) + 128 * Bit(w, 5) + 64 * Bit(w, 6) + 32 * Bit(w, 7)
              + 16 * Bit(w, 8) + 8 * Bit(w, 9) + 4 * Bit(w, 10) + 2 * Bit(w, 11) + Bit(w, 12)
      BY OperateBits
    <3> QED BY <2>3, <3>1
  <2>5. "CLA" \in MicroNames /\ Micro("CLA") = \o7200 /\ BitsOf("CLA") = {1, 2, 3, 5}
    BY DEF MicroNames, Gr1, Seq1, Micro, BitsOf
  <2>6. Micro("CLA") \in SimWords /\ \A n \in 1 .. 12 : Bit(Micro("CLA"), n) = 1 <=> n \in {1, 2, 3, 5}
    BY <2>5, MicroBits
  <2>7. \A n \in 1 .. 12 : Bit(Micro("CLA"), n) \in 0 .. 1
    BY Zenon, <2>6, WordDigits
  <2>8. \A n \in 1 .. 12 : Bit(v, n) = 1 <=> n \in {1, 2, 3, 5}
    <3> TAKE n \in 1 .. 12
    <3>1. Bit(v, n) = 1 <=> Bit(w, n) = 1 /\ n # 4
      BY Zenon, <1>6, <2>1, Group2Bits
    <3>2. Bit(w, 1) = 1 /\ Bit(w, 2) = 1 /\ Bit(w, 3) = 1
      BY OperateBits
    <3>3. n \in {1, 2, 3, 4, 5, 6, 7, 8, 9, 10, 11, 12}
      OBVIOUS
    <3> QED BY <3>1, <3>2, <3>3, <2>3
  <2>9. \A n \in 1 .. 12 : Bit(v, n) = Bit(Micro("CLA"), n)
    BY <1>2, <2>6, <2>7, <2>8
  <2>10. v = Micro("CLA")
    BY Zenon, <2>6, <2>9, SameBits
  <2> QED BY <2>4, <2>5, <2>10
<1> QED BY <1>4, <1>5, <1>6

-----------------------------------------------------------------------------
(* One micro operation *)

\* At slot i of the line: the operations before it are there, and their bits.
MicroAt(i) ==
    /\ SlotOn(op, i) /\ line = LeftOf(op, i) /\ already = Earlier(op, i)
    /\ opcode \in SimWords
    /\ \A n \in 1 .. 12 : Bit(opcode, n) = 1 <=> BuiltBit(op, i, n)
    /\ skipnext => InGroup2(op) /\ i \in 2 .. 3

\* Slots that are off add nothing.
LEMMA EarlierStep ==
    ASSUME NEW w, NEW i \in 1 .. 7, SlotOn(w, i), NEW k \in i + 1 .. 8,
           \A j \in i + 1 .. k - 1 : ~SlotOn(w, j)
    PROVE  /\ Earlier(w, k) = Earlier(w, i) \cup {SlotName(w, i)}
           /\ \A n : BuiltBit(w, k, n) <=> BuiltBit(w, i, n) \/ n \in BitsOf(SlotName(w, i))
<1>1. \A j : j \in 1 .. k - 1 /\ SlotOn(w, j) <=> (j \in 1 .. i - 1 /\ SlotOn(w, j)) \/ j = i
  <2> TAKE j
  <2>1. j \in 1 .. k - 1 <=> j \in 1 .. i - 1 \/ j = i \/ j \in i + 1 .. k - 1
    OBVIOUS
  <2> QED BY Zenon, <2>1
<1>2. Earlier(w, k) = Earlier(w, i) \cup {SlotName(w, i)}
  BY Zenon, <1>1 DEF Earlier
<1>3. \A n : BuiltBit(w, k, n) <=> BuiltBit(w, i, n) \/ n \in BitsOf(SlotName(w, i))
  BY Zenon, <1>1 DEF BuiltBit
<1> QED BY <1>2, <1>3

LEMMA MicroStep ==
    ASSUME op \in MicroWords, op < \o7400 \/ op % 2 = 0, NEW i \in 1 .. 7, MicroAt(i), MicroOp
    PROVE  /\ op' = op /\ at' = at /\ skipnext' \in BOOLEAN
           /\ \/ asm' = "done" /\ Same(opcode)'
              \/ asm' = "micro" /\ \E k \in 1 .. 7 : MicroAt(k)'
<1> DEFINE nm == SlotName(op, i)
           joined == SlotJoined(op, i)
           t == line[1]
           delim == Len(line) > 1 /\ line[2].is = "delim"
           joins == \/ line[2].name = "+" /\ t.name \in Positive
                    \/ line[2].name = "*" /\ t.name \in Negative
           rest == SubSeq(line, IF delim THEN 3 ELSE 2, Len(line))
<1>1. /\ SlotOn(op, i) /\ line = LeftOf(op, i) /\ already = Earlier(op, i)
      /\ opcode \in SimWords
      /\ \A n \in 1 .. 12 : Bit(opcode, n) = 1 <=> BuiltBit(op, i, n)
      /\ skipnext => InGroup2(op) /\ i \in 2 .. 3
  BY DEF MicroAt
<1>2. op' = op /\ at' = at
  BY DEF MicroOp, Unchanged
<1>3. /\ t = Sym(nm) /\ (delim <=> joined) /\ (joined => line[2] = SlotDelim(op))
      /\ rest = LeftOf(op, i + 1)
  <2>1. /\ line[1] = Sym(nm)
        /\ (Len(line) > 1 /\ line[2].is = "delim") <=> joined
        /\ joined => line[2] = SlotDelim(op)
        /\ SubSeq(line, IF joined THEN 3 ELSE 2, Len(line)) = LeftOf(op, i + 1)
    BY Zenon, <1>1, LineStep
  <2> QED BY <2>1
<1>4. nm \in MicroNames
  BY Zenon, <1>1, SlotTypes
<1>5. t.name = nm /\ Mask(nm) = {nm} /\ IsMicro(t)
  BY <1>3, <1>4 DEF Sym, Mask, IsMicro, MicroNames, Gr1, Gr2, Seq1, Seq2, Seq3, Seq4, Positive, Negative
<1>6. ~(skipnext /\ {nm} \cap (Positive \cup Negative) = {})
  <2>1. ASSUME skipnext PROVE nm \in Positive \cup Negative
    BY <1>1, <2>1 DEF SlotName, Positive, Negative
  <2> QED BY <2>1
<1>7. ~microconflict({nm})
  <2>1. ASSUME NEW b \in already PROVE b # nm /\ ~Forbids(b, nm)
    <3>1. PICK j \in 1 .. i - 1 : SlotOn(op, j) /\ b = SlotName(op, j)
      BY <1>1 DEF Earlier
    <3>2. j \in 1 .. 7 /\ j < i
      BY <3>1
    <3> QED BY Zenon, <1>1, <3>1, <3>2, SlotsAgree
  <2> QED BY Zenon, <2>1, NoConflict
<1>8. delim => joins
  <2>1. ASSUME joined PROVE joins
    <3>1. line[2].name = IF Reversed(op) THEN "*" ELSE "+"
      BY <1>3, <2>1 DEF SlotDelim, Delim
    <3>2. InGroup2(op) /\ i \in {1, 2}
      BY <2>1 DEF SlotJoined
    <3>3. nm \in IF Reversed(op) THEN Negative ELSE Positive
      BY <3>2 DEF SlotName, Positive, Negative
    <3> QED BY <1>5, <3>1, <3>3
  <2> QED BY <1>3, <2>1
<1>9. /\ already' = already \cup {nm}
      /\ opcode' = WithBits(opcode, Micro(nm))
      /\ line' = LeftOf(op, i + 1) /\ skipnext' = delim
      /\ asm' = IF LeftOf(op, i + 1) = << >> THEN "done" ELSE "micro"
  <2> DEFINE bad == \/ ~ IsMicro(t)
                    \/ skipnext /\ Mask(t.name) \cap (Positive \cup Negative) = {}
                    \/ microconflict(Mask(t.name))
                    \/ delim /\ ~ joins
  <2>1. ~bad
    BY Zenon, <1>5, <1>6, <1>7, <1>8
  <2>2. IF bad THEN Refused /\ UNCHANGED <<line, already, skipnext>>
        ELSE /\ already' = already \cup Mask(t.name)
             /\ opcode' = WithBits(opcode, Micro(t.name))
             /\ line' = rest /\ skipnext' = delim
             /\ asm' = IF rest = << >> THEN "done" ELSE "micro"
    BY Zenon DEF MicroOp
  <2> HIDE DEF bad, t, delim, joins, rest, nm
  <2>3. /\ already' = already \cup Mask(t.name)
        /\ opcode' = WithBits(opcode, Micro(t.name))
        /\ line' = rest /\ skipnext' = delim
        /\ asm' = IF rest = << >> THEN "done" ELSE "micro"
    BY Zenon, <2>1, <2>2
  <2> QED BY Zenon, <1>3, <1>5, <2>3
<1>10. skipnext' \in BOOLEAN /\ (skipnext' => joined)
  BY Zenon, <1>3, <1>9
<1> HIDE DEF t, delim, joins, rest
<1>11. i + 1 \in 1 .. 8
  OBVIOUS
<1>12. PICK k \in i + 1 .. 8 : /\ k = 8 \/ SlotOn(op, k)
                               /\ LeftOf(op, k) = LeftOf(op, i + 1)
                               /\ \A j \in i + 1 .. k - 1 : ~SlotOn(op, j)
  BY Zenon, <1>11, NextOn
<1>13. /\ already' = Earlier(op, k)
       /\ \A n : BuiltBit(op, k, n) <=> BuiltBit(op, i, n) \/ n \in BitsOf(nm)
  <2>1. /\ Earlier(op, k) = Earlier(op, i) \cup {nm}
        /\ \A n : BuiltBit(op, k, n) <=> BuiltBit(op, i, n) \/ n \in BitsOf(nm)
    BY Zenon, <1>1, <1>12, EarlierStep
  <2> QED BY Zenon, <1>1, <1>9, <2>1
<1>14. opcode' \in SimWords /\ \A n \in 1 .. 12 : Bit(opcode', n) = 1 <=> BuiltBit(op, k, n)
  <2>1. Micro(nm) \in SimWords /\ \A n \in 1 .. 12 : Bit(Micro(nm), n) = 1 <=> n \in BitsOf(nm)
    <3>1. 1 \in 1 .. 12
      OBVIOUS
    <3> QED BY Zenon, <1>4, <3>1, MicroBits
  <2>2. /\ opcode' \in SimWords
        /\ \A n \in 1 .. 12 : Bit(opcode', n) = 1 <=> Bit(opcode, n) = 1 \/ Bit(Micro(nm), n) = 1
    BY Zenon, <1>1, <1>9, <2>1, WithBitsIs
  <2> QED BY Zenon, <1>1, <1>13, <2>1, <2>2
<1>15. CASE k = 8
  <2>1. LeftOf(op, 8) = << >>
    BY DEF LeftOf
  <2>2. asm' = "done"
    BY <1>9, <1>12, <1>15, <2>1
  <2>3. opcode' = op \/ (op = \o7600 /\ opcode' = op - 256)
    BY <1>1, <1>14, <1>15, Finished
  <2>4. Same(opcode)'
    BY <1>2, <2>3 DEF Same
  <2> QED BY <1>2, <1>10, <2>2, <2>4
<1>16. CASE k # 8
  <2>1. k \in 1 .. 7 /\ SlotOn(op, k)
    BY <1>12, <1>16
  <2>2. LeftOf(op, k) # << >>
    BY Zenon, <2>1, LineStep
  <2>3. asm' = "micro" /\ line' = LeftOf(op, k)
    BY Zenon, <1>9, <1>12, <2>2
  <2>4. skipnext' => InGroup2(op) /\ k \in 2 .. 3
    <3>1. SUFFICES ASSUME joined PROVE InGroup2(op) /\ k \in 2 .. 3
      BY <1>10
    <3>2. InGroup2(op) /\ \/ i = 1 /\ (SlotOn(op, 2) \/ SlotOn(op, 3))
                          \/ i = 2 /\ SlotOn(op, 3)
      BY <3>1 DEF SlotJoined, SlotOn
    <3>3. k <= 3
      <4>1. ASSUME k > 3 PROVE FALSE
        <5>1. 3 \in i + 1 .. k - 1 /\ (i = 1 => 2 \in i + 1 .. k - 1)
          BY <3>2, <4>1
        <5> QED BY Zenon, <1>12, <3>2, <5>1
      <4> QED BY <4>1
    <3> QED BY <3>2, <3>3
  <2>5. MicroAt(k)'
    BY Zenon, <1>2, <1>13, <1>14, <2>1, <2>3, <2>4 DEF MicroAt
  <2> QED BY Zenon, <1>2, <1>10, <2>1, <2>3, <2>5
<1> QED BY <1>15, <1>16

-----------------------------------------------------------------------------
(* A line, from its start to its end *)

\* The inductive invariant: at the start of the line, at a slot that is on, or
\* done.
AsmInv ==
    /\ op \in SimWords /\ (op < \o7400 \/ op % 2 = 0) /\ at \in SimWords
    /\ Plain => \/ AsmStart(op, at)
                \/ op >= \o7000 /\ asm = "micro" /\ \E i \in 1 .. 7 : MicroAt(i)
                \/ asm = "done" /\ Same(opcode)

\* It holds at the start.
LEMMA AsmInitInv == AsmInit => AsmInv
<1>1. ASSUME NEW w \in Opcodes, NEW pc \in Addresses, AsmStart(w, pc) PROVE AsmInv
  <2>1. op = w /\ at = pc /\ AsmStart(op, at)
    BY <1>1 DEF AsmStart
  <2>2. w \in SimWords /\ (w < \o7400 \/ w % 2 = 0) /\ pc \in SimWords
    BY AsmAssumption DEF SimWords
  <2> QED BY <2>1, <2>2 DEF AsmInv
<1> QED BY <1>1 DEF AsmInit

\* Names of memory references are not those of micro operations.
LEMMA MemNames ==
    /\ \A n \in 1 .. 6 : MemOps[n] \notin MicroNames \cup {"NOP", "IOT"}
    /\ "IOT" \notin MicroNames \cup {"NOP"}
    /\ \A n \in 1 .. 6, k \in 1 .. 6 : MemOps[n] = MemOps[k] => n = k
<1>1. \A n \in 1 .. 6 : MemOps[n] \in {"AND", "TAD", "ISZ", "DCA", "JMS", "JMP"}
  <2> TAKE n \in 1 .. 6
  <2>1. n \in {1, 2, 3, 4, 5, 6}
    OBVIOUS
  <2> QED BY <2>1 DEF MemOps
<1>2. {"AND", "TAD", "ISZ", "DCA", "JMS", "JMP", "IOT"} \cap (MicroNames \cup {"NOP"}) = {}
  BY DEF MicroNames, Gr1, Gr2, Seq1, Seq2, Seq3, Seq4, Positive, Negative
<1>3. \A n \in 1 .. 6, k \in 1 .. 6 : MemOps[n] = MemOps[k] => n = k
  <2> TAKE n \in 1 .. 6, m \in 1 .. 6
  <2>1. n \in {1, 2, 3, 4, 5, 6} /\ m \in {1, 2, 3, 4, 5, 6}
    OBVIOUS
  <2> QED BY <2>1 DEF MemOps
<1> QED BY <1>1, <1>2, <1>3

\* Lines of two and three tokens
LEMMA TupleConcat ==
    \A a, b, c : /\ <<a>> \o << >> = <<a>> /\ <<a>> \o <<b>> = <<a, b>>
                  /\ <<a, b>> \o <<c>> = <<a, b, c>>
<1> TAKE a, b, c
<1> DEFINE T == {a, b, c}
<1>1. a \in T /\ b \in T /\ c \in T
  OBVIOUS
<1> HIDE DEF T
<1>2. /\ <<a>> \in Seq(T) /\ <<b>> \in Seq(T) /\ <<c>> \in Seq(T)
      /\ <<a, b>> \in Seq(T) /\ <<a, b, c>> \in Seq(T)
  BY <1>1
<1>3. <<a>> \o << >> = <<a>>
  BY <1>2, ConcatEmptySeq
<1>4. <<a>> \o <<b>> = <<a, b>>
  <2>1. <<a>> \o <<b>> \in Seq(T) /\ Len(<<a>> \o <<b>>) = 2 /\ Len(<<a, b>>) = 2
    BY <1>2
  <2>2. \A i \in 1 .. 2 : (<<a>> \o <<b>>)[i] = <<a, b>>[i]
    BY <1>2
  <2> QED BY <1>2, <2>1, <2>2, SeqEqual
<1>5. <<a, b>> \o <<c>> = <<a, b, c>>
  <2>1. <<a, b>> \o <<c>> \in Seq(T) /\ Len(<<a, b>> \o <<c>>) = 3 /\ Len(<<a, b, c>>) = 3
    BY <1>2
  <2>2. \A i \in 1 .. 3 : (<<a, b>> \o <<c>>)[i] = <<a, b, c>>[i]
    BY <1>2
  <2> QED BY <1>2, <2>1, <2>2, SeqEqual
<1> QED BY <1>3, <1>4, <1>5

\* The parts of a memory reference, and of an address
LEMMA MemParts ==
    ASSUME NEW w \in SimWords, w < \o6000
    PROVE  /\ w \div 512 \in 0 .. 5 /\ w % 128 \in 0 .. 127
           /\ w = 512 * (w \div 512) + 256 * (IF BitSet(w, 256) THEN 1 ELSE 0)
                  + 128 * (IF BitSet(w, 128) THEN 1 ELSE 0) + (w % 128)
<1> DEFINE z == IF BitSet(w, 128) THEN 1 ELSE 0
           d == IF BitSet(w, 256) THEN 1 ELSE 0
           low == w % 128
           high == w \div 512
<1>1. w \in 0 .. 3071
  BY DEF SimWords
<1>2. w \div 128 = 2 * (w \div 256) + ((w \div 128) % 2)
  BY <1>1
<1>3. w \div 256 = 2 * high + ((w \div 256) % 2)
  BY <1>1
<1>4. (w \div 256) % 2 = d /\ (w \div 128) % 2 = z /\ z \in 0 .. 1 /\ d \in 0 .. 1
  <2>1. (w \div 256) % 2 \in 0 .. 1 /\ (w \div 128) % 2 \in 0 .. 1
    BY <1>1
  <2> QED BY <2>1 DEF BitSet
<1>5. w = 128 * (w \div 128) + low /\ low \in 0 .. 127 /\ high \in 0 .. 5
  BY <1>1
<1> HIDE DEF z, d, low, high
<1>6. w = 512 * high + 256 * d + 128 * z + low
  BY <1>1, <1>2, <1>3, <1>4, <1>5
<1> QED BY <1>5, <1>6 DEF z, d, low, high

\* On page 0 the page is 0.
LEMMA AtParts ==
    ASSUME NEW a \in SimWords
    PROVE  a \div 128 \in Nat /\ (a < 128 <=> a \div 128 = 0)
<1>1. a \in 0 .. 4095
  BY DEF SimWords
<1> QED BY <1>1

MemReference(w) == w < \o6000

\* The first step at a memory reference
LEMMA MemStep ==
    ASSUME op \in SimWords, at \in SimWords, MemReference(op), Plain, AsmStart(op, at), AsmNext
    PROVE  op' = op /\ at' = at /\ asm' = "done" /\ Same(opcode)'
<1> DEFINE m == 1 + op \div 512
           z == IF BitSet(op, 128) THEN 1 ELSE 0
           d == IF BitSet(op, 256) THEN 1 ELSE 0
           low == op % 128
           v == Operand(op, at)
<1>1. m \in 1 .. 6 /\ op \div 512 < 6
  <2>1. op \div 512 \in 0 .. 5
    BY MemParts DEF MemReference
  <2>2. \A x \in 0 .. 5 : 1 + x \in 1 .. 6 /\ x < 6
    OBVIOUS
  <2> QED BY <2>1, <2>2
<1>2. op = 512 * (m - 1) + 256 * d + 128 * z + low /\ low \in 0 .. 127
  <2>1. op \div 512 = m - 1
    <3>1. op \div 512 \in 0 .. 5
      BY MemParts DEF MemReference
    <3>2. \A x \in 0 .. 5 : (1 + x) - 1 = x
      OBVIOUS
    <3> QED BY <3>1, <3>2
  <2>2. /\ op = 512 * (op \div 512) + 256 * d + 128 * z + low
        /\ low \in 0 .. 127
    BY MemParts DEF MemReference
  <2> HIDE DEF m, d, z, low
  <2> QED BY <2>1, <2>2
<1>3. v = low + (IF z = 1 THEN 128 * (at \div 128) ELSE 0) /\ v < 512 /\ v \in Nat
  <2>1. v = low + (IF z = 1 THEN 128 * (at \div 128) ELSE 0)
    BY DEF Operand
  <2>2. v < 512
    BY DEF Plain, MemReference
  <2>3. at \div 128 \in Nat
    BY AtParts
  <2> HIDE DEF v, low
  <2> QED BY <2>1, <2>2, <2>3, <1>2
<1>4. Strtoul(v) = v
  <2>1. v \div 512 = 0
    BY <1>3
  <2> HIDE DEF v
  <2> QED BY <2>1 DEF Strtoul, Digits
<1>b. d \in {0, 1} /\ z \in {0, 1}
  OBVIOUS
<1> HIDE DEF z, d, low
<1>5. /\ line = (<<Sym(MemOps[m])>> \o When(op, 256, "I")) \o <<Number(v)>>
      /\ asm = "start" /\ already = {} /\ opcode = 0 /\ skipnext = FALSE
  <2>1. disassemble(op, at) = (<<Sym(MemOps[m])>> \o When(op, 256, "I")) \o <<Number(Strtoul(v))>>
    BY <1>1 DEF disassemble
  <2>2. line = disassemble(op, at) /\ asm = "start" /\ already = {} /\ opcode = 0 /\ skipnext = FALSE
    BY DEF AsmStart
  <2> QED BY <1>4, <2>1, <2>2
<1> HIDE DEF m, v
<1>6. /\ d = 1 => line = <<Sym(MemOps[m]), Sym("I"), Number(v)>>
      /\ d = 0 => line = <<Sym(MemOps[m]), Number(v)>>
  <2> DEFINE name == Sym(MemOps[m])
             ind == Sym("I")
             num == Number(v)
  <2>1. line = (<<name>> \o (IF d = 1 THEN <<ind>> ELSE << >>)) \o <<num>>
    BY <1>5 DEF When, d
  <2> HIDE DEF name, ind, num
  <2>2. <<name>> \o <<ind>> = <<name, ind>> /\ <<name>> \o << >> = <<name>>
    BY Zenon, TupleConcat
  <2>3. <<name, ind>> \o <<num>> = <<name, ind, num>> /\ <<name>> \o <<num>> = <<name, num>>
    BY Zenon, TupleConcat
  <2>4. d = 1 => line = <<name, ind, num>>
    BY Zenon, <2>1, <2>2, <2>3
  <2>5. d = 0 => line = <<name, num>>
    <3>1. d = 0 => d # 1
      OBVIOUS
    <3> QED BY Zenon, <2>1, <2>2, <2>3, <3>1
  <2> QED BY <2>4, <2>5 DEF name, ind, num
<1>7. line[1] = Sym(MemOps[m]) /\ (line[2] = Sym("I") <=> d = 1)
      /\ line[IF d = 1 THEN 3 ELSE 2].value = v
  <2>1. Number(v) # Sym("I")
    <3>1. Number(v).is # Sym("I").is
      BY DEF Number, Sym
    <3> QED BY <3>1
  <2>2. Number(v).value = v
    BY DEF Number
  <2>3. CASE d = 1
    BY <1>6, <2>2, <2>3
  <2>4. CASE d = 0
    BY <1>6, <2>1, <2>2, <2>4
  <2> QED BY <1>b, <2>3, <2>4
<1>8. PICK n \in 1 .. 6 :
        /\ line[1] = Sym(MemOps[n])
        /\ LET ind == line[2] = Sym("I")
               operand == line[IF ind THEN 3 ELSE 2].value
               word == 512 * (n - 1) + IF ind THEN 256 ELSE 0
           IN  IF operand < 128 THEN Assembled(word + operand)
               ELSE IF (operand \div 128) % 32 = (at \div 128) % 32
                    THEN Assembled(word + 128 + (operand % 128))
               ELSE Refused
        /\ UNCHANGED <<op, at>>
  <2>1. ~IotOp
    <3>1. Sym(MemOps[m]) # Sym("IOT")
      BY <1>1, MemNames DEF Sym
    <3> QED BY <3>1, <1>7 DEF IotOp
  <2>2. ~MicroOp
    BY <1>1, <1>5, <1>7 DEF MicroOp
  <2>3. MemoryOp
    BY <2>1, <2>2 DEF AsmNext
  <2> QED BY <2>3 DEF MemoryOp, Unchanged
<1>9. n = m
  <2>1. MemOps[n] = MemOps[m]
    <3>1. Sym(MemOps[n]).name = MemOps[n] /\ Sym(MemOps[m]).name = MemOps[m]
      BY DEF Sym
    <3> QED BY <1>7, <1>8, <3>1
  <2>2. m \in 1 .. 6
    BY <1>1
  <2> QED BY Zenon, <2>1, <2>2, MemNames
<1> DEFINE word == 512 * (m - 1) + IF d = 1 THEN 256 ELSE 0
<1>10. IF v < 128 THEN Assembled(word + v)
       ELSE IF (v \div 128) % 32 = (at \div 128) % 32 THEN Assembled(word + 128 + (v % 128))
       ELSE Refused
  BY <1>7, <1>8, <1>9
<1>11. word = 512 * (m - 1) + 256 * d /\ m \in Nat
  BY <1>1, <1>b
<1> HIDE DEF word
<1>12. at \div 128 \in Nat /\ (at < 128 <=> at \div 128 = 0)
  BY AtParts
<1>13. CASE v < 128
  <2>1. opcode' = word + v /\ asm' = "done"
    BY <1>10, <1>13 DEF Assembled
  <2>2. v = low /\ (z = 1 => at < 128)
    BY <1>2, <1>3, <1>12, <1>13
  <2>3. opcode' = op \/ (z = 1 /\ at < 128 /\ opcode' = op - 128)
    BY <1>2, <1>11, <1>b, <2>1, <2>2
  <2>4. z = 1 => BitSet(op, 128)
    BY DEF z
  <2>5. op' = op /\ at' = at
    BY <1>8
  <2>6. Same(opcode)'
    BY <2>3, <2>4, <2>5 DEF Same, MemReference
  <2> QED BY <2>1, <2>5, <2>6
<1>14. CASE ~(v < 128)
  <2>1. z = 1 /\ v = low + 128 * (at \div 128)
    BY <1>2, <1>3, <1>14
  <2>2. v \div 128 = at \div 128 /\ v % 128 = low
    BY <1>2, <1>12, <2>1
  <2>3. opcode' = word + 128 + low /\ asm' = "done"
    BY <1>10, <1>14, <2>2 DEF Assembled
  <2>4. opcode' = op
    BY <1>2, <1>11, <1>b, <2>1, <2>3
  <2> QED BY <1>8, <2>3, <2>4 DEF Same
<1> QED BY <1>13, <1>14

\* No bit of 0 is set.
LEMMA NoBits == \A n \in 1 .. 12 : Bit(0, n) # 1
<1>1. 0 = TwelveDigits([n \in 1 .. 12 |-> IF n \in {} THEN 1 ELSE 0])
  BY DEF TwelveDigits
<1>2. {} \in SUBSET (1 .. 12)
  OBVIOUS
<1> TAKE n \in 1 .. 12
<1>3. Bit(0, n) = 1 <=> n \in {}
  BY Zenon, <1>1, <1>2, HasBits
<1> QED BY <1>3

\* The words that are not memory references
LEMMA OperateRange ==
    ASSUME NEW w \in SimWords, ~MemReference(w), w \notin \o6000 .. \o6777
    PROVE  w \in \o7000 .. \o7777
<1>1. w \in Nat /\ w <= 4095
  BY DEF SimWords
<1>2. w >= 3072
  BY <1>1 DEF MemReference
<1>3. ~(w >= 3072 /\ w <= 3583)
  BY <1>1
<1>4. w >= 3584
  BY <1>1, <1>2, <1>3
<1> QED BY <1>1, <1>4

LEMMA OperateWords ==
    ASSUME NEW w \in SimWords, ~MemReference(w), w \notin \o6000 .. \o6777,
           w \in \o7000 .. \o7377 => (w \div 2) % 8 < 6
    PROVE  w \in MicroWords /\ w >= \o7000
<1>1. w \in \o7000 .. \o7777
  BY OperateRange
<1>2. w \in \o7000 .. \o7377 \/ InGroup2(w)
  <2>1. BitSet(w, 256) <=> Bit(w, 4) = 1
    BY NumBits
  <2> QED BY <1>1, <2>1 DEF InGroup2, BitSet
<1> QED BY <1>1, <1>2 DEF MicroWords, RotateOf

\* The first step at a line of micro operations
LEMMA OperateStep ==
    ASSUME op \in MicroWords, op < \o7400 \/ op % 2 = 0, AsmStart(op, at), AsmNext
    PROVE  /\ op' = op /\ at' = at
           /\ \/ asm' = "done" /\ Same(opcode)'
              \/ asm' = "micro" /\ \E k \in 1 .. 7 : MicroAt(k)'
<1>1. /\ line = OperateLine(op) /\ asm = "start" /\ already = {} /\ opcode = 0 /\ skipnext = FALSE
  <2>1. ~(op \div 512 < 6) /\ op \div 512 # 6
    BY DEF MicroWords
  <2>2. disassemble(op, at) = OperateLine(op)
    BY <2>1 DEF disassemble
  <2> QED BY <2>2 DEF AsmStart
<1>2. line = IF LeftOf(op, 1) = << >> THEN <<Sym("NOP")>> ELSE LeftOf(op, 1)
  BY <1>1, LineIs
<1>3. PICK k \in 1 .. 8 : /\ k = 8 \/ SlotOn(op, k)
                          /\ LeftOf(op, k) = LeftOf(op, 1)
                          /\ \A j \in 1 .. k - 1 : ~SlotOn(op, j)
  <2>1. 1 \in 1 .. 8
    OBVIOUS
  <2>2. \E k \in 1 .. 8 : /\ k = 8 \/ SlotOn(op, k)
                          /\ LeftOf(op, k) = LeftOf(op, 1)
                          /\ \A j \in 1 .. k - 1 : ~SlotOn(op, j)
    BY <2>1, NextOn
  <2> QED BY <2>2
<1>4. ASSUME NEW name \in MicroNames \cup {"NOP"}, line[1] = Sym(name) PROVE MicroOp
  <2>1. Sym(name).name = name /\ Sym("IOT").name = "IOT"
        /\ \A n \in 1 .. 6 : Sym(MemOps[n]).name = MemOps[n]
    BY DEF Sym
  <2>2. line[1] # Sym("IOT") /\ \A n \in 1 .. 6 : line[1] # Sym(MemOps[n])
    BY <1>4, <2>1, MemNames
  <2>3. ~MemoryOp /\ ~IotOp
    BY <2>2 DEF MemoryOp, IotOp
  <2> QED BY <2>3 DEF AsmNext
<1>5. CASE k = 8
  <2>1. LeftOf(op, 8) = << >>
    BY DEF LeftOf
  <2>2. line = <<Sym("NOP")>>
    BY <1>2, <1>3, <1>5, <2>1
  <2>3. line[1] = Sym("NOP") /\ Len(line) = 1 /\ SubSeq(line, 2, Len(line)) = << >>
    BY <2>2
  <2>4. MicroOp
    BY <1>4, <2>3
  <2>5. Sym("NOP").name = "NOP" /\ IsMicro(Sym("NOP")) /\ ~microconflict(Mask("NOP"))
    BY <1>1 DEF Sym, IsMicro, microconflict
  <2>6. /\ op' = op /\ at' = at
        /\ opcode' = WithBits(opcode, Micro("NOP"))
        /\ asm' = "done"
    <3> DEFINE t == line[1]
               delim == Len(line) > 1 /\ line[2].is = "delim"
               joins == \/ line[2].name = "+" /\ t.name \in Positive
                        \/ line[2].name = "*" /\ t.name \in Negative
               rest == SubSeq(line, IF delim THEN 3 ELSE 2, Len(line))
               bad == \/ ~ IsMicro(t)
                      \/ skipnext /\ Mask(t.name) \cap (Positive \cup Negative) = {}
                      \/ microconflict(Mask(t.name))
                      \/ delim /\ ~ joins
    <3>1. ~delim /\ t = Sym("NOP") /\ t.name = "NOP"
      BY <2>3, <2>5
    <3>2. ~bad
      BY Zenon, <1>1, <2>5, <3>1
    <3>3. rest = << >>
      BY <2>3, <3>1
    <3>4. /\ UNCHANGED <<op, at>>
          /\ IF bad THEN Refused /\ UNCHANGED <<line, already, skipnext>>
             ELSE /\ already' = already \cup Mask(t.name)
                  /\ opcode' = WithBits(opcode, Micro(t.name))
                  /\ line' = rest /\ skipnext' = delim
                  /\ asm' = IF rest = << >> THEN "done" ELSE "micro"
      BY Zenon, <2>4 DEF MicroOp, Unchanged
    <3> HIDE DEF bad, t, delim, joins, rest
    <3> QED BY <3>1, <3>2, <3>3, <3>4
  <2>7. opcode' = \o7000
    <3> DEFINE s == {1, 2, 3}
               nop == \o7000
               new == WithBits(0, nop)
    <3>1. 0 \in SimWords /\ nop \in SimWords /\ s \in SUBSET (1 .. 12)
      BY DEF SimWords
    <3>2. nop = TwelveDigits([k1 \in 1 .. 12 |-> IF k1 \in s THEN 1 ELSE 0])
      BY DEF TwelveDigits
    <3> HIDE DEF nop, s
    <3>3. \A m \in 1 .. 12 : Bit(nop, m) = 1 <=> m \in s
      BY Zenon, <3>1, <3>2, HasBits
    <3>4. new \in SimWords /\ \A m \in 1 .. 12 : Bit(new, m) = 1 <=> Bit(0, m) = 1 \/ Bit(nop, m) = 1
      BY Zenon, <3>1, WithBitsIs
    <3> HIDE DEF new
    <3>5. \A m \in 1 .. 12 : Bit(new, m) \in 0 .. 1 /\ Bit(nop, m) \in 0 .. 1
      BY Zenon, <3>1, <3>4, WordDigits
    <3>6. \A m \in 1 .. 12 : Bit(new, m) = Bit(nop, m)
      BY <3>4, <3>5, NoBits
    <3>7. new = nop
      BY Zenon, <3>1, <3>4, <3>6, SameBits
    <3> QED BY <1>1, <2>6, <3>7 DEF nop, new, Micro
  <2>8. op \in {\o7000, \o7400}
    <3>1. \A j \in 1 .. 7 : ~SlotOn(op, j)
      BY <1>3, <1>5
    <3> QED BY <3>1, NothingOn
  <2>9. Same(opcode)'
    BY <2>6, <2>7, <2>8 DEF Same
  <2> QED BY <2>6, <2>9
<1>6. CASE k # 8
  <2>1. k \in 1 .. 7 /\ SlotOn(op, k)
    BY <1>3, <1>6
  <2>2. LeftOf(op, k)[1] = Sym(SlotName(op, k)) /\ LeftOf(op, k) # << >>
    BY <2>1, LineStep
  <2>3. line = LeftOf(op, k)
    BY <1>2, <1>3, <2>2
  <2>4. MicroOp
    <3>1. SlotName(op, k) \in MicroNames
      BY <2>1, SlotTypes
    <3> QED BY <1>4, <2>2, <2>3, <3>1
  <2>5. Earlier(op, k) = {}
    BY <1>3 DEF Earlier
  <2>6. \A n \in 1 .. 12 : Bit(0, n) # 1 /\ ~BuiltBit(op, k, n)
    BY <1>3, NoBits DEF BuiltBit
  <2>7. 0 \in SimWords
    BY DEF SimWords
  <2>8. MicroAt(k)
    BY <1>1, <2>1, <2>3, <2>5, <2>6, <2>7 DEF MicroAt
  <2> QED BY <2>1, <2>4, <2>8, MicroStep
<1> QED BY <1>5, <1>6

\* What the assembler refuses: IOTs, and lines that end with a rotate there is not.
NoRotate(w) == w \in \o7000 .. \o7377 /\ (w \div 2) % 8 >= 6
NoRotateNames == {"CLA", "CLL", "CMA", "CML", "IAC", "??6", "??7"}
NoRotateTokens == {Sym(n) : n \in NoRotateNames}

RefusedInv ==
    /\ op \in \o6000 .. \o6777 =>
          \/ asm = "start" /\ line = <<Sym("IOT"), Number(Strtoul(op))>>
          \/ asm = "error"
    /\ NoRotate(op) =>
          \/ /\ asm \in {"start", "micro"}
             /\ line \in Seq(NoRotateTokens) /\ line # << >>
             /\ line[Len(line)] \in {Sym("??6"), Sym("??7")}
          \/ asm = "error"

LEMMA TokenAdded ==
    ASSUME NEW S, NEW s \in Seq(S), NEW x \in S
    PROVE  /\ << >> \in Seq(S) /\ <<x>> \in Seq(S)
           /\ s \o <<x>> \in Seq(S) /\ s \o <<x>> # << >>
           /\ Len(s \o <<x>>) = Len(s) + 1 /\ (s \o <<x>>)[Len(s) + 1] = x
<1>1. << >> \in Seq(S) /\ <<x>> \in Seq(S) /\ Len(<<x>>) = 1 /\ <<x>>[1] = x /\ Len(s) \in Nat
  OBVIOUS
<1> DEFINE t == <<x>>
           c == s \o t
<1>2. t \in Seq(S) /\ Len(t) = 1 /\ t[1] = x
  BY <1>1
<1> HIDE DEF t
<1>3. c \in Seq(S) /\ Len(c) = Len(s) + Len(t)
      /\ \A i \in 1 .. Len(s) + Len(t) : c[i] = IF i <= Len(s) THEN s[i] ELSE t[i - Len(s)]
  BY <1>2, ConcatProperties
<1> HIDE DEF c
<1>4. Len(c) = Len(s) + 1 /\ c[Len(s) + 1] = x /\ c # << >>
  BY <1>1, <1>2, <1>3
<1> QED BY <1>1, <1>3, <1>4 DEF c, t

LEMMA TokenTaken ==
    ASSUME NEW S, NEW s \in Seq(S), s # << >>, Len(s) # 1
    PROVE  LET rest == SubSeq(s, 2, Len(s))
           IN  rest \in Seq(S) /\ rest # << >> /\ rest[Len(rest)] = s[Len(s)]
<1>1. Len(s) \in Nat /\ Len(s) >= 2 /\ \A i \in 2 .. Len(s) : s[i] \in S
  OBVIOUS
<1> DEFINE rest == SubSeq(s, 2, Len(s))
<1>2. /\ rest \in Seq(S) /\ Len(rest) = IF 2 <= Len(s) THEN Len(s) - 2 + 1 ELSE 0
      /\ \A i \in 1 .. Len(s) - 2 + 1 : rest[i] = s[2 + i - 1]
  BY <1>1, SubSeqProperties
<1> HIDE DEF rest
<1>3. Len(rest) = Len(s) - 1 /\ rest[Len(s) - 1] = s[Len(s)]
  BY <1>1, <1>2
<1>4. rest # << >> /\ rest[Len(rest)] = s[Len(s)]
  BY <1>1, <1>2, <1>3
<1> QED BY Zenon, <1>2, <1>4 DEF rest

LEMMA RefusedInit == ASSUME op \in SimWords, AsmStart(op, at) PROVE RefusedInv
<1>0. op \in 0 .. 4095 /\ line = disassemble(op, at) /\ asm = "start"
  BY DEF AsmStart, SimWords
<1>1. ASSUME op \in \o6000 .. \o6777 PROVE line = <<Sym("IOT"), Number(Strtoul(op))>>
  <2>1. op \div 512 = 6
    BY <1>1
  <2> QED BY <1>0, <2>1 DEF disassemble
<1>2. ASSUME NoRotate(op)
      PROVE  /\ line \in Seq(NoRotateTokens) /\ line # << >>
             /\ line[Len(line)] \in {Sym("??6"), Sym("??7")}
  <2>1. op \in 3584 .. 3839 /\ (op \div 2) % 8 \in {6, 7}
    BY <1>2 DEF NoRotate
  <2>2. op \div 512 = 7 /\ (op \div 256) % 2 = 0
    BY <2>1
  <2>3. ASSUME NEW bit, NEW n \in NoRotateNames PROVE When(op, bit, n) \in Seq(NoRotateTokens)
    <3>1. Sym(n) \in NoRotateTokens
      BY DEF NoRotateTokens
    <3>2. << >> \in Seq(NoRotateTokens) /\ <<Sym(n)>> \in Seq(NoRotateTokens)
      BY <3>1, TokenAdded
    <3> QED BY Zenon, <3>2 DEF When
  <2> DEFINE rotate == <<Sym(Rotates[(op \div 2) % 8])>>
             before == When(op, 128, "CLA") \o When(op, 64, "CLL") \o When(op, 32, "CMA")
                       \o When(op, 16, "CML") \o When(op, 1, "IAC")
  <2>4. before \in Seq(NoRotateTokens)
    <3>1. /\ "CLA" \in NoRotateNames /\ "CLL" \in NoRotateNames /\ "CMA" \in NoRotateNames
          /\ "CML" \in NoRotateNames /\ "IAC" \in NoRotateNames
      BY DEF NoRotateNames
    <3>2. /\ When(op, 128, "CLA") \in Seq(NoRotateTokens) /\ When(op, 64, "CLL") \in Seq(NoRotateTokens)
          /\ When(op, 32, "CMA") \in Seq(NoRotateTokens) /\ When(op, 16, "CML") \in Seq(NoRotateTokens)
          /\ When(op, 1, "IAC") \in Seq(NoRotateTokens)
      BY Zenon, <2>3, <3>1
    <3> QED BY <3>2
  <2>5. rotate = <<Sym("??6")>> \/ rotate = <<Sym("??7")>>
    BY <2>1 DEF Rotates
  <2>6. PICK t \in {Sym("??6"), Sym("??7")} : rotate = <<t>>
    BY <2>5
  <2>9. t \in NoRotateTokens
    BY DEF NoRotateTokens, NoRotateNames
  <2>7. line = before \o rotate
    <3>1. Group1Line(op) = before \o rotate
      BY <2>1 DEF Group1Line
    <3>2. before \o rotate # << >>
      <4> HIDE DEF before, rotate
      <4> QED BY <2>4, <2>6, <2>9, TokenAdded
    <3>3. line = OperateLine(op)
      BY <1>0, <2>2 DEF disassemble
    <3>4. ~ BitSet(op, 256)
      BY <2>2 DEF BitSet
    <3> HIDE DEF before, rotate
    <3> QED BY Zenon, <3>1, <3>2, <3>3, <3>4 DEF OperateLine
  <2> HIDE DEF before, rotate
  <2>8. /\ line \in Seq(NoRotateTokens) /\ line # << >>
        /\ Len(line) = Len(before) + 1 /\ line[Len(before) + 1] = t
    BY <2>4, <2>6, <2>7, <2>9, TokenAdded
  <2> QED BY <2>8
<1> QED BY <1>0, <1>1, <1>2 DEF RefusedInv

LEMMA RefusedNext == ASSUME op \in SimWords, RefusedInv, [AsmNext]_asmVars PROVE RefusedInv'
<1>1. op' = op
  BY DEF AsmNext, MemoryOp, IotOp, MicroOp, Unchanged, asmVars
<1>2. asm = "error" => asm' = "error"
  BY DEF AsmNext, MemoryOp, IotOp, MicroOp, asmVars
<1>3. ASSUME op \in \o6000 .. \o6777, asm = "start", line = <<Sym("IOT"), Number(Strtoul(op))>>, AsmNext
      PROVE  asm' = "error"
  <2>1. line[1] = Sym("IOT") /\ line[2].value = Strtoul(op)
    BY <1>3 DEF Number
  <2>2. \A n \in 1 .. 6 : line[1] # Sym(MemOps[n])
    BY <2>1, MemNames DEF Sym
  <2>3. IotOp
    BY <1>3, <2>1, <2>2 DEF AsmNext, MemoryOp, MicroOp
  <2>4. Strtoul(op) \notin \o6000 .. \o6777
    <3>1. op \div 512 = 6 /\ (op \div 64) % 8 \in 0 .. 7 /\ (op \div 8) % 8 \in 0 .. 7 /\ op % 8 \in 0 .. 7
      BY <1>3
    <3>2. Strtoul(op) = 1000 * 6 + 100 * ((op \div 64) % 8) + 10 * ((op \div 8) % 8) + (op % 8)
      BY <3>1 DEF Strtoul, Digits
    <3> DEFINE x == (op \div 64) % 8
               y == (op \div 8) % 8
               z == op % 8
    <3> HIDE DEF x, y, z
    <3>3. x \in 0 .. 7 /\ y \in 0 .. 7 /\ z \in 0 .. 7 /\ Strtoul(op) = 1000 * 6 + 100 * x + 10 * y + z
      BY <3>1, <3>2 DEF x, y, z
    <3> QED BY <3>3
  <2> QED BY <2>1, <2>3, <2>4 DEF IotOp, Refused
<1>4. ASSUME NoRotate(op), asm \in {"start", "micro"}, line \in Seq(NoRotateTokens), line # << >>,
             line[Len(line)] \in {Sym("??6"), Sym("??7")}, AsmNext
      PROVE  \/ /\ asm' \in {"start", "micro"}
                /\ line' \in Seq(NoRotateTokens) /\ line' # << >>
                /\ line'[Len(line')] \in {Sym("??6"), Sym("??7")}
             \/ asm' = "error"
  <2>1. line[1] \in NoRotateTokens
    BY <1>4
  <2>2. /\ \A n \in 1 .. 6 : line[1] # Sym(MemOps[n])
        /\ line[1] # Sym("IOT")
    <3>1. PICK name \in NoRotateNames : line[1] = Sym(name)
      BY <2>1 DEF NoRotateTokens
    <3>2. name # "IOT" /\ \A n \in 1 .. 6 : name # MemOps[n]
      <4>1. name \in MicroNames \cup {"??6", "??7"}
        BY <3>1 DEF NoRotateNames, MicroNames, Gr1, Seq1, Seq2, Seq3
      <4>2. \A n \in 1 .. 6 : MemOps[n] \in {"AND", "TAD", "ISZ", "DCA", "JMS", "JMP"}
        <5> TAKE n \in 1 .. 6
        <5>1. n \in {1, 2, 3, 4, 5, 6}
          OBVIOUS
        <5> QED BY <5>1 DEF MemOps
      <4> QED BY <3>1, <4>2 DEF NoRotateNames
    <3> QED BY <3>1, <3>2 DEF Sym
  <2>3. MicroOp
    BY <1>4, <2>2 DEF AsmNext, MemoryOp, IotOp
  <2>4. \A j \in 1 .. Len(line) : line[j].is # "delim"
    BY <1>4 DEF NoRotateTokens, Sym
  <2>5. CASE asm' = "error"
    BY <2>5
  <2>6. CASE asm' # "error"
    <3>0. ~ (Len(line) > 1 /\ line[2].is = "delim")
      <4>1. Len(line) \in Nat
        BY <1>4
      <4> QED BY <2>4, <4>1
    <3>1. /\ IsMicro(line[1])
          /\ line' = SubSeq(line, 2, Len(line))
          /\ asm' = IF line' = << >> THEN "done" ELSE "micro"
      BY <2>3, <3>0, <2>6 DEF MicroOp, Refused
    <3>2. Len(line) # 1
      <4>1. ~ IsMicro(Sym("??6")) /\ ~ IsMicro(Sym("??7"))
        BY DEF IsMicro, Sym, Gr1, Gr2, Seq1, Seq2, Seq3, Seq4, Positive, Negative
      <4> QED BY <1>4, <3>1, <4>1
    <3>3. line' \in Seq(NoRotateTokens) /\ line' # << >> /\ line'[Len(line')] = line[Len(line)]
      BY <1>4, <3>1, <3>2, TokenTaken
    <3> QED BY <1>4, <3>1, <3>3
  <2> QED BY <2>5, <2>6
<1>5. CASE UNCHANGED asmVars
  BY <1>5 DEF asmVars, RefusedInv
<1>6. CASE AsmNext
  BY <1>1, <1>2, <1>3, <1>4, <1>6 DEF RefusedInv
<1> QED BY <1>5, <1>6

\* Every step keeps the invariant.
LEMMA AsmNextInv == AsmInv /\ [AsmNext]_asmVars => AsmInv'
<1> SUFFICES ASSUME AsmInv, [AsmNext]_asmVars PROVE AsmInv'
  OBVIOUS
<1>1. op \in SimWords /\ (op < \o7400 \/ op % 2 = 0) /\ at \in SimWords
  BY DEF AsmInv
<1>2. op' = op /\ at' = at
  BY DEF AsmNext, MemoryOp, IotOp, MicroOp, Unchanged, asmVars
<1>3. Plain' <=> Plain
  BY <1>2 DEF Plain
<1>4. ASSUME Plain, AsmStart(op, at), AsmNext
      PROVE  \/ op >= \o7000 /\ asm' = "micro" /\ \E k \in 1 .. 7 : MicroAt(k)'
             \/ asm' = "done" /\ Same(opcode)'
  <2>1. CASE MemReference(op)
    BY Zenon, <1>1, <1>4, <2>1, MemStep
  <2>2. CASE ~MemReference(op)
    <3>1. op \in MicroWords /\ op >= \o7000
      <4>1. op \in SimWords
        BY <1>1
      <4> QED BY <1>4, <2>2, <4>1, OperateWords DEF Plain
    <3> QED BY <1>1, <1>4, <3>1, OperateStep
  <2> QED BY <2>1, <2>2
<1>5. ASSUME Plain, op >= \o7000, asm = "micro", NEW i \in 1 .. 7, MicroAt(i), AsmNext
      PROVE  \/ op >= \o7000 /\ asm' = "micro" /\ \E k \in 1 .. 7 : MicroAt(k)'
             \/ asm' = "done" /\ Same(opcode)'
  <2>1. MicroOp
    BY <1>5 DEF AsmNext, MemoryOp, IotOp
  <2>2. op \in MicroWords
    <3>1. op \in SimWords
      BY <1>1
    <3>2. ~MemReference(op)
      BY <1>5, <3>1 DEF MemReference, SimWords
    <3> QED BY <1>5, <3>1, <3>2, OperateWords DEF Plain
  <2> QED BY <1>1, <1>5, <2>1, <2>2, MicroStep
<1>6. asm = "done" => ~AsmNext
  BY DEF AsmNext, MemoryOp, IotOp, MicroOp
<1>7. CASE UNCHANGED asmVars
  <2>1. UNCHANGED asmVars => op' = op /\ at' = at /\ line' = line /\ asm' = asm /\ already' = already
                             /\ opcode' = opcode /\ skipnext' = skipnext
    BY DEF asmVars
  <2>2. (AsmStart(op, at))' <=> AsmStart(op, at)
    BY <1>7, <2>1 DEF AsmStart
  <2>3. \A i \in 1 .. 7 : MicroAt(i)' <=> MicroAt(i)
    BY <1>7, <2>1 DEF MicroAt
  <2>4. Same(opcode)' <=> Same(opcode)
    BY <1>7, <2>1 DEF Same
  <2> QED BY <1>1, <1>3, <1>7, <2>1, <2>2, <2>3, <2>4 DEF AsmInv
<1>8. CASE AsmNext
  <2>1. Plain => \/ op >= \o7000 /\ asm' = "micro" /\ \E k \in 1 .. 7 : MicroAt(k)'
                 \/ asm' = "done" /\ Same(opcode)'
    BY <1>4, <1>5, <1>6, <1>8 DEF AsmInv
  <2> QED BY <1>1, <1>2, <1>3, <2>1 DEF AsmInv
<1> QED BY <1>7, <1>8

\* Reassembled, for the instructions that are in Plain at any of the addresses: what
\* disassemble.cc writes assemble.cc takes, and makes an instruction of it that does
\* the same.  IOTs and rotates that do not exist it refuses, whatever they are.
THEOREM LinesReassembled == AsmSpec => []Reassembled
<1>1. AsmInv /\ RefusedInv => Reassembled
  <2> SUFFICES ASSUME AsmInv, RefusedInv, asm \in {"done", "error"}
               PROVE  IF Plain THEN asm = "done" /\ Same(opcode) ELSE op >= \o6000 => asm = "error"
    BY DEF Reassembled
  <2>1. CASE Plain
    BY <2>1 DEF AsmInv, AsmStart
  <2>2. CASE ~Plain
    <3>1. op \in SimWords
      BY DEF AsmInv
    <3>2. op >= \o6000 => op \in \o6000 .. \o6777 \/ NoRotate(op)
      BY <2>2, <3>1 DEF Plain, NoRotate, SimWords
    <3> QED BY <2>2, <3>2 DEF RefusedInv
  <2> QED BY <2>1, <2>2
<1>2. AsmInit => AsmInv /\ RefusedInv
  <2>1. AsmInit => AsmInv
    BY AsmInitInv
  <2>2. ASSUME NEW w \in Opcodes, NEW pc \in Addresses, AsmStart(w, pc), AsmInv PROVE RefusedInv
    <3>1. op = w /\ at = pc /\ AsmStart(op, at) /\ op \in SimWords
      BY <2>2 DEF AsmStart, AsmInv
    <3> QED BY <3>1, RefusedInit
  <2> QED BY <2>1, <2>2 DEF AsmInit
<1>3. AsmInv /\ RefusedInv /\ [AsmNext]_asmVars => AsmInv' /\ RefusedInv'
  BY AsmNextInv, RefusedNext DEF AsmInv
<1> QED BY <1>1, <1>2, <1>3, PTL DEF AsmSpec
=============================================================================
