---------------------------- MODULE DeviceProofs ----------------------------
(***************************************************************************)
(* z8ltty, for either board and any options, tapes and strings: no         *)
(* character is lost or comes twice, and run stops where it was told to.   *)
(* The prompt it and the other programs share: it comes when the output    *)
(* before it is on the terminal; the atexit commands are run last first,   *)
(* and all of them, but for some of the control-Cs that end the program.   *)
(* z8lvc8, for rings of any size: the window shows the points in the ring. *)
(* z8lptr and z8lptp, for any tapes and options: the bytes of a tape come  *)
(* in order, none twice; the punch's file has the bytes given to it.       *)
(***************************************************************************)
EXTENDS Z8lTty, PaperTape, TclMain, Z8lVc8, WellFoundedInduction, SequenceTheorems, TLAPS
LOCAL INSTANCE Sequences

TtyBytes == 0 .. 255
TtyPcs == {"prompt", "run", "taken", "show", "keys", "put", "send", "sendput", "recv", "received",
           "dead"}
TtyRegs == [kbflag : BOOLEAN, kbchar : TtyBytes, prflag : BOOLEAN, prfull : BOOLEAN, prchar : TtyBytes]
TtyTypeOK ==
    /\ ttBoard \in {"TT", "DC"} /\ ttyPc \in TtyPcs
    /\ tty \in TtyRegs
    /\ ttyVal \in TtyBytes /\ typed \in Seq(TtyBytes)
    /\ reader \in [open : BOOLEAN, left : Seq(TtyBytes)]
    /\ DOMAIN ttyOpt = DOMAIN Options
    /\ pdpMay \in BOOLEAN /\ crossed \in BOOLEAN /\ punchfile \in BOOLEAN

\* What z8ltty has in hand is still in the register, a printer that is free or
\* done has nothing left to print.
PrinterInv ==
    ttyPc # "dead" /\ ~crossed =>
        /\ ttyPc \in {"taken", "received"} => tty.prfull /\ ttyVal = tty.prchar
        /\ pdpMay \/ tty.prflag => ~tty.prfull
        /\ unprinted = InHand \o ToFetch

\* A key about to be given finds the one before it read.
KeyInv ==
    /\ ttyPc \in {"put", "sendput"} => ~tty.kbflag
    /\ unread = IF tty.kbflag THEN <<tty.kbchar>> ELSE ToGive

TtyInv == TtyTypeOK /\ PrinterInv /\ KeyInv

\* Sequences are the same if their elements are; the short ones of the printer.
LEMMA SameSeq ==
    ASSUME NEW S, NEW s \in Seq(S), NEW t \in Seq(S), Len(s) = Len(t),
           \A i \in 1 .. Len(s) : s[i] = t[i]
    PROVE  s = t
<1>1. s = [i \in 1 .. Len(s) |-> s[i]] /\ t = [i \in 1 .. Len(s) |-> t[i]]
  OBVIOUS
<1> QED BY <1>1

LEMMA Singles ==
    ASSUME NEW x, NEW y
    PROVE  /\ Append(<<>>, x) = <<x>> /\ Append(<<x>>, y) = <<x>> \o <<y>>
           /\ <<>> \o <<x>> = <<x>> /\ <<x>> \o <<>> = <<x>> /\ <<>> \o <<>> = <<>>
           /\ Tail(<<x>>) = <<>> /\ Tail(<<x>> \o <<y>>) = <<y>>
<1>1. Append(<<>>, x) = <<x>>
  OBVIOUS
<1>2. Tail(<<x>>) = <<>>
  OBVIOUS
<1>3. <<>> \o <<x>> = <<x>> /\ <<x>> \o <<>> = <<x>>
  OBVIOUS
<1>4. <<>> \o <<>> = <<>>
  OBVIOUS
<1>5. <<x>> \in Seq({x, y}) /\ <<y>> \in Seq({x, y}) /\ Len(<<x>>) = 1 /\ Len(<<y>>) = 1
      /\ <<x>>[1] = x /\ <<y>>[1] = y /\ y \in {x, y}
  OBVIOUS
<1>6. <<x>> \o <<y>> \in Seq({x, y}) /\ Len(<<x>> \o <<y>>) = 2
      /\ (<<x>> \o <<y>>)[1] = x /\ (<<x>> \o <<y>>)[2] = y
  BY <1>5
<1>7. Append(<<x>>, y) = <<x>> \o <<y>>
  <2>1. Append(<<x>>, y) \in Seq({x, y}) /\ Len(Append(<<x>>, y)) = 2
        /\ Append(<<x>>, y)[1] = x /\ Append(<<x>>, y)[2] = y
    BY <1>5
  <2> QED BY <1>6, <2>1, SameSeq
<1>8. Tail(<<x>> \o <<y>>) = <<y>>
  <2>1. Tail(<<x>> \o <<y>>) \in Seq({x, y}) /\ Len(Tail(<<x>> \o <<y>>)) = 1
        /\ Tail(<<x>> \o <<y>>)[1] = y
    BY <1>6
  <2>2. Tail(<<x>> \o <<y>>)[1] = <<y>>[1]
    BY <1>5, <2>1
  <2>3. \A i \in 1 .. 1 : Tail(<<x>> \o <<y>>)[i] = <<y>>[i]
    BY <2>2
  <2>4. <<y>> \in Seq({x, y}) /\ Len(<<y>>) = 1
    BY <1>5
  <2> QED BY <2>1, <2>3, <2>4, SameSeq
<1> QED BY <1>1, <1>2, <1>3, <1>4, <1>7, <1>8

\* What is done to a character leaves a character.
LEMMA TtyByteOps ==
    ASSUME NEW b \in TtyBytes, NEW mask
    PROVE  WithMask(b, mask) \in TtyBytes /\ Upper(b) \in TtyBytes /\ Mask7(b) \in 0 .. 127
BY DEF WithMask, Upper, Mask7, TtyBytes

\* Either board as the program finds it.
LEMMA TtyInitially == TtyInit => TtyInv
<1> SUFFICES ASSUME TtyInit PROVE TtyInv
  OBVIOUS
<1>1. TtyTypeOK
  <2>1. ttBoard \in {"TT", "DC"} /\ DOMAIN ttyOpt = DOMAIN Options
    BY StartsAssumption DEF TtyInit
  <2>2. tty \in TtyRegs /\ ttyVal \in TtyBytes
    BY DEF TtyInit, TtyRegisters, TtyBytes, TtyRegs
  <2>3. reader \in [open : BOOLEAN, left : Seq(TtyBytes)] /\ typed \in Seq(TtyBytes)
    BY DEF TtyInit
  <2> QED BY <2>1, <2>2, <2>3 DEF TtyInit, TtyTypeOK, TtyPcs
<1>2. PrinterInv /\ KeyInv
  BY Singles DEF TtyInit, PrinterInv, KeyInv, InHand, ToGive, ToFetch, TtyRegisters
<1> QED BY <1>1, <1>2 DEF TtyInv

USE DEF TtyRegs, TtyInv, TtyTypeOK, TtyPcs

\* The PDP-8/L's side.

LEMMA TtyPrints ==
    ASSUME TtyInv, ttBoard' = ttBoard, UNCHANGED progSide, NEW byte \in PrintBytes,
           NEW clear \in BOOLEAN, PrintByte(byte, clear)
    PROVE  TtyInv'
<1>1. /\ tty' = [tty EXCEPT !.prchar = byte, !.prfull = TRUE, !.prflag = IF clear THEN FALSE ELSE @]
      /\ unprinted' = Append(unprinted, byte) /\ pdpMay' = FALSE /\ pdpMay
      /\ UNCHANGED <<unread, crossed, ttyPc, ttyVal, typed, reader, ttyOpt, punchfile>>
      /\ clear \/ ~tty.prflag
  BY DEF PrintByte, progSide
<1>2. byte \in TtyBytes
  BY BytesAssumption DEF TtyBytes
<1>3. /\ tty'.prchar = byte /\ tty'.prfull = TRUE /\ tty'.prflag = FALSE
      /\ tty'.kbflag = tty.kbflag /\ tty'.kbchar = tty.kbchar
  BY <1>1
<1>4. TtyTypeOK'
  BY <1>1, <1>2
<1>5. PrinterInv'
  <2> SUFFICES ASSUME ttyPc # "dead", ~crossed PROVE PrinterInv'
    BY <1>1 DEF PrinterInv, KeyInv, InHand, ToGive, ToFetch
  <2>1. ~tty.prfull /\ ttyPc \notin {"taken", "received"} /\ unprinted = InHand
    BY <1>1, Singles DEF PrinterInv, InHand, ToFetch
  <2>2. unprinted' = InHand \o <<byte>>
    BY <1>1, <2>1, Singles DEF InHand
  <2> QED BY <1>1, <1>3, <2>1, <2>2 DEF PrinterInv, InHand, ToFetch
<1>6. KeyInv'
  BY <1>1, <1>3 DEF PrinterInv, KeyInv, InHand, ToGive, ToFetch
<1> QED BY <1>4, <1>5, <1>6

LEMMA TtySkips ==
    ASSUME TtyInv, ttBoard' = ttBoard, UNCHANGED progSide, SkipPrinted \/ ClearPrFlag
    PROVE  TtyInv'
BY Singles DEF SkipPrinted, ClearPrFlag, progSide, PrinterInv, KeyInv, InHand, ToGive, ToFetch

LEMMA TtyKeyRead ==
    ASSUME TtyInv, ttBoard' = ttBoard, UNCHANGED progSide, ReadKey
    PROVE  TtyInv'
BY Singles DEF ReadKey, progSide, PrinterInv, KeyInv, InHand, ToGive, ToFetch

LEMMA TtyReset ==
    ASSUME TtyInv, ttBoard' = ttBoard, UNCHANGED progSide, Binit
    PROVE  TtyInv'
BY Singles DEF Binit, progSide, PrinterInv, KeyInv, InHand, ToGive, ToFetch

\* Registers are the same if their fields are.
LEMMA SameRegs ==
    ASSUME NEW r \in TtyRegs, NEW q \in TtyRegs, r.kbflag = q.kbflag, r.kbchar = q.kbchar,
           r.prflag = q.prflag, r.prfull = q.prfull, r.prchar = q.prchar
    PROVE  r = q
OBVIOUS

\* Both boards' registers do the same for the program, though the DC02's are
\* one register with a bit for each change.
LEMMA TakenIs == TtyInv => PrinterTaken = [tty EXCEPT !.prflag = TRUE, !.prfull = FALSE]
<1> SUFFICES ASSUME TtyInv, ttBoard = "DC"
             PROVE  dc_getprchar = [tty EXCEPT !.prflag = TRUE, !.prfull = FALSE]
  BY DEF PrinterTaken, tt_getprchar
<1> DEFINE bits == {30, 27, 26}
<1>0. /\ (24 \in bits) = FALSE /\ (26 \in bits) = TRUE /\ (27 \in bits) = TRUE
      /\ (28 \in bits) = FALSE /\ (29 \in bits) = FALSE /\ (30 \in bits) = TRUE
  OBVIOUS
<1> HIDE DEF bits
<1>1. DcWrite(bits, 0) = [tty EXCEPT !.kbchar = @, !.prfull = FALSE, !.prflag = TRUE, !.kbflag = @]
  BY Zenon, <1>0 DEF DcWrite
<1>2. dc_getprchar = DcWrite(bits, 0)
  BY DEF dc_getprchar, bits
<1> QED BY <1>1, <1>2

LEMMA GivenIs == TtyInv => KeyGiven = [tty EXCEPT !.kbflag = TRUE, !.kbchar = ttyVal]
<1> SUFFICES ASSUME TtyInv, ttBoard = "DC"
             PROVE  dc_putkbchar = [tty EXCEPT !.kbflag = TRUE, !.kbchar = ttyVal]
  BY DEF KeyGiven, tt_putkbchar
<1> DEFINE bits == {31, 28, 24}
<1>0. /\ (24 \in bits) = TRUE /\ (26 \in bits) = FALSE /\ (27 \in bits) = FALSE
      /\ (28 \in bits) = TRUE /\ (31 \in bits) = TRUE
  OBVIOUS
<1> HIDE DEF bits
<1>1. DcWrite(bits, ttyVal) = [tty EXCEPT !.kbchar = ttyVal, !.prfull = @, !.prflag = @, !.kbflag = TRUE]
  BY Zenon, <1>0 DEF DcWrite
<1>2. dc_putkbchar = DcWrite(bits, ttyVal)
  BY DEF dc_putkbchar, bits
<1> QED BY <1>1, <1>2

\* The program's side.
LEMMA TtyStarts ==
    ASSUME TtyInv, UNCHANGED <<ttBoard, pdpMay, crossed>>, RunStart
    PROVE  TtyInv'
BY Singles DEF RunStart, PrinterInv, KeyInv, InHand, ToGive, ToFetch

LEMMA TtyFetches ==
    ASSUME TtyInv, UNCHANGED <<ttBoard, pdpMay, crossed>>, RunHead
    PROVE  TtyInv'
BY Singles DEF RunHead, Stopped, FetchPrinter, PrinterInv, KeyInv, InHand, ToGive, ToFetch

LEMMA TtyTaken ==
    ASSUME TtyInv, UNCHANGED <<ttBoard, pdpMay, crossed>>, RunTaken
    PROVE  TtyInv'
<1>1. tty' = [tty EXCEPT !.prflag = TRUE, !.prfull = FALSE]
  BY TakenIs DEF RunTaken
<1>2. /\ tty'.prflag = TRUE /\ tty'.prfull = FALSE /\ tty'.prchar = tty.prchar
      /\ tty'.kbflag = tty.kbflag /\ tty'.kbchar = tty.kbchar
  BY <1>1
<1>3. TtyTypeOK'
  <2>1. tty' \in TtyRegs
    BY <1>1
  <2>2. ttyPc' \in TtyPcs /\ ttyVal' \in TtyBytes
    BY DEF RunTaken, TtyBytes
  <2> QED BY <2>1, <2>2 DEF RunTaken
<1>4. PrinterInv' /\ KeyInv'
  BY <1>2, Singles DEF RunTaken, PrinterInv, KeyInv, InHand, ToGive, ToFetch
<1> QED BY <1>3, <1>4

LEMMA TtyShows ==
    ASSUME TtyInv, UNCHANGED <<ttBoard, pdpMay, crossed>>, RunShow
    PROVE  TtyInv'
BY Singles DEF RunShow, Stopped, TtyBytes, PrinterInv, KeyInv, InHand, ToGive, ToFetch

LEMMA TtyLooksForKey ==
    ASSUME TtyInv, UNCHANGED <<ttBoard, pdpMay, crossed>>, RunKeys
    PROVE  TtyInv'
<1>0. UNCHANGED <<tty, punchfile, unprinted>> /\ ttyPc = "keys"
  BY DEF RunKeys
<1>1. /\ ttyPc' \in {"run", "put", "prompt"}
      /\ ttyPc' = "put" => ~tty.kbflag /\ unread' = Append(unread, ttyVal')
      /\ ttyPc' # "put" => unread' = unread
      /\ ttyVal' \in TtyBytes /\ typed' \in Seq(TtyBytes)
      /\ reader' \in [open : BOOLEAN, left : Seq(TtyBytes)] /\ DOMAIN ttyOpt' = DOMAIN Options
  <2>1. CASE NoKey \/ EndOfStdin
    BY <2>1 DEF NoKey, EndOfStdin, Stopped
  <2>2. CASE KeyFromStdin
    <3>1. typed # <<>> /\ typed' = Tail(typed) /\ UNCHANGED <<ttyOpt, reader>>
      BY <2>2 DEF KeyFromStdin
    <3>2. Head(typed) \in TtyBytes /\ typed' \in Seq(TtyBytes)
      BY <3>1
    <3>3. WithMask(IF ttyOpt.upcase THEN Upper(Head(typed)) ELSE Head(typed), 128) \in TtyBytes
      BY <3>2, TtyByteOps
    <3> QED BY <2>2, <3>1, <3>2, <3>3 DEF KeyFromStdin, OfferKey, Stopped
  <2>3. CASE ByteFromReader
    <3>1. CASE Stopped /\ UNCHANGED <<ttyVal, ttyOpt, reader, typed, unread>>
      BY <3>1 DEF Stopped
    <3>2. CASE /\ reader' = [reader EXCEPT !.open = FALSE]
               /\ ttyOpt' = [ttyOpt EXCEPT !.readerquiet = FALSE]
               /\ ttyPc' = "run" /\ UNCHANGED <<ttyVal, typed, unread>>
      BY <3>2
    <3>3. CASE /\ reader.left # <<>> /\ reader' = [reader EXCEPT !.left = Tail(@)]
               /\ OfferKey(WithMask(Head(reader.left), ttyOpt.readermask), "put", "run")
               /\ UNCHANGED <<ttyOpt, typed>>
      <4>1. reader.left \in Seq(TtyBytes) /\ reader.left # <<>>
        BY <3>3
      <4>2. Head(reader.left) \in TtyBytes /\ Tail(reader.left) \in Seq(TtyBytes)
        BY <4>1
      <4>3. WithMask(Head(reader.left), ttyOpt.readermask) \in TtyBytes
        BY <4>2, TtyByteOps
      <4> QED BY <3>3, <4>2, <4>3 DEF OfferKey
    <3> QED BY <2>3, <3>1, <3>2, <3>3 DEF ByteFromReader
  <2> QED BY <2>1, <2>2, <2>3 DEF RunKeys
<1>2. TtyTypeOK'
  BY <1>0, <1>1
<1>3. PrinterInv' /\ KeyInv'
  BY <1>0, <1>1, Singles DEF PrinterInv, KeyInv, InHand, ToGive, ToFetch
<1> QED BY <1>2, <1>3

LEMMA TtyPuts ==
    ASSUME TtyInv, UNCHANGED <<ttBoard, pdpMay, crossed>>, RunPut \/ SendPut
    PROVE  TtyInv'
<1>1. /\ tty' = [tty EXCEPT !.kbflag = TRUE, !.kbchar = ttyVal] /\ unread' = unread
      /\ ttyPc \in {"put", "sendput"} /\ ttyPc' \in {"run", "prompt"} /\ ttyVal' = 0
      /\ UNCHANGED <<typed, reader, ttyOpt, punchfile, unprinted>>
  BY GivenIs DEF RunPut, SendPut, PutKey
<1>2. /\ tty'.prflag = tty.prflag /\ tty'.prfull = tty.prfull /\ tty'.prchar = tty.prchar
      /\ tty'.kbflag = TRUE /\ tty'.kbchar = ttyVal
  BY <1>1
<1>3. TtyTypeOK'
  <2>1. tty' \in TtyRegs
    BY <1>1
  <2>2. ttyPc' \in TtyPcs /\ ttyVal' \in TtyBytes
    BY <1>1 DEF TtyBytes
  <2> QED BY <1>1, <2>1, <2>2
<1>4. PrinterInv'
  BY <1>1, <1>2 DEF PrinterInv, KeyInv, InHand, ToGive, ToFetch
<1>5. KeyInv'
  BY <1>1, <1>2, Singles DEF PrinterInv, KeyInv, InHand, ToGive, ToFetch
<1> QED BY <1>3, <1>4, <1>5

LEMMA TtySends ==
    ASSUME TtyInv, UNCHANGED <<ttBoard, pdpMay, crossed>>, SendStart \/ SendTry
    PROVE  TtyInv'
<1>1. CASE SendStart
  <2>1. PICK byte \in KeyBytes, mask \in {0, 128} : ttyVal' = WithMask(byte, mask)
    BY <1>1 DEF SendStart
  <2>2. byte \in TtyBytes
    BY BytesAssumption DEF TtyBytes
  <2>3. ttyVal' \in TtyBytes
    BY <2>1, <2>2, TtyByteOps
  <2> QED BY <1>1, <2>3 DEF SendStart, PrinterInv, KeyInv, InHand, ToGive, ToFetch
<1>2. CASE SendTry
  BY <1>2, Singles DEF SendTry, OfferKey, PrinterInv, KeyInv, InHand, ToGive, ToFetch
<1> QED BY <1>1, <1>2

LEMMA TtyReceives ==
    ASSUME TtyInv, UNCHANGED <<ttBoard, pdpMay, crossed>>, RecvStart \/ RecvTry
    PROVE  TtyInv'
BY Singles DEF RecvStart, RecvTry, FetchPrinter, PrinterInv, KeyInv, InHand, ToGive, ToFetch

LEMMA TtyReceived ==
    ASSUME TtyInv, UNCHANGED <<ttBoard, pdpMay, crossed>>, RecvTaken
    PROVE  TtyInv'
<1>1. tty' = [tty EXCEPT !.prflag = TRUE, !.prfull = FALSE]
  BY TakenIs DEF RecvTaken
<1>2. /\ tty'.prflag = TRUE /\ tty'.prfull = FALSE /\ tty'.prchar = tty.prchar
      /\ tty'.kbflag = tty.kbflag /\ tty'.kbchar = tty.kbchar
  BY <1>1
<1>3. TtyTypeOK'
  <2>1. tty' \in TtyRegs
    BY <1>1
  <2>2. ttyPc' \in TtyPcs /\ ttyVal' \in TtyBytes
    BY DEF RecvTaken, TtyBytes
  <2> QED BY <2>1, <2>2 DEF RecvTaken
<1>4. PrinterInv' /\ KeyInv'
  BY <1>2, Singles DEF RecvTaken, PrinterInv, KeyInv, InHand, ToGive, ToFetch
<1> QED BY <1>3, <1>4

LEMMA TtyFiles ==
    ASSUME TtyInv, UNCHANGED <<ttBoard, pdpMay, crossed>>, FileCommand
    PROVE  TtyInv'
<1>1. UNCHANGED <<tty, ttyPc, ttyVal, typed, unprinted, unread>>
  BY DEF FileCommand
<1>2. reader' \in [open : BOOLEAN, left : Seq(TtyBytes)] /\ punchfile' \in BOOLEAN
      /\ DOMAIN ttyOpt' = DOMAIN Options
  <2>1. CASE (PunchLoad \/ PunchUnload) /\ UNCHANGED reader
    BY <2>1 DEF PunchLoad, PunchUnload
  <2>2. CASE ReaderLoad /\ UNCHANGED punchfile
    <3>1. Tape \in Seq(TtyBytes)
      BY TapeAssumption DEF TtyBytes
    <3>2. DOMAIN ttyOpt' = DOMAIN Options
      BY <2>2 DEF ReaderLoad
    <3>3. reader' \in {[open |-> FALSE, left |-> <<>>], [open |-> TRUE, left |-> Tape]}
      BY <2>2 DEF ReaderLoad
    <3>5. <<>> \in Seq(TtyBytes)
      OBVIOUS
    <3>6. [open |-> FALSE, left |-> <<>>] \in [open : BOOLEAN, left : Seq(TtyBytes)]
      BY <3>5
    <3>7. [open |-> TRUE, left |-> Tape] \in [open : BOOLEAN, left : Seq(TtyBytes)]
      BY <3>1
    <3>4. reader' \in [open : BOOLEAN, left : Seq(TtyBytes)]
      BY <3>3, <3>6, <3>7
    <3> QED BY <2>2, <3>2, <3>4
  <2>3. CASE ReaderUnload /\ UNCHANGED punchfile
    BY <2>3 DEF ReaderUnload
  <2> QED BY <2>1, <2>2, <2>3 DEF FileCommand
<1> QED BY <1>1, <1>2 DEF PrinterInv, KeyInv, InHand, ToGive, ToFetch

LEMMA TtyInterrupted ==
    ASSUME TtyInv, UNCHANGED <<ttBoard, pdpMay, crossed>>, Interrupt
    PROVE  TtyInv'
BY Singles DEF Interrupt, PrinterInv, KeyInv, InHand, ToGive, ToFetch

LEMMA TtyTypes ==
    ASSUME TtyInv, UNCHANGED <<ttBoard, pdpMay, crossed>>, UserTypes
    PROVE  TtyInv'
BY Singles, BytesAssumption DEF UserTypes, TtyBytes, PrinterInv, KeyInv, InHand, ToGive, ToFetch

HIDE DEF TtyRegs, TtyInv, TtyTypeOK, TtyPcs

-----------------------------------------------------------------------------
\* A nonempty set of numbers that has a bound has a greatest one.

\* The numbers are well founded: a set of them has a least one.
LEMMA NatLeast ==
    ASSUME NEW T, T \subseteq Nat, T # {}
    PROVE  \E x \in T : \A y \in T : x <= y
<1> DEFINE Below == OpToRel(<, Nat)
<1>1. IsWellFoundedOn(Below, Nat)
  BY Zenon, NatLessThanWellFounded
<1>2. Below = {ss \in Nat \X Nat : ss[1] < ss[2]}
  BY Zenon DEF OpToRel
<1> HIDE DEF Below
<1>3. PICK x \in T : \A y \in T : ~ (<<y, x>> \in Below)
  BY Zenon, <1>1, WFMin
<1>4. \A y \in T : ~ (y < x)
  BY <1>2, <1>3
<1> QED BY <1>4

\* One with a bound has a greatest one.
LEMMA NatGreatest ==
    ASSUME NEW T, T \subseteq Nat, T # {}, NEW bound \in Nat, \A x \in T : x <= bound
    PROVE  \E x \in T : \A y \in T : y <= x
<1> DEFINE U == {bound - x : x \in T}
<1>1. U \subseteq Nat /\ U # {}
  <2>1. \A x \in T : bound - x \in Nat
    OBVIOUS
  <2> QED BY <2>1
<1>2. PICK u \in U : \A v \in U : u <= v
  BY <1>1, NatLeast
<1>3. PICK x \in T : u = bound - x
  OBVIOUS
<1>4. \A y \in T : bound - x <= bound - y
  BY <1>2, <1>3
<1> QED BY <1>4

\* FallBack's CHOOSE is that greatest one.
LEMMA GreatestIs ==
    ASSUME NEW T, T \subseteq Nat, NEW x \in T, \A y \in T : y <= x
    PROVE  (CHOOSE n \in T : \A j \in T : j <= n) = x
<1> DEFINE c == CHOOSE n \in T : \A j \in T : j <= n
<1>1. c \in T /\ \A j \in T : j <= c
  OBVIOUS
<1> HIDE DEF c
<1>2. c = x
  BY <1>1
<1> QED BY <1>2 DEF c

-----------------------------------------------------------------------------
\* What has been printed ends with the first n characters of the string.
EndsUp(p, buff, n) == n <= Len(p) /\ \A i \in 1 .. n : p[Len(p) - n + i] = buff[i]

\* hits is the greatest such n.
Longest(s, p) ==
    /\ s \in [buff : StopStrings, hits : Nat]
    /\ s.hits <= Len(s.buff)
    /\ EndsUp(p, s.buff, s.hits)
    /\ \A n \in 0 .. Len(s.buff) : EndsUp(p, s.buff, n) => n <= s.hits

\* The elements of a part of a sequence.
LEMMA SubSeqAt ==
    ASSUME NEW S, NEW s \in Seq(S), NEW l \in Nat, NEW h \in Nat, NEW n \in Nat,
           h <= Len(s) + 1, l = h + n - 1, l <= Len(s), h >= 1
    PROVE  /\ SubSeq(s, h, l) \in Seq(S) /\ Len(SubSeq(s, h, l)) = n
           /\ \A i \in 1 .. n : SubSeq(s, h, l)[i] = s[h + i - 1]
<1>1. \A i \in h .. l : s[i] \in S
  OBVIOUS
<1>2. l - h + 1 = n /\ (IF h <= l THEN l - h + 1 ELSE 0) = n
  OBVIOUS
<1>3. /\ SubSeq(s, h, l) \in Seq(S) /\ Len(SubSeq(s, h, l)) = IF h <= l THEN l - h + 1 ELSE 0
      /\ \A i \in 1 .. l - h + 1 : SubSeq(s, h, l)[i] = s[h + i - 1]
  BY <1>1, SubSeqProperties
<1> QED BY <1>2, <1>3

\* EndsWith, by its characters.
LEMMA EndsWithIs ==
    ASSUME NEW S, NEW p \in Seq(S), NEW buff \in Seq(S), NEW n \in 0 .. Len(buff)
    PROVE  EndsWith(p, SubSeq(buff, 1, n)) <=> EndsUp(p, buff, n)
<1> DEFINE t == SubSeq(buff, 1, n)
<1>1. t \in Seq(S) /\ Len(t) = n /\ \A i \in 1 .. n : t[i] = buff[i]
  BY SubSeqAt
<1> HIDE DEF t
<1>2. CASE n <= Len(p)
  <2> DEFINE h == Len(p) - n + 1  e == SubSeq(p, h, Len(p))
  <2>1. h \in Nat /\ h >= 1 /\ h <= Len(p) + 1 /\ Len(p) = h + n - 1
        /\ \A i \in 1 .. n : h + i - 1 = Len(p) - n + i
    BY <1>2
  <2>2. EndsWith(p, t) <=> e = t
    BY <1>1, <1>2 DEF EndsWith
  <2> HIDE DEF h
  <2>3. e \in Seq(S) /\ Len(e) = n /\ \A i \in 1 .. n : e[i] = p[h + i - 1]
    BY <2>1, SubSeqAt
  <2> HIDE DEF e
  <2>4. e = t <=> \A i \in 1 .. n : e[i] = t[i]
    BY <1>1, <2>3, SameSeq
  <2> QED BY <1>1, <1>2, <2>1, <2>2, <2>3, <2>4 DEF EndsUp, t
<1>3. CASE ~ (n <= Len(p))
  BY <1>1, <1>3 DEF EndsWith, EndsUp, t
<1> QED BY <1>2, <1>3

\* One more character continues a match or ends it.

\* One more character: a longer match is a shorter one before it, extended.
LEMMA EndsUpNext ==
    ASSUME NEW S, NEW p \in Seq(S), NEW buff \in Seq(S), NEW c \in S,
           NEW n \in 0 .. Len(buff) - 1
    PROVE  EndsUp(Append(p, c), buff, n + 1) <=> EndsUp(p, buff, n) /\ buff[n + 1] = c
<1> DEFINE q == Append(p, c)
<1>1. /\ q \in Seq(S) /\ Len(q) = Len(p) + 1
      /\ \A i \in 1 .. Len(p) : q[i] = p[i]
      /\ q[Len(p) + 1] = c
  OBVIOUS
<1> HIDE DEF q
<1>2. Len(q) - (n + 1) = Len(p) - n
  BY <1>1
<1>3. ASSUME n <= Len(p)
      PROVE  (\A i \in 1 .. n + 1 : q[Len(p) - n + i] = buff[i])
               <=> (\A i \in 1 .. n : p[Len(p) - n + i] = buff[i]) /\ buff[n + 1] = c
  <2>1. Len(p) - n + (n + 1) = Len(p) + 1 /\ \A i \in 1 .. n : Len(p) - n + i \in 1 .. Len(p)
    BY <1>3
  <2>2. (\A i \in 1 .. n + 1 : q[Len(p) - n + i] = buff[i])
           <=> (\A i \in 1 .. n : q[Len(p) - n + i] = buff[i]) /\ q[Len(p) + 1] = buff[n + 1]
    <3>1. \A i \in 1 .. n + 1 : i \in 1 .. n \/ i = n + 1
      OBVIOUS
    <3> QED BY <2>1, <3>1
  <2> QED BY <1>1, <2>1, <2>2
<1>5. n + 1 <= Len(q) <=> n <= Len(p)
  BY <1>1
<1>6. EndsUp(p, buff, n) <=> n <= Len(p) /\ \A i \in 1 .. n : p[Len(p) - n + i] = buff[i]
  BY DEF EndsUp
<1>4. EndsUp(q, buff, n + 1) <=> n + 1 <= Len(q) /\ \A i \in 1 .. n + 1 : q[Len(p) - n + i] = buff[i]
  BY <1>2 DEF EndsUp
<1> QED BY <1>3, <1>4, <1>5, <1>6 DEF q

\* What is printed ends with a shorter match exactly if the longer one does.

\* Of two matches at the end of the output the shorter is a border of the longer.
LEMMA EndsUpShorter ==
    ASSUME NEW S, NEW p \in Seq(S), NEW buff \in Seq(S), NEW h \in 0 .. Len(buff),
           EndsUp(p, buff, h), NEW i \in 0 .. h - 1
    PROVE  EndsUp(p, buff, i) <=> SubSeq(buff, 1, i) = SubSeq(buff, h - i + 1, h)
<1> DEFINE a == SubSeq(buff, 1, i)  m == h - i + 1  b == SubSeq(buff, m, h)
<1>1. a \in Seq(S) /\ Len(a) = i /\ \A j \in 1 .. i : a[j] = buff[j]
  BY SubSeqAt
<1>2. m \in Nat /\ m <= Len(buff) + 1 /\ h = m + i - 1 /\ m >= 1
      /\ \A j \in 1 .. i : m + j - 1 = h - i + j
  OBVIOUS
<1> HIDE DEF m
<1>3. b \in Seq(S) /\ Len(b) = i /\ \A j \in 1 .. i : b[j] = buff[m + j - 1]
  BY <1>2, SubSeqAt
<1> HIDE DEF a, b
<1>4. a = b <=> \A j \in 1 .. i : buff[j] = buff[h - i + j]
  <2>1. a = b <=> \A j \in 1 .. i : a[j] = b[j]
    <3>1. (\A j \in 1 .. Len(a) : a[j] = b[j]) => a = b
      BY <1>1, <1>3, SameSeq
    <3> QED BY <1>1, <3>1
  <2> QED BY <1>1, <1>2, <1>3, <2>1
<1>5. h <= Len(p) /\ \A j \in 1 .. i : p[Len(p) - i + j] = buff[h - i + j]
  <2>1. \A j \in 1 .. i : h - i + j \in 1 .. h /\ Len(p) - h + (h - i + j) = Len(p) - i + j
    BY DEF EndsUp
  <2> QED BY <2>1 DEF EndsUp
<1>6. EndsUp(p, buff, i) <=> \A j \in 1 .. i : buff[j] = buff[h - i + j]
  BY <1>5 DEF EndsUp
<1> QED BY <1>4, <1>6 DEF a, b, m

-----------------------------------------------------------------------------

\* The greatest match tells whether the string is there.
LEMMA HitsRight ==
    ASSUME NEW p \in Seq(0 .. 127), NEW s, Longest(s, p)
    PROVE  LET here == {n \in 0 .. Len(s.buff) : EndsWith(p, SubSeq(s.buff, 1, n))}
           IN  s.hits = CHOOSE n \in here : \A j \in here : j <= n
<1> DEFINE here == {n \in 0 .. Len(s.buff) : EndsWith(p, SubSeq(s.buff, 1, n))}
           Chars == 0 .. 127
<1>1. s.buff \in Seq(Chars) /\ p \in Seq(Chars) /\ s.hits \in Nat
  BY StopAssumption DEF Longest
<1> HIDE DEF Chars
<1>2. \A n \in 0 .. Len(s.buff) : EndsWith(p, SubSeq(s.buff, 1, n)) <=> EndsUp(p, s.buff, n)
  BY <1>1, EndsWithIs
<1>3. s.hits \in here /\ (\A n \in here : n <= s.hits) /\ here \subseteq Nat
  BY <1>1, <1>2 DEF Longest
<1> HIDE DEF here
<1>4. s.hits = CHOOSE n \in here : \A j \in here : j <= n
  BY <1>3, GreatestIs
<1> QED BY <1>4 DEF here

\* One step of the search: the match goes on, or falls back to the longest
\* shorter one that does.

\* StopOn::check (z8ltty.cc): after one more character hits is again the greatest match,
\* though it goes back in the string itself and never looks at what was printed before.
LEMMA StopStep ==
    ASSUME NEW p \in Seq(0 .. 127), NEW s, Longest(s, p), ttyVal \in TtyBytes
    PROVE  Longest(StopOnCheck(s), Append(p, Mask7(ttyVal)))
<1> DEFINE c == Mask7(ttyVal)  q == Append(p, c)  h == s.hits  buff == s.buff
           Chars == 0 .. 127
<1>1. /\ c \in Chars /\ p \in Seq(Chars) /\ buff \in Seq(Chars)
      /\ h \in 0 .. Len(buff) /\ EndsUp(p, buff, h) /\ s \in [buff : StopStrings, hits : Nat]
      /\ \A n \in 0 .. Len(buff) : EndsUp(p, buff, n) => n <= h
  <2>1. s.buff \in Seq(1 .. 127)
    BY StopAssumption DEF Longest
  <2>2. s.buff \in Seq(0 .. 127)
    BY <2>1
  <2>3. c \in 0 .. 127
    BY TtyByteOps
  <2>4. s.hits \in 0 .. Len(s.buff)
    BY <2>1 DEF Longest
  <2> HIDE DEF c
  <2> QED BY <2>2, <2>3, <2>4 DEF Longest
<1>2. \A n \in 1 .. Len(buff) : buff[n] \in 1 .. 127
  <2>1. buff \in Seq(1 .. 127)
    BY StopAssumption DEF Longest
  <2> HIDE DEF buff
  <2> DEFINE B == 1 .. 127
  <2>2. buff \in Seq(B)
    BY <2>1
  <2> HIDE DEF B
  <2>3. \A n \in 1 .. Len(buff) : buff[n] \in B
    BY <2>2
  <2> QED BY <2>3 DEF B
<1> HIDE DEF c, Chars, h, buff
<1>3. \A n \in 0 .. Len(buff) - 1 : EndsUp(q, buff, n + 1) <=> EndsUp(p, buff, n) /\ buff[n + 1] = c
  BY <1>1, EndsUpNext
<1>4. EndsUp(q, buff, 0)
  BY <1>1 DEF EndsUp
<1> HIDE DEF q
<1>5. SUFFICES ASSUME NEW hits \in 0 .. Len(buff), EndsUp(q, buff, hits),
                      \A n \in 0 .. Len(buff) : EndsUp(q, buff, n) => n <= hits
               PROVE  StopOnCheck(s).hits = hits
  <2>1. \E hits \in 0 .. Len(buff) : EndsUp(q, buff, hits) /\
            \A n \in 0 .. Len(buff) : EndsUp(q, buff, n) => n <= hits
    <3> DEFINE T == {n \in 0 .. Len(buff) : EndsUp(q, buff, n)}
    <3>1. T \subseteq Nat /\ T # {} /\ Len(buff) \in Nat /\ \A x \in T : x <= Len(buff)
      BY <1>1, <1>4
    <3> HIDE DEF T
    <3>2. \E x \in T : \A y \in T : y <= x
      BY <3>1, NatGreatest
    <3> QED BY <3>2 DEF T
  <2>2. StopOnCheck(s) = [s EXCEPT !.hits = StopOnCheck(s).hits]
    BY <1>1 DEF StopOnCheck
  <2> QED BY <1>1, <2>1, <2>2 DEF Longest, q, c, buff
<1>6. h = s.hits /\ buff = s.buff /\ c = Mask7(ttyVal)
  BY DEF h, buff, c
<1>7. StopOnCheck(s).hits =
        IF c = 0 THEN 0
        ELSE IF h < Len(buff) /\ buff[h + 1] = c THEN h + 1 ELSE FallBack(s)
  BY <1>1, <1>6 DEF StopOnCheck
\* A match of one more ended in a match before.
<1>8. \A n \in 1 .. Len(buff) : EndsUp(q, buff, n) => EndsUp(p, buff, n - 1) /\ buff[n] = c
  <2> SUFFICES ASSUME NEW n \in 1 .. Len(buff), EndsUp(q, buff, n)
               PROVE  EndsUp(p, buff, n - 1) /\ buff[n] = c
    OBVIOUS
  <2>1. n - 1 \in 0 .. Len(buff) - 1 /\ (n - 1) + 1 = n
    BY <1>1
  <2> QED BY <1>3, <2>1
<1>9. CASE c = 0
  <2>1. hits \in 1 .. Len(buff) => buff[hits] = c /\ buff[hits] # 0
    <3> SUFFICES ASSUME hits \in 1 .. Len(buff) PROVE buff[hits] = c /\ buff[hits] # 0
      OBVIOUS
    <3>1. buff[hits] \in 1 .. 127
      BY <1>2
    <3>2. buff[hits] = c
      BY <1>5, <1>8
    <3>3. \A x \in 1 .. 127 : x # 0
      OBVIOUS
    <3> QED BY Zenon, <3>1, <3>2, <3>3
  <2>2. hits = 0
    BY <1>5, <1>9, <2>1
  <2> QED BY <1>7, <1>9, <2>2
<1>10. CASE c # 0 /\ h < Len(buff) /\ buff[h + 1] = c
  <2>1. EndsUp(q, buff, h + 1)
    BY <1>1, <1>3, <1>10
  <2>2. hits >= h + 1
    BY <1>1, <1>5, <1>10, <2>1
  <2>3. hits - 1 <= h
    BY <1>1, <1>5, <1>8, <2>2
  <2> QED BY <1>1, <1>7, <1>10, <2>2, <2>3
<1>11. CASE c # 0 /\ ~ (h < Len(buff) /\ buff[h + 1] = c)
  <2> DEFINE ends == {i \in 0 .. h - 1 : /\ buff[i + 1] = c
                                        /\ SubSeq(buff, 1, i) = SubSeq(buff, h - i + 1, h)}
  <2>1. \A i \in 0 .. h - 1 : i \in ends <=> EndsUp(q, buff, i + 1)
    <3> SUFFICES ASSUME NEW i \in 0 .. h - 1 PROVE i \in ends <=> EndsUp(q, buff, i + 1)
      OBVIOUS
    <3>1. EndsUp(p, buff, i) <=> SubSeq(buff, 1, i) = SubSeq(buff, h - i + 1, h)
      BY <1>1, EndsUpShorter
    <3>2. i \in 0 .. Len(buff) - 1
      BY <1>1
    <3> QED BY <1>3, <3>1, <3>2
  <2>2. FallBack(s) = IF ends = {} THEN 0 ELSE 1 + CHOOSE i \in ends : \A j \in ends : j <= i
    BY <1>6 DEF FallBack
  <2>3. ends \subseteq 0 .. h - 1
    OBVIOUS
  <2> HIDE DEF ends
  <2>4. hits > 0 => hits - 1 \in ends
    <3> SUFFICES ASSUME hits > 0 PROVE hits - 1 \in ends
      OBVIOUS
    <3>1. EndsUp(p, buff, hits - 1) /\ buff[hits] = c /\ hits - 1 <= h
      BY <1>1, <1>5, <1>8
    <3>2. hits - 1 # h
      BY <1>1, <1>11, <3>1
    <3>3. hits - 1 \in 0 .. h - 1 /\ (hits - 1) + 1 = hits
      BY <1>1, <3>1, <3>2
    <3> QED BY <1>5, <2>1, <3>3
  <2>5. \A i \in ends : i + 1 <= hits
    BY <1>1, <1>5, <2>1, <2>3
  <2>6. CASE hits = 0
    BY <1>1, <1>7, <1>11, <2>2, <2>3, <2>5, <2>6
  <2>7. CASE hits > 0
    <3>1. ends \subseteq Nat /\ hits - 1 \in ends /\ \A i \in ends : i <= hits - 1
      BY <1>1, <2>3, <2>4, <2>5, <2>7
    <3>2. (CHOOSE i \in ends : \A j \in ends : j <= i) = hits - 1
      BY <3>1, GreatestIs
    <3>3. FallBack(s) = 1 + (hits - 1)
      BY <2>2, <3>1, <3>2
    <3>4. StopOnCheck(s).hits = FallBack(s)
      BY <1>7, <1>11
    <3> QED BY <1>5, <3>3, <3>4
  <2> QED BY <2>6, <2>7
<1> QED BY <1>9, <1>10, <1>11

-----------------------------------------------------------------------------
StopInv ==
    /\ printed \in Seq(0 .. 127)
    /\ ttyPc \in {"prompt", "send", "sendput", "recv", "received"} => printed = <<>>
    /\ \A k \in DOMAIN stopon : Longest(stopon[k], printed)
RunInv == TtyInv /\ StopInv /\ MutedOnlyByFile

LEMMA RunInitially == TtyInit => StopInv /\ MutedOnlyByFile
BY StartsAssumption DEF TtyInit, StopInv, MutedOnlyByFile, Options

\* run clears what was printed and every string's hits.
LEMMA StopStarts == RunInv /\ RunStart => StopInv'
<1> SUFFICES ASSUME RunInv, RunStart PROVE StopInv'
  OBVIOUS
<1>1. ttyPc = "prompt" /\ printed' = printed /\ ttyPc' \in {"prompt", "run"}
  BY DEF RunStart
<1>2. printed = <<>>
  BY <1>1 DEF RunInv, StopInv
<1>3. ASSUME NEW k \in DOMAIN stopon' PROVE Longest(stopon'[k], printed')
  <2>1. stopon'[k].hits = 0 /\ \E s \in StopStrings : stopon'[k] = [buff |-> s, hits |-> 0]
    <3>1. PICK strings \in {<<>>} \cup {<<s>> : s \in StopStrings} :
                 stopon' = [j \in DOMAIN strings |-> [buff |-> strings[j], hits |-> 0]]
      BY DEF RunStart
    <3>2. k \in DOMAIN strings /\ stopon'[k] = [buff |-> strings[k], hits |-> 0]
      BY <1>3, <3>1
    <3>3. PICK s \in StopStrings : strings = <<s>>
      BY <3>2
    <3>4. strings[k] = s
      BY <3>2, <3>3
    <3> QED BY <3>2, <3>4
  <2>2. stopon'[k] \in [buff : StopStrings, hits : Nat] /\ stopon'[k].buff \in Seq(1 .. 127)
    BY <2>1, StopAssumption
  <2>3. Len(printed') = 0
    BY <1>1, <1>2
  <2> QED BY <2>1, <2>2, <2>3 DEF Longest, EndsUp
<1> QED BY <1>1, <1>2, <1>3 DEF StopInv

\* Every character shown goes to every string.
LEMMA StopShows == RunInv /\ RunShow => StopInv'
<1> SUFFICES ASSUME RunInv, RunShow PROVE StopInv'
  OBVIOUS
<1>1. CASE Stopped
  BY <1>1 DEF Stopped, StopInv
<1>2. CASE /\ stopon' = [k \in DOMAIN stopon |-> StopOnCheck(stopon[k])]
           /\ printed' = Append(printed, Mask7(ttyVal)) /\ ttyPc' = "keys"
  <2>1. printed \in Seq(0 .. 127) /\ ttyVal \in TtyBytes
    BY DEF RunInv, StopInv, TtyInv, TtyTypeOK
  <2>2. \A k \in DOMAIN stopon : Longest(StopOnCheck(stopon[k]), Append(printed, Mask7(ttyVal)))
    BY <2>1, StopStep DEF RunInv, StopInv
  <2>3. Mask7(ttyVal) \in 0 .. 127
    BY <2>1, TtyByteOps
  <2> QED BY <1>2, <2>1, <2>2, <2>3 DEF StopInv
<1> QED BY <1>1, <1>2 DEF RunShow

\* Nothing else touches them.
LEMMA StopMoves ==
    ASSUME TtyNext, ~ RunStart, ~ RunShow
    PROVE
      \/ Stopped
      \/ /\ UNCHANGED <<stopon, printed>>
         /\ ttyPc' \in {"prompt", "send", "sendput", "recv", "received"} =>
                ttyPc \in {"prompt", "send", "sendput", "recv", "received"}
<1>1. CASE Pdp
  BY <1>1 DEF Pdp, progSide
<1>2. CASE RunHead \/ RunTaken \/ RunKeys \/ RunPut
  BY <1>2 DEF RunHead, RunTaken, RunKeys, NoKey, EndOfStdin, KeyFromStdin, ByteFromReader, OfferKey, RunPut,
         PutKey, FetchPrinter
<1>3. CASE SendStart \/ SendTry \/ SendPut \/ RecvStart \/ RecvTry \/ RecvTaken
  BY <1>3 DEF SendStart, SendTry, SendPut, OfferKey, PutKey, RecvStart, RecvTry, RecvTaken, FetchPrinter
<1>4. CASE FileCommand \/ Interrupt \/ UserTypes
  BY <1>4 DEF FileCommand, Interrupt, UserTypes
<1> QED BY <1>1, <1>2, <1>3, <1>4 DEF TtyNext, Program, Run

LEMMA StopOthers ==
    RunInv /\ TtyNext /\ ~ RunStart /\ ~ RunShow => StopInv'
<1> SUFFICES ASSUME RunInv, TtyNext, ~ RunStart, ~ RunShow PROVE StopInv'
  OBVIOUS
<1>1. \/ Stopped
      \/ /\ UNCHANGED <<stopon, printed>>
         /\ ttyPc' \in {"prompt", "send", "sendput", "recv", "received"} =>
                ttyPc \in {"prompt", "send", "sendput", "recv", "received"}
  BY StopMoves
<1>2. CASE Stopped
  <2>1. stopon' = <<>> /\ printed' = <<>>
    BY <1>2 DEF Stopped
  <2>2. printed' \in Seq(0 .. 127) /\ DOMAIN stopon' = {}
    BY <2>1
  <2> QED BY <2>1, <2>2 DEF StopInv
<1> QED BY <1>1, <1>2 DEF RunInv, StopInv

\* A string that is all there would have stopped the run.
LEMMA NotComplete ==
    ASSUME NEW p \in Seq(0 .. 127), NEW s, Longest(s, p), s.hits < Len(s.buff)
    PROVE  ~ EndsWith(p, s.buff)
<1>1. s.buff \in Seq(0 .. 127) /\ Len(s.buff) \in 0 .. Len(s.buff)
  BY StopAssumption DEF Longest
<1>2. SubSeq(s.buff, 1, Len(s.buff)) = s.buff
  BY <1>1
<1>3. EndsWith(p, s.buff) => EndsUp(p, s.buff, Len(s.buff))
  BY <1>1, <1>2, EndsWithIs
<1> QED BY <1>1, <1>3 DEF Longest

LEMMA MissedShows == RunInv /\ NoneMissed /\ RunShow => NoneMissed'
<1> SUFFICES ASSUME RunInv, NoneMissed, RunShow PROVE NoneMissed'
  OBVIOUS
<1>1. CASE Stopped
  BY <1>1 DEF Stopped, NoneMissed
<1>2. CASE /\ stopon' = [k \in DOMAIN stopon |-> StopOnCheck(stopon[k])]
           /\ printed' = Append(printed, Mask7(ttyVal))
           /\ ~ \E k \in DOMAIN stopon : Matched(StopOnCheck(stopon[k]))
  <2>1. printed \in Seq(0 .. 127) /\ ttyVal \in TtyBytes /\ Mask7(ttyVal) \in 0 .. 127
    BY TtyByteOps DEF RunInv, StopInv, TtyInv, TtyTypeOK
  <2> SUFFICES ASSUME NEW k \in DOMAIN stopon, NEW n \in 1 .. Len(printed'),
                      stopon'[k].buff # <<>>
               PROVE  ~ EndsWith(SubSeq(printed', 1, n), stopon'[k].buff)
    BY <1>2 DEF NoneMissed
  <2> DEFINE s == StopOnCheck(stopon[k])  c == Mask7(ttyVal)
  <2>2. Longest(stopon[k], printed) /\ Longest(s, Append(printed, c))
    BY <2>1, StopStep DEF RunInv, StopInv
  <2>3. stopon'[k] = s /\ s.buff = stopon[k].buff
    BY <1>2, <2>2 DEF StopOnCheck, Longest
  <2> HIDE DEF c
  <2>4. CASE n = Len(printed) + 1
    <3>1. printed' \in Seq(0 .. 127) /\ SubSeq(printed', 1, n) = printed'
      BY <1>2, <2>1, <2>4 DEF c
    <3>2. s.hits < Len(s.buff)
      <4>1. s.buff \in Seq(1 .. 127) /\ s.buff # <<>> /\ s.hits <= Len(s.buff) /\ s.hits \in Nat
        BY <2>2, <2>3, StopAssumption DEF Longest
      <4>2. CASE c = 0
        <5>1. s.hits = 0
          BY <2>2, <4>2 DEF StopOnCheck, c, Longest
        <5> QED BY <4>1, <5>1
      <4>3. CASE c # 0
        BY <1>2, <4>1, <4>3 DEF Matched, c
      <4> QED BY <4>2, <4>3
    <3>3. Longest(s, printed')
      BY <1>2, <2>2 DEF c
    <3> QED BY <2>3, <3>1, <3>2, <3>3, NotComplete
  <2>5. CASE n # Len(printed) + 1
    <3>1. n \in 1 .. Len(printed) /\ SubSeq(printed', 1, n) = SubSeq(printed, 1, n)
      <4>1. c \in 0 .. 127 /\ printed' = Append(printed, c)
        BY <1>2, <2>1 DEF c
      <4> QED BY <2>1, <2>5, <4>1
    <3> QED BY <2>3, <3>1 DEF NoneMissed
  <2> QED BY <2>4, <2>5
<1> QED BY <1>1, <1>2 DEF RunShow

LEMMA MissedPreserved == RunInv /\ NoneMissed /\ [TtyNext]_ttyVars => NoneMissed'
<1> SUFFICES ASSUME RunInv, NoneMissed, [TtyNext]_ttyVars PROVE NoneMissed'
  OBVIOUS
<1>1. CASE RunShow
  BY <1>1, MissedShows
<1>2. CASE RunStart
  <2>1. printed' = <<>>
    BY <1>2 DEF RunStart, RunInv, StopInv
  <2> QED BY <2>1 DEF NoneMissed
<1>3. CASE UNCHANGED <<stopon, printed>>
  BY <1>3 DEF NoneMissed
<1>4. CASE Stopped
  BY <1>4 DEF Stopped, NoneMissed
<1> QED BY <1>1, <1>2, <1>3, <1>4, StopMoves DEF ttyVars

\* nokb and readerquiet are set for a file and reset at its end.
LEMMA MutedPreserved == RunInv /\ [TtyNext]_ttyVars => MutedOnlyByFile'
<1> SUFFICES ASSUME RunInv, [TtyNext]_ttyVars PROVE MutedOnlyByFile'
  OBVIOUS
<1> USE DEF RunInv, MutedOnlyByFile
<1>1. DOMAIN ttyOpt = DOMAIN Options /\ reader \in [open : BOOLEAN, left : Seq(TtyBytes)]
  BY DEF TtyInv, TtyTypeOK
<1>2. CASE UNCHANGED <<ttyOpt, punchfile, reader>>
  BY <1>2
<1>3. CASE RunStart
  BY <1>1, <1>3 DEF RunStart, Options
<1>4. CASE ByteFromReader /\ UNCHANGED punchfile
  BY <1>1, <1>4 DEF ByteFromReader, Options
<1>5. CASE FileCommand
  <2>1. CASE (PunchLoad \/ PunchUnload) /\ UNCHANGED reader
    BY <1>1, <2>1 DEF PunchLoad, PunchUnload, Options
  <2>2. CASE ReaderLoad /\ UNCHANGED punchfile
    <3>1. PICK mask \in {0, 128}, quiet \in BOOLEAN :
                 /\ ttyOpt' = [ttyOpt EXCEPT !.readerquiet = quiet, !.readermask = mask]
                 /\ quiet => reader'.open
      <4>1. CASE \E mask \in {0, 128} : ttyOpt' = [ttyOpt EXCEPT !.readerquiet = FALSE, !.readermask = mask]
        BY <4>1
      <4>2. CASE \E mask \in {0, 128}, quiet \in BOOLEAN :
                    /\ reader' = [open |-> TRUE, left |-> Tape]
                    /\ ttyOpt' = [ttyOpt EXCEPT !.readerquiet = quiet, !.readermask = mask]
        <5>1. PICK mask \in {0, 128}, quiet \in BOOLEAN :
                  /\ reader' = [open |-> TRUE, left |-> Tape]
                  /\ ttyOpt' = [ttyOpt EXCEPT !.readerquiet = quiet, !.readermask = mask]
          BY <4>2
        <5>2. reader'.open
          BY <5>1
        <5> QED BY Zenon, <5>1, <5>2
      <4> QED BY <2>2, <4>1, <4>2 DEF ReaderLoad
    <3>2. ttyOpt'.readerquiet = quiet /\ ttyOpt'.punchquiet = ttyOpt.punchquiet
      BY <1>1, <3>1 DEF Options
    <3> QED BY Zenon, <2>2, <3>1, <3>2
  <2>3. CASE ReaderUnload /\ UNCHANGED punchfile
    BY <1>1, <2>3 DEF ReaderUnload, Options
  <2> QED BY <1>5, <2>1, <2>2, <2>3 DEF FileCommand
<1>6. \/ UNCHANGED <<ttyOpt, punchfile, reader>> \/ RunStart
      \/ (ByteFromReader /\ UNCHANGED punchfile) \/ FileCommand
  BY DEF TtyNext, Pdp, progSide, Program, Run, RunHead, RunTaken, RunShow, RunKeys, NoKey, EndOfStdin,
         KeyFromStdin, RunPut, PutKey, SendStart, SendTry, SendPut, RecvStart, RecvTry, RecvTaken,
         Interrupt, UserTypes, ttyVars
<1> QED BY <1>2, <1>3, <1>4, <1>5, <1>6

LEMMA TtyPreserved == TtyInv /\ [TtyNext]_ttyVars => TtyInv'
<1> SUFFICES ASSUME TtyInv, [TtyNext]_ttyVars PROVE TtyInv'
  OBVIOUS
<1>1. CASE Pdp
  BY <1>1, TtyPrints, TtySkips, TtyKeyRead, TtyReset DEF Pdp
<1>2. CASE Program
  BY <1>2, TtyStarts, TtyFetches, TtyTaken, TtyShows, TtyLooksForKey, TtyPuts, TtySends, TtyReceives,
     TtyReceived, TtyFiles, TtyInterrupted, TtyTypes DEF Program, Run
<1>3. CASE UNCHANGED ttyVars
  BY <1>3 DEF ttyVars, TtyInv, TtyTypeOK, PrinterInv, KeyInv, InHand, ToGive, ToFetch
<1> QED BY <1>1, <1>2, <1>3 DEF TtyNext

LEMMA RunPreserved == RunInv /\ [TtyNext]_ttyVars => RunInv'
<1> SUFFICES ASSUME RunInv, [TtyNext]_ttyVars PROVE RunInv'
  OBVIOUS
<1>1. TtyInv' /\ MutedOnlyByFile'
  BY TtyPreserved, MutedPreserved DEF RunInv
<1>2. CASE UNCHANGED ttyVars
  BY <1>1, <1>2 DEF ttyVars, RunInv, StopInv
<1> QED BY <1>1, <1>2, StopStarts, StopShows, StopOthers DEF RunInv

\* Whatever the PDP-8/L, the user and the commands do and in whatever order, z8ltty
\* prints every character once, in order, as long as no START comes between its reading of
\* the printer's register and its writing of the flag and no second control-C ends it; and
\* what it has accepted of keys and tape (the rest is dropped) is at any time the one
\* character in its hand or in the register until the PDP-8/L reads it (z8ltty.cc), for
\* both boards, any characters, tapes and options.
THEOREM CharactersOnce == TtySpec => []TtyRight
<1>1. TtyInv => TtyRight
  <2> SUFFICES ASSUME TtyInv PROVE KeysReadOnce
    BY DEF TtyInv, PrinterInv, TtyRight, PrintedOnce
  <2>1. CASE tty.kbflag
    BY <2>1, Singles DEF TtyInv, KeyInv, KeysReadOnce, ToGive
  <2>2. CASE ~ tty.kbflag
    <3>1. unread = ToGive /\ <<>> \o ToGive = ToGive /\ Len(ToGive) <= 1
      BY <2>2, Singles DEF TtyInv, KeyInv, ToGive
    <3> QED BY <2>2, <3>1 DEF KeysReadOnce
  <2> QED BY <2>1, <2>2
<1> QED BY <1>1, TtyInitially, TtyPreserved, PTL DEF TtySpec

\* For any strings, whatever overlaps with themselves they have: while a run goes on none
\* of its strings, the empty one apart, is anywhere in what it has printed, and every
\* string's count is the longest start of it that the printed ends with (z8ltty.cc,
\* stoponcheck); and the screen is muted only while the file it was muted for is loaded.
THEOREM RunsStop == TtySpec => []RunRight
<1>1. RunInv => StopOnRight /\ MutedOnlyByFile
  BY HitsRight DEF RunInv, StopInv, StopOnRight
<1>2. TtyInit => RunInv /\ NoneMissed
  BY TtyInitially, RunInitially DEF RunInv, TtyInit, NoneMissed
<1>3. RunInv /\ NoneMissed /\ [TtyNext]_ttyVars => NoneMissed'
  BY MissedPreserved
<1> QED BY <1>1, <1>2, <1>3, RunPreserved, PTL DEF TtySpec, RunRight

-----------------------------------------------------------------------------
TclPcs == {"loop", "flush", "flushing", "towait", "waiting", "readline", "eval", "newexit", "register",
           "closed", "tosuspend", "suspended", "exit", "tclatexit", "popexit", "runexit", "closelog",
           "logclosed", "hung", "gone"}
TclTypeOK ==
    /\ tclMode \in [log : BOOLEAN, repeat : BOOLEAN]
    /\ tclPc \in TclPcs /\ ctrlcflag \in BOOLEAN /\ echoit \in BOOLEAN
    /\ logflushed \in BOOLEAN /\ tclxOwner \in BOOLEAN
    /\ logPipe \in Seq(Nat) /\ screen \in Seq(Nat) /\ wrote \in Seq(Nat)
    /\ tclexits \in Seq(Nat) /\ ranAtExit \in Seq(Nat)
    /\ tclLeft \in [line : Nat, ctrlc : Nat, atexit : 0 .. MaxAtExit]

\* What logthread makes of a character.
EchoAfter(echo, c) == IF (c = Nul /\ ~echo) \/ c = NewLine THEN TRUE ELSE echo /\ c # LogOnly
Grown(s, echo, c) == IF echo /\ c # LogOnly THEN Append(s, c) ELSE s

\* When logthread has read the pipe p, starting with echo before and screen s, the
\* screen is w and echoit is after: shown[i] is the screen's length and echo[i] is
\* echoit once it has read i characters.  When told, nothing is shown after a Nul.
CopyOf(p, s, w, before, after, told, shown, echo) ==
    /\ shown[0] = Len(s) /\ shown[Len(p)] = Len(w)
    /\ echo[0] = before /\ echo[Len(p)] = after
    /\ \A i \in 1 .. Len(p) :
          /\ echo[i] = EchoAfter(echo[i - 1], p[i])
          /\ IF echo[i - 1] /\ p[i] # LogOnly
             THEN shown[i] = shown[i - 1] + 1 /\ w[shown[i]] = p[i]
             ELSE shown[i] = shown[i - 1]
          /\ told /\ p[i] = Nul => shown[i] = Len(w) /\ \A j \in i + 1 .. Len(p) : p[j] # Nul
Copies(p, s, w, before, after, told) ==
    /\ Len(s) <= Len(w) /\ \A i \in 1 .. Len(s) : s[i] = w[i]
    /\ \E shown \in [0 .. Len(p) -> 0 .. Len(w)], echo \in [0 .. Len(p) -> BOOLEAN] :
          CopyOf(p, s, w, before, after, told, shown, echo)

NoNul(p) == \A i \in 1 .. Len(p) : p[i] # Nul

\* Nothing written, nothing shown.
LEMMA CopyNothing ==
    ASSUME NEW told
    PROVE  Copies(<<>>, <<>>, <<>>, TRUE, TRUE, told)
<1> DEFINE n == [i \in 0 .. 0 |-> 0]
           e == [i \in 0 .. 0 |-> TRUE]
<1>1. n \in [0 .. 0 -> 0 .. 0] /\ e \in [0 .. 0 -> BOOLEAN] /\ n[0] = 0 /\ e[0] = TRUE
  OBVIOUS
<1> HIDE DEF n, e
<1>2. CopyOf(<<>>, <<>>, <<>>, TRUE, TRUE, told, n, e)
  BY <1>1 DEF CopyOf
<1> QED BY <1>1, <1>2 DEF Copies

LEMMA Between ==
    ASSUME NEW n \in Nat, NEW i \in 1 .. n, NEW j \in i + 1 .. n + 1
    PROVE  j = n + 1 \/ (j \in i + 1 .. n /\ j \in 1 .. n + 1 /\ j \in 1 .. n)
OBVIOUS

\* One more character in the pipe.
LEMMA CopyOne ==
    ASSUME NEW p \in Seq(Nat), NEW s \in Seq(Nat), NEW w \in Seq(Nat), NEW before \in BOOLEAN,
           NEW after \in BOOLEAN, NEW told \in BOOLEAN, NEW c \in Nat,
           Copies(p, s, w, before, after, told),
           told => ~(after /\ c # LogOnly) /\ (c = Nul => NoNul(p))
    PROVE  Copies(Append(p, c), s, Grown(w, after, c), before, EchoAfter(after, c), told)
<1> DEFINE p2 == Append(p, c)
           w2 == Grown(w, after, c)
           after2 == EchoAfter(after, c)
           n == Len(p)
<1>1. PICK shown \in [0 .. n -> 0 .. Len(w)], echo \in [0 .. n -> BOOLEAN] :
          CopyOf(p, s, w, before, after, told, shown, echo)
  BY DEF Copies
<1>2. /\ n \in Nat /\ p2 \in Seq(Nat) /\ Len(p2) = n + 1 /\ p2[n + 1] = c
      /\ \A i \in 1 .. n : p2[i] = p[i]
  OBVIOUS
<1>3. /\ Len(w) \in Nat /\ w2 \in Seq(Nat) /\ \A i \in 1 .. Len(w) : w2[i] = w[i]
      /\ Len(w2) = Len(w) + (IF after /\ c # LogOnly THEN 1 ELSE 0)
      /\ after /\ c # LogOnly => w2[Len(w2)] = c
  BY DEF Grown
<1>4. after2 \in BOOLEAN
  BY DEF EchoAfter
<1> DEFINE shown2 == [i \in 0 .. n + 1 |-> IF i = n + 1 THEN Len(w2) ELSE shown[i]]
           echo2 == [i \in 0 .. n + 1 |-> IF i = n + 1 THEN after2 ELSE echo[i]]
<1>5. /\ shown2 \in [0 .. n + 1 -> 0 .. Len(w2)] /\ echo2 \in [0 .. n + 1 -> BOOLEAN]
      /\ shown2[n + 1] = Len(w2) /\ echo2[n + 1] = after2
      /\ \A i \in 0 .. n : shown2[i] = shown[i] /\ echo2[i] = echo[i]
  <2>1. \A i \in 0 .. n : shown[i] \in 0 .. Len(w) /\ echo[i] \in BOOLEAN
    BY <1>1
  <2>2. \A i \in 0 .. n + 1 : i # n + 1 => i \in 0 .. n
    BY <1>2
  <2>3. 0 .. Len(w) \subseteq 0 .. Len(w2) /\ Len(w2) \in 0 .. Len(w2)
    BY <1>3
  <2>4. \A i \in 0 .. n : i \in 0 .. n + 1 /\ i # n + 1
    BY <1>2
  <2>5. n + 1 \in 0 .. n + 1
    BY <1>2
  <2> HIDE DEF n, w2, after2
  <2> QED BY <2>1, <2>2, <2>3, <2>4, <2>5, <1>4
<1> HIDE DEF shown2, echo2, p2, w2, after2
<1>6. CopyOf(p2, s, w2, before, after2, told, shown2, echo2)
  <2>1. 0 \in 0 .. n /\ n \in 0 .. n /\ Len(w) \in Nat
    BY <1>2, <1>3
  <2>2. shown2[0] = Len(s) /\ shown2[n + 1] = Len(w2)
    BY <1>1, <1>5, <2>1 DEF CopyOf
  <2>3. echo2[0] = before /\ echo2[n + 1] = after2
    BY Zenon, <1>1, <1>5, <2>1 DEF CopyOf
  <2>9. shown2[n] = Len(w) /\ echo2[n] = after
    BY Zenon, <1>1, <1>5, <2>1 DEF CopyOf
  <2>4. ASSUME NEW i \in 1 .. n + 1
        PROVE  echo2[i] = EchoAfter(echo2[i - 1], p2[i])
    <3>1. CASE i = n + 1
      <4>1. i - 1 = n
        BY <3>1, <1>2
      <4> QED BY Zenon, <3>1, <4>1, <2>3, <2>9, <1>2 DEF after2
    <3>2. CASE i \in 1 .. n
      <4>1. i - 1 \in 0 .. n /\ i \in 0 .. n
        BY <3>2, <1>2
      <4>2. echo[i] = EchoAfter(echo[i - 1], p[i])
        BY Zenon, <1>1, <3>2 DEF CopyOf
      <4> QED BY Zenon, <3>2, <4>1, <4>2, <1>2, <1>5
    <3> QED BY <3>1, <3>2, <1>2
  <2>5. ASSUME NEW i \in 1 .. n + 1
        PROVE  IF echo2[i - 1] /\ p2[i] # LogOnly
               THEN shown2[i] = shown2[i - 1] + 1 /\ w2[shown2[i]] = p2[i]
               ELSE shown2[i] = shown2[i - 1]
    <3>1. CASE i = n + 1
      <4>1. i - 1 = n
        BY <3>1, <1>2
      <4>2. shown2[i] = Len(w2) /\ shown2[i - 1] = Len(w) /\ p2[i] = c /\ echo2[i - 1] = after
        BY Zenon, <3>1, <4>1, <2>2, <2>9, <1>2
      <4>3. CASE after /\ c # LogOnly
        BY <4>2, <4>3, <1>3
      <4>4. CASE ~(after /\ c # LogOnly)
        BY <4>2, <4>4, <1>3
      <4> QED BY <4>3, <4>4
    <3>2. CASE i \in 1 .. n
      <4>1. i - 1 \in 0 .. n /\ i \in 0 .. n
        BY <3>2, <1>2
      <4>2. IF echo[i - 1] /\ p[i] # LogOnly
            THEN shown[i] = shown[i - 1] + 1 /\ w[shown[i]] = p[i]
            ELSE shown[i] = shown[i - 1]
        BY Zenon, <1>1, <3>2 DEF CopyOf
      <4>3. shown2[i] = shown[i] /\ shown2[i - 1] = shown[i - 1] /\ echo2[i - 1] = echo[i - 1] /\ p2[i] = p[i]
        BY Zenon, <3>2, <4>1, <1>2, <1>5
      <4>4. CASE echo[i - 1] /\ p[i] # LogOnly
        <5>1. shown[i] = shown[i - 1] + 1 /\ w[shown[i]] = p[i]
          BY Zenon, <4>2, <4>4
        <5>2. shown[i] \in 0 .. Len(w) /\ shown[i - 1] \in 0 .. Len(w)
          BY <1>1, <4>1
        <5>3. shown[i] \in 1 .. Len(w)
          BY <5>1, <5>2
        <5>4. w2[shown[i]] = p[i]
          BY Zenon, <5>1, <5>3, <1>3
        <5> QED BY Zenon, <4>3, <4>4, <5>1, <5>4
      <4>5. CASE ~(echo[i - 1] /\ p[i] # LogOnly)
        BY Zenon, <4>2, <4>3, <4>5
      <4> QED BY Zenon, <4>4, <4>5
    <3> QED BY <3>1, <3>2, <1>2
  <2>6. ASSUME NEW i \in 1 .. n + 1, told, p2[i] = Nul
        PROVE  shown2[i] = Len(w2) /\ \A j \in i + 1 .. n + 1 : p2[j] # Nul
    <3>1. Len(w2) = Len(w)
      BY <2>6, <1>3
    <3>2. CASE i = n + 1
      <4>1. shown2[i] = Len(w2) /\ i + 1 .. n + 1 = {}
        BY <3>2, <2>2, <1>2
      <4> QED BY <4>1
    <3>3. CASE i \in 1 .. n
      <4>1. i \in 0 .. n /\ p[i] = Nul
        BY <3>3, <2>6, <1>2
      <4>2. shown[i] = Len(w) /\ \A j \in i + 1 .. n : p[j] # Nul
        BY Zenon, <1>1, <3>3, <4>1, <2>6 DEF CopyOf
      <4>3. c # Nul
        BY Zenon, <2>6, <3>3, <4>1 DEF NoNul
      <4>4. ASSUME NEW j \in i + 1 .. n + 1
            PROVE  j = n + 1 \/ (j \in i + 1 .. n /\ j \in 1 .. n + 1 /\ j \in 1 .. n)
        <5>1. n \in Nat
          BY <1>2
        <5> QED BY Zenon, <5>1, <3>3, Between
      <4>5. shown2[i] = shown[i]
        BY <4>1, <1>5
      <4>6. ASSUME NEW j \in i + 1 .. n + 1 PROVE p2[j] # Nul
        BY Zenon, <4>2, <4>3, <4>4, <1>2
      <4> QED BY Zenon, <4>2, <4>5, <4>6, <3>1
    <3>4. i = n + 1 \/ i \in 1 .. n
      BY <1>2
    <3> QED BY Zenon, <3>2, <3>3, <3>4
      
  <2>7. Len(p2) = n + 1
    BY <1>2
  <2> QED BY Zenon, <2>2, <2>3, <2>4, <2>5, <2>6, <2>7 DEF CopyOf
<1>7. Len(s) <= Len(w2) /\ \A i \in 1 .. Len(s) : s[i] = w2[i]
  <2>1. Len(s) <= Len(w) /\ \A i \in 1 .. Len(s) : s[i] = w[i]
    BY Zenon DEF Copies
  <2>2. Len(s) \in Nat
    OBVIOUS
  <2> QED BY <2>1, <2>2, <1>3
<1>8. Len(p2) = n + 1
  BY <1>2
<1>9. Copies(p2, s, w2, before, after2, told)
  BY Zenon, <1>5, <1>6, <1>7, <1>8 DEF Copies
<1> QED BY Zenon, <1>9 DEF p2, w2, after2

\* A pipe without a Nul will do for a flush.
LEMMA CopyStart ==
    ASSUME NEW p \in Seq(Nat), NEW s, NEW w, NEW before, NEW after, Copies(p, s, w, before, after, FALSE),
           NoNul(p), NEW told
    PROVE  Copies(p, s, w, before, after, told)
<1>1. PICK shown \in [0 .. Len(p) -> 0 .. Len(w)], echo \in [0 .. Len(p) -> BOOLEAN] :
          CopyOf(p, s, w, before, after, FALSE, shown, echo)
  BY DEF Copies
<1>2. CopyOf(p, s, w, before, after, told, shown, echo)
  BY Zenon, <1>1 DEF CopyOf, NoNul
<1> QED BY Zenon, <1>2 DEF Copies

\* And a flush can be given up.
LEMMA CopyLess ==
    ASSUME NEW p \in Seq(Nat), NEW s, NEW w, NEW before, NEW after, NEW told \in BOOLEAN,
           NEW less \in BOOLEAN, less => told, Copies(p, s, w, before, after, told)
    PROVE  Copies(p, s, w, before, after, less)
<1>1. PICK shown \in [0 .. Len(p) -> 0 .. Len(w)], echo \in [0 .. Len(p) -> BOOLEAN] :
          CopyOf(p, s, w, before, after, told, shown, echo)
  BY DEF Copies
<1>2. CopyOf(p, s, w, before, after, less, shown, echo)
  BY Zenon, <1>1 DEF CopyOf
<1> QED BY Zenon, <1>2 DEF Copies

\* logthread takes a character: a Nul that answers finds everything shown.
LEMMA CopyRead ==
    ASSUME NEW p \in Seq(Nat), p # <<>>, NEW s \in Seq(Nat), NEW w \in Seq(Nat), NEW before \in BOOLEAN,
           NEW after \in BOOLEAN, NEW told \in BOOLEAN, Copies(p, s, w, before, after, told)
    PROVE  /\ Copies(Tail(p), Grown(s, before, Head(p)), w, EchoAfter(before, Head(p)), after, told)
           /\ told => (Head(p) = Nul => Len(Grown(s, before, Head(p))) = Len(w) /\ NoNul(Tail(p)))
           /\ Len(s) = Len(w) => Grown(s, before, Head(p)) = s
<1> DEFINE n == Len(p)
           c == p[1]
           p2 == Tail(p)
           s2 == Grown(s, before, c)
           before2 == EchoAfter(before, c)
<1>1. PICK shown \in [0 .. n -> 0 .. Len(w)], echo \in [0 .. n -> BOOLEAN] :
          CopyOf(p, s, w, before, after, told, shown, echo)
  BY DEF Copies
<1>2. /\ n \in Nat /\ n >= 1 /\ p2 \in Seq(Nat) /\ Len(p2) = n - 1 /\ c \in Nat /\ Head(p) = c
      /\ \A i \in 1 .. n - 1 : p2[i] = p[i + 1]
  OBVIOUS
<1>3. /\ Len(s) \in Nat /\ s2 \in Seq(Nat) /\ \A i \in 1 .. Len(s) : s2[i] = s[i]
      /\ Len(s2) = Len(s) + (IF before /\ c # LogOnly THEN 1 ELSE 0)
      /\ before /\ c # LogOnly => s2[Len(s) + 1] = c
      /\ ~(before /\ c # LogOnly) => s2 = s
  BY <1>2 DEF Grown
<1> HIDE DEF n, c, p2, s2, before2
<1>4. /\ echo[1] = before2 /\ echo[0] = before
      /\ IF before /\ c # LogOnly THEN shown[1] = shown[0] + 1 /\ w[shown[1]] = c ELSE shown[1] = shown[0]
      /\ shown[0] = Len(s)
      /\ told /\ c = Nul => shown[1] = Len(w) /\ \A j \in 1 + 1 .. n : p[j] # Nul
  <2>1. 1 \in 1 .. n /\ 1 - 1 = 0
    BY <1>2
  <2>2. echo[0] = before /\ shown[0] = Len(s)
    BY Zenon, <1>1 DEF CopyOf
  <2>3. /\ echo[1] = EchoAfter(echo[1 - 1], p[1])
        /\ IF echo[1 - 1] /\ p[1] # LogOnly
           THEN shown[1] = shown[1 - 1] + 1 /\ w[shown[1]] = p[1]
           ELSE shown[1] = shown[1 - 1]
        /\ told /\ p[1] = Nul => shown[1] = Len(w) /\ \A j \in 1 + 1 .. Len(p) : p[j] # Nul
    BY Zenon, <1>1, <2>1 DEF CopyOf, n
  <2> QED BY Zenon, <2>1, <2>2, <2>3 DEF c, before2, n
<1>5. shown[1] = Len(s2) /\ shown[1] \in 0 .. Len(w)
  <2>1. shown[1] \in 0 .. Len(w)
    BY <1>1, <1>2
  <2>2. CASE before /\ c # LogOnly
    BY <2>1, <2>2, <1>3, <1>4
  <2>3. CASE ~(before /\ c # LogOnly)
    BY <2>1, <2>3, <1>3, <1>4
  <2> QED BY <2>2, <2>3
<1> DEFINE shown2 == [i \in 0 .. n - 1 |-> shown[i + 1]]
           echo2 == [i \in 0 .. n - 1 |-> echo[i + 1]]
<1>6. /\ shown2 \in [0 .. n - 1 -> 0 .. Len(w)] /\ echo2 \in [0 .. n - 1 -> BOOLEAN]
      /\ shown2[0] = shown[1] /\ echo2[0] = echo[1] /\ shown2[n - 1] = shown[n] /\ echo2[n - 1] = echo[n]
      /\ \A i \in 1 .. n - 1 : /\ shown2[i] = shown[i + 1] /\ echo2[i] = echo[i + 1]
                               /\ shown2[i - 1] = shown[i] /\ echo2[i - 1] = echo[i]
  <2>1. \A i \in 0 .. n - 1 : i + 1 \in 0 .. n
    BY <1>2
  <2>2. shown2 \in [0 .. n - 1 -> 0 .. Len(w)] /\ echo2 \in [0 .. n - 1 -> BOOLEAN]
    BY <1>1, <2>1
  <2>3. \A i \in 0 .. n - 1 : shown2[i] = shown[i + 1] /\ echo2[i] = echo[i + 1]
    OBVIOUS
  <2> HIDE DEF shown2, echo2
  <2>4. 0 \in 0 .. n - 1 /\ n - 1 \in 0 .. n - 1 /\ 0 + 1 = 1 /\ (n - 1) + 1 = n
    BY <1>2
  <2>5. shown2[0] = shown[1] /\ echo2[0] = echo[1] /\ shown2[n - 1] = shown[n] /\ echo2[n - 1] = echo[n]
    <3>1. shown2[0] = shown[0 + 1] /\ echo2[0] = echo[0 + 1]
      BY Zenon, <2>3, <2>4
    <3>2. shown2[n - 1] = shown[(n - 1) + 1] /\ echo2[n - 1] = echo[(n - 1) + 1]
      BY Zenon, <2>3, <2>4
    <3> QED BY Zenon, <3>1, <3>2, <2>4
  <2>6. ASSUME NEW i \in 1 .. n - 1
        PROVE  /\ shown2[i] = shown[i + 1] /\ echo2[i] = echo[i + 1]
               /\ shown2[i - 1] = shown[i] /\ echo2[i - 1] = echo[i]
    <3>1. i \in 0 .. n - 1 /\ i - 1 \in 0 .. n - 1 /\ (i - 1) + 1 = i
      BY <1>2
    <3>2. shown2[i - 1] = shown[(i - 1) + 1] /\ echo2[i - 1] = echo[(i - 1) + 1]
      BY Zenon, <3>1, <2>3
    <3> QED BY Zenon, <3>1, <3>2, <2>3
  <2> QED BY Zenon, <2>2, <2>5, <2>6
<1> HIDE DEF shown2, echo2
<1>7. CopyOf(p2, s2, w, before2, after, told, shown2, echo2)
  <2>1. shown2[0] = Len(s2) /\ shown2[n - 1] = Len(w)
    BY Zenon, <1>1, <1>5, <1>6 DEF CopyOf, n
  <2>2. echo2[0] = before2 /\ echo2[n - 1] = after
    BY Zenon, <1>1, <1>4, <1>6 DEF CopyOf, n
  <2>3. ASSUME NEW i \in 1 .. n - 1
        PROVE  /\ echo2[i] = EchoAfter(echo2[i - 1], p2[i])
               /\ IF echo2[i - 1] /\ p2[i] # LogOnly
                  THEN shown2[i] = shown2[i - 1] + 1 /\ w[shown2[i]] = p2[i]
                  ELSE shown2[i] = shown2[i - 1]
               /\ told /\ p2[i] = Nul => shown2[i] = Len(w) /\ \A j \in i + 1 .. n - 1 : p2[j] # Nul
    <3>1. i + 1 \in 1 .. n /\ (i + 1) - 1 = i
      BY <1>2
    <3>2. /\ echo[i + 1] = EchoAfter(echo[(i + 1) - 1], p[i + 1])
          /\ IF echo[(i + 1) - 1] /\ p[i + 1] # LogOnly
             THEN shown[i + 1] = shown[(i + 1) - 1] + 1 /\ w[shown[i + 1]] = p[i + 1]
             ELSE shown[i + 1] = shown[(i + 1) - 1]
          /\ told /\ p[i + 1] = Nul => shown[i + 1] = Len(w) /\ \A j \in (i + 1) + 1 .. n : p[j] # Nul
      BY Zenon, <1>1, <3>1 DEF CopyOf, n
    <3>3. p2[i] = p[i + 1]
      BY Zenon, <1>2
    <3>4. ASSUME NEW j \in i + 1 .. n - 1 PROVE j \in 1 .. n - 1 /\ j + 1 \in (i + 1) + 1 .. n
      <4>1. n \in Nat /\ i \in Nat /\ j \in Int /\ i + 1 <= j /\ j <= n - 1 /\ 1 <= i
        BY <1>2
      <4> QED BY <4>1
    <3>5. echo2[i] = EchoAfter(echo2[i - 1], p2[i])
      BY Zenon, <3>1, <3>2, <3>3, <1>6
    <3>6. IF echo2[i - 1] /\ p2[i] # LogOnly
          THEN shown2[i] = shown2[i - 1] + 1 /\ w[shown2[i]] = p2[i]
          ELSE shown2[i] = shown2[i - 1]
      BY Zenon, <3>1, <3>2, <3>3, <1>6
    <3>7. ASSUME told, p2[i] = Nul
          PROVE  shown2[i] = Len(w) /\ \A j \in i + 1 .. n - 1 : p2[j] # Nul
      <4>1. shown[i + 1] = Len(w) /\ \A j \in (i + 1) + 1 .. n : p[j] # Nul
        BY Zenon, <3>2, <3>3, <3>7
      <4>2. ASSUME NEW j \in i + 1 .. n - 1 PROVE p2[j] # Nul
        <5>1. p2[j] = p[j + 1]
          BY Zenon, <3>4, <1>2
        <5> QED BY Zenon, <5>1, <3>4, <4>1
      <4> QED BY Zenon, <4>1, <4>2, <1>6
    <3> QED BY Zenon, <3>5, <3>6, <3>7
  <2>4. Len(p2) = n - 1
    BY <1>2
  <2> QED BY Zenon, <2>1, <2>2, <2>3, <2>4 DEF CopyOf
<1>8. Len(s2) <= Len(w) /\ \A i \in 1 .. Len(s2) : s2[i] = w[i]
  <2>1. Len(s) <= Len(w) /\ \A i \in 1 .. Len(s) : s[i] = w[i]
    BY Zenon DEF Copies
  <2>2. CASE before /\ c # LogOnly
    <3>1. shown[1] = Len(s) + 1 /\ w[shown[1]] = c /\ Len(s2) = Len(s) + 1 /\ s2[Len(s) + 1] = c
      BY <2>2, <1>3, <1>4
    <3>2. \A i \in 1 .. Len(s) + 1 : i \in 1 .. Len(s) \/ i = Len(s) + 1
      BY <1>3
    <3>3. Len(s2) <= Len(w)
      BY <1>5, <1>3
    <3> QED BY <3>1, <3>2, <3>3, <2>1, <1>3
  <2>3. CASE ~(before /\ c # LogOnly)
    BY Zenon, <2>1, <2>3, <1>3
  <2> QED BY Zenon, <2>2, <2>3
<1>9. Copies(p2, s2, w, before2, after, told)
  <2>1. Len(p2) = n - 1
    BY <1>2
  <2> QED BY Zenon, <2>1, <1>6, <1>7, <1>8 DEF Copies
<1>10. ASSUME told, c = Nul PROVE Len(s2) = Len(w) /\ NoNul(p2)
  <2>1. shown[1] = Len(w) /\ \A j \in 1 + 1 .. n : p[j] # Nul
    BY Zenon, <1>4, <1>10
  <2>2. \A i \in 1 .. n - 1 : i + 1 \in 1 + 1 .. n
    BY <1>2
  <2>3. Len(p2) = n - 1
    BY <1>2
  <2>4. \A i \in 1 .. n - 1 : p2[i] = p[i + 1]
    BY Zenon, <1>2
  <2> QED BY Zenon, <2>1, <2>2, <2>3, <2>4, <1>5 DEF NoNul
<1>11. Len(s) = Len(w) => s2 = s
  BY <1>3, <1>5
<1>12. Head(p) = c
  BY Zenon, <1>2
<1> QED BY Zenon, <1>9, <1>10, <1>11, <1>12 DEF c, p2, s2, before2

\* Text and control sequences, character by character.
LEMMA NextTwo ==
    ASSUME NEW p \in Seq(Nat), NEW a \in Nat, NEW b \in Nat
    PROVE  p \o <<a, b>> = Append(Append(p, a), b)
<1>1. /\ p \o <<a, b>> \in Seq(Nat) /\ Append(Append(p, a), b) \in Seq(Nat)
      /\ Len(p \o <<a, b>>) = Len(Append(Append(p, a), b))
  OBVIOUS
<1>2. \A i \in 1 .. Len(p \o <<a, b>>) : (p \o <<a, b>>)[i] = Append(Append(p, a), b)[i]
  OBVIOUS
<1> QED BY <1>1, <1>2, SameSeq

LEMMA NextThree ==
    ASSUME NEW p \in Seq(Nat), NEW a \in Nat, NEW b \in Nat, NEW c \in Nat
    PROVE  p \o <<a, b, c>> = Append(Append(Append(p, a), b), c)
<1>1. /\ p \o <<a, b, c>> \in Seq(Nat) /\ Append(Append(Append(p, a), b), c) \in Seq(Nat)
      /\ Len(p \o <<a, b, c>>) = Len(Append(Append(Append(p, a), b), c))
  OBVIOUS
<1>2. \A i \in 1 .. Len(p \o <<a, b, c>>) :
         (p \o <<a, b, c>>)[i] = Append(Append(Append(p, a), b), c)[i]
  OBVIOUS
<1> QED BY <1>1, <1>2, SameSeq

\* Where a Nul can be.
LEMMA NoNulNext ==
    ASSUME NEW p \in Seq(Nat), NEW c \in Nat
    PROVE  NoNul(Append(p, c)) <=> NoNul(p) /\ c # Nul
BY DEF NoNul

LEMMA NoNulTail ==
    ASSUME NEW p \in Seq(Nat), p # <<>>, NoNul(p)
    PROVE  NoNul(Tail(p)) /\ Head(p) # Nul
BY DEF NoNul

\* The three things that are written to the pipe: control-C's text, which is for the log,
LEMMA CopyEcho ==
    ASSUME NEW p \in Seq(Nat), NEW s \in Seq(Nat), NEW w \in Seq(Nat), NEW before \in BOOLEAN,
           NEW told \in BOOLEAN, Copies(p, s, w, before, TRUE, told)
    PROVE  /\ Copies(p \o Echo, s, w, before, TRUE, told) /\ p \o Echo \in Seq(Nat)
           /\ NoNul(p) => NoNul(p \o Echo)
<1> DEFINE a == Append(p, LogOnly)
           b == Append(a, ControlC)
           c == Append(b, NewLine)
<1>1. /\ LogOnly \in Nat /\ ControlC \in Nat /\ NewLine \in Nat
      /\ LogOnly # Nul /\ ControlC # Nul /\ NewLine # Nul
      /\ ControlC # LogOnly /\ NewLine # LogOnly /\ ControlC # NewLine /\ LogOnly # NewLine
  BY DEF LogOnly, ControlC, NewLine, Nul
<1>2. a \in Seq(Nat) /\ b \in Seq(Nat) /\ c \in Seq(Nat) /\ p \o Echo = c
  <2>1. a \in Seq(Nat) /\ b \in Seq(Nat) /\ c \in Seq(Nat)
    BY <1>1
  <2>2. p \o <<LogOnly, ControlC, NewLine>> = Append(Append(Append(p, LogOnly), ControlC), NewLine)
    <3> HIDE DEF a, b, c
    <3> QED BY <1>1, NextThree
  <2> QED BY Zenon, <2>1, <2>2 DEF Echo
<1>3. NoNul(p) => NoNul(c)
  BY Zenon, <1>1, <1>2, NoNulNext
<1>4. /\ Grown(w, TRUE, LogOnly) = w /\ EchoAfter(TRUE, LogOnly) = FALSE
      /\ Grown(w, FALSE, ControlC) = w /\ EchoAfter(FALSE, ControlC) = FALSE
      /\ Grown(w, FALSE, NewLine) = w /\ EchoAfter(FALSE, NewLine) = TRUE
  BY Zenon, <1>1 DEF Grown, EchoAfter
<1> HIDE DEF a, b, c
<1>5. Copies(a, s, w, before, FALSE, told)
  <2>1. Copies(Append(p, LogOnly), s, Grown(w, TRUE, LogOnly), before, EchoAfter(TRUE, LogOnly), told)
    BY Zenon, <1>1, CopyOne
  <2> QED BY Zenon, <2>1, <1>4 DEF a
<1>6. Copies(b, s, w, before, FALSE, told)
  <2>1. Copies(Append(a, ControlC), s, Grown(w, FALSE, ControlC), before, EchoAfter(FALSE, ControlC), told)
    <3>1. told => ~(FALSE /\ ControlC # LogOnly) /\ (ControlC = Nul => NoNul(a))
      BY Zenon, <1>1
    <3>2. ControlC \in Nat /\ a \in Seq(Nat) /\ FALSE \in BOOLEAN
      BY Zenon, <1>1, <1>2
    <3> QED BY Zenon, <3>1, <3>2, <1>5, CopyOne
  <2> QED BY Zenon, <2>1, <1>4 DEF b
<1>7. Copies(c, s, w, before, TRUE, told)
  <2>1. Copies(Append(b, NewLine), s, Grown(w, FALSE, NewLine), before, EchoAfter(FALSE, NewLine), told)
    <3>1. told => ~(FALSE /\ NewLine # LogOnly) /\ (NewLine = Nul => NoNul(b))
      BY Zenon, <1>1
    <3>2. NewLine \in Nat /\ b \in Seq(Nat) /\ FALSE \in BOOLEAN
      BY Zenon, <1>1, <1>2
    <3> QED BY Zenon, <3>1, <3>2, <1>6, CopyOne
  <2> QED BY Zenon, <2>1, <1>4 DEF c
<1> QED BY Zenon, <1>2, <1>3, <1>7

\* the flush, when no other is on its way,
LEMMA CopyAsk ==
    ASSUME NEW p \in Seq(Nat), NEW s \in Seq(Nat), NEW w \in Seq(Nat), NEW before \in BOOLEAN,
           Copies(p, s, w, before, TRUE, FALSE), NoNul(p)
    PROVE  Copies(p \o <<LogOnly, Nul>>, s, w, before, TRUE, TRUE) /\ p \o <<LogOnly, Nul>> \in Seq(Nat)
<1> DEFINE a == Append(p, LogOnly)
           b == Append(a, Nul)
<1>1. LogOnly \in Nat /\ Nul \in Nat /\ LogOnly # Nul /\ Nul # NewLine /\ LogOnly # NewLine
  BY DEF LogOnly, NewLine, Nul
<1>2. a \in Seq(Nat) /\ b \in Seq(Nat) /\ p \o <<LogOnly, Nul>> = b
  <2>1. a \in Seq(Nat) /\ b \in Seq(Nat)
    BY <1>1
  <2> QED BY Zenon, <2>1, <1>1, NextTwo
<1>3. NoNul(a)
  BY Zenon, <1>1, NoNulNext
<1>4. /\ Grown(w, TRUE, LogOnly) = w /\ EchoAfter(TRUE, LogOnly) = FALSE
      /\ Grown(w, FALSE, Nul) = w /\ EchoAfter(FALSE, Nul) = TRUE
  BY Zenon, <1>1 DEF Grown, EchoAfter
<1> HIDE DEF a, b
<1>5. Copies(p, s, w, before, TRUE, TRUE)
  BY Zenon, CopyStart
<1>6. Copies(a, s, w, before, FALSE, TRUE)
  <2>1. Copies(Append(p, LogOnly), s, Grown(w, TRUE, LogOnly), before, EchoAfter(TRUE, LogOnly), TRUE)
    BY Zenon, <1>1, <1>5, CopyOne
  <2> QED BY Zenon, <2>1, <1>4 DEF a
<1>7. Copies(b, s, w, before, TRUE, TRUE)
  <2>1. Copies(Append(a, Nul), s, Grown(w, FALSE, Nul), before, EchoAfter(FALSE, Nul), TRUE)
    BY Zenon, <1>1, <1>2, <1>3, <1>6, CopyOne
  <2> QED BY Zenon, <2>1, <1>4 DEF b
<1> QED BY Zenon, <1>2, <1>7

\* and output.
LEMMA CopyOutput ==
    ASSUME NEW p \in Seq(Nat), NEW s \in Seq(Nat), NEW w \in Seq(Nat), NEW before \in BOOLEAN,
           Copies(p, s, w, before, TRUE, FALSE), NoNul(p)
    PROVE  /\ Copies(p \o <<Text, NewLine>>, s, w \o <<Text, NewLine>>, before, TRUE, FALSE)
           /\ p \o <<Text, NewLine>> \in Seq(Nat) /\ w \o <<Text, NewLine>> \in Seq(Nat)
           /\ NoNul(p \o <<Text, NewLine>>)
<1> DEFINE a == Append(p, Text)
           b == Append(a, NewLine)
           w1 == Append(w, Text)
           w2 == Append(w1, NewLine)
<1>1. /\ Text \in Nat /\ NewLine \in Nat /\ Text # Nul /\ NewLine # Nul
      /\ Text # NewLine /\ Text # LogOnly /\ NewLine # LogOnly
  BY DEF LogOnly, NewLine, Nul, Text
<1>2. a \in Seq(Nat) /\ b \in Seq(Nat) /\ p \o <<Text, NewLine>> = b
  <2>1. a \in Seq(Nat) /\ b \in Seq(Nat)
    BY <1>1
  <2> QED BY Zenon, <2>1, <1>1, NextTwo
<1>3. w1 \in Seq(Nat) /\ w2 \in Seq(Nat) /\ w \o <<Text, NewLine>> = w2
  <2>1. w1 \in Seq(Nat) /\ w2 \in Seq(Nat)
    BY <1>1
  <2> QED BY Zenon, <2>1, <1>1, NextTwo
<1>4. NoNul(b)
  BY Zenon, <1>1, <1>2, NoNulNext
<1>5. /\ Grown(w, TRUE, Text) = w1 /\ EchoAfter(TRUE, Text) = TRUE
      /\ Grown(w1, TRUE, NewLine) = w2 /\ EchoAfter(TRUE, NewLine) = TRUE
  BY Zenon, <1>1 DEF Grown, EchoAfter
<1> HIDE DEF a, b, w1, w2
<1>6. Copies(a, s, w1, before, TRUE, FALSE)
  <2>1. Copies(Append(p, Text), s, Grown(w, TRUE, Text), before, EchoAfter(TRUE, Text), FALSE)
    BY Zenon, <1>1, CopyOne
  <2> QED BY Zenon, <2>1, <1>5 DEF a
<1>7. Copies(b, s, w2, before, TRUE, FALSE)
  <2>1. Copies(Append(a, NewLine), s, Grown(w1, TRUE, NewLine), before, EchoAfter(TRUE, NewLine), FALSE)
    <3>1. FALSE => ~(TRUE /\ NewLine # LogOnly) /\ (NewLine = Nul => NoNul(a))
      OBVIOUS
    <3>2. NewLine \in Nat /\ a \in Seq(Nat) /\ w1 \in Seq(Nat) /\ TRUE \in BOOLEAN /\ FALSE \in BOOLEAN
      BY Zenon, <1>1, <1>2, <1>3
    <3> QED BY Zenon, <3>1, <3>2, <1>6, CopyOne
  <2> QED BY Zenon, <2>1, <1>5 DEF b
<1> QED BY Zenon, <1>2, <1>3, <1>4, <1>7

-----------------------------------------------------------------------------
\* What is left to the prompt: a Nul has been sent; no Nul is on its way; the exit.
Told == tclPc \in {"flushing", "towait", "waiting", "readline"}
Live == tclPc \in {"loop", "flush", "eval", "newexit", "register", "closed", "tosuspend", "suspended"}
AtFlush == tclPc \in {"flush", "flushing", "towait", "waiting"}
Leaving == tclPc \in {"exit", "tclatexit", "popexit", "runexit", "closelog", "logclosed", "hung", "gone"}

\* The pipe holds what the screen still lacks.  A Nul is in it only while its
\* answer is waited for; what was written before the prompt's Nul is shown when
\* logthread has answered it.
PipeInv ==
    /\ ~tclMode.log => /\ logPipe = <<>> /\ screen = <<>> /\ wrote = <<>>
                       /\ ~AtFlush
    /\ Copies(logPipe, screen, wrote, echoit, TRUE, Told)
    /\ Live => NoNul(logPipe)
    /\ Told /\ (logflushed \/ tclPc = "readline") => NoNul(logPipe) /\ Len(screen) = Len(wrote)

\* The commands that have been run and the ones still to run are all, in order.
ExitInv ==
    LET n == MaxAtExit - tclLeft.atexit IN
    /\ Len(ranAtExit) + Len(tclexits) = n
    /\ \A i \in 1 .. Len(ranAtExit) : ranAtExit[i] = n + 1 - i
    /\ \A i \in 1 .. Len(tclexits) : tclexits[i] = Len(tclexits) + 1 - i
    /\ ~Leaving => Len(ranAtExit) = 0

\* What exit has to call.  tclatexit is on its list while a command is in the other
\* list, but for the step in which it is put there; once it is off, no command is left.
HandlerLists == {<<>>, <<"closelog">>, <<"tclatexit">>, <<"tclatexit", "closelog">>}
Listed == handlers \in {<<"tclatexit">>, <<"tclatexit", "closelog">>}
HandlerInv ==
    /\ handlers \in HandlerLists /\ cutShort \in BOOLEAN
    /\ ~Leaving => (Listed <=> tclexits # <<>> /\ tclPc # "register")
    /\ tclPc = "register" => tclexits # <<>>
    /\ tclPc = "exit" => Listed \/ tclexits = <<>> \/ cutShort
    /\ tclPc \in {"closelog", "logclosed", "hung", "gone"} => tclexits = <<>> \/ cutShort

PromptInv == TclTypeOK /\ PipeInv /\ ExitInv

LEMMA PromptInitially == TclInit => PromptInv /\ HandlerInv
<1> SUFFICES ASSUME TclInit PROVE PromptInv /\ HandlerInv
  OBVIOUS
<1>1. PICK log \in BOOLEAN, repeat \in BOOLEAN : TclStart([log |-> log, repeat |-> repeat])
  BY Zenon DEF TclInit
<1>2. /\ tclMode = [log |-> log, repeat |-> repeat]
      /\ tclPc = "loop" /\ ctrlcflag = FALSE /\ logPipe = <<>> /\ echoit = TRUE
      /\ logflushed = FALSE /\ screen = <<>> /\ wrote = <<>> /\ tclexits = <<>>
      /\ ranAtExit = <<>> /\ tclxOwner = FALSE /\ cutShort = FALSE
      /\ handlers = IF tclMode.log THEN <<"closelog">> ELSE <<>>
      /\ tclLeft = [line |-> MaxLines, ctrlc |-> MaxCtrlC, atexit |-> MaxAtExit]
  BY Zenon, <1>1 DEF TclStart
<1>3. /\ MaxLines \in Nat /\ MaxCtrlC \in Nat /\ MaxAtExit \in 0 .. MaxAtExit /\ MaxAtExit \in Nat
  BY TclBoundsAssumption
<1>4. TclTypeOK
  <2>1. tclMode \in [log : BOOLEAN, repeat : BOOLEAN]
    BY <1>2
  <2>2. tclLeft \in [line : Nat, ctrlc : Nat, atexit : 0 .. MaxAtExit]
    BY <1>2, <1>3
  <2>3. <<>> \in Seq(Nat)
    OBVIOUS
  <2>4. tclPc \in TclPcs
    BY <1>2 DEF TclPcs
  <2> QED BY Zenon, <1>2, <2>1, <2>2, <2>3, <2>4 DEF TclTypeOK
<1>5. PipeInv
  <2>1. Copies(logPipe, screen, wrote, echoit, TRUE, Told)
    BY Zenon, <1>2, CopyNothing
  <2>2. NoNul(logPipe)
    BY <1>2 DEF NoNul
  <2>3. ~Told /\ ~AtFlush
    BY <1>2 DEF Told, AtFlush
  <2> QED BY Zenon, <2>1, <2>2, <2>3, <1>2 DEF PipeInv
<1>6. ExitInv
  <2>1. Len(ranAtExit) = 0 /\ Len(tclexits) = 0 /\ tclLeft.atexit = MaxAtExit
    BY <1>2
  <2> QED BY <2>1, <1>2, <1>3 DEF ExitInv
<1>7. HandlerInv
  BY <1>2 DEF HandlerInv, HandlerLists, Listed, Leaving
<1> QED BY Zenon, <1>4, <1>5, <1>6, <1>7 DEF PromptInv

\* A step that leaves the pipe, the screen and logthread's flags alone.
LEMMA PipeMoves ==
    ASSUME TclTypeOK, PipeInv,
           UNCHANGED <<tclMode, logPipe, echoit, screen, wrote, logflushed>>,
           Told' => \/ Told /\ (tclPc' = "readline" => tclPc = "readline" \/ logflushed)
                    \/ ~tclMode.log /\ tclPc' = "readline",
           Live' => Live \/ tclPc = "readline",
           ~tclMode.log => ~AtFlush'
    PROVE  PipeInv'
<1>1. UNCHANGED <<tclMode, logPipe, echoit, screen, wrote, logflushed>>
  OBVIOUS
<1>2. CASE ~tclMode.log
  <2>1. logPipe = <<>> /\ screen = <<>> /\ wrote = <<>>
    BY Zenon, <1>2 DEF PipeInv
  <2>2. echoit = TRUE
    <3>1. PICK shown \in [0 .. Len(logPipe) -> 0 .. Len(wrote)], echo \in [0 .. Len(logPipe) -> BOOLEAN] :
              CopyOf(logPipe, screen, wrote, echoit, TRUE, Told, shown, echo)
      BY Zenon DEF PipeInv, Copies
    <3>2. echo[0] = echoit /\ echo[Len(logPipe)] = TRUE
      BY Zenon, <3>1 DEF CopyOf
    <3>3. Len(logPipe) = 0
      BY <2>1
    <3> QED BY Zenon, <3>2, <3>3
  <2>3. NoNul(logPipe) /\ Len(screen) = Len(wrote)
    BY <2>1 DEF NoNul
  <2>4. Copies(logPipe, screen, wrote, echoit, TRUE, Told')
    BY Zenon, <2>1, <2>2, CopyNothing
  <2> QED BY Zenon, <1>1, <1>2, <2>1, <2>3, <2>4 DEF PipeInv
<1>3. CASE tclMode.log
  <2>1. Told' => Told
    BY Zenon, <1>3
  <2>2. logPipe \in Seq(Nat) /\ Told \in BOOLEAN /\ Told' \in BOOLEAN
    <3>1. logPipe \in Seq(Nat)
      BY Zenon DEF TclTypeOK
    <3>2. Told \in BOOLEAN
      BY DEF Told
    <3>3. Told' \in BOOLEAN
      BY DEF Told
    <3> QED BY Zenon, <3>1, <3>2, <3>3
  <2>3. Copies(logPipe, screen, wrote, echoit, TRUE, Told)
    BY Zenon DEF PipeInv
  <2>4. Copies(logPipe, screen, wrote, echoit, TRUE, Told')
    <3>1. CASE Told'
      <4>1. Told' = TRUE /\ Told = TRUE
        BY Zenon, <3>1, <2>1, <2>2
      <4> QED BY Zenon, <4>1, <2>3
    <3>2. CASE ~Told'
      <4>1. Told' = FALSE
        BY Zenon, <3>2, <2>2
      <4>2. FALSE \in BOOLEAN /\ (FALSE => Told)
        OBVIOUS
      <4>3. Copies(logPipe, screen, wrote, echoit, TRUE, FALSE)
        BY Zenon, <2>2, <2>3, <4>2, CopyLess
      <4> QED BY Zenon, <4>1, <4>3
    <3> QED BY Zenon, <3>1, <3>2
  <2>5. Live' => NoNul(logPipe)
    <3>1. tclPc = "readline" => Told
      BY Zenon DEF Told
    <3> QED BY Zenon, <3>1 DEF PipeInv
  <2>6. Told' /\ (logflushed \/ tclPc' = "readline") => NoNul(logPipe) /\ Len(screen) = Len(wrote)
    BY Zenon, <1>3, <2>1 DEF PipeInv
  <2>7. /\ tclMode' = tclMode /\ logPipe' = logPipe /\ echoit' = echoit /\ screen' = screen
        /\ wrote' = wrote /\ logflushed' = logflushed
    BY Zenon, <1>1
  <2>8. Copies(logPipe', screen', wrote', echoit', TRUE, Told')
    BY Zenon, <2>4, <2>7
  <2>9. ~tclMode'.log => FALSE
    BY Zenon, <1>3, <2>7
  <2>10. Live' => NoNul(logPipe')
    BY Zenon, <2>5, <2>7
  <2>11. Told' /\ (logflushed' \/ tclPc' = "readline") => NoNul(logPipe') /\ Len(screen') = Len(wrote')
    <3> SUFFICES ASSUME Told', logflushed' \/ tclPc' = "readline"
                 PROVE  NoNul(logPipe') /\ Len(screen') = Len(wrote')
      BY Zenon
    <3>1. logflushed \/ tclPc' = "readline"
      BY SMT, <2>7
    <3>2. NoNul(logPipe) /\ Len(screen) = Len(wrote)
      BY Zenon, <3>1, <2>6
    <3> QED BY Zenon, <3>2, <2>7
  <2> QED BY Zenon, <2>8, <2>9, <2>10, <2>11 DEF PipeInv
<1> QED BY Zenon, <1>2, <1>3

\* One that leaves the atexit commands alone too.
LEMMA PromptMoves ==
    ASSUME PromptInv, tclPc' \in TclPcs, ctrlcflag' \in BOOLEAN,
           tclLeft' \in [line : Nat, ctrlc : Nat, atexit : 0 .. MaxAtExit],
           tclLeft'.atexit = tclLeft.atexit,
           UNCHANGED <<tclMode, logPipe, echoit, screen, wrote, logflushed, tclexits, ranAtExit>>,
           tclxOwner' \in BOOLEAN,
           Told' => \/ Told /\ (tclPc' = "readline" => tclPc = "readline" \/ logflushed)
                    \/ ~tclMode.log /\ tclPc' = "readline",
           Live' => Live \/ tclPc = "readline",
           ~tclMode.log => ~AtFlush',
           ~Leaving' => ~Leaving
    PROVE  PromptInv'
<1>1. TclTypeOK'
  BY Zenon DEF PromptInv, TclTypeOK
<1>2. ExitInv'
  <2>1. ranAtExit' = ranAtExit /\ tclexits' = tclexits
    OBVIOUS
  <2> QED BY Zenon, <2>1 DEF PromptInv, ExitInv
<1>3. PipeInv'
  BY Zenon, PipeMoves DEF PromptInv
<1> QED BY Zenon, <1>1, <1>2, <1>3 DEF PromptInv

\* What Take1 leaves.
LEMMA PromptTaken ==
    ASSUME NEW what \in {"line", "ctrlc", "atexit"}, TclTypeOK, Take1(what)
    PROVE  /\ tclLeft' \in [line : Nat, ctrlc : Nat, atexit : 0 .. MaxAtExit]
           /\ what # "atexit" => tclLeft'.atexit = tclLeft.atexit
           /\ what = "atexit" => tclLeft'.atexit = tclLeft.atexit - 1
<1>1. tclLeft \in [line : Nat, ctrlc : Nat, atexit : 0 .. MaxAtExit] /\ MaxAtExit \in Nat
  BY TclBoundsAssumption DEF TclTypeOK
<1>2. tclLeft[what] > 0 /\ tclLeft' = [tclLeft EXCEPT ![what] = @ - 1]
  BY Zenon DEF Take1
<1>3. CASE what = "line"
  <2>1. tclLeft' = [tclLeft EXCEPT !.line = @ - 1] /\ tclLeft.line > 0
    BY Zenon, <1>2, <1>3
  <2> QED BY <2>1, <1>1, <1>3
<1>4. CASE what = "ctrlc"
  <2>1. tclLeft' = [tclLeft EXCEPT !.ctrlc = @ - 1] /\ tclLeft.ctrlc > 0
    BY Zenon, <1>2, <1>4
  <2> QED BY <2>1, <1>1, <1>4
<1>5. CASE what = "atexit"
  <2>1. tclLeft' = [tclLeft EXCEPT !.atexit = @ - 1] /\ tclLeft.atexit > 0
    BY Zenon, <1>2, <1>5
  <2> QED BY <2>1, <1>1, <1>5
<1> QED BY Zenon, <1>3, <1>4, <1>5

\* The main thread's steps, each with the signal off.
LEMMA PromptQuiet ==
    ASSUME PromptInv, UNCHANGED <<tclMode, logSide>>,
           LoopTop \/ FlushTest \/ FlushWait \/ FlushWake \/ TestCtrlC \/ Suspend \/ cmd_ctrlcflag \/ cmd_exit
    PROVE  PromptInv'
<1>0. /\ ctrlcflag \in BOOLEAN /\ tclxOwner \in BOOLEAN
      /\ tclLeft \in [line : Nat, ctrlc : Nat, atexit : 0 .. MaxAtExit]
  BY Zenon DEF PromptInv, TclTypeOK
<1>1. UNCHANGED <<tclMode, logPipe, echoit, screen, wrote, logflushed, tclexits, ranAtExit, tclLeft,
                  tclxOwner>>
  BY Zenon DEF LoopTop, FlushTest, FlushWait, FlushWake, TestCtrlC, Suspend, cmd_ctrlcflag, cmd_exit,
     logSide, exitSide, atexitSide, flushSide
<1>2. ctrlcflag' \in BOOLEAN
  BY Zenon, <1>0 DEF LoopTop, FlushTest, FlushWait, FlushWake, TestCtrlC, Suspend, cmd_ctrlcflag, cmd_exit
<1>3. \/ tclPc = "loop" /\ tclPc' = IF tclMode.log THEN "flush" ELSE "readline"
      \/ tclPc = "flushing" /\ tclPc' = IF logflushed THEN "readline" ELSE "towait"
      \/ tclPc = "towait" /\ tclPc' = "waiting"
      \/ tclPc = "waiting" /\ tclPc' = "flushing"
      \/ tclPc = "closed" /\ tclPc' = IF ctrlcflag THEN "loop" ELSE "tosuspend"
      \/ tclPc = "tosuspend" /\ tclPc' = "suspended"
      \/ tclPc = "eval" /\ tclPc' = "loop"
      \/ tclPc = "eval" /\ tclPc' = "exit"
  BY Zenon DEF LoopTop, FlushTest, FlushWait, FlushWake, TestCtrlC, Suspend, cmd_ctrlcflag, cmd_exit, Goto
<1>4. ~tclMode.log => ~AtFlush
  BY Zenon DEF PromptInv, PipeInv
<1>5. /\ tclPc' \in TclPcs
      /\ Told' => \/ Told /\ (tclPc' = "readline" => tclPc = "readline" \/ logflushed)
                  \/ ~tclMode.log /\ tclPc' = "readline"
      /\ Live' => Live \/ tclPc = "readline"
      /\ ~tclMode.log => ~AtFlush'
      /\ ~Leaving' => ~Leaving
  BY <1>3, <1>4 DEF TclPcs, Told, Live, AtFlush, Leaving
<1> QED BY Zenon, <1>0, <1>1, <1>2, <1>5, PromptMoves

LEMMA PromptRead == ASSUME PromptInv, UNCHANGED <<tclMode, logSide>>, ReadLine PROVE PromptInv'
<1>0. /\ ctrlcflag \in BOOLEAN /\ tclxOwner \in BOOLEAN /\ TclTypeOK
      /\ tclLeft \in [line : Nat, ctrlc : Nat, atexit : 0 .. MaxAtExit]
  BY Zenon DEF PromptInv, TclTypeOK
<1>1. /\ UNCHANGED <<tclMode, logPipe, echoit, screen, wrote, logflushed, tclexits, ranAtExit, tclxOwner>>
      /\ ctrlcflag' \in BOOLEAN
  BY Zenon DEF ReadLine, logSide, exitSide, atexitSide, flushSide
<1>2. tclPc = "readline" /\ tclPc' \in {"eval", "closed", "tclatexit"}
  BY Zenon DEF ReadLine
<1>3. tclLeft' \in [line : Nat, ctrlc : Nat, atexit : 0 .. MaxAtExit] /\ tclLeft'.atexit = tclLeft.atexit
  <2>1. Take1("line") \/ UNCHANGED tclLeft
    BY Zenon DEF ReadLine
  <2> QED BY Zenon, <2>1, <1>0, PromptTaken
<1>5. /\ tclPc' \in TclPcs
      /\ ~Told'
      /\ ~Leaving
      /\ ~AtFlush'
  BY <1>2 DEF TclPcs, Told, Live, AtFlush, Leaving
<1> QED BY Zenon, <1>0, <1>1, <1>2, <1>3, <1>5, PromptMoves

LEMMA PromptAsk == ASSUME PromptInv, UNCHANGED <<tclMode, logSide>>, FlushAsk PROVE PromptInv'
<1>1. /\ UNCHANGED <<tclMode, echoit, screen, wrote, tclexits, ranAtExit, tclxOwner, ctrlcflag, tclLeft>>
      /\ tclPc = "flush" /\ tclPc' = "flushing" /\ logflushed' = FALSE
      /\ logPipe' = logPipe \o <<LogOnly, Nul>>
  BY Zenon DEF FlushAsk, logSide, exitSide, atexitSide, flushSide, Goto
<1>2. /\ logPipe \in Seq(Nat) /\ screen \in Seq(Nat) /\ wrote \in Seq(Nat) /\ echoit \in BOOLEAN
      /\ TclTypeOK /\ ExitInv
  BY Zenon DEF PromptInv, TclTypeOK
<1>3. ~Told /\ Told' /\ tclPc' # "readline" /\ tclPc' \in TclPcs
  BY <1>1 DEF Told, TclPcs, Live, AtFlush, Leaving
<1>4. Told = FALSE /\ Told' = TRUE
  <2>1. Told \in BOOLEAN /\ Told' \in BOOLEAN
    BY DEF Told
  <2> QED BY Zenon, <2>1, <1>3
<1>5. /\ tclMode.log /\ Copies(logPipe, screen, wrote, echoit, TRUE, FALSE) /\ NoNul(logPipe)
  BY Zenon, <1>1, <1>4 DEF PromptInv, PipeInv, Live, AtFlush
<1>6. Copies(logPipe', screen', wrote', echoit', TRUE, Told') /\ logPipe' \in Seq(Nat)
  BY Zenon, <1>1, <1>2, <1>4, <1>5, CopyAsk
<1>7. PipeInv'
  <2>1. ~Live'
    BY <1>1 DEF Live
  <2> QED BY Zenon, <2>1, <1>1, <1>3, <1>5, <1>6 DEF PipeInv
<1>8. TclTypeOK'
  BY Zenon, <1>1, <1>2, <1>3, <1>6 DEF TclTypeOK
<1>9. ExitInv'
  <2>1. ~Leaving
    BY <1>1 DEF Leaving
  <2> QED BY Zenon, <2>1, <1>1, <1>2 DEF ExitInv
<1> QED BY Zenon, <1>7, <1>8, <1>9 DEF PromptInv

LEMMA PromptOutput == ASSUME PromptInv, UNCHANGED <<tclMode, logSide>>, Output PROVE PromptInv'
<1>1. /\ UNCHANGED <<tclMode, echoit, screen, tclexits, ranAtExit, tclxOwner, ctrlcflag,
                     logflushed, tclLeft>>
      /\ tclPc = "eval" /\ tclPc' = "loop"
      /\ logPipe' = IF tclMode.log THEN logPipe \o <<Text, NewLine>> ELSE logPipe
      /\ wrote' = IF tclMode.log THEN wrote \o <<Text, NewLine>> ELSE wrote
  BY Zenon DEF Output, Out, logSide, exitSide, atexitSide, flushSide, Goto
<1>2. /\ logPipe \in Seq(Nat) /\ screen \in Seq(Nat) /\ wrote \in Seq(Nat) /\ echoit \in BOOLEAN
      /\ TclTypeOK /\ ExitInv
  BY Zenon DEF PromptInv, TclTypeOK
<1>3. ~Told /\ ~Told' /\ tclPc' \in TclPcs
  BY <1>1 DEF Told, TclPcs, Live, AtFlush, Leaving
<1>4. Told = FALSE /\ Told' = FALSE
  <2>1. Told \in BOOLEAN /\ Told' \in BOOLEAN
    BY DEF Told
  <2> QED BY Zenon, <2>1, <1>3
<1>5. Copies(logPipe, screen, wrote, echoit, TRUE, FALSE) /\ NoNul(logPipe)
  BY Zenon, <1>1, <1>4 DEF PromptInv, PipeInv, Live
<1>6. /\ Copies(logPipe', screen', wrote', echoit', TRUE, Told') /\ NoNul(logPipe')
      /\ logPipe' \in Seq(Nat) /\ wrote' \in Seq(Nat)
  <2>1. CASE tclMode.log
    <3>1. /\ logPipe' = logPipe \o <<Text, NewLine>> /\ wrote' = wrote \o <<Text, NewLine>>
          /\ screen' = screen /\ echoit' = echoit
      BY Zenon, <2>1, <1>1
    <3>2. /\ Copies(logPipe \o <<Text, NewLine>>, screen, wrote \o <<Text, NewLine>>, echoit, TRUE, FALSE)
          /\ logPipe \o <<Text, NewLine>> \in Seq(Nat) /\ wrote \o <<Text, NewLine>> \in Seq(Nat)
          /\ NoNul(logPipe \o <<Text, NewLine>>)
      BY Zenon, <1>2, <1>5, CopyOutput
    <3> QED BY Zenon, <3>1, <3>2, <1>4
  <2>2. CASE ~tclMode.log
    BY Zenon, <2>2, <1>1, <1>2, <1>4, <1>5
  <2> QED BY Zenon, <2>1, <2>2
<1>7. PipeInv'
  <2>1. ~AtFlush'
    BY <1>1 DEF AtFlush
  <2>2. ~tclMode.log => logPipe' = <<>> /\ screen' = <<>> /\ wrote' = <<>>
    BY Zenon, <1>1 DEF PromptInv, PipeInv
  <2> QED BY Zenon, <2>1, <2>2, <1>1, <1>3, <1>6 DEF PipeInv
<1>8. TclTypeOK'
  BY Zenon, <1>1, <1>2, <1>3, <1>6 DEF TclTypeOK
<1>9. ExitInv'
  <2>1. ~Leaving
    BY <1>1 DEF Leaving
  <2> QED BY Zenon, <2>1, <1>1, <1>2 DEF ExitInv
<1> QED BY Zenon, <1>7, <1>8, <1>9 DEF PromptInv

LEMMA PromptNewExit == ASSUME PromptInv, UNCHANGED <<tclMode, logSide>>, cmd_atexit PROVE PromptInv'
<1>0. /\ ctrlcflag \in BOOLEAN /\ tclLeft \in [line : Nat, ctrlc : Nat, atexit : 0 .. MaxAtExit]
      /\ TclTypeOK /\ PipeInv /\ ExitInv /\ tclexits \in Seq(Nat) /\ ranAtExit \in Seq(Nat)
  BY Zenon DEF PromptInv, TclTypeOK
<1>1. CASE Goto("eval", "newexit") /\ tclxOwner' = TRUE
           /\ UNCHANGED <<ctrlcflag, logPipe, flushSide, wrote, tclexits, ranAtExit, tclLeft>>
  <2>1. UNCHANGED <<tclMode, logPipe, echoit, screen, wrote, logflushed, tclexits, ranAtExit,
                    ctrlcflag, tclLeft>>
    BY Zenon, <1>1 DEF logSide, flushSide
  <2>2. tclPc = "eval" /\ tclPc' = "newexit" /\ tclxOwner' \in BOOLEAN
    BY Zenon, <1>1 DEF Goto
  <2>3. tclPc' \in TclPcs /\ ~Told' /\ Live /\ ~Leaving
        /\ ~AtFlush'
    BY <2>2 DEF TclPcs, Told, Live, AtFlush, Leaving
  <2> QED BY Zenon, <1>0, <2>1, <2>2, <2>3, PromptMoves
<1>2. CASE Goto("newexit", IF tclexits = <<>> THEN "register" ELSE "loop") /\ Take1("atexit") /\ tclxOwner' = FALSE
           /\ tclexits' = <<MaxAtExit - tclLeft.atexit + 1>> \o tclexits
           /\ UNCHANGED <<ctrlcflag, logPipe, flushSide, wrote, ranAtExit>>
  <2>1. UNCHANGED <<tclMode, logPipe, echoit, screen, wrote, logflushed, ranAtExit, ctrlcflag>>
    BY Zenon, <1>2 DEF logSide, flushSide
  <2>2. tclPc = "newexit" /\ tclPc' \in {"register", "loop"}
    BY Zenon, <1>2 DEF Goto
  <2>3. tclPc' \in TclPcs /\ ~Told' /\ Live /\ ~Leaving
        /\ ~AtFlush'
    BY <2>2 DEF TclPcs, Told, Live, AtFlush, Leaving
  <2>4. PipeInv'
    BY Zenon, <1>0, <2>1, <2>2, <2>3, PipeMoves
  <2>5. /\ tclLeft' \in [line : Nat, ctrlc : Nat, atexit : 0 .. MaxAtExit]
        /\ tclLeft'.atexit = tclLeft.atexit - 1
    BY Zenon, <1>0, <1>2, PromptTaken
  <2> DEFINE n == MaxAtExit - tclLeft.atexit
  <2>6. n \in Nat /\ MaxAtExit - tclLeft'.atexit = n + 1
    BY <1>0, <2>5, TclBoundsAssumption
  <2>7. /\ Len(ranAtExit) = 0 /\ Len(tclexits) = n
        /\ \A i \in 1 .. n : tclexits[i] = n + 1 - i
    <3>1. /\ Len(ranAtExit) + Len(tclexits) = n
          /\ \A i \in 1 .. Len(tclexits) : tclexits[i] = Len(tclexits) + 1 - i
          /\ Len(ranAtExit) = 0
      BY Zenon, <1>0, <2>3 DEF ExitInv
    <3>2. Len(tclexits) \in Nat
      BY <1>0
    <3>3. Len(tclexits) = n
      BY <3>1, <3>2, <2>6
    <3> QED BY Zenon, <3>1, <3>3
  <2>8. tclexits' = <<n + 1>> \o tclexits
    BY Zenon, <1>2
  <2> HIDE DEF n
  <2>9. /\ tclexits' \in Seq(Nat) /\ Len(tclexits') = n + 1
        /\ \A i \in 1 .. n + 1 : tclexits'[i] = (n + 1) + 1 - i
    <3>1. <<n + 1>> \in Seq(Nat) /\ Len(<<n + 1>>) = 1 /\ <<n + 1>>[1] = n + 1
      BY <2>6
    <3> QED BY <1>0, <2>6, <2>7, <2>8, <3>1
  <2>10. ExitInv'
    <3>1. Len(ranAtExit') = 0
      BY Zenon, <2>1, <2>7
    <3>2. Len(ranAtExit') + Len(tclexits') = MaxAtExit - tclLeft'.atexit
      BY <3>1, <2>6, <2>9
    <3>3. \A i \in 1 .. Len(ranAtExit') : ranAtExit'[i] = MaxAtExit - tclLeft'.atexit + 1 - i
      BY <3>1
    <3>4. \A i \in 1 .. Len(tclexits') : tclexits'[i] = Len(tclexits') + 1 - i
      BY <2>9
    <3> QED BY Zenon, <3>1, <3>2, <3>3, <3>4 DEF ExitInv
  <2>11. TclTypeOK'
    BY Zenon, <1>0, <1>2, <2>1, <2>3, <2>5, <2>9 DEF TclTypeOK
  <2> QED BY Zenon, <2>4, <2>10, <2>11 DEF PromptInv
<1>3. CASE Goto("register", "loop")
           /\ UNCHANGED <<ctrlcflag, logPipe, flushSide, wrote, atexitSide, tclLeft>>
  <2>1. UNCHANGED <<tclMode, logPipe, echoit, screen, wrote, logflushed, tclexits, ranAtExit,
                    ctrlcflag, tclLeft, tclxOwner>>
    BY Zenon, <1>3 DEF logSide, flushSide, atexitSide
  <2>2. tclPc = "register" /\ tclPc' = "loop"
    BY Zenon, <1>3 DEF Goto
  <2>3. tclPc' \in TclPcs /\ ~Told' /\ Live /\ ~Leaving
        /\ ~AtFlush'
    BY <2>2 DEF TclPcs, Told, Live, AtFlush, Leaving
  <2>4. tclxOwner' \in BOOLEAN /\ ctrlcflag' \in BOOLEAN /\ tclLeft'.atexit = tclLeft.atexit
        /\ tclLeft' \in [line : Nat, ctrlc : Nat, atexit : 0 .. MaxAtExit]
    <3>1. tclxOwner' = tclxOwner /\ ctrlcflag' = ctrlcflag /\ tclLeft' = tclLeft
      BY Zenon, <2>1
    <3>2. tclxOwner \in BOOLEAN
      BY Zenon DEF PromptInv, TclTypeOK
    <3> QED BY <1>0, <3>1, <3>2
  <2> QED BY Zenon, <1>0, <2>1, <2>2, <2>3, <2>4, PromptMoves
<1> QED BY Zenon, <1>1, <1>2, <1>3 DEF cmd_atexit

LEMMA PromptExit ==
    ASSUME PromptInv, handlers \in HandlerLists, UNCHANGED <<tclMode, logSide>>, ExitStep
    PROVE  PromptInv'
<1>0. /\ ctrlcflag \in BOOLEAN /\ tclLeft \in [line : Nat, ctrlc : Nat, atexit : 0 .. MaxAtExit]
      /\ TclTypeOK /\ PipeInv /\ ExitInv /\ tclexits \in Seq(Nat) /\ ranAtExit \in Seq(Nat)
      /\ tclxOwner \in BOOLEAN
  BY Zenon DEF PromptInv, TclTypeOK
<1>1. UNCHANGED <<tclMode, logPipe, echoit, screen, wrote, logflushed, ctrlcflag, tclLeft>>
  BY Zenon DEF ExitStep, logSide, flushSide
<1>2. ASSUME UNCHANGED <<tclexits, ranAtExit>>, tclxOwner' \in BOOLEAN,
             tclPc' \in {"exit", "tclatexit", "popexit", "closelog", "logclosed", "gone"}
      PROVE  PromptInv'
  <2>1. tclPc' \in TclPcs /\ ~Told' /\ Leaving'
        /\ ~AtFlush'
        /\ ~Live'
    BY <1>2 DEF TclPcs, Told, Live, AtFlush, Leaving
  <2>2. UNCHANGED <<tclMode, logPipe, echoit, screen, wrote, logflushed, tclexits, ranAtExit>>
    BY Zenon, <1>1, <1>2
  <2>3. ctrlcflag' \in BOOLEAN /\ tclLeft'.atexit = tclLeft.atexit
        /\ tclLeft' \in [line : Nat, ctrlc : Nat, atexit : 0 .. MaxAtExit]
    BY Zenon, <1>0, <1>1
  <2> QED BY Zenon, <1>2, <2>1, <2>2, <2>3, PromptMoves
<1>3. CASE /\ tclPc = "popexit" /\ tclexits # <<>> /\ tclPc' = "runexit" /\ tclxOwner' = FALSE
           /\ tclexits' = Tail(tclexits) /\ ranAtExit' = Append(ranAtExit, Head(tclexits))
  <2>1. tclPc' \in TclPcs /\ ~Told' /\ Leaving'
        /\ ~AtFlush'
        /\ ~Live'
    BY <1>3 DEF TclPcs, Told, Live, AtFlush, Leaving
  <2>2. PipeInv'
    BY Zenon, <1>0, <1>1, <2>1, PipeMoves
  <2> DEFINE n == MaxAtExit - tclLeft.atexit
             l == Len(tclexits)
             r == Len(ranAtExit)
  <2>3. /\ n \in Nat /\ l \in Nat /\ r \in Nat /\ l >= 1 /\ r + l = n
        /\ \A i \in 1 .. r : ranAtExit[i] = n + 1 - i
        /\ \A i \in 1 .. l : tclexits[i] = l + 1 - i
    <3>1. n \in Nat
      BY <1>0, TclBoundsAssumption
    <3>2. l \in Nat /\ r \in Nat /\ l >= 1
      BY <1>0, <1>3
    <3> QED BY Zenon, <3>1, <3>2, <1>0 DEF ExitInv
  <2>4. tclexits[1] = l /\ Head(tclexits) = tclexits[1]
    BY <1>0, <1>3, <2>3
  <2>5. /\ tclexits' \in Seq(Nat) /\ Len(tclexits') = l - 1
        /\ \A i \in 1 .. l - 1 : tclexits'[i] = tclexits[i + 1]
    BY <1>0, <1>3
  <2>6. /\ ranAtExit' \in Seq(Nat) /\ Len(ranAtExit') = r + 1 /\ ranAtExit'[r + 1] = l
        /\ \A i \in 1 .. r : ranAtExit'[i] = ranAtExit[i]
    <3>1. ranAtExit' = Append(ranAtExit, l) /\ l \in Nat
      BY Zenon, <1>3, <2>3, <2>4
    <3> HIDE DEF l
    <3> QED BY <3>1, <1>0
  <2>7. MaxAtExit - tclLeft'.atexit = n
    BY Zenon, <1>1
  <2> HIDE DEF n, l, r
  <2>8. ExitInv'
    <3>1. Len(ranAtExit') + Len(tclexits') = n
      BY <2>3, <2>5, <2>6
    <3>2. \A i \in 1 .. Len(ranAtExit') : ranAtExit'[i] = n + 1 - i
      <4>1. \A i \in 1 .. r + 1 : i \in 1 .. r \/ i = r + 1
        BY <2>3
      <4>2. l = n + 1 - (r + 1)
        BY <2>3
      <4> QED BY Zenon, <4>1, <4>2, <2>3, <2>6
    <3>3. \A i \in 1 .. Len(tclexits') : tclexits'[i] = Len(tclexits') + 1 - i
      BY <2>3, <2>5
    <3> QED BY Zenon, <3>1, <3>2, <3>3, <2>1, <2>7 DEF ExitInv
  <2>9. TclTypeOK'
    BY Zenon, <1>0, <1>1, <1>3, <2>1, <2>5, <2>6 DEF TclTypeOK
  <2> QED BY Zenon, <2>2, <2>8, <2>9 DEF PromptInv
<1>4. CASE AtExit /\ UNCHANGED handlers
  <2>1. CASE /\ tclPc = "tclatexit" /\ tclxOwner' = TRUE /\ tclPc' = "popexit"
             /\ UNCHANGED <<tclexits, ranAtExit>>
    <3>1. tclPc' \in {"exit", "tclatexit", "popexit", "closelog", "logclosed", "gone"}
      BY <2>1
    <3> QED BY Zenon, <2>1, <3>1, <1>2
  <2>2. CASE /\ tclPc = "popexit" /\ tclxOwner' = FALSE /\ tclexits = <<>> /\ tclPc' = "exit"
             /\ UNCHANGED <<tclexits, ranAtExit>>
    <3>1. tclPc' \in {"exit", "tclatexit", "popexit", "closelog", "logclosed", "gone"}
      BY <2>2
    <3> QED BY Zenon, <2>2, <3>1, <1>2
  <2>3. CASE Goto("runexit", "tclatexit") /\ UNCHANGED atexitSide
    <3>1. tclPc' \in {"exit", "tclatexit", "popexit", "closelog", "logclosed", "gone"}
      BY <2>3 DEF Goto
    <3> QED BY Zenon, <2>3, <3>1, <1>0, <1>2 DEF atexitSide
  <2> QED BY Zenon, <1>4, <2>1, <2>2, <2>3, <1>3 DEF AtExit
<1>5. CASE NextHandler
  <2>1. tclPc' \in {"exit", "tclatexit", "popexit", "closelog", "logclosed", "gone"}
    <3>1. \/ tclPc' = "gone"
          \/ handlers # <<>> /\ tclPc' = Head(handlers)
      BY Zenon, <1>5 DEF NextHandler
    <3> QED BY <3>1 DEF HandlerLists
  <2> QED BY Zenon, <2>1, <1>0, <1>2, <1>5 DEF NextHandler, atexitSide
<1>6. CASE CloseLog
  <2>1. tclPc' \in {"exit", "tclatexit", "popexit", "closelog", "logclosed", "gone"}
    BY <1>6 DEF CloseLog, Goto
  <2> QED BY Zenon, <2>1, <1>0, <1>2, <1>6 DEF CloseLog, exitSide, atexitSide
<1> QED BY Zenon, <1>4, <1>5, <1>6 DEF ExitStep

\* control-C at any step.
LEMMA PromptSignal == ASSUME PromptInv, siginthand PROVE PromptInv'
<1>0. /\ ctrlcflag \in BOOLEAN /\ tclLeft \in [line : Nat, ctrlc : Nat, atexit : 0 .. MaxAtExit]
      /\ TclTypeOK /\ PipeInv /\ ExitInv /\ tclexits \in Seq(Nat) /\ ranAtExit \in Seq(Nat)
      /\ tclxOwner \in BOOLEAN /\ echoit \in BOOLEAN /\ logflushed \in BOOLEAN
      /\ logPipe \in Seq(Nat) /\ screen \in Seq(Nat) /\ wrote \in Seq(Nat) /\ tclPc \in TclPcs
  BY Zenon DEF PromptInv, TclTypeOK
<1>1. /\ UNCHANGED <<tclMode, echoit, screen, logflushed, wrote, tclexits, ranAtExit, tclxOwner>>
      /\ ctrlcflag' \in BOOLEAN /\ logPipe' = IF tclMode.log THEN logPipe \o Echo ELSE logPipe
  BY Zenon, <1>0 DEF siginthand, OnMain, Elsewhere, Out, logSide, exitSide, atexitSide
<1>2. /\ tclLeft' \in [line : Nat, ctrlc : Nat, atexit : 0 .. MaxAtExit]
      /\ tclLeft'.atexit = tclLeft.atexit
  BY Zenon, <1>0, PromptTaken DEF siginthand
<1>3. /\ tclPc \notin {"readline", "logclosed", "hung", "gone"}
      /\ \/ tclPc' = "exit"
         \/ tclPc' = "gone"
         \/ tclPc = "suspended" /\ tclPc' = "closed"
         \/ tclPc' = tclPc
  BY Zenon DEF siginthand, OnMain, Elsewhere
<1>4. /\ tclPc' \in TclPcs /\ tclPc' # "readline"
      /\ Told' => Told
      /\ Live' => Live
      /\ ~AtFlush => ~AtFlush'
      /\ ~Leaving' => ~Leaving
  BY <1>0, <1>3 DEF Told, TclPcs, Live, AtFlush, Leaving
<1>5. Told \in BOOLEAN /\ Told' \in BOOLEAN
  <2>1. Told \in BOOLEAN
    BY DEF Told
  <2>2. Told' \in BOOLEAN
    BY DEF Told
  <2> QED BY Zenon, <2>1, <2>2
<1>6. Copies(logPipe, screen, wrote, echoit, TRUE, Told')
  <2>1. Copies(logPipe, screen, wrote, echoit, TRUE, Told)
    BY Zenon, <1>0 DEF PipeInv
  <2>2. CASE Told'
    <3>1. Told' = TRUE /\ Told = TRUE
      BY Zenon, <2>2, <1>4, <1>5
    <3> QED BY Zenon, <3>1, <2>1
  <2>3. CASE ~Told'
    <3>1. Told' = FALSE
      BY Zenon, <2>3, <1>5
    <3>2. FALSE \in BOOLEAN /\ (FALSE => Told)
      OBVIOUS
    <3>3. Copies(logPipe, screen, wrote, echoit, TRUE, FALSE)
      BY Zenon, <1>0, <1>5, <2>1, <3>2, CopyLess
    <3> QED BY Zenon, <3>1, <3>3
  <2> QED BY Zenon, <2>2, <2>3
<1>7. /\ Copies(logPipe', screen', wrote', echoit', TRUE, Told') /\ logPipe' \in Seq(Nat)
      /\ NoNul(logPipe) => NoNul(logPipe')
  <2>1. CASE tclMode.log
    <3>1. /\ Copies(logPipe \o Echo, screen, wrote, echoit, TRUE, Told') /\ logPipe \o Echo \in Seq(Nat)
          /\ NoNul(logPipe) => NoNul(logPipe \o Echo)
      <4>0. /\ echoit \in BOOLEAN /\ logPipe \in Seq(Nat) /\ screen \in Seq(Nat) /\ wrote \in Seq(Nat)
            /\ TRUE \in BOOLEAN /\ FALSE \in BOOLEAN
        BY Zenon, <1>0
      <4>1. CASE Told' = TRUE
        <5>1. Copies(logPipe, screen, wrote, echoit, TRUE, TRUE)
          BY Zenon, <4>1, <1>6
        <5>2. /\ Copies(logPipe \o Echo, screen, wrote, echoit, TRUE, TRUE) /\ logPipe \o Echo \in Seq(Nat)
              /\ NoNul(logPipe) => NoNul(logPipe \o Echo)
          BY Zenon, <5>1, <4>0, CopyEcho
        <5> QED BY Zenon, <4>1, <5>2
      <4>2. CASE Told' = FALSE
        <5>1. Copies(logPipe, screen, wrote, echoit, TRUE, FALSE)
          BY Zenon, <4>2, <1>6
        <5>2. /\ Copies(logPipe \o Echo, screen, wrote, echoit, TRUE, FALSE) /\ logPipe \o Echo \in Seq(Nat)
              /\ NoNul(logPipe) => NoNul(logPipe \o Echo)
          BY Zenon, <5>1, <4>0, CopyEcho
        <5> QED BY Zenon, <4>2, <5>2
      <4> QED BY Zenon, <4>1, <4>2, <1>5
    <3> QED BY Zenon, <2>1, <3>1, <1>1
  <2>2. CASE ~tclMode.log
    BY Zenon, <2>2, <1>0, <1>1, <1>6
  <2> QED BY Zenon, <2>1, <2>2
<1>8. PipeInv'
  <2>1. ~tclMode'.log => /\ logPipe' = <<>> /\ screen' = <<>> /\ wrote' = <<>>
                         /\ ~AtFlush'
    BY Zenon, <1>0, <1>1, <1>4 DEF PipeInv
  <2>2. Live' => NoNul(logPipe')
    BY Zenon, <1>0, <1>4, <1>7 DEF PipeInv
  <2>3. ASSUME Told', logflushed' \/ tclPc' = "readline"
        PROVE  NoNul(logPipe') /\ Len(screen') = Len(wrote')
    <3>1. logflushed
      BY SMT, <2>3, <1>1, <1>4
    <3>2. NoNul(logPipe) /\ Len(screen) = Len(wrote)
      BY Zenon, <3>1, <2>3, <1>0, <1>4 DEF PipeInv
    <3> QED BY Zenon, <3>2, <1>1, <1>7
  <2> QED BY Zenon, <2>1, <2>2, <2>3, <1>7 DEF PipeInv
<1>9. ExitInv'
  BY Zenon, <1>0, <1>1, <1>2, <1>4 DEF ExitInv
<1>10. TclTypeOK'
  BY Zenon, <1>0, <1>1, <1>2, <1>4, <1>7 DEF TclTypeOK
<1> QED BY Zenon, <1>8, <1>9, <1>10 DEF PromptInv

LEMMA PromptHung == ASSUME PromptInv, siginthand_Closed PROVE PromptInv'
<1>0. /\ ctrlcflag \in BOOLEAN /\ tclxOwner \in BOOLEAN /\ TclTypeOK
      /\ tclLeft \in [line : Nat, ctrlc : Nat, atexit : 0 .. MaxAtExit]
  BY Zenon DEF PromptInv, TclTypeOK
<1>1. /\ UNCHANGED <<tclMode, logPipe, echoit, screen, wrote, logflushed, tclexits, ranAtExit>>
      /\ UNCHANGED <<tclxOwner, ctrlcflag>>
      /\ tclPc = "logclosed" /\ tclPc' = "hung"
  BY Zenon DEF siginthand_Closed, Goto, logSide, flushSide, exitSide, atexitSide
<1>2. tclLeft' \in [line : Nat, ctrlc : Nat, atexit : 0 .. MaxAtExit] /\ tclLeft'.atexit = tclLeft.atexit
  BY Zenon, <1>0, PromptTaken DEF siginthand_Closed
<1>3. tclPc' \in TclPcs /\ ~Told' /\ Leaving' /\ ~AtFlush' /\ ~Live'
  BY <1>1 DEF TclPcs, Told, Live, AtFlush, Leaving
<1> QED BY Zenon, <1>0, <1>1, <1>2, <1>3, PromptMoves

\* logthread at any step.
LEMMA PromptLog == ASSUME PromptInv, logthread PROVE PromptInv'
<1>0. /\ TclTypeOK /\ PipeInv /\ ExitInv /\ echoit \in BOOLEAN /\ logflushed \in BOOLEAN
      /\ logPipe \in Seq(Nat) /\ screen \in Seq(Nat) /\ wrote \in Seq(Nat) /\ tclPc \in TclPcs
  BY Zenon DEF PromptInv, TclTypeOK
<1>1. UNCHANGED <<tclMode, tclPc, ctrlcflag, wrote, tclexits, ranAtExit, tclxOwner, tclLeft>>
  BY Zenon DEF logthread, exitSide, atexitSide
<1>2. ExitInv'
  BY Zenon, <1>0, <1>1 DEF ExitInv, Leaving
<1>3. Told' = Told
  BY Zenon, <1>1 DEF Told
<1>4. CASE logPc = "read" /\ logPipe # <<>> /\ logPipe' = Tail(logPipe)
           /\ LET c == Head(logPipe)
                  flush == c = Nul /\ ~echoit
              IN /\ echoit' = IF flush \/ c = NewLine THEN TRUE ELSE echoit /\ c # LogOnly
                 /\ screen' = IF echoit /\ c # LogOnly THEN Append(screen, c) ELSE screen
                 /\ logflushed' = (logflushed \/ flush)
  <2> DEFINE c == Head(logPipe)
  <2>1. /\ echoit' = EchoAfter(echoit, c) /\ screen' = Grown(screen, echoit, c)
        /\ logflushed' = (logflushed \/ (c = Nul /\ ~echoit))
        /\ logPipe' = Tail(logPipe)
    BY Zenon, <1>4 DEF EchoAfter, Grown
  <2>2. c \in Nat /\ logPipe' \in Seq(Nat)
    BY <1>0, <1>4
  <2> HIDE DEF c
  <2>3. echoit' \in BOOLEAN /\ screen' \in Seq(Nat) /\ logflushed' \in BOOLEAN
    <3>1. echoit' \in BOOLEAN
      BY Zenon, <1>0, <2>1 DEF EchoAfter
    <3>2. screen' \in Seq(Nat)
      BY <1>0, <2>1, <2>2 DEF Grown
    <3>3. logflushed' \in BOOLEAN
      BY Zenon, <1>0, <2>1
    <3> QED BY Zenon, <3>1, <3>2, <3>3
  <2>4. TclTypeOK'
    BY Zenon, <1>0, <1>1, <2>2, <2>3 DEF TclTypeOK
  <2>5. Copies(logPipe, screen, wrote, echoit, TRUE, Told) /\ Told \in BOOLEAN /\ TRUE \in BOOLEAN
    <3>1. Told \in BOOLEAN
      BY DEF Told
    <3> QED BY Zenon, <3>1, <1>0 DEF PipeInv
  <2>6. /\ Copies(logPipe', screen', wrote, echoit', TRUE, Told)
        /\ Told /\ c = Nul => Len(screen') = Len(wrote) /\ NoNul(logPipe')
        /\ Len(screen) = Len(wrote) => screen' = screen
    <3>1. /\ Copies(Tail(logPipe), Grown(screen, echoit, c), wrote, EchoAfter(echoit, c), TRUE, Told)
          /\ Told /\ c = Nul => Len(Grown(screen, echoit, c)) = Len(wrote) /\ NoNul(Tail(logPipe))
          /\ Len(screen) = Len(wrote) => Grown(screen, echoit, c) = screen
      <4>0. /\ echoit \in BOOLEAN /\ logPipe \in Seq(Nat) /\ screen \in Seq(Nat) /\ wrote \in Seq(Nat)
            /\ TRUE \in BOOLEAN /\ FALSE \in BOOLEAN /\ logPipe # <<>>
        BY Zenon, <1>0, <1>4
      <4>1. CASE Told = TRUE /\ echoit = TRUE
        <5>1. Copies(logPipe, screen, wrote, TRUE, TRUE, TRUE)
          BY Zenon, <4>1, <2>5
        <5>2. /\ Copies(Tail(logPipe), Grown(screen, TRUE, c), wrote, EchoAfter(TRUE, c), TRUE, TRUE)
              /\ TRUE => (c = Nul => Len(Grown(screen, TRUE, c)) = Len(wrote) /\ NoNul(Tail(logPipe)))
              /\ Len(screen) = Len(wrote) => Grown(screen, TRUE, c) = screen
          BY Zenon, <5>1, <4>0, CopyRead DEF c
        <5> QED BY Zenon, <4>1, <5>2
      <4>2. CASE Told = TRUE /\ echoit = FALSE
        <5>1. Copies(logPipe, screen, wrote, FALSE, TRUE, TRUE)
          BY Zenon, <4>2, <2>5
        <5>2. /\ Copies(Tail(logPipe), Grown(screen, FALSE, c), wrote, EchoAfter(FALSE, c), TRUE, TRUE)
              /\ TRUE => (c = Nul => Len(Grown(screen, FALSE, c)) = Len(wrote) /\ NoNul(Tail(logPipe)))
              /\ Len(screen) = Len(wrote) => Grown(screen, FALSE, c) = screen
          BY Zenon, <5>1, <4>0, CopyRead DEF c
        <5> QED BY Zenon, <4>2, <5>2
      <4>3. CASE Told = FALSE /\ echoit = TRUE
        <5>1. Copies(logPipe, screen, wrote, TRUE, TRUE, FALSE)
          BY Zenon, <4>3, <2>5
        <5>2. /\ Copies(Tail(logPipe), Grown(screen, TRUE, c), wrote, EchoAfter(TRUE, c), TRUE, FALSE)
              /\ FALSE => (c = Nul => Len(Grown(screen, TRUE, c)) = Len(wrote) /\ NoNul(Tail(logPipe)))
              /\ Len(screen) = Len(wrote) => Grown(screen, TRUE, c) = screen
          BY Zenon, <5>1, <4>0, CopyRead DEF c
        <5> QED BY Zenon, <4>3, <5>2
      <4>4. CASE Told = FALSE /\ echoit = FALSE
        <5>1. Copies(logPipe, screen, wrote, FALSE, TRUE, FALSE)
          BY Zenon, <4>4, <2>5
        <5>2. /\ Copies(Tail(logPipe), Grown(screen, FALSE, c), wrote, EchoAfter(FALSE, c), TRUE, FALSE)
              /\ FALSE => (c = Nul => Len(Grown(screen, FALSE, c)) = Len(wrote) /\ NoNul(Tail(logPipe)))
              /\ Len(screen) = Len(wrote) => Grown(screen, FALSE, c) = screen
          BY Zenon, <5>1, <4>0, CopyRead DEF c
        <5> QED BY Zenon, <4>4, <5>2
      <4> QED BY Zenon, <4>1, <4>2, <4>3, <4>4, <4>0, <2>5
    <3> QED BY Zenon, <3>1, <2>1
  <2>7. NoNul(logPipe) => NoNul(logPipe') /\ c # Nul
    BY Zenon, <1>0, <1>4, <2>1, NoNulTail DEF c
  <2>8. ~tclMode'.log => FALSE
    BY Zenon, <1>0, <1>1, <1>4 DEF PipeInv
  <2>9. Live' => NoNul(logPipe')
    BY Zenon, <1>0, <1>1, <2>7 DEF PipeInv, Live
  <2>10. ASSUME Told', logflushed' \/ tclPc' = "readline"
         PROVE  NoNul(logPipe') /\ Len(screen') = Len(wrote')
    <3>1. Told
      BY Zenon, <2>10, <1>3
    <3>2. CASE c = Nul
      BY Zenon, <3>1, <3>2, <2>6, <1>1
    <3>3. CASE c # Nul
      <4>1. logflushed \/ tclPc = "readline"
        BY Zenon, <2>10, <3>3, <2>1, <1>1
      <4>2. NoNul(logPipe) /\ Len(screen) = Len(wrote)
        BY Zenon, <3>1, <4>1, <1>0 DEF PipeInv
      <4> QED BY Zenon, <4>2, <2>6, <2>7, <1>1
    <3> QED BY Zenon, <3>2, <3>3
  <2>11. Copies(logPipe', screen', wrote', echoit', TRUE, Told')
    BY Zenon, <1>1, <1>3, <2>6
  <2>12. PipeInv'
    BY Zenon, <2>8, <2>9, <2>10, <2>11 DEF PipeInv
  <2> QED BY Zenon, <2>4, <2>12, <1>2 DEF PromptInv
<1>5. CASE UNCHANGED <<logPipe, echoit, screen, logflushed>>
  <2>1. TclTypeOK'
    BY Zenon, <1>0, <1>1, <1>5 DEF TclTypeOK
  <2>2. PipeInv'
    <3>1. UNCHANGED <<tclMode, logPipe, echoit, screen, wrote, logflushed>> /\ tclPc' = tclPc
      BY Zenon, <1>1, <1>5
    <3>2. ~tclMode.log => ~AtFlush'
      BY Zenon, <1>0, <3>1 DEF PipeInv, AtFlush
    <3>3. Told' => Told /\ (tclPc' = "readline" => tclPc = "readline" \/ logflushed)
      BY Zenon, <1>3, <3>1
    <3>4. Live' => Live \/ tclPc = "readline"
      BY <3>1 DEF Live
    <3> QED BY Zenon, <1>0, <3>1, <3>2, <3>3, <3>4, PipeMoves
  <2> QED BY Zenon, <2>1, <2>2, <1>2 DEF PromptInv
<1> QED BY Zenon, <1>4, <1>5 DEF logthread

\* A step that leaves exit's list alone and does not begin to leave.
LEMMA OneMoreHandler ==
    ASSUME NEW x, NEW y
    PROVE  <<x>> \o <<>> = <<x>> /\ <<x>> \o <<y>> = <<x, y>>
<1>1. /\ <<x>> \in Seq({x, y}) /\ <<y>> \in Seq({x, y}) /\ Len(<<x>>) = 1 /\ Len(<<y>>) = 1
      /\ <<x>>[1] = x /\ <<y>>[1] = y
  OBVIOUS
<1>2. <<x, y>> \in Seq({x, y}) /\ Len(<<x, y>>) = 2 /\ <<x, y>>[1] = x /\ <<x, y>>[2] = y
  OBVIOUS
<1>3. /\ <<x>> \o <<y>> \in Seq({x, y}) /\ Len(<<x>> \o <<y>>) = 2
      /\ (<<x>> \o <<y>>)[1] = x /\ (<<x>> \o <<y>>)[2] = y
  BY <1>1
<1>4. <<x>> \o <<y>> = <<x, y>>
  <2> DEFINE s == <<x>> \o <<y>>
             t == <<x, y>>
  <2>1. s \in Seq({x, y}) /\ Len(s) = 2 /\ s[1] = x /\ s[2] = y
    BY Zenon, <1>3
  <2>2. t \in Seq({x, y}) /\ Len(t) = 2 /\ t[1] = x /\ t[2] = y
    BY Zenon, <1>2
  <2> HIDE DEF s, t
  <2>3. \A i \in 1 .. Len(s) : s[i] = t[i]
    <3> TAKE i \in 1 .. Len(s)
    <3>1. i = 1 \/ i = 2
      BY <2>1
    <3> QED BY <2>1, <2>2, <3>1
  <2>4. s = t
    BY Zenon, <2>1, <2>2, <2>3, SameSeq
  <2> QED BY <2>4 DEF s, t
<1> QED BY <1>4, Singles

LEMMA HandlersKept ==
    ASSUME HandlerInv, UNCHANGED <<tclexits, handlers, cutShort>>,
           ~Leaving' => ~Leaving /\ (tclPc' = "register" <=> tclPc = "register"),
           tclPc' = "exit" => tclPc = "exit" \/ tclexits = <<>> \/ (~Leaving /\ tclPc # "register"),
           tclPc' = "register" => tclPc = "register",
           tclPc' \in {"closelog", "logclosed", "hung", "gone"} => tclPc \in {"closelog", "logclosed", "hung", "gone"}
    PROVE  HandlerInv'
<1>1. (Listed' <=> Listed) /\ tclexits' = tclexits /\ handlers' = handlers /\ cutShort' = cutShort
  BY Zenon DEF Listed
<1>2. handlers' \in HandlerLists /\ cutShort' \in BOOLEAN
  BY Zenon, <1>1 DEF HandlerInv
<1>3. ~Leaving' => (Listed' <=> tclexits' # <<>> /\ tclPc' # "register")
  BY Zenon, <1>1 DEF HandlerInv
<1>4. tclPc' = "register" => tclexits' # <<>>
  BY Zenon, <1>1 DEF HandlerInv
<1>5. cutShort' <=> cutShort
  BY <1>1
<1>6. tclPc' = "exit" => Listed' \/ tclexits' = <<>> \/ cutShort'
  BY Zenon, <1>1, <1>5 DEF HandlerInv
<1>7. tclPc' \in {"closelog", "logclosed", "hung", "gone"} => tclexits' = <<>> \/ cutShort'
  BY Zenon, <1>1, <1>5 DEF HandlerInv
<1> QED BY Zenon, <1>2, <1>3, <1>4, <1>6, <1>7 DEF HandlerInv, HandlerLists

LEMMA HandlersMain ==
    ASSUME HandlerInv, UNCHANGED signalSide,
           LoopTop \/ FlushAsk \/ FlushTest \/ FlushWait \/ FlushWake \/ ReadLine \/ Output
           \/ cmd_ctrlcflag \/ cmd_exit \/ TestCtrlC \/ Suspend
    PROVE  HandlerInv'
<1>1. UNCHANGED <<tclexits, handlers, cutShort>>
  BY Zenon DEF LoopTop, FlushAsk, FlushTest, FlushWait, FlushWake, ReadLine, Output, cmd_ctrlcflag,
     cmd_exit, TestCtrlC, Suspend, exitSide, atexitSide, signalSide
<1>2. /\ tclPc \in {"loop", "flush", "flushing", "towait", "waiting", "readline", "eval", "closed", "tosuspend"}
      /\ tclPc' \in {"loop", "flush", "flushing", "towait", "waiting", "readline", "eval", "closed",
                    "tosuspend", "suspended", "exit", "tclatexit"}
  BY DEF LoopTop, FlushAsk, FlushTest, FlushWait, FlushWake, ReadLine, Output, cmd_ctrlcflag,
     cmd_exit, TestCtrlC, Suspend, Goto
<1>3. /\ ~Leaving /\ tclPc # "register" /\ tclPc' # "register"
      /\ tclPc' \notin {"closelog", "logclosed", "hung", "gone"}
  BY <1>2 DEF Leaving
<1> QED BY Zenon, <1>1, <1>3, HandlersKept

LEMMA HandlersNew ==
    ASSUME HandlerInv, tclexits \in Seq(Nat), UNCHANGED signalSide, cmd_atexit
    PROVE  HandlerInv'
<1>1. UNCHANGED cutShort
  BY Zenon DEF signalSide
<1>2. CASE Goto("eval", "newexit") /\ UNCHANGED <<tclexits, handlers>>
  <2>1. ~Leaving /\ tclPc # "register" /\ tclPc' = "newexit"
    BY <1>2 DEF Goto, Leaving
  <2>2. tclPc' \notin {"register", "exit", "closelog", "logclosed", "hung", "gone"}
    BY <2>1
  <2> QED BY Zenon, <1>1, <1>2, <2>1, <2>2, HandlersKept
<1>3. CASE /\ Goto("newexit", IF tclexits = <<>> THEN "register" ELSE "loop")
           /\ tclexits' = <<MaxAtExit - tclLeft.atexit + 1>> \o tclexits
           /\ UNCHANGED handlers
  <2>1. tclexits' # <<>>
    BY <1>3
  <2>2. Listed <=> tclexits # <<>>
    BY <1>3 DEF HandlerInv, Goto, Leaving
  <2>3. Listed' <=> Listed
    BY Zenon, <1>3 DEF Listed
  <2>4. tclPc' = IF tclexits = <<>> THEN "register" ELSE "loop"
    BY Zenon, <1>3 DEF Goto
  <2>5. tclPc' \notin {"exit", "closelog", "logclosed", "hung", "gone"} /\ (tclPc' = "register" <=> tclexits = <<>>)
    BY <2>4
  <2> QED BY Zenon, <1>1, <1>3, <2>1, <2>2, <2>3, <2>5 DEF HandlerInv
<1>4. CASE /\ Goto("register", "loop") /\ handlers' = <<"tclatexit">> \o handlers
           /\ UNCHANGED atexitSide
  <2>1. tclPc = "register" /\ tclPc' = "loop" /\ ~Leaving
    BY <1>4 DEF Goto, Leaving
  <2>2. handlers \in HandlerLists /\ ~Listed /\ tclexits # <<>> /\ cutShort \in BOOLEAN
    BY Zenon, <2>1 DEF HandlerInv
  <2>3. handlers = <<>> \/ handlers = <<"closelog">>
    BY Zenon, <2>2 DEF HandlerLists, Listed
  <2>4. Listed' /\ handlers' \in HandlerLists
    <3>1. handlers' \in {<<"tclatexit">>, <<"tclatexit", "closelog">>}
      BY Zenon, OneMoreHandler, <2>3, <1>4
    <3> QED BY Zenon, <3>1 DEF HandlerLists, Listed
  <2>5. tclPc' \notin {"register", "exit", "closelog", "logclosed", "hung", "gone"}
    BY <2>1
  <2>6. tclexits' = tclexits
    BY Zenon, <1>4 DEF atexitSide
  <2> QED BY Zenon, <1>1, <2>2, <2>4, <2>5, <2>6 DEF HandlerInv
<1> QED BY Zenon, <1>2, <1>3, <1>4 DEF cmd_atexit

LEMMA HandlersExit ==
    ASSUME HandlerInv, tclexits \in Seq(Nat), UNCHANGED signalSide, ExitStep
    PROVE  HandlerInv'
<1>1. UNCHANGED cutShort
  BY Zenon DEF signalSide
<1>2. CASE AtExit /\ UNCHANGED handlers
  <2>1. CASE UNCHANGED tclexits /\ tclPc' \in {"popexit", "tclatexit"}
    <3>1. Leaving' /\ tclPc' \notin {"register", "exit", "closelog", "logclosed", "hung", "gone"}
      BY <2>1 DEF Leaving
    <3> QED BY Zenon, <1>1, <1>2, <2>1, <3>1, HandlersKept
  <2>2. CASE tclexits = <<>> /\ tclPc' = "exit" /\ UNCHANGED tclexits
    <3>1. Leaving' /\ tclPc' \notin {"register", "closelog", "logclosed", "hung", "gone"}
      BY <2>2 DEF Leaving
    <3> QED BY Zenon, <1>1, <1>2, <2>2, <3>1, HandlersKept
  <2>3. CASE tclPc' = "runexit"
    <3>1. Leaving' /\ tclPc' \notin {"register", "exit", "closelog", "logclosed", "hung", "gone"}
      BY <2>3 DEF Leaving
    <3> QED BY Zenon, <1>1, <1>2, <3>1 DEF HandlerInv
  <2>4. \/ UNCHANGED tclexits /\ tclPc' \in {"popexit", "tclatexit"}
        \/ tclexits = <<>> /\ tclPc' = "exit" /\ UNCHANGED tclexits
        \/ tclPc' = "runexit"
    <3>1. \/ UNCHANGED tclexits /\ (tclPc' = "popexit" \/ tclPc' = "tclatexit")
          \/ tclexits = <<>> /\ tclPc' = "exit" /\ UNCHANGED tclexits
          \/ tclPc' = "runexit"
      BY Zenon, <1>2 DEF AtExit, Goto, atexitSide
    <3> QED BY Zenon, <3>1
  <2> QED BY Zenon, <2>1, <2>2, <2>3, <2>4
<1>3. CASE NextHandler
  <2>1. /\ UNCHANGED tclexits /\ handlers \in HandlerLists /\ cutShort \in BOOLEAN
        /\ Listed \/ tclexits = <<>> \/ cutShort
    BY Zenon, <1>3 DEF HandlerInv, NextHandler, atexitSide
  <2>2. CASE handlers = <<>>
    <3>1. tclPc' = "gone" /\ UNCHANGED handlers /\ ~Listed
      BY <1>3, <2>2 DEF NextHandler, Listed
    <3>2. Leaving' /\ tclPc' \notin {"register", "exit"}
      BY <3>1 DEF Leaving
    <3> QED BY Zenon, <1>1, <2>1, <3>1, <3>2 DEF HandlerInv
  <2>3. CASE handlers = <<"closelog">>
    <3>1. tclPc' = "closelog" /\ handlers' = <<>> /\ ~Listed
      <4>1. <<"closelog">> # <<"tclatexit">> /\ <<"closelog">> # <<"tclatexit", "closelog">>
        OBVIOUS
      <4>2. ~Listed
        BY Zenon, <2>3, <4>1 DEF Listed
      <4>3. tclPc' = "closelog" /\ handlers' = <<>>
        BY <1>3, <2>3 DEF NextHandler
      <4> QED BY <4>2, <4>3
    <3>2. Leaving' /\ tclPc' \notin {"register", "exit"}
      BY <3>1 DEF Leaving
    <3> QED BY Zenon, <1>1, <2>1, <3>1, <3>2 DEF HandlerInv, HandlerLists
  <2>4. CASE handlers \in {<<"tclatexit">>, <<"tclatexit", "closelog">>}
    <3>1. tclPc' = "tclatexit" /\ handlers' \in {<<>>, <<"closelog">>}
      <4>1. handlers # <<>> /\ Head(handlers) = "tclatexit"
        BY <2>4
      <4>2. Tail(<<"tclatexit">>) = <<>> /\ Tail(<<"tclatexit", "closelog">>) = <<"closelog">>
        <5>1. Tail(<<"tclatexit">>) = <<>> /\ Tail(<<"tclatexit">> \o <<"closelog">>) = <<"closelog">>
          BY Zenon, Singles
        <5>2. <<"tclatexit">> \o <<"closelog">> = <<"tclatexit", "closelog">>
          BY Zenon, OneMoreHandler
        <5> QED BY Zenon, <5>1, <5>2
      <4>3. tclPc' = Head(handlers) /\ handlers' = Tail(handlers)
        BY Zenon, <1>3, <4>1 DEF NextHandler
      <4> QED BY Zenon, <2>4, <4>1, <4>2, <4>3
    <3>2. Leaving' /\ tclPc' \notin {"register", "exit", "closelog", "logclosed", "hung", "gone"}
      BY <3>1 DEF Leaving
    <3>3. handlers' \in HandlerLists
      BY Zenon, <3>1 DEF HandlerLists
    <3> QED BY Zenon, <1>1, <2>1, <3>2, <3>3 DEF HandlerInv
  <2> QED BY Zenon, <2>1, <2>2, <2>3, <2>4 DEF HandlerLists
<1>4. CASE CloseLog
  <2>1. /\ tclPc \in {"closelog", "logclosed"} /\ tclPc' \in {"logclosed", "gone"}
        /\ UNCHANGED <<tclexits, handlers>>
    BY <1>4 DEF CloseLog, Goto, exitSide, atexitSide
  <2>2. /\ Leaving' /\ tclPc' \notin {"register", "exit"}
        /\ tclPc \in {"closelog", "logclosed", "hung", "gone"}
    BY <2>1 DEF Leaving
  <2> QED BY Zenon, <1>1, <2>1, <2>2, HandlersKept
<1> QED BY Zenon, <1>2, <1>3, <1>4 DEF ExitStep

\* A control-C that exits is the one that may forget commands.
LEMMA HandlersSignal ==
    ASSUME HandlerInv, tclPc \in TclPcs, siginthand
    PROVE  HandlerInv'
<1>1. UNCHANGED <<tclexits, handlers>> /\ cutShort \in BOOLEAN /\ handlers \in HandlerLists
  BY Zenon DEF siginthand, exitSide, atexitSide, HandlerInv
<1>2. CASE Elsewhere
  <2>1. cutShort' = TRUE /\ tclPc' = "gone"
    BY Zenon, <1>2 DEF Elsewhere
  <2>2. Leaving' /\ tclPc' \notin {"register", "exit"}
    BY <2>1 DEF Leaving
  <2> QED BY Zenon, <1>1, <2>1, <2>2 DEF HandlerInv
<1>3. CASE OnMain /\ tclPc' = "exit" /\ cutShort' = (cutShort \/ Forgets)
  <2>1. Leaving' /\ tclPc' \notin {"register", "closelog", "logclosed", "hung", "gone"}
    BY <1>3 DEF Leaving
  <2>2. Listed \/ Forgets \/ tclexits = <<>> \/ cutShort
    <3>1. CASE tclPc \in {"register", "tclatexit", "popexit", "runexit"}
      BY <3>1, <1>1 DEF Forgets, Listed, HandlerLists
    <3>2. CASE tclPc \in {"exit", "closelog", "logclosed", "hung", "gone"}
      BY Zenon, <3>2 DEF HandlerInv
    <3>3. CASE ~Leaving /\ tclPc # "register"
      BY Zenon, <3>3 DEF HandlerInv
    <3>4. \/ tclPc \in {"register", "tclatexit", "popexit", "runexit"}
          \/ tclPc \in {"exit", "closelog", "logclosed", "hung", "gone"}
          \/ ~Leaving /\ tclPc # "register"
      BY DEF Leaving
    <3> QED BY Zenon, <3>1, <3>2, <3>3, <3>4
  <2>3. Listed' <=> Listed
    BY Zenon, <1>1 DEF Listed
  <2>4. cutShort' \in BOOLEAN /\ (cutShort' <=> cutShort \/ Forgets)
    BY Zenon, <1>3
  <2> QED BY Zenon, <1>1, <2>1, <2>2, <2>3, <2>4 DEF HandlerInv
<1>4. CASE /\ UNCHANGED cutShort
           /\ tclPc' = tclPc \/ (tclPc = "suspended" /\ tclPc' = "closed")
  <2>1. /\ tclPc' = "register" <=> tclPc = "register"
        /\ Leaving' <=> Leaving
        /\ tclPc' = "exit" => tclPc = "exit"
        /\ tclPc' \in {"closelog", "logclosed", "hung", "gone"} => tclPc \in {"closelog", "logclosed", "hung", "gone"}
    BY <1>4 DEF Leaving
  <2> QED BY Zenon, <1>1, <1>4, <2>1, HandlersKept
<1>5. CASE OnMain /\ ~ctrlcflag
  <2>1. cutShort' = (cutShort \/ FALSE) /\ (tclPc' = tclPc \/ (tclPc = "suspended" /\ tclPc' = "closed"))
    BY Zenon, <1>5 DEF OnMain
  <2>2. UNCHANGED cutShort
    BY Zenon, <2>1, <1>1
  <2> QED BY Zenon, <2>1, <2>2, <1>4
<1>6. CASE OnMain /\ ctrlcflag
  BY Zenon, <1>6, <1>3 DEF OnMain
<1> QED BY Zenon, <1>2, <1>5, <1>6 DEF siginthand

LEMMA HandlersElse ==
    ASSUME HandlerInv, siginthand_Closed \/ logthread \/ UNCHANGED tclVars
    PROVE  HandlerInv'
<1>1. UNCHANGED <<tclexits, handlers, cutShort>>
  BY Zenon DEF siginthand_Closed, logthread, tclVars, exitSide, atexitSide, signalSide
<1>2. tclPc' = tclPc \/ (tclPc = "logclosed" /\ tclPc' = "hung")
  BY Zenon DEF siginthand_Closed, logthread, tclVars, Goto
<1>3. /\ tclPc' = "register" <=> tclPc = "register"
      /\ Leaving' <=> Leaving
      /\ tclPc' = "exit" => tclPc = "exit"
      /\ tclPc' \in {"closelog", "logclosed", "hung", "gone"} => tclPc \in {"closelog", "logclosed", "hung", "gone"}
  BY <1>2 DEF Leaving
<1> QED BY Zenon, <1>1, <1>3, HandlersKept

LEMMA PromptPreserved ==
    PromptInv /\ HandlerInv /\ [TclNext]_tclVars => PromptInv' /\ HandlerInv'
<1> SUFFICES ASSUME PromptInv, HandlerInv, [TclNext]_tclVars PROVE PromptInv' /\ HandlerInv'
  OBVIOUS
<1>0. tclexits \in Seq(Nat) /\ tclPc \in TclPcs /\ handlers \in HandlerLists
  BY Zenon DEF PromptInv, TclTypeOK, HandlerInv
<1>1. CASE MainThread
  <2>1. PromptInv'
    BY Zenon, <1>0, <1>1, PromptQuiet, PromptRead, PromptAsk, PromptOutput, PromptNewExit, PromptExit
       DEF MainThread, Eval
  <2>2. HandlerInv'
    BY Zenon, <1>0, <1>1, HandlersMain, HandlersNew, HandlersExit DEF MainThread, Eval
  <2> QED BY Zenon, <2>1, <2>2
<1>2. CASE siginthand
  BY Zenon, <1>0, <1>2, PromptSignal, HandlersSignal
<1>3. CASE siginthand_Closed
  BY Zenon, <1>3, PromptHung, HandlersElse
<1>4. CASE logthread
  BY Zenon, <1>4, PromptLog, HandlersElse
<1>5. CASE UNCHANGED tclVars
  <2>1. UNCHANGED <<tclMode, tclPc, ctrlcflag, logPipe, echoit, logflushed, screen, wrote, tclexits,
                    ranAtExit, tclxOwner, tclLeft>>
    BY Zenon, <1>5 DEF tclVars
  <2>2. Told' = Told
    BY Zenon, <2>1 DEF Told
  <2>3. PromptInv'
    BY Zenon, <2>1, <2>2 DEF PromptInv, TclTypeOK, PipeInv, ExitInv, Live, AtFlush, Leaving
  <2> QED BY Zenon, <2>3, <1>5, HandlersElse
<1> QED BY Zenon, <1>1, <1>2, <1>3, <1>4, <1>5 DEF TclNext

LEMMA PromptShown == PromptInv /\ HandlerInv => PromptRight
<1> SUFFICES ASSUME PromptInv, HandlerInv PROVE PromptRight
  OBVIOUS
<1>0. /\ screen \in Seq(Nat) /\ wrote \in Seq(Nat) /\ tclexits \in Seq(Nat) /\ ranAtExit \in Seq(Nat)
      /\ PipeInv /\ ExitInv /\ tclLeft \in [line : Nat, ctrlc : Nat, atexit : 0 .. MaxAtExit]
  BY Zenon DEF PromptInv, TclTypeOK
<1>1. Len(screen) <= Len(wrote) /\ \A i \in 1 .. Len(screen) : screen[i] = wrote[i]
  BY Zenon, <1>0 DEF PipeInv, Copies
<1>2. tclPc = "readline" => screen = wrote
  <2>1. tclPc = "readline" => Len(screen) = Len(wrote)
    BY Zenon, <1>0 DEF PipeInv, Told
  <2> QED BY Zenon, <2>1, <1>0, <1>1, SameSeq
<1>3. Len(screen) <= Len(wrote) /\ screen = SubSeq(wrote, 1, Len(screen))
  <2>2. Len(screen) \in Nat /\ Len(wrote) \in Nat /\ \A i \in 1 .. Len(screen) : wrote[i] \in Nat
    BY <1>0, <1>1
  <2> DEFINE start == SubSeq(wrote, 1, Len(screen))
  <2>3. start \in Seq(Nat) /\ Len(start) = Len(screen) /\ \A i \in 1 .. Len(screen) : start[i] = wrote[i]
    BY <2>2, SubSeqProperties
  <2> HIDE DEF start
  <2>4. screen = start
    BY Zenon, <1>0, <1>1, <2>3, SameSeq
  <2> QED BY Zenon, <1>1, <2>4 DEF start
<1>4. AtExitLastFirst
  <2> DEFINE n == MaxAtExit - tclLeft.atexit
  <2>1. /\ n \in Nat /\ DOMAIN ranAtExit = 1 .. Len(ranAtExit) /\ Len(ranAtExit) \in Nat /\ Len(tclexits) \in Nat
    BY <1>0, TclBoundsAssumption
  <2>2. /\ \A i \in 1 .. Len(ranAtExit) : ranAtExit[i] = n + 1 - i
        /\ Len(ranAtExit) + Len(tclexits) = n
    BY Zenon, <1>0 DEF ExitInv
  <2> HIDE DEF n
  <2>3. ASSUME tclPc = "gone", ~cutShort PROVE Len(ranAtExit) = n
    <3>1. tclexits = <<>>
      BY Zenon, <2>3 DEF HandlerInv
    <3>2. Len(tclexits) = 0
      BY <3>1
    <3>3. Len(ranAtExit) + Len(tclexits) = n /\ n \in Nat /\ Len(ranAtExit) \in Nat
      BY Zenon, <2>1, <2>2
    <3> QED BY <3>2, <3>3
  <2> QED BY Zenon, <2>1, <2>2, <2>3 DEF AtExitLastFirst, n
<1> QED BY Zenon, <1>2, <1>3, <1>4 DEF PromptRight, FlushedBeforePrompt

\* The prompt never comes before the output it follows is on the terminal, whatever control-C
\* writes into the pipe meanwhile.  The atexit commands are begun last first, none twice and none
\* left out, and all have been when the program has ended, for any number of commands, lines and
\* signals; but for a control-C whose exit comes when exit does not, or no longer, know of
\* tclatexit, or on another thread during control-C's own exit (tclmain.cc).
THEOREM PromptIsRight == TclSpec => []PromptRight
BY PromptInitially, PromptPreserved, PromptShown, PTL DEF TclSpec

-----------------------------------------------------------------------------
(***************************************************************************)
(* The display. What has been drawn is shown, what has gone is not, and    *)
(* the three marks of the ring stay in order.                              *)
(***************************************************************************)

\* The positions of z8lvc8's ring
Places == 0 .. RingSize - 1

\* How far along a ring is, without remainders
LEMMA AlongIs ==
    ASSUME NEW from \in Places, NEW i \in Places
    PROVE  Along(from, i) = (IF i >= from THEN i - from ELSE i - from + RingSize) /\ Along(from, i) \in Places
<1>1. CASE i >= from
  <2>1. i - from + RingSize \in RingSize .. 2 * RingSize - 1
    BY <1>1, RingAssumption DEF Places
  <2> DEFINE d == i - from + RingSize
  <2>2. d % RingSize = d - RingSize
    <3>1. d \in RingSize .. 2 * RingSize - 1
      BY <2>1
    <3> HIDE DEF d
    <3> QED BY <3>1, RingAssumption
  <2> QED BY <1>1, <2>2, RingAssumption DEF Along, Places
<1>2. CASE ~ (i >= from)
  <2> DEFINE d == i - from + RingSize
  <2>1. d \in 0 .. RingSize - 1
    BY <1>2, RingAssumption DEF Places
  <2>2. d % RingSize = d
    <3> HIDE DEF d
    <3> QED BY <2>1, RingAssumption
  <2> QED BY <1>2, <2>1, <2>2 DEF Along, Places
<1> QED BY <1>1, <1>2

\* The one after an entry
LEMMA NextIs ==
    ASSUME NEW i \in Places
    PROVE  Next1(i) = (IF i = RingSize - 1 THEN 0 ELSE i + 1) /\ Next1(i) \in Places
<1>1. CASE i = RingSize - 1
  <2>1. Next1(i) = RingSize % RingSize
    BY <1>1, RingAssumption DEF Next1
  <2>2. RingSize % RingSize = 0
    BY RingAssumption
  <2> QED BY <1>1, <2>1, <2>2, RingAssumption DEF Places
<1>2. CASE i # RingSize - 1
  <2>1. i + 1 \in 0 .. RingSize - 1
    BY <1>2, RingAssumption DEF Places
  <2>2. (i + 1) % RingSize = i + 1
    BY <2>1, RingAssumption
  <2> QED BY <1>2, <2>1, <2>2 DEF Next1, Places
<1> QED BY <1>1, <1>2

\* Where an entry goes in
LEMMA InsIs ==
    ASSUME NEW i \in 0 .. BuffPts - 1
    PROVE  (i + 1) % BuffPts = (IF i = BuffPts - 1 THEN 0 ELSE i + 1) /\ (i + 1) % BuffPts \in 0 .. BuffPts - 1
<1>1. CASE i = BuffPts - 1
  <2>1. (i + 1) % BuffPts = BuffPts % BuffPts
    BY <1>1, RingAssumption
  <2>2. BuffPts % BuffPts = 0
    BY RingAssumption
  <2> QED BY <1>1, <2>1, <2>2, RingAssumption
<1>2. CASE i # BuffPts - 1
  <2>1. i + 1 \in 0 .. BuffPts - 1
    BY <1>2, RingAssumption
  <2>2. (i + 1) % BuffPts = i + 1
    BY <2>1, RingAssumption
  <2> QED BY <1>2, <2>1, <2>2
<1> QED BY <1>1, <1>2

\* Which entries are between two
LEMMA SpanIs ==
    ASSUME NEW from, NEW to, NEW i
    PROVE  i \in Span(from, to) <=> i \in Places /\ Along(from, i) < Along(from, to)
  BY DEF Span, Places

\* The same as inequalities
LEMMA AlongBy ==
    ASSUME NEW from \in Places, NEW i \in Places
    PROVE  /\ from \in Int /\ i \in Int /\ 0 <= from /\ 0 <= i /\ from < RingSize /\ i < RingSize
           /\ Along(from, i) \in Int /\ 0 <= Along(from, i) /\ Along(from, i) < RingSize
           /\ i >= from => Along(from, i) = i - from
           /\ i < from => Along(from, i) = (i - from) + RingSize
<1>1. Along(from, i) \in Places /\ Along(from, i) = IF i >= from THEN i - from ELSE i - from + RingSize
  BY AlongIs
<1> QED BY <1>1, RingAssumption DEF Places

\* Along is injective, and 0 at the beginning only.
LEMMA AlongSame ==
    ASSUME NEW from \in Places, NEW i \in Places, NEW j \in Places
    PROVE  (Along(from, i) = Along(from, j) <=> i = j) /\ Along(from, from) = 0
<1> DEFINE p == Along(from, i)
           q == Along(from, j)
<1>1. /\ from \in Int /\ i \in Int /\ 0 <= from /\ 0 <= i /\ from < RingSize /\ i < RingSize
      /\ i >= from => p = i - from
      /\ i < from => p = (i - from) + RingSize
  BY AlongBy
<1>2. /\ j \in Int /\ 0 <= j /\ j < RingSize
      /\ j >= from => q = j - from
      /\ j < from => q = (j - from) + RingSize
  BY AlongBy
<1>3. Along(from, from) = 0
  BY AlongBy
<1> HIDE DEF p, q
<1>4. p = q <=> i = j
  BY <1>1, <1>2, RingAssumption
<1> QED BY <1>3, <1>4 DEF p, q

\* One further along is one more, but at the end of the round.
LEMMA AlongNext ==
    ASSUME NEW from \in Places, NEW i \in Places
    PROVE  /\ Along(from, i) < RingSize - 1 => Along(from, Next1(i)) = Along(from, i) + 1
           /\ i # from => Along(Next1(from), i) = Along(from, i) - 1
           /\ Along(Next1(from), from) = RingSize - 1
<1> DEFINE n == Next1(i)
           p == Along(from, i)
           q == Along(from, n)
           m == Next1(from)
           x == Along(m, i)
           y == Along(m, from)
<1>1. /\ from \in Int /\ i \in Int /\ 0 <= from /\ 0 <= i /\ from < RingSize /\ i < RingSize
      /\ i >= from => p = i - from
      /\ i < from => p = (i - from) + RingSize
  BY AlongBy
<1>2. n \in Places /\ n = (IF i = RingSize - 1 THEN 0 ELSE i + 1)
  BY NextIs
<1>3. m \in Places /\ m = (IF from = RingSize - 1 THEN 0 ELSE from + 1)
  BY NextIs
<1> HIDE DEF n, m, p
<1>4. /\ n >= from => q = n - from
      /\ n < from => q = (n - from) + RingSize
  BY <1>2, AlongBy
<1>5. /\ i >= m => x = i - m
      /\ i < m => x = (i - m) + RingSize
  BY <1>3, AlongBy
<1>6. /\ from >= m => y = from - m
      /\ from < m => y = (from - m) + RingSize
  BY <1>3, AlongBy
<1> HIDE DEF q, x, y
<1>7. p < RingSize - 1 => q = p + 1
  BY <1>1, <1>2, <1>4, RingAssumption
<1>8. i # from => x = p - 1
  BY <1>1, <1>3, <1>5, RingAssumption
<1>9. y = RingSize - 1
  BY <1>1, <1>3, <1>6, RingAssumption
<1> QED BY <1>7, <1>8, <1>9 DEF n, p, q, m, x, y

\* One more entry at the end
LEMMA SpanMore ==
    ASSUME NEW from \in Places, NEW to \in Places, NEW last \in Places, Along(from, to) <= Along(from, last), to # last
    PROVE  /\ Along(from, Next1(to)) <= Along(from, last)
           /\ \A i : i \in Span(from, Next1(to)) <=> i \in Span(from, to) \/ i = to
<1>1. /\ Along(from, to) \in Int /\ Along(from, last) \in Int /\ Along(from, last) < RingSize
      /\ Along(from, to) # Along(from, last)
  BY AlongBy, AlongSame
<1>2. Along(from, Next1(to)) = Along(from, to) + 1 /\ Along(from, to) < Along(from, last)
  BY <1>1, AlongNext, RingAssumption
<1>3. ASSUME NEW i \in Places
      PROVE  Along(from, i) < Along(from, to) + 1 <=> Along(from, i) < Along(from, to) \/ i = to
  <2>1. Along(from, i) = Along(from, to) <=> i = to
    BY AlongSame
  <2>2. Along(from, i) \in Int
    BY AlongBy
  <2> QED BY <1>1, <2>1, <2>2
<1> QED BY <1>1, <1>2, <1>3, SpanIs

\* One less at the beginning
LEMMA SpanLess ==
    ASSUME NEW from \in Places, NEW to \in Places, from # to
    PROVE  /\ \A i : i \in Span(Next1(from), to) <=> i \in Span(from, to) /\ i # from
           /\ \A last \in Places : Along(from, to) <= Along(from, last) =>
                 /\ last # from
                 /\ Along(Next1(from), to) <= Along(Next1(from), last)
<1>1. ASSUME NEW i \in Places, i # from PROVE Along(Next1(from), i) = Along(from, i) - 1
  BY <1>1, AlongNext
<1>2. Along(Next1(from), from) = RingSize - 1
  BY AlongNext
<1>3. Along(from, from) = 0 /\ Along(from, to) \in Int /\ 0 < Along(from, to) /\ Along(from, to) < RingSize
  BY AlongBy, AlongSame
<1>4. Along(Next1(from), to) = Along(from, to) - 1
  BY <1>1
<1>5. ASSUME NEW i \in Places
      PROVE  Along(Next1(from), i) < Along(Next1(from), to) <=> Along(from, i) < Along(from, to) /\ i # from
  <2>1. CASE i = from
    BY <1>2, <1>3, <1>4, <2>1, RingAssumption
  <2>2. CASE i # from
    <3>1. Along(from, i) \in Int
      BY AlongBy
    <3> QED BY <1>1, <1>3, <1>4, <2>2, <3>1
  <2> QED BY <2>1, <2>2
<1>6. ASSUME NEW last \in Places, Along(from, to) <= Along(from, last)
      PROVE  last # from /\ Along(Next1(from), to) <= Along(Next1(from), last)
  <2>1. last # from
    BY <1>3, <1>6
  <2>2. Along(from, last) \in Int
    BY AlongBy
  <2> QED BY <1>1, <1>3, <1>4, <1>6, <2>1, <2>2
<1> QED BY <1>5, <1>6, SpanIs

\* An entry goes in, and the ring is not full.
LEMMA SpanGrows ==
    ASSUME NEW from \in Places, NEW i \in 0 .. BuffPts - 1, from # (i + 1) % BuffPts,
           ~ (from >= BuffPts /\ (i + 1) % BuffPts = 0)
    PROVE  Along(from, i) < Along(from, (i + 1) % BuffPts)
<1> DEFINE n == (i + 1) % BuffPts
           p == Along(from, i)
           q == Along(from, n)
<1>1. i \in Places /\ n \in Places /\ n = IF i = BuffPts - 1 THEN 0 ELSE i + 1
  BY InsIs, RingAssumption DEF Places
<1>2. n # from /\ ~ (from >= BuffPts /\ n = 0)
  OBVIOUS
<1> HIDE DEF n
<1>3. /\ from \in Int /\ i \in Int /\ 0 <= from /\ 0 <= i /\ from < RingSize /\ i < RingSize
      /\ i >= from => p = i - from
      /\ i < from => p = (i - from) + RingSize
  BY <1>1, AlongBy
<1>4. /\ n >= from => q = n - from
      /\ n < from => q = (n - from) + RingSize
  BY <1>1, AlongBy
<1> HIDE DEF p, q
<1>5. p < q
  BY <1>1, <1>2, <1>3, <1>4, RingAssumption
<1> QED BY <1>5 DEF n, p, q

-----------------------------------------------------------------------------
(* The screen. *)

VcTypeOK ==
    /\ allins \in 0 .. BuffPts - 1 /\ allnew \in Places /\ allrem \in Places
    /\ DOMAIN allpoints = Places /\ DOMAIN indices = Pixels /\ DOMAIN lit = Pixels
    /\ overflowed \in BOOLEAN

\* The latest point at m is one of the ring's up to before to.
InRing(m, to) == indices[m] \in Span(allrem, to) /\ mappedxy(allpoints[indices[m]], winscale) = m

\* What has been drawn and is still there, is shown; what is not there is not.
\* What is new may be hidden by what it is going to replace.
Shown(m) ==
    /\ stage # "erasing" /\ InRing(m, allnew) => lit[m] = allpoints[indices[m]].t
    /\ stage = "erasing" \/ ~ InRing(m, allins) => lit[m] = Dark

VcInv ==
    /\ VcTypeOK
    /\ stage = "sleep" => allnew = allins
    /\ ~ overflowed =>
          /\ Along(allrem, allnew) <= Along(allrem, allins)
          /\ \A m \in Pixels \ wiped : Shown(m)

\* What goes in goes in at one of the positions.
LEMMA InsPlaces == ASSUME VcTypeOK PROVE allins \in Places
  BY RingAssumption DEF VcTypeOK, Places

\* The ring is empty and the window dark.
LEMMA VcStartInv == ASSUME NEW scale, NEW bounds, VcStart(scale, bounds) PROVE VcInv
<1>1. VcTypeOK
  <2>1. 0 \in 0 .. BuffPts - 1 /\ 0 \in Places
    BY RingAssumption DEF Places
  <2>2. DOMAIN allpoints = Places
    BY DEF VcStart, Places
  <2>3. allins = 0 /\ allnew = 0 /\ allrem = 0 /\ overflowed = FALSE /\ DOMAIN indices = Pixels /\ DOMAIN lit = Pixels
    BY DEF VcStart
  <2> QED BY <2>1, <2>2, <2>3 DEF VcTypeOK
<1>2. Along(0, 0) <= Along(0, 0)
  <2>1. 0 \in Places
    BY RingAssumption DEF Places
  <2> QED BY <2>1, AlongBy
<1>3. \A m \in Pixels : Shown(m)
  <2> SUFFICES ASSUME NEW m \in Pixels PROVE Shown(m)
    OBVIOUS
  <2>1. indices[m] = Gone /\ lit[m] = Dark
    BY DEF VcStart
  <2>2. Gone \notin Places
    BY RingAssumption DEF Gone, Places
  <2> QED BY <2>1, <2>2, SpanIs DEF Shown, InRing, VcStart
<1> QED BY <1>1, <1>2, <1>3 DEF VcInv, VcStart

\* Nothing the screen depends on changes.
LEMMA VcStill ==
    ASSUME VcInv, UNCHANGED <<vcRing, vcScreen>>,
           (stage' # "erasing" /\ stage # "erasing") \/ stage' = stage,
           stage' = "sleep" => stage = "sleep" \/ allnew = allins
    PROVE  VcInv'
<1>1. VcTypeOK'
  BY DEF VcInv, VcTypeOK, vcRing, vcScreen
<1>2. ASSUME NEW m, Shown(m) PROVE Shown(m)'
  BY <1>2 DEF Shown, InRing, vcRing, vcScreen, Span, Along, mappedxy
<1> QED BY <1>1, <1>2 DEF VcInv, vcRing, vcScreen

\* What came since is new.
LEMMA AwakeInv == ASSUME VcInv, Awake PROVE VcInv'
<1>1. allnew = allins /\ UNCHANGED <<vcRing, vcScreen>> /\ stage = "sleep" /\ stage' = "dequeue"
  BY DEF VcInv, Awake, At, VcGoto, vcRing
<1> QED BY <1>1, VcStill

\* A point goes in: its pixel shows the one before it until it is drawn.
LEMMA DequeueInv == ASSUME VcInv, Dequeue PROVE VcInv'
<1> DEFINE point == Head(queue)
           at == mappedxy(point, winscale)
<1> USE DEF At, VcGoto
<1>1. VcTypeOK /\ allins \in Places
  BY InsPlaces DEF VcInv
<1>2. /\ indices' = [indices EXCEPT ![at] = allins]
      /\ allpoints' = [allpoints EXCEPT ![allins] = point]
      /\ allins' = (allins + 1) % BuffPts
      /\ allrem' = IF allrem = allins' THEN (allrem + 1) % BuffPts ELSE allrem
      /\ overflowed' = (overflowed \/ allrem = allins' \/ (allrem >= BuffPts /\ allins' = 0))
      /\ stage = "dequeue" /\ UNCHANGED <<stage, allnew, winscale, lit, wiped>>
  BY DEF Dequeue
<1> HIDE DEF at, point
<1>3. allins' \in 0 .. BuffPts - 1 /\ allins' \in Places
  BY <1>1, <1>2, InsIs, RingAssumption DEF VcTypeOK, Places
<1>4. allrem' \in Places
  <2>1. CASE allrem = allins'
    <3>1. allrem \in 0 .. BuffPts - 1
      BY <1>3, <2>1
    <3>2. (allrem + 1) % BuffPts \in 0 .. BuffPts - 1
      BY <3>1, InsIs
    <3> QED BY <1>2, <2>1, <3>2, RingAssumption DEF Places
  <2>2. CASE allrem # allins'
    BY <1>1, <1>2, <2>2 DEF VcTypeOK
  <2> QED BY <2>1, <2>2
<1>5. VcTypeOK'
  BY <1>1, <1>2, <1>3, <1>4 DEF VcTypeOK
<1>6. ASSUME ~ overflowed'
      PROVE  /\ Along(allrem', allnew') <= Along(allrem', allins')
             /\ \A m \in Pixels \ wiped' : Shown(m)'
  <2>1. ~ overflowed /\ allrem # allins' /\ ~ (allrem >= BuffPts /\ allins' = 0) /\ allrem' = allrem
    BY <1>2, <1>6
  <2>2. /\ Along(allrem, allnew) \in Int /\ Along(allrem, allins) \in Int /\ Along(allrem, allins') \in Int
        /\ Along(allrem, allnew) <= Along(allrem, allins)
    BY <1>1, <1>3, <2>1, AlongBy DEF VcInv, VcTypeOK
  <2>3. Along(allrem, allins) < Along(allrem, allins')
    BY <1>1, <1>2, <2>1, SpanGrows DEF VcTypeOK
  <2>4. Along(allrem', allnew') <= Along(allrem', allins')
    BY <1>2, <2>1, <2>2, <2>3
  <2>5. ASSUME NEW m \in Pixels \ wiped PROVE Shown(m)'
    <3>1. Shown(m) /\ stage # "erasing" /\ stage' # "erasing" /\ lit'[m] = lit[m]
      BY <1>2, <2>1, <2>5 DEF VcInv
    <3>2. allins \in Span(allrem, allins') /\ allins \notin Span(allrem, allnew)
      BY <1>1, <2>2, <2>3, SpanIs
    <3>3. \A i : i \in Span(allrem, allins) => i \in Span(allrem, allins')
      <4>1. \A i \in Places : Along(allrem, i) \in Int
        BY <1>1, AlongBy DEF VcTypeOK
      <4> QED BY <2>2, <2>3, <4>1, SpanIs
    <3>4. \A i \in Places : i # allins => allpoints'[i] = allpoints[i]
      BY <1>1, <1>2 DEF VcTypeOK
    <3>5. allpoints'[allins] = point
      BY <1>1, <1>2 DEF VcTypeOK
    <3>6. CASE m = at
      <4>1. indices'[m] = allins
        BY <1>1, <1>2, <3>6 DEF VcTypeOK
      <4>2. InRing(m, allins)' /\ ~ InRing(m, allnew)'
        <5>1. indices'[m] \in Span(allrem', allins') /\ indices'[m] \notin Span(allrem', allnew')
          BY <1>2, <2>1, <3>2, <4>1
        <5>2. mappedxy(allpoints'[indices'[m]], winscale') = m
          BY <1>2, <3>5, <3>6, <4>1 DEF at
        <5> QED BY <5>1, <5>2 DEF InRing, Span, Along, mappedxy
      <4> QED BY <3>1, <4>2 DEF Shown
    <3>7. CASE m # at
      <4>1. indices'[m] = indices[m]
        BY <1>1, <1>2, <2>5, <3>7 DEF VcTypeOK
      <4>2. CASE indices[m] = allins
        <5>1. ~ InRing(m, allins) /\ lit[m] = Dark
          <6>1. allins \notin Span(allrem, allins)
            BY <2>2, SpanIs
          <6> QED BY <3>1, <4>2, <6>1 DEF InRing, Shown
        <5>2. ~ InRing(m, allnew)'
          BY <1>2, <2>1, <3>2, <4>1, <4>2 DEF InRing, Span, Along
        <5> QED BY <3>1, <5>1, <5>2 DEF Shown
      <4>3. CASE indices[m] # allins
        <5>1. ASSUME indices[m] \in Places PROVE allpoints'[indices'[m]] = allpoints[indices[m]]
          BY <3>4, <4>1, <4>3, <5>1
        <5>2. InRing(m, allnew)' => InRing(m, allnew) /\ indices[m] \in Places
          <6>1. indices[m] \in Span(allrem, allnew) => indices[m] \in Places
            BY SpanIs
          <6>2. InRing(m, allnew)' <=> indices'[m] \in Span(allrem', allnew') /\ mappedxy(allpoints'[indices'[m]], winscale') = m
            BY DEF InRing, Span, Along, mappedxy
          <6> QED BY <1>2, <2>1, <4>1, <5>1, <6>1, <6>2 DEF InRing
        <5>3. InRing(m, allins) => InRing(m, allins)'
          <6>1. indices[m] \in Span(allrem, allins) => indices[m] \in Places
            BY SpanIs
          <6>2. InRing(m, allins)' <=> indices'[m] \in Span(allrem', allins') /\ mappedxy(allpoints'[indices'[m]], winscale') = m
            BY DEF InRing, Span, Along, mappedxy
          <6> QED BY <1>2, <2>1, <3>3, <4>1, <5>1, <6>1, <6>2 DEF InRing
        <5> QED BY <3>1, <5>1, <5>2, <5>3 DEF Shown
      <4> QED BY <4>2, <4>3
    <3> QED BY <3>6, <3>7
  <2> QED BY <1>2, <2>4, <2>5
<1> QED BY <1>2, <1>5, <1>6 DEF VcInv

LEMMA ReadFlagsInv == ASSUME VcInv, ReadFlags PROVE VcInv'
<1>1. /\ UNCHANGED <<vcRing, vcScreen>>
      /\ stage = "dequeue" /\ stage' \in {"erase", "resize"}
  BY DEF ReadFlags, At, VcGoto
<1> QED BY <1>1, VcStill

\* The window is dark while the rings still hold the points; then they are empty.
LEMMA EraseWindowInv == ASSUME VcInv, EraseWindow PROVE VcInv'
<1>1. /\ stage' = "erasing" /\ lit' = [m \in Pixels |-> Dark]
      /\ UNCHANGED <<allpoints, allins, allnew, allrem, overflowed, indices, winscale, wiped>>
  BY DEF EraseWindow, VcGoto, vcRing
<1>2. \A m \in Pixels : Shown(m)'
  BY <1>1 DEF Shown
<1> QED BY <1>1, <1>2 DEF VcInv, VcTypeOK

LEMMA EraseRingsInv == ASSUME VcInv, EraseRings PROVE VcInv'
<1>1. /\ stage = "erasing" /\ stage' = "done" /\ allins' = 0 /\ allnew' = 0 /\ allrem' = 0
      /\ UNCHANGED <<allpoints, overflowed, indices, winscale, wiped, lit>>
  BY DEF EraseRings, At, VcGoto, vcScreen
<1>2. 0 \in Places /\ 0 \in 0 .. BuffPts - 1 /\ Along(0, 0) \in Int
  <2>1. 0 \in Places
    BY RingAssumption DEF Places
  <2> QED BY <2>1, AlongBy, RingAssumption
<1>3. VcTypeOK'
  BY <1>1, <1>2 DEF VcInv, VcTypeOK
<1>4. \A i : i \notin Span(0, 0)
  <2>1. \A i \in Places : Along(0, i) >= 0 /\ Along(0, i) \in Int /\ Along(0, 0) = 0
    BY <1>2, AlongBy, AlongSame
  <2> QED BY <2>1, SpanIs
<1>5. ASSUME NEW m, Shown(m) PROVE Shown(m)'
  <2>1. lit'[m] = Dark
    BY <1>1, <1>5 DEF Shown
  <2>2. ~ InRing(m, allnew)'
    BY <1>1, <1>4 DEF InRing, Span, Along
  <2> QED BY <2>1, <2>2 DEF Shown
<1>6. Along(allrem', allnew') <= Along(allrem', allins')
  BY <1>1, <1>2
<1> QED BY <1>1, <1>3, <1>5, <1>6 DEF VcInv

LEMMA EraseDoneInv == ASSUME VcInv, EraseDone PROVE VcInv'
<1>1. UNCHANGED <<vcRing, vcScreen>> /\ stage = "done" /\ stage' = "resize"
  BY DEF EraseDone, At, VcGoto
<1> QED BY <1>1, VcStill

\* Resize's CHOOSE finds the last entry of those that there are.
LEMMA LastIs ==
    ASSUME NEW from \in Places, NEW s, s \subseteq Places, s # {}
    PROVE  LET last == CHOOSE i \in s : \A j \in s : Along(from, j) <= Along(from, i)
           IN  last \in s /\ \A j \in s : Along(from, j) <= Along(from, last)
<1> DEFINE T == {Along(from, i) : i \in s}
<1>1. T \subseteq Nat /\ T # {} /\ \A x \in T : x <= RingSize
  <2>1. \A i \in s : Along(from, i) \in Nat /\ Along(from, i) <= RingSize
    BY AlongBy, RingAssumption
  <2> QED BY <2>1
<1>2. PICK x \in T : \A y \in T : y <= x
  <2> HIDE DEF T
  <2> QED BY <1>1, NatGreatest, RingAssumption
<1>3. PICK i \in s : x = Along(from, i)
  OBVIOUS
<1>4. \A j \in s : Along(from, j) <= Along(from, i)
  BY <1>2, <1>3
<1> QED BY <1>4

\* A new size: each pixel is drawn from the latest entry up to the new ones.
LEMMA ResizeInv == ASSUME VcInv, Resize PROVE VcInv'
<1>1. PICK scale \in Scales :
        LET on(m, to) == {i \in Span(allrem, to) : mappedxy(allpoints[i], scale) = m}
            last(s) == CHOOSE i \in s : \A j \in s : Along(allrem, j) <= Along(allrem, i)
            index == [m \in Pixels |-> IF on(m, allins) = {} THEN Gone ELSE last(on(m, allins))]
        IN  IF scale = winscale THEN UNCHANGED vcScreen
            ELSE /\ winscale' = scale /\ wiped' = {}
                 /\ indices' = index
                 /\ lit' = [m \in Pixels |->
                              IF index[m] \in on(m, allnew) THEN allpoints[index[m]].t ELSE Dark]
  BY DEF Resize
<1>2. UNCHANGED vcRing /\ stage = "resize" /\ stage' = "expire"
  BY DEF Resize, At, VcGoto
<1>3. CASE scale = winscale
  <2>1. UNCHANGED vcScreen
    BY <1>1, <1>3
  <2> QED BY <1>2, <2>1, VcStill
<1>4. CASE scale # winscale
  <2> DEFINE on(m, to) == {i \in Span(allrem, to) : mappedxy(allpoints[i], scale) = m}
             last(s) == CHOOSE i \in s : \A j \in s : Along(allrem, j) <= Along(allrem, i)
             index == [m \in Pixels |-> IF on(m, allins) = {} THEN Gone ELSE last(on(m, allins))]
  <2>1. /\ winscale' = scale /\ wiped' = {} /\ indices' = index
        /\ lit' = [m \in Pixels |->
                     IF index[m] \in on(m, allnew) THEN allpoints[index[m]].t ELSE Dark]
    BY <1>1, <1>4
  <2>2. VcTypeOK'
    BY <1>2, <2>1 DEF VcInv, VcTypeOK, vcRing
  <2>3. ASSUME NEW m \in Pixels PROVE Shown(m)'
    <3>1. \A i \in on(m, allins) \cup on(m, allnew) : i \in Places
      BY SpanIs
    <3>2. on(m, allins) # {} => index[m] \in on(m, allins)
      <4>1. on(m, allins) \subseteq Places /\ allrem \in Places
        BY <3>1 DEF VcInv, VcTypeOK
      <4>2. on(m, allins) # {} => last(on(m, allins)) \in on(m, allins)
        <5> DEFINE s == on(m, allins)
        <5>1. s \subseteq Places
          BY <4>1
        <5> HIDE DEF s
        <5>2. s # {} => (CHOOSE i \in s : \A j \in s : Along(allrem, j) <= Along(allrem, i)) \in s
          BY <4>1, <5>1, LastIs
        <5> QED BY <5>2 DEF s
      <4> HIDE DEF on, last
      <4> QED BY <4>2
    <3>3. on(m, allins) = {} => index[m] = Gone
      OBVIOUS
    <3>4. Gone \notin Places
      BY RingAssumption DEF Gone, Places
    <3>5. InRing(m, allnew)' <=> index[m] \in on(m, allnew)
      <4>1. InRing(m, allnew)' <=> indices'[m] \in Span(allrem', allnew') /\ mappedxy(allpoints'[indices'[m]], winscale') = m
        BY DEF InRing, Span, Along, mappedxy
      <4>2. allpoints' = allpoints /\ allrem' = allrem /\ allnew' = allnew
        BY <1>2 DEF vcRing
      <4> HIDE DEF index
      <4> QED BY <2>1, <4>1, <4>2
    <3>6. InRing(m, allins)' <=> index[m] \in on(m, allins)
      <4>1. InRing(m, allins)' <=> indices'[m] \in Span(allrem', allins') /\ mappedxy(allpoints'[indices'[m]], winscale') = m
        BY DEF InRing, Span, Along, mappedxy
      <4>2. allpoints' = allpoints /\ allrem' = allrem /\ allins' = allins
        BY <1>2 DEF vcRing
      <4> HIDE DEF index
      <4> QED BY <2>1, <4>1, <4>2
    <3>7. lit'[m] = IF index[m] \in on(m, allnew) THEN allpoints[index[m]].t ELSE Dark
      BY <2>1
    <3>8. allpoints' = allpoints /\ indices'[m] = index[m]
      BY <1>2, <2>1 DEF vcRing
    <3> HIDE DEF index, on
    <3>9. InRing(m, allnew)' => lit'[m] = allpoints'[indices'[m]].t
      BY <3>5, <3>7, <3>8
    <3>10. ~ InRing(m, allins)' => lit'[m] = Dark
      BY <3>1, <3>2, <3>3, <3>4, <3>6, <3>7
    <3> QED BY <1>2, <3>9, <3>10 DEF Shown
  <2>4. ~ overflowed => Along(allrem', allnew') <= Along(allrem', allins')
    BY <1>2 DEF VcInv, vcRing
  <2>5. overflowed' = overflowed /\ stage' # "sleep"
    BY <1>2 DEF vcRing
  <2> QED BY <2>2, <2>3, <2>4, <2>5 DEF VcInv
<1> QED BY <1>3, <1>4

\* What drawpt does to a pixel: it goes by the latest entry there.
LEMMA DrawIs ==
    ASSUME VcTypeOK, NEW i \in Places, NEW erase \in BOOLEAN, drawpt(i, erase), NEW m \in Pixels
    PROVE  /\ DOMAIN lit' = Pixels /\ DOMAIN indices' = Pixels
           /\ indices[m] = i /\ mappedxy(allpoints[i], winscale) = m =>
                 /\ lit'[m] = (IF erase THEN Dark ELSE allpoints[i].t)
                 /\ indices'[m] = (IF erase THEN Gone ELSE i)
           /\ ~ (indices[m] = i /\ mappedxy(allpoints[i], winscale) = m) =>
                 lit'[m] = lit[m] /\ indices'[m] = indices[m] /\ (m \notin wiped' => m \notin wiped)
<1> DEFINE at == mappedxy(allpoints[i], winscale)
<1>1. CASE Latest(i)
  <2>1. /\ lit' = [lit EXCEPT ![at] = IF erase THEN Dark ELSE allpoints[i].t]
        /\ wiped' = wiped \ {at}
        /\ indices' = IF erase THEN [indices EXCEPT ![at] = Gone] ELSE indices
        /\ indices[at] = i
    BY <1>1 DEF drawpt, Latest
  <2> HIDE DEF at
  <2>2. DOMAIN lit = Pixels /\ DOMAIN indices = Pixels
    BY DEF VcTypeOK
  <2>3. CASE m = at
    BY <2>1, <2>2, <2>3 DEF at
  <2>4. CASE m # at
    BY <2>1, <2>2, <2>4 DEF at
  <2> QED BY <2>3, <2>4
<1>2. CASE ~ Latest(i)
  <2>1. UNCHANGED <<lit, wiped, indices>> /\ ~ (indices[at] = i)
    BY <1>2 DEF drawpt, Latest
  <2> HIDE DEF at
  <2> QED BY <2>1 DEF VcTypeOK, at
<1> QED BY <1>1, <1>2

\* The oldest entry goes, and its pixel is darkened unless a later one came to it.
LEMMA ExpireInv == ASSUME VcInv, Expire PROVE VcInv'
<1>1. /\ stage = "expire" /\ allrem # allnew /\ drawpt(allrem, TRUE) /\ allrem' = Next1(allrem)
      /\ UNCHANGED <<stage, allpoints, allins, allnew, overflowed, winscale>>
  BY DEF Expire, At
<1>2. VcTypeOK /\ allrem \in Places /\ allnew \in Places /\ allins \in Places /\ Next1(allrem) \in Places
  BY InsPlaces, NextIs DEF VcInv, VcTypeOK
<1>3. DOMAIN lit' = Pixels /\ DOMAIN indices' = Pixels
  BY <1>1, <1>2 DEF drawpt, VcTypeOK
<1>4. VcTypeOK'
  BY <1>1, <1>2, <1>3 DEF VcTypeOK
<1>5. ASSUME ~ overflowed
      PROVE  /\ Along(allrem', allnew') <= Along(allrem', allins')
             /\ \A m \in Pixels \ wiped' : Shown(m)'
  <2>1. Along(allrem, allnew) <= Along(allrem, allins)
    BY <1>5 DEF VcInv
  <2>2. /\ \A i : i \in Span(Next1(allrem), allnew) <=> i \in Span(allrem, allnew) /\ i # allrem
        /\ allins # allrem /\ Along(Next1(allrem), allnew) <= Along(Next1(allrem), allins)
    BY <1>1, <1>2, <2>1, SpanLess
  <2>3. \A i : i \in Span(Next1(allrem), allins) <=> i \in Span(allrem, allins) /\ i # allrem
    BY <1>2, <2>2, SpanLess
  <2>4. ASSUME NEW m \in Pixels \ wiped' PROVE Shown(m)'
    <3> DEFINE there == indices[m] = allrem /\ mappedxy(allpoints[allrem], winscale) = m
    <3>1. /\ there => lit'[m] = Dark /\ indices'[m] = Gone
          /\ ~ there => lit'[m] = lit[m] /\ indices'[m] = indices[m] /\ m \notin wiped
      BY <1>1, <1>2, <2>4, DrawIs
    <3>2. \A to : InRing(m, to)' <=> indices'[m] \in Span(Next1(allrem), to') /\ mappedxy(allpoints[indices'[m]], winscale) = m
      BY <1>1 DEF InRing, Span, Along, mappedxy
    <3>3. CASE there
      <4>1. indices'[m] \notin Places
        BY <3>1, <3>3, RingAssumption DEF Gone, Places
      <4>2. ~ InRing(m, allnew)'
        BY <4>1, SpanIs, <1>1 DEF InRing, Span, Along, Places
      <4> HIDE DEF there
      <4> QED BY <3>1, <3>3, <4>2 DEF Shown
    <3>4. CASE ~ there
      <4>1. Shown(m) /\ lit'[m] = lit[m] /\ indices'[m] = indices[m]
        BY <1>5, <2>4, <3>1, <3>4 DEF VcInv
      <4>2. InRing(m, allnew)' => InRing(m, allnew)
        BY <1>1, <2>2, <4>1 DEF InRing, Span, Along, mappedxy
      <4>3. InRing(m, allins) => InRing(m, allins)'
        <5>1. InRing(m, allins)' <=> indices'[m] \in Span(Next1(allrem), allins) /\ mappedxy(allpoints[indices'[m]], winscale) = m
          BY <1>1 DEF InRing, Span, Along, mappedxy
        <5>2. ASSUME InRing(m, allins) PROVE indices[m] # allrem
          BY <3>4, <5>2 DEF InRing
        <5> QED BY <2>3, <4>1, <5>1, <5>2 DEF InRing
      <4> QED BY <1>1, <4>1, <4>2, <4>3 DEF Shown
    <3> QED BY <3>3, <3>4
  <2> QED BY <1>1, <2>2, <2>4
<1> QED BY <1>1, <1>4, <1>5 DEF VcInv

\* The next new entry is drawn, unless a later one came to its pixel.
LEMMA DrawNewInv == ASSUME VcInv, DrawNew PROVE VcInv'
<1>1. /\ stage = "draw" /\ allnew # allins /\ drawpt(allnew, FALSE) /\ allnew' = Next1(allnew)
      /\ UNCHANGED <<stage, allpoints, allins, allrem, overflowed, winscale>>
  BY DEF DrawNew, At
<1>2. VcTypeOK /\ allrem \in Places /\ allnew \in Places /\ allins \in Places /\ Next1(allnew) \in Places
  BY InsPlaces, NextIs DEF VcInv, VcTypeOK
<1>3. DOMAIN lit' = Pixels /\ DOMAIN indices' = Pixels
  BY <1>1, <1>2 DEF drawpt, VcTypeOK
<1>4. VcTypeOK'
  BY <1>1, <1>2, <1>3 DEF VcTypeOK
<1>5. ASSUME ~ overflowed
      PROVE  /\ Along(allrem', allnew') <= Along(allrem', allins')
             /\ \A m \in Pixels \ wiped' : Shown(m)'
  <2>1. Along(allrem, allnew) <= Along(allrem, allins)
    BY <1>5 DEF VcInv
  <2>2. /\ Along(allrem, Next1(allnew)) <= Along(allrem, allins)
        /\ \A i : i \in Span(allrem, Next1(allnew)) <=> i \in Span(allrem, allnew) \/ i = allnew
    BY <1>1, <1>2, <2>1, SpanMore
  <2>3. allnew \in Span(allrem, allins)
    <3>1. /\ Along(allrem, allnew) \in Int /\ Along(allrem, allins) \in Int
          /\ Along(allrem, allnew) # Along(allrem, allins)
      BY <1>1, <1>2, AlongBy, AlongSame
    <3> QED BY <1>2, <2>1, <3>1, SpanIs
  <2>4. ASSUME NEW m \in Pixels \ wiped' PROVE Shown(m)'
    <3> DEFINE there == indices[m] = allnew /\ mappedxy(allpoints[allnew], winscale) = m
    <3>1. /\ there => lit'[m] = allpoints[allnew].t /\ indices'[m] = allnew
          /\ ~ there => lit'[m] = lit[m] /\ indices'[m] = indices[m] /\ m \notin wiped
      BY <1>1, <1>2, <2>4, DrawIs
    <3>2. InRing(m, allins)' <=> indices'[m] \in Span(allrem, allins) /\ mappedxy(allpoints[indices'[m]], winscale) = m
      BY <1>1 DEF InRing, Span, Along, mappedxy
    <3>3. InRing(m, allnew)' <=> indices'[m] \in Span(allrem, Next1(allnew)) /\ mappedxy(allpoints[indices'[m]], winscale) = m
      BY <1>1 DEF InRing, Span, Along, mappedxy
    <3>4. CASE there
      <4>1. InRing(m, allins)'
        BY <2>3, <3>1, <3>2, <3>4
      <4>2. lit'[m] = allpoints'[indices'[m]].t
        BY <1>1, <3>1, <3>4
      <4> QED BY <1>1, <4>1, <4>2 DEF Shown
    <3>5. CASE ~ there
      <4>1. Shown(m) /\ lit'[m] = lit[m] /\ indices'[m] = indices[m]
        BY <1>5, <2>4, <3>1, <3>5 DEF VcInv
      <4>2. InRing(m, allnew)' => InRing(m, allnew)
        <5>1. InRing(m, allnew)' => indices[m] # allnew
          BY <3>3, <3>5, <4>1
        <5> QED BY <2>2, <3>3, <4>1, <5>1 DEF InRing
      <4>3. InRing(m, allins) => InRing(m, allins)'
        BY <3>2, <4>1 DEF InRing
      <4> QED BY <1>1, <4>1, <4>2, <4>3 DEF Shown
    <3> QED BY <3>4, <3>5
  <2> QED BY <1>1, <2>2, <2>4
<1> QED BY <1>1, <1>4, <1>5 DEF VcInv

LEMMA ExpiredInv == ASSUME VcInv, Expired PROVE VcInv'
<1>1. UNCHANGED <<vcRing, vcScreen>> /\ stage = "expire" /\ stage' = "draw"
  BY DEF Expired, At, VcGoto
<1> QED BY <1>1, VcStill

\* The round is over: nothing is new.
LEMMA ButtonsInv == ASSUME VcInv, VcButtons PROVE VcInv'
<1>1. /\ stage = "draw" /\ stage' = "sleep" /\ allnew = allins
      /\ UNCHANGED <<vcRing, indices, winscale>>
  BY DEF VcButtons, At, VcGoto
<1>2. CASE UNCHANGED <<lit, wiped>>
  <2>1. UNCHANGED vcScreen
    BY <1>1, <1>2 DEF vcScreen
  <2> QED BY <1>1, <2>1, VcStill
<1>3. CASE lit' = [m \in Pixels |-> Dark] /\ wiped' = Pixels
  BY <1>1, <1>3 DEF VcInv, VcTypeOK, vcRing
<1> QED BY <1>2, <1>3 DEF VcButtons

\* The processor's program touches the gate array's ring only.
LEMMA VcPdpInv == ASSUME VcInv, VcPdp PROVE VcInv'
<1>1. UNCHANGED <<vcRing, vcScreen>> /\ stage' = stage
  BY DEF VcPdp, VcProgram
<1> QED BY <1>1, VcStill

-----------------------------------------------------------------------------
(* The latest point of a pixel, and the positions without points. *)

\* A pixel that an entry came to is indexed, by that entry or a later one.
NewestInv ==
    ~ overflowed =>
        \A m \in Pixels : \A i \in Entries(m) :
            InRing(m, allins) /\ Along(allrem, i) <= Along(allrem, indices[m])

\* Nothing goes in from MAXBUFFPTS on.
NeverInv == \A i \in Places : i >= BuffPts => allpoints[i] = VcPoint(0, 0)

VcAllInv == VcInv /\ NewestInv /\ NeverInv

\* An entry goes in: the positions up to BuffPts have that one more.
LEMMA SpanPoint ==
    ASSUME NEW from \in Places, NEW i \in 0 .. BuffPts - 1, from # (i + 1) % BuffPts,
           ~ (from >= BuffPts /\ (i + 1) % BuffPts = 0),
           NEW j \in Places, j < BuffPts, Along(from, j) < Along(from, (i + 1) % BuffPts)
    PROVE  j = i \/ Along(from, j) < Along(from, i)
<1> DEFINE n == (i + 1) % BuffPts
           p == Along(from, i)
           q == Along(from, n)
           x == Along(from, j)
<1>1. i \in Places /\ n \in Places /\ n = IF i = BuffPts - 1 THEN 0 ELSE i + 1
  BY InsIs, RingAssumption DEF Places
<1>2. n # from /\ ~ (from >= BuffPts /\ n = 0) /\ x < q /\ j < BuffPts
  OBVIOUS
<1> HIDE DEF n
<1>3. /\ from \in Int /\ i \in Int /\ 0 <= from /\ 0 <= i /\ from < RingSize /\ i < RingSize
      /\ i >= from => p = i - from
      /\ i < from => p = (i - from) + RingSize
  BY <1>1, AlongBy
<1>4. /\ n >= from => q = n - from
      /\ n < from => q = (n - from) + RingSize
  BY <1>1, AlongBy
<1>5. /\ j \in Int /\ 0 <= j /\ j < RingSize
      /\ j >= from => x = j - from
      /\ j < from => x = (j - from) + RingSize
  BY AlongBy
<1> HIDE DEF p, q, x
<1>6. j = i \/ x < p
  BY <1>1, <1>2, <1>3, <1>4, <1>5, RingAssumption
<1> QED BY <1>6 DEF p, x

\* What is in the index is not touched.
LEMMA NewestStill ==
    ASSUME NewestInv, UNCHANGED <<allpoints, allins, allrem, overflowed, indices, winscale>>
    PROVE  NewestInv'
<1>1. \A m : Entries(m)' = Entries(m) /\ (InRing(m, allins)' <=> InRing(m, allins))
  BY DEF Entries, InRing, Span, Along, mappedxy
<1>2. \A i : Along(allrem', i) = Along(allrem, i)
  OBVIOUS
<1> QED BY <1>1, <1>2 DEF NewestInv

LEMMA NewestDequeue == ASSUME VcInv, NewestInv, Dequeue PROVE NewestInv'
<1> DEFINE point == Head(queue)
           at == mappedxy(point, winscale)
<1>1. VcTypeOK /\ allins \in Places /\ allins \in 0 .. BuffPts - 1 /\ allrem \in Places
  BY InsPlaces DEF VcInv, VcTypeOK
<1>2. /\ indices' = [indices EXCEPT ![at] = allins]
      /\ allpoints' = [allpoints EXCEPT ![allins] = point]
      /\ allins' = (allins + 1) % BuffPts
      /\ allrem' = IF allrem = allins' THEN (allrem + 1) % BuffPts ELSE allrem
      /\ overflowed' = (overflowed \/ allrem = allins' \/ (allrem >= BuffPts /\ allins' = 0))
      /\ UNCHANGED winscale
  BY DEF Dequeue
<1> HIDE DEF point
<1> SUFFICES ASSUME ~ overflowed', NEW m \in Pixels, NEW i \in Entries(m)'
             PROVE  InRing(m, allins)' /\ Along(allrem', i) <= Along(allrem', indices'[m])
  BY DEF NewestInv
<1>3. ~ overflowed /\ allrem # allins' /\ ~ (allrem >= BuffPts /\ allins' = 0) /\ allrem' = allrem
  BY <1>2
<1>4. /\ i \in Places /\ i < BuffPts /\ Along(allrem, i) < Along(allrem, allins')
      /\ mappedxy(allpoints'[i], winscale) = m
  BY <1>2, <1>3, SpanIs DEF Entries, Span, Along, mappedxy
<1>5. i = allins \/ Along(allrem, i) < Along(allrem, allins)
  BY <1>1, <1>2, <1>3, <1>4, SpanPoint
<1>6. allins' \in Places /\ Along(allrem, allins) < Along(allrem, allins')
  <2>1. allins' \in Places
    BY <1>1, <1>2, InsIs, RingAssumption DEF Places
  <2> QED BY <2>1, <1>1, <1>2, <1>3, SpanGrows
<1>7. InRing(m, allins)' <=> indices'[m] \in Span(allrem, allins') /\ mappedxy(allpoints'[indices'[m]], winscale) = m
  BY <1>2, <1>3 DEF InRing, Span, Along, mappedxy
<1>8. Along(allrem, i) \in Int /\ Along(allrem, allins) \in Int /\ Along(allrem, allins') \in Int
  BY <1>1, <1>4, <1>6, AlongBy
<1>9. CASE m = at
  <2>1. indices'[m] = allins /\ allpoints'[allins] = point
    BY <1>1, <1>2, <1>9 DEF VcTypeOK
  <2>2. allins \in Span(allrem, allins')
    BY <1>1, <1>6, SpanIs
  <2>3. mappedxy(allpoints'[indices'[m]], winscale) = m
    BY <1>9, <2>1
  <2>4. Along(allrem, i) <= Along(allrem, allins)
    BY <1>5, <1>8
  <2> QED BY <1>3, <1>7, <2>1, <2>2, <2>3, <2>4
<1>10. CASE m # at
  <2>1. indices'[m] = indices[m] /\ allpoints'[allins] = point /\ \A k \in Places : k # allins => allpoints'[k] = allpoints[k]
    BY <1>1, <1>2, <1>10 DEF VcTypeOK
  <2>2. i # allins
    BY <1>4, <1>10, <2>1
  <2>3. i \in Entries(m)
    <3>1. Along(allrem, i) < Along(allrem, allins) /\ allpoints'[i] = allpoints[i]
      BY <1>4, <1>5, <2>1, <2>2
    <3> QED BY <1>4, <3>1, SpanIs DEF Entries
  <2>4. InRing(m, allins) /\ Along(allrem, i) <= Along(allrem, indices[m])
    BY <1>3, <2>3 DEF NewestInv
  <2>5. indices[m] \in Places /\ Along(allrem, indices[m]) < Along(allrem, allins)
    BY <2>4, SpanIs DEF InRing
  <2>6. indices[m] # allins /\ Along(allrem, indices[m]) \in Int
    <3>1. Along(allrem, indices[m]) \in Int /\ Along(allrem, allins) \in Int
      BY <1>1, <2>5, AlongBy
    <3>2. indices[m] # allins
      <4>1. indices[m] = allins => Along(allrem, indices[m]) = Along(allrem, allins)
        BY Zenon
      <4> QED BY <2>5, <3>1, <4>1
    <3> QED BY <3>1, <3>2
  <2>7. indices[m] \in Span(allrem, allins')
    <3>1. Along(allrem, indices[m]) < Along(allrem, allins')
      BY <1>6, <1>8, <2>5, <2>6
    <3> QED BY <2>5, <3>1, SpanIs
  <2>8. mappedxy(allpoints'[indices[m]], winscale) = m
    BY <2>1, <2>4, <2>5, <2>6 DEF InRing
  <2> QED BY <1>3, <1>7, <2>1, <2>4, <2>7, <2>8
<1> QED BY <1>9, <1>10

LEMMA NewestErase == ASSUME VcInv, EraseRings PROVE NewestInv'
<1>1. 0 \in Places /\ allins' = 0 /\ allrem' = 0
  BY RingAssumption DEF EraseRings, Places
<1>2. \A i : i \notin Span(0, 0)
  <2>1. \A i \in Places : Along(0, i) >= 0 /\ Along(0, i) \in Int /\ Along(0, 0) = 0
    BY <1>1, AlongBy, AlongSame
  <2> QED BY <2>1, SpanIs
<1>3. \A m : Entries(m)' = {}
  BY <1>1, <1>2 DEF Entries, Span, Along
<1> QED BY <1>3 DEF NewestInv

LEMMA NewestResize == ASSUME VcInv, NewestInv, Resize PROVE NewestInv'
<1>1. PICK scale \in Scales :
        LET on(m, to) == {i \in Span(allrem, to) : mappedxy(allpoints[i], scale) = m}
            last(s) == CHOOSE i \in s : \A j \in s : Along(allrem, j) <= Along(allrem, i)
            index == [m \in Pixels |-> IF on(m, allins) = {} THEN Gone ELSE last(on(m, allins))]
        IN  IF scale = winscale THEN UNCHANGED vcScreen
            ELSE /\ winscale' = scale /\ wiped' = {}
                 /\ indices' = index
                 /\ lit' = [m \in Pixels |->
                              IF index[m] \in on(m, allnew) THEN allpoints[index[m]].t ELSE Dark]
  BY DEF Resize
<1>2. /\ UNCHANGED <<allpoints, allins, allnew, allrem, overflowed>>
      /\ allrem \in Places
  BY DEF Resize, vcRing, VcInv, VcTypeOK
<1>3. CASE scale = winscale
  <2>1. UNCHANGED vcScreen
    BY <1>1, <1>3
  <2> QED BY <1>2, <2>1, NewestStill DEF vcScreen
<1>4. CASE scale # winscale
  <2> SUFFICES ASSUME NEW m \in Pixels, NEW i \in Entries(m)'
               PROVE  InRing(m, allins)' /\ Along(allrem', i) <= Along(allrem', indices'[m])
    BY DEF NewestInv
  <2> DEFINE s == {k \in Span(allrem, allins) : mappedxy(allpoints[k], scale) = m}
             last == CHOOSE k \in s : \A j \in s : Along(allrem, j) <= Along(allrem, k)
  <2>1. winscale' = scale /\ indices'[m] = IF s = {} THEN Gone ELSE last
    BY <1>1, <1>4
  <2>2. i \in s
    BY <1>2, <2>1 DEF Entries, Span, Along, mappedxy
  <2>3. s \subseteq Places
    BY SpanIs
  <2>4. last \in s /\ \A j \in s : Along(allrem, j) <= Along(allrem, last)
    <3> HIDE DEF s
    <3> QED BY <1>2, <2>2, <2>3, LastIs
  <2>5. indices'[m] = last
    BY <2>1, <2>2
  <2> HIDE DEF last
  <2>6. InRing(m, allins)' <=> indices'[m] \in Span(allrem, allins) /\ mappedxy(allpoints[indices'[m]], scale) = m
    BY <1>2, <2>1 DEF InRing, Span, Along, mappedxy
  <2> QED BY <1>2, <2>2, <2>4, <2>5, <2>6
<1> QED BY <1>3, <1>4

LEMMA NewestExpire == ASSUME VcInv, NewestInv, Expire PROVE NewestInv'
<1>1. /\ allrem # allnew /\ drawpt(allrem, TRUE) /\ allrem' = Next1(allrem)
      /\ UNCHANGED <<allpoints, allins, allnew, overflowed, winscale>>
  BY DEF Expire
<1>2. VcTypeOK /\ allrem \in Places /\ allnew \in Places /\ allins \in Places
  BY InsPlaces DEF VcInv, VcTypeOK
<1> SUFFICES ASSUME ~ overflowed, NEW m \in Pixels, NEW i \in Entries(m)'
             PROVE  InRing(m, allins)' /\ Along(allrem', i) <= Along(allrem', indices'[m])
  BY <1>1 DEF NewestInv
<1>3. Along(allrem, allnew) <= Along(allrem, allins)
  BY DEF VcInv
<1>4. \A k : k \in Span(Next1(allrem), allins) <=> k \in Span(allrem, allins) /\ k # allrem
  <2>1. allins # allrem
    BY <1>1, <1>2, <1>3, SpanLess
  <2> QED BY <1>2, <2>1, SpanLess
<1>5. i \in Entries(m) /\ i # allrem /\ i \in Places
  <2>1. i \in Span(Next1(allrem), allins) /\ i < BuffPts /\ mappedxy(allpoints[i], winscale) = m
    BY <1>1 DEF Entries, Span, Along, mappedxy
  <2> QED BY <1>4, <2>1, SpanIs DEF Entries
<1>6. InRing(m, allins) /\ Along(allrem, i) <= Along(allrem, indices[m])
  BY <1>5 DEF NewestInv
<1>7. indices[m] \in Places /\ indices[m] # allrem
  <2>1. indices[m] \in Places
    BY <1>6, SpanIs DEF InRing
  <2>2. Along(allrem, allrem) = 0 /\ Along(allrem, i) # 0 /\ Along(allrem, i) \in Int /\ 0 <= Along(allrem, i)
    BY <1>2, <1>5, AlongSame, AlongBy
  <2> QED BY <1>6, <2>1, <2>2
<1>8. indices'[m] = indices[m]
  BY <1>1, <1>2, <1>7, DrawIs
<1>9. InRing(m, allins)'
  <2>1. InRing(m, allins)' <=> indices'[m] \in Span(Next1(allrem), allins) /\ mappedxy(allpoints[indices'[m]], winscale) = m
    BY <1>1 DEF InRing, Span, Along, mappedxy
  <2> QED BY <1>4, <1>6, <1>7, <1>8, <2>1 DEF InRing
<1>10. /\ Along(Next1(allrem), i) = Along(allrem, i) - 1
       /\ Along(Next1(allrem), indices[m]) = Along(allrem, indices[m]) - 1
  BY <1>2, <1>5, <1>7, AlongNext
<1>11. Along(allrem, i) \in Int /\ Along(allrem, indices[m]) \in Int
  BY <1>2, <1>5, <1>7, AlongBy
<1>12. Along(Next1(allrem), i) <= Along(Next1(allrem), indices[m])
  BY <1>6, <1>10, <1>11
<1> QED BY <1>1, <1>8, <1>9, <1>12

LEMMA NewestDraw == ASSUME VcInv, NewestInv, DrawNew PROVE NewestInv'
<1>1. /\ drawpt(allnew, FALSE)
      /\ UNCHANGED <<allpoints, allins, allrem, overflowed, winscale>>
  BY DEF DrawNew
<1>2. UNCHANGED indices
  BY <1>1 DEF drawpt
<1> QED BY <1>1, <1>2, NewestStill

LEMMA NewestPreserved == ASSUME VcInv, NewestInv, [VcNext]_vcVars PROVE NewestInv'
<1>1. CASE VcPdp \/ Awake \/ ReadFlags \/ EraseWindow \/ EraseDone \/ Expired \/ VcButtons \/ UNCHANGED vcVars
  <2>1. UNCHANGED <<allpoints, allins, allrem, overflowed, indices, winscale>>
    BY <1>1 DEF VcPdp, VcProgram, Awake, ReadFlags, EraseWindow, EraseDone, Expired, VcButtons, vcVars,
                vcRing, vcScreen
  <2> QED BY <2>1, NewestStill
<1> QED BY <1>1, NewestDequeue, NewestErase, NewestResize, NewestExpire, NewestDraw DEF VcNext, VcThread

LEMMA NeverPreserved == ASSUME VcInv, NeverInv, [VcNext]_vcVars PROVE NeverInv'
<1>1. CASE Dequeue
  <2>1. allpoints' = [allpoints EXCEPT ![allins] = Head(queue)] /\ allins < BuffPts
    BY <1>1, RingAssumption DEF Dequeue, VcInv, VcTypeOK
  <2>2. \A i \in Places : i >= BuffPts => i # allins
    BY <2>1, RingAssumption DEF Places, VcInv, VcTypeOK
  <2> QED BY <2>1, <2>2 DEF NeverInv, VcInv, VcTypeOK
<1>2. CASE ~ Dequeue
  <2>1. UNCHANGED allpoints
    BY <1>2 DEF VcNext, VcThread, VcPdp, VcProgram, Awake, ReadFlags, EraseWindow, EraseRings, EraseDone,
                Resize, Expire, Expired, DrawNew, VcButtons, vcVars, vcRing
  <2> QED BY <2>1 DEF NeverInv
<1> QED BY <1>1, <1>2

LEMMA VcAllInit == VcInit => VcAllInv
<1> SUFFICES ASSUME NEW scale, NEW bounds, VcStart(scale, bounds) PROVE VcAllInv
  BY DEF VcInit
<1>1. VcInv
  BY VcStartInv
<1>2. 0 \in Places /\ Along(0, 0) = 0
  <2>1. 0 \in Places
    BY RingAssumption DEF Places
  <2> QED BY <2>1, AlongSame
<1>3. \A m : Entries(m) = {}
  <2>1. \A i \in Places : 0 <= Along(0, i) /\ Along(0, i) \in Int
    BY <1>2, AlongBy
  <2>2. \A i : i \notin Span(0, 0)
    BY <1>2, <2>1, SpanIs
  <2> QED BY <2>2 DEF Entries, VcStart
<1>4. NewestInv
  BY <1>3 DEF NewestInv
<1>5. NeverInv
  BY DEF NeverInv, VcStart, Places
<1> QED BY <1>1, <1>4, <1>5 DEF VcAllInv

\* Between two rounds nothing is new: the index tells what each pixel shows.
LEMMA ScreenShown == VcAllInv => ScreenTrue
<1> SUFFICES ASSUME VcAllInv, stage = "sleep", ~ overflowed, NEW m \in Pixels \ wiped
             PROVE  \/ NeverCame(m)
                    \/ /\ Entries(m) = {} => lit[m] = Dark
                       /\ \A i \in Entries(m) :
                             (\A j \in Entries(m) : Along(allrem, j) <= Along(allrem, i)) => lit[m] = allpoints[i].t
  BY DEF ScreenTrue
<1>1. /\ InRing(m, allins) => lit[m] = allpoints[indices[m]].t
      /\ ~ InRing(m, allins) => lit[m] = Dark
  BY DEF VcAllInv, VcInv, Shown
<1>2. \A i \in Entries(m) : InRing(m, allins) /\ Along(allrem, i) <= Along(allrem, indices[m])
  BY DEF VcAllInv, NewestInv
<1>3. allrem \in Places
  BY DEF VcAllInv, VcInv, VcTypeOK
<1>4. CASE ~ InRing(m, allins)
  BY <1>1, <1>2, <1>4
<1>5. CASE InRing(m, allins)
  <2>1. indices[m] \in Places /\ indices[m] \in Span(allrem, allins)
        /\ mappedxy(allpoints[indices[m]], winscale) = m
    BY <1>5, SpanIs DEF InRing
  <2>2. CASE indices[m] >= BuffPts
    BY <2>1, <2>2 DEF VcAllInv, NeverInv, NeverCame
  <2>3. CASE ~ (indices[m] >= BuffPts)
    <3>1. indices[m] \in Entries(m)
      BY <2>1, <2>3, RingAssumption DEF Entries, Places
    <3>2. ASSUME NEW i \in Entries(m), \A j \in Entries(m) : Along(allrem, j) <= Along(allrem, i)
          PROVE  i = indices[m]
      <4>1. Along(allrem, i) <= Along(allrem, indices[m]) /\ Along(allrem, indices[m]) <= Along(allrem, i)
        BY <1>2, <3>1, <3>2
      <4>2. i \in Places /\ Along(allrem, i) \in Int /\ Along(allrem, indices[m]) \in Int
        BY <1>3, <2>1, SpanIs, AlongBy DEF Entries
      <4> QED BY <1>3, <2>1, <4>1, <4>2, AlongSame
    <3> QED BY <1>1, <1>5, <3>1, <3>2
  <2> QED BY <2>2, <2>3
<1> QED BY <1>4, <1>5

(***************************************************************************)
(* Between two rounds of z8lvc8's loop, for rings of any two sizes, any    *)
(* points, grays and windows, and as long as the ring has not been full: a *)
(* pixel not cleared with the button is lit exactly if a point that came   *)
(* to it is still in the ring, and in the gray of the latest; but for the  *)
(* pixel of (0,0) while the index has a position there that never held a   *)
(* point.  The entries go in modulo MAXBUFFPTS, the old and the new ones   *)
(* are gone through modulo XYSIZE * XYSIZE; removing an old point does not *)
(* darken a newer one of its pixel, and neither an erase half way (the     *)
(* window first, the rings 450 ms later) nor a new window size leaves      *)
(* another pixel that no entry stands for.                                 *)
(***************************************************************************)
THEOREM ScreenIsTrue == VcSpec => []ScreenTrue
<1>1. VcAllInv /\ [VcNext]_vcVars => VcAllInv'
  <2> SUFFICES ASSUME VcAllInv, [VcNext]_vcVars PROVE VcAllInv'
    OBVIOUS
  <2>1. CASE UNCHANGED vcVars
    <3>1. UNCHANGED <<vcRing, vcScreen>> /\ stage' = stage
      BY <2>1 DEF vcVars, vcRing, vcScreen
    <3> QED BY <3>1, VcStill, NewestPreserved, NeverPreserved DEF VcAllInv
  <2>2. CASE VcNext
    <3>1. VcInv'
      BY <2>2, VcPdpInv, AwakeInv, DequeueInv, ReadFlagsInv, EraseWindowInv, EraseRingsInv,
         EraseDoneInv, ResizeInv, ExpireInv, ExpiredInv, DrawNewInv, ButtonsInv
         DEF VcAllInv, VcNext, VcThread
    <3> QED BY <3>1, NewestPreserved, NeverPreserved DEF VcAllInv
  <2> QED BY <2>1, <2>2
<1> QED BY VcAllInit, ScreenShown, <1>1, PTL DEF VcSpec

-----------------------------------------------------------------------------
(***************************************************************************)
(* What FlattenSeq computes: its recursion is well defined, by induction    *)
(* over the lengths for which it is.                                       *)
(***************************************************************************)

\* f puts the first n of the sequences together.
Flattens(f, seqs, n) ==
    \A i \in 1 .. n : f[i] = IF i = 1 THEN seqs[i] ELSE f[i - 1] \o seqs[i]

\* There is at most one way to put them together: look at the first that differs.
LEMMA FlattensUnique ==
    ASSUME NEW seqs, NEW n \in Nat, NEW f, NEW h, Flattens(f, seqs, n), Flattens(h, seqs, n)
    PROVE  \A i \in 1 .. n : f[i] = h[i]
<1> DEFINE T == {i \in 1 .. n : f[i] # h[i]}
<1> SUFFICES ASSUME T # {} PROVE FALSE
  OBVIOUS
<1>1. T \subseteq Nat
  OBVIOUS
<1>2. PICK i \in T : \A j \in T : i <= j
  BY <1>1, NatLeast
<1>3. i \in 1 .. n /\ f[i] # h[i]
  OBVIOUS
<1>4. i # 1 => f[i - 1] = h[i - 1]
  BY <1>2, <1>3
<1>5. /\ f[i] = IF i = 1 THEN seqs[i] ELSE f[i - 1] \o seqs[i]
      /\ h[i] = IF i = 1 THEN seqs[i] ELSE h[i - 1] \o seqs[i]
  BY <1>3 DEF Flattens
<1> QED BY Zenon, <1>3, <1>4, <1>5

\* There is one for each length: look at the first length without.
LEMMA FlattensExist ==
    ASSUME NEW S, NEW seqs \in Seq(Seq(S)), NEW n \in 0 .. Len(seqs)
    PROVE  \E f \in [1 .. n -> Seq(S)] : Flattens(f, seqs, n)
<1> DEFINE T == {k \in 0 .. Len(seqs) : ~ \E f \in [1 .. k -> Seq(S)] : Flattens(f, seqs, k)}
<1> SUFFICES ASSUME T # {} PROVE FALSE
  OBVIOUS
<1>1. T \subseteq Nat
  OBVIOUS
<1>2. PICK k \in T : \A j \in T : k <= j
  BY <1>1, NatLeast
<1>3. k \in 0 .. Len(seqs) /\ ~ \E f \in [1 .. k -> Seq(S)] : Flattens(f, seqs, k)
  OBVIOUS
<1>4. k # 0
  <2>1. [i \in 1 .. 0 |-> <<>>] \in [1 .. 0 -> Seq(S)] /\ Flattens([i \in 1 .. 0 |-> <<>>], seqs, 0)
    BY DEF Flattens
  <2> QED BY <1>3, <2>1
<1>5. k - 1 \in 0 .. Len(seqs) /\ k - 1 \notin T
  <2>1. k - 1 \in T => k <= k - 1
    BY <1>2
  <2>2. k - 1 \in 0 .. Len(seqs) /\ ~ (k <= k - 1)
    BY <1>3, <1>4
  <2> HIDE DEF T
  <2> QED BY Zenon, <2>1, <2>2
<1>6. PICK f \in [1 .. k - 1 -> Seq(S)] : Flattens(f, seqs, k - 1)
  BY <1>5
<1> DEFINE more == IF k = 1 THEN seqs[k] ELSE f[k - 1] \o seqs[k]
           g == [i \in 1 .. k |-> IF i < k THEN f[i] ELSE more]
<1>7. more \in Seq(S)
  <2>1. seqs[k] \in Seq(S)
    BY <1>3, <1>4
  <2>2. k # 1 => f[k - 1] \in Seq(S)
    BY <1>3, <1>4
  <2> QED BY <2>1, <2>2
<1>8. g \in [1 .. k -> Seq(S)]
  BY <1>3, <1>4, <1>7
<1>9. ASSUME NEW i \in 1 .. k PROVE g[i] = IF i = 1 THEN seqs[i] ELSE g[i - 1] \o seqs[i]
  <2>1. CASE i < k
    <3>1. f[i] = IF i = 1 THEN seqs[i] ELSE f[i - 1] \o seqs[i]
      <4>1. i \in 1 .. k - 1
        BY <1>3, <2>1
      <4> QED BY Zenon, <1>6, <4>1 DEF Flattens
    <3>2. g[i] = f[i] /\ (i # 1 => g[i - 1] = f[i - 1])
      BY <1>3, <2>1
    <3> HIDE DEF g
    <3> QED BY Zenon, <3>1, <3>2
  <2>2. CASE i = k
    <3>1. g[i] = more /\ (i # 1 => g[i - 1] = f[k - 1])
      BY <1>3, <2>2
    <3> HIDE DEF g
    <3> QED BY Zenon, <2>2, <3>1
  <2> QED BY <1>3, <2>1, <2>2
<1>10. Flattens(g, seqs, k)
  <2> HIDE DEF g
  <2> QED BY Zenon, <1>9 DEF Flattens
<1> HIDE DEF g
<1> QED BY Zenon, <1>3, <1>8, <1>10

\* So FlattenSeq is the last of any of them.
LEMMA FlattenIs ==
    ASSUME NEW S, NEW seqs \in Seq(Seq(S)), NEW f \in [1 .. Len(seqs) -> Seq(S)],
           Flattens(f, seqs, Len(seqs)), Len(seqs) # 0
    PROVE  FlattenSeq(seqs) = f[Len(seqs)]
<1> DEFINE n == Len(seqs)
           P(h) == h = [i \in 1 .. n |-> IF i = 1 THEN seqs[i] ELSE h[i - 1] \o seqs[i]]
           h == CHOOSE h : P(h)
<1>1. n \in Nat /\ n # 0
  OBVIOUS
<1>2. FlattenSeq(seqs) = h[n]
  BY Zenon DEF FlattenSeq
<1>3. f = [i \in 1 .. n |-> f[i]]
  OBVIOUS
<1>4. P(f)
  <2>1. \A i \in 1 .. n : f[i] = IF i = 1 THEN seqs[i] ELSE f[i - 1] \o seqs[i]
    BY Zenon DEF Flattens
  <2> HIDE DEF n
  <2> QED BY Zenon, <1>3, <2>1
<1>5. P(h)
  <2> HIDE DEF P
  <2> QED BY Zenon, <1>4
<1>6. Flattens(h, seqs, n)
  <2>1. h = [i \in 1 .. n |-> IF i = 1 THEN seqs[i] ELSE h[i - 1] \o seqs[i]]
    BY Zenon, <1>5
  <2> HIDE DEF h, n
  <2> QED BY Zenon, <2>1 DEF Flattens
<1>7. f[n] = h[n]
  <2> HIDE DEF h
  <2> QED BY <1>1, <1>6, FlattensUnique
<1> QED BY Zenon, <1>2, <1>7

\* One more sequence is put at the end.
LEMMA FlattenMore ==
    ASSUME NEW S, NEW seqs \in Seq(Seq(S)), NEW s \in Seq(S)
    PROVE  FlattenSeq(Append(seqs, s)) = FlattenSeq(seqs) \o s /\ FlattenSeq(seqs) \in Seq(S)
<1> DEFINE n == Len(seqs)
           t == Append(seqs, s)
<1>1. t \in Seq(Seq(S)) /\ Len(t) = n + 1 /\ n \in Nat /\ n + 1 \in 0 .. Len(t) /\ n \in 0 .. Len(seqs)
  OBVIOUS
<1>2. /\ \A i \in 1 .. n : t[i] = seqs[i]
      /\ t[n + 1] = s
  OBVIOUS
<1> HIDE DEF t, n
<1>3. PICK h \in [1 .. n + 1 -> Seq(S)] : Flattens(h, t, n + 1)
  BY <1>1, FlattensExist
<1>4. PICK f \in [1 .. n -> Seq(S)] : Flattens(f, seqs, n)
  BY <1>1, FlattensExist
<1>5. FlattenSeq(t) = h[n + 1]
  BY <1>1, <1>3, FlattenIs
<1>6. h[n + 1] = IF n + 1 = 1 THEN s ELSE h[n] \o s
  <2>1. n + 1 \in 1 .. n + 1 /\ n + 1 - 1 = n
    BY <1>1
  <2> DEFINE m == n + 1
  <2>2. h[m] = IF m = 1 THEN t[m] ELSE h[m - 1] \o t[m]
    <3>1. m \in 1 .. m /\ Flattens(h, t, m)
      BY <1>3, <2>1
    <3> HIDE DEF m
    <3> QED BY Zenon, <3>1 DEF Flattens
  <2>3. h[n + 1 - 1] = h[n]
    BY Zenon, <2>1
  <2>4. m = n + 1 /\ t[m] = s /\ h[m - 1] = h[n] /\ h[m] = h[n + 1]
    BY <1>1, <1>2, <2>3
  <2> HIDE DEF m
  <2> QED BY Zenon, <2>2, <2>4
<1>7. Flattens(h, seqs, n)
  <2>1. \A i \in 1 .. n : i \in 1 .. n + 1
    BY <1>1
  <2> QED BY Zenon, <1>2, <1>3, <2>1 DEF Flattens
<1>8. CASE n = 0
  <2>1. FlattenSeq(seqs) = <<>>
    <3>1. seqs = <<>>
      BY <1>8 DEF n
    <3>2. Len(seqs) = 0
      BY <1>8 DEF n
    <3>3. FlattenSeq(seqs) = seqs
      BY Zenon, <3>2 DEF FlattenSeq
    <3> QED BY <3>1, <3>3
  <2>2. <<>> \o s = s /\ <<>> \in Seq(S)
    OBVIOUS
  <2> QED BY <1>1, <1>5, <1>6, <1>8, <2>1, <2>2 DEF t
<1>9. CASE n # 0
  <2>1. FlattenSeq(seqs) = f[n] /\ f[n] \in Seq(S)
    <3>1. n = Len(seqs)
      BY DEF n
    <3>2. n \in 1 .. n
      BY <1>1, <1>9
    <3> QED BY <1>4, <1>9, <3>1, <3>2, FlattenIs
  <2>2. f[n] = h[n]
    <3>1. n \in 1 .. n
      BY <1>1, <1>9
    <3>2. \A i \in 1 .. n : f[i] = h[i]
      <4>1. n \in Nat
        BY <1>1
      <4> QED BY <4>1, <1>4, <1>7, FlattensUnique
    <3> QED BY Zenon, <3>1, <3>2
  <2> QED BY <1>1, <1>5, <1>6, <1>9, <2>1, <2>2 DEF t
<1> QED BY <1>8, <1>9

-----------------------------------------------------------------------------
(***************************************************************************)
(* The paper tape reader.                                                  *)
(***************************************************************************)

\* Byte k of a tape is a LF that -inscr puts a CR in front of.
NeedsCr(tape, k) == /\ "inscr" \in tapeOpts /\ Low7(tape[k]) = LF
                    /\ k = 1 \/ Low7(tape[k - 1]) # CR
\* The last of the first n bytes is a CR: lastcr of the code.
EndsCr(tape, n) == n > 0 /\ Low7(tape[n]) = CR
\* What byte k becomes
Given(tape, k) == IF NeedsCr(tape, k) THEN <<PtrMask(tape[k] + 3), PtrMask(tape[k])>>
                                      ELSE <<PtrMask(tape[k])>>

\* What a tape's first n bytes become
TextTo(tape, n) == FlattenSeq([k \in 1 .. n |-> Given(tape, k)])

\* Masks and bytes are numbers.
LEMMA MaskIs == ASSUME NEW byte \in Nat PROVE PtrMask(byte) \in Nat
  BY DEF PtrMask, TopBit

LEMMA ByteIs ==
    ASSUME NEW tape \in Seq(0 .. 255), NEW k \in 1 .. Len(tape)
    PROVE  tape[k] \in 0 .. 255 /\ tape[k] \in Nat /\ tape[k] + 3 \in Nat
<1>1. tape[k] \in 0 .. 255
  BY ElementOfSeq
<1>2. \A b \in 0 .. 255 : b \in Nat /\ b + 3 \in Nat
  OBVIOUS
<1> QED BY Zenon, <1>1, <1>2

LEMMA GivenType ==
    ASSUME NEW tape \in Seq(0 .. 255), NEW k \in 1 .. Len(tape)
    PROVE  Given(tape, k) \in Seq(Nat)
<1>1. tape[k] \in Nat /\ tape[k] + 3 \in Nat
  BY ByteIs
<1>2. PtrMask(tape[k] + 3) \in Nat /\ PtrMask(tape[k]) \in Nat
  BY <1>1, MaskIs
<1> QED BY <1>2 DEF Given

\* The sequences flattened grow with the tape.
LEMMA GivenMore ==
    ASSUME NEW tape \in Seq(0 .. 255), NEW n \in 0 .. Len(tape)
    PROVE  /\ [k \in 1 .. n |-> Given(tape, k)] \in Seq(Seq(Nat))
           /\ n > 0 => [k \in 1 .. n |-> Given(tape, k)]
                       = Append([k \in 1 .. n - 1 |-> Given(tape, k)], Given(tape, n))
<1> DEFINE g(k) == Given(tape, k)
<1>1. \A k \in 1 .. Len(tape) : g(k) \in Seq(Nat)
  BY GivenType
<1> HIDE DEF g
<1>2. Len(tape) \in Nat
  OBVIOUS
<1>3. [k \in 1 .. n |-> g(k)] \in Seq(Seq(Nat))
  BY <1>1, <1>2
<1>4. ASSUME n > 0 PROVE [k \in 1 .. n |-> g(k)] = Append([k \in 1 .. n - 1 |-> g(k)], g(n))
  <2>1. [k \in 1 .. n - 1 |-> g(k)] \in Seq(Seq(Nat)) /\ g(n) \in Seq(Nat)
    BY <1>1, <1>2, <1>4
  <2>2. /\ Append([k \in 1 .. n - 1 |-> g(k)], g(n)) \in Seq(Seq(Nat))
        /\ Len(Append([k \in 1 .. n - 1 |-> g(k)], g(n))) = n
    BY <2>1, <1>2, <1>4
  <2>3. \A i \in 1 .. n : Append([k \in 1 .. n - 1 |-> g(k)], g(n))[i] = g(i)
    BY <2>1, <1>2, <1>4
  <2> DEFINE p == [k \in 1 .. n |-> g(k)]
             q == Append([k \in 1 .. n - 1 |-> g(k)], g(n))
  <2>4. p \in Seq(Seq(Nat)) /\ q \in Seq(Seq(Nat)) /\ Len(p) = n /\ Len(q) = n
        /\ \A i \in 1 .. n : p[i] = q[i]
    <3>1. p \in Seq(Seq(Nat)) /\ q \in Seq(Seq(Nat)) /\ Len(q) = n
      BY Zenon, <1>3, <2>2
    <3>2. Len(p) = n
      <4>1. n \in Nat /\ DOMAIN p = 1 .. n
        BY <1>2
      <4> HIDE DEF p
      <4> QED BY <3>1, <4>1, LenProperties
    <3>3. \A i \in 1 .. n : p[i] = g(i)
      OBVIOUS
    <3>4. \A i \in 1 .. n : q[i] = g(i)
      BY <2>3
    <3> HIDE DEF p, q
    <3> QED BY Zenon, <3>1, <3>2, <3>3, <3>4
  <2> HIDE DEF p, q
  <2>5. p = q
    BY <2>4, SeqEqual
  <2> QED BY <2>5 DEF p, q
<1> QED BY <1>3, <1>4 DEF g

\* The text of one more byte
LEMMA TextMore ==
    ASSUME NEW tape \in Seq(0 .. 255), NEW n \in 1 .. Len(tape)
    PROVE  TextTo(tape, n) = TextTo(tape, n - 1) \o Given(tape, n) /\ TextTo(tape, n - 1) \in Seq(Nat)
<1>1. n - 1 \in 0 .. Len(tape) /\ n \in 0 .. Len(tape) /\ n > 0
  OBVIOUS
<1>2. [k \in 1 .. n - 1 |-> Given(tape, k)] \in Seq(Seq(Nat)) /\ Given(tape, n) \in Seq(Nat)
  BY <1>1, GivenMore, GivenType
<1>3. [k \in 1 .. n |-> Given(tape, k)] = Append([k \in 1 .. n - 1 |-> Given(tape, k)], Given(tape, n))
  BY <1>1, GivenMore
<1> QED BY Zenon, <1>2, <1>3, FlattenMore DEF TextTo

\* The text of no byte, and its type
LEMMA TextNone == ASSUME NEW tape PROVE TextTo(tape, 0) = <<>>
<1>1. [k \in 1 .. 0 |-> Given(tape, k)] = <<>>
  OBVIOUS
<1>2. Len(<<>>) = 0
  OBVIOUS
<1> QED BY Zenon, <1>1, <1>2 DEF TextTo, FlattenSeq

LEMMA TextType ==
    ASSUME NEW tape \in Seq(0 .. 255), NEW n \in 0 .. Len(tape)
    PROVE  TextTo(tape, n) \in Seq(Nat)
<1>1. CASE n = 0
  <2>1. <<>> \in Seq(Nat)
    OBVIOUS
  <2> QED BY Zenon, <1>1, <2>1, TextNone
<1>2. CASE n # 0
  <2>1. n \in 1 .. Len(tape)
    BY <1>2
  <2>2. TextTo(tape, n) = TextTo(tape, n - 1) \o Given(tape, n) /\ TextTo(tape, n - 1) \in Seq(Nat)
    BY Zenon, <2>1, TextMore
  <2>3. Given(tape, n) \in Seq(Nat)
    BY Zenon, <2>1, GivenType
  <2> QED BY <2>2, <2>3
<1> QED BY <1>1, <1>2

\* The text of the whole tape; the options stay as they are.
LEMMA TextIs == ASSUME NEW tape \in Seq(0 .. 255) PROVE TapeText(tape) = TextTo(tape, Len(tape))
<1>1. DOMAIN tape = 1 .. Len(tape)
  OBVIOUS
<1> QED BY Zenon, <1>1 DEF TapeText, TextTo, Given, NeedsCr

LEMMA TextStays ==
    ASSUME UNCHANGED tapeOpts, NEW tape, NEW n
    PROVE  TextTo(tape, n)' = TextTo(tape, n) /\ (NeedsCr(tape, n)' <=> NeedsCr(tape, n))
                   /\ (\A b : PtrMask(b)' = PtrMask(b))
  BY DEF TextTo, NeedsCr, Given, PtrMask

(* Prefixes. *)
LEMMA PrefixIs ==
    ASSUME NEW s \in Seq(Nat), NEW t \in Seq(Nat)
    PROVE  IsPrefix(s, t) <=> Len(s) <= Len(t) /\ \A i \in 1 .. Len(s) : s[i] = t[i]
<1>1. CASE Len(s) <= Len(t)
  <2>1. SubSeq(s, 1, Len(s)) = s
    OBVIOUS
  <2>2. SubSeq(t, 1, Len(s)) \in Seq(Nat) /\ Len(SubSeq(t, 1, Len(s))) = Len(s)
        /\ \A i \in 1 .. Len(s) : SubSeq(t, 1, Len(s))[i] = t[i]
    BY <1>1
  <2>3. s = SubSeq(t, 1, Len(s)) <=> \A i \in 1 .. Len(s) : s[i] = t[i]
    BY <2>2
  <2> QED BY <1>1, <2>1, <2>3 DEF IsPrefix
<1>2. CASE ~ (Len(s) <= Len(t))
  BY <1>2 DEF IsPrefix
<1> QED BY <1>1, <1>2

\* What the first bytes become is a prefix of what all of them do.
LEMMA TextPrefix ==
    ASSUME NEW tape \in Seq(0 .. 255), NEW n \in 0 .. Len(tape)
    PROVE  IsPrefix(TextTo(tape, n), TextTo(tape, Len(tape)))
<1> DEFINE T == {k \in Nat : k <= Len(tape) /\ ~ IsPrefix(TextTo(tape, Len(tape) - k), TextTo(tape, Len(tape)))}
<1>1. T = {}
  <2> SUFFICES ASSUME T # {} PROVE FALSE
    OBVIOUS
  <2>1. T \subseteq Nat
    OBVIOUS
  <2>2. PICK k \in T : \A j \in T : k <= j
    BY <2>1, NatLeast
  <2> DEFINE m == Len(tape) - k
             all == TextTo(tape, Len(tape))
  <2>3. k \in Nat /\ m \in 0 .. Len(tape) /\ ~ IsPrefix(TextTo(tape, m), all)
    OBVIOUS
  <2>4. Len(tape) \in 0 .. Len(tape) /\ TextTo(tape, m) \in Seq(Nat) /\ all \in Seq(Nat)
    BY <2>3, TextType
  <2>5. k # 0
    <3>1. CASE k = 0
      <4>1. m = Len(tape)
        BY <3>1
      <4>2. IsPrefix(all, all)
        <5> HIDE DEF all
        <5> QED BY <2>4, PrefixIs
      <4> QED BY <2>3, <4>1, <4>2
    <3> QED BY <3>1
  <2>6. /\ k - 1 \in Nat /\ k - 1 <= Len(tape) /\ m + 1 \in 1 .. Len(tape)
        /\ m + 1 = Len(tape) - (k - 1) /\ m + 1 - 1 = m
    BY <2>3, <2>5
  <2>7. IsPrefix(TextTo(tape, m + 1), all)
    <3>1. k - 1 \in T => k <= k - 1
      BY <2>2
    <3>2. ~ (k <= k - 1)
      BY <2>3
    <3>3. k - 1 \notin T
      <4> HIDE DEF T
      <4> QED BY <3>1, <3>2
    <3> QED BY <2>6, <3>3
  <2>8. TextTo(tape, m + 1) = TextTo(tape, m) \o Given(tape, m + 1) /\ Given(tape, m + 1) \in Seq(Nat)
    <3> DEFINE more == m + 1
    <3>1. more \in 1 .. Len(tape) /\ more - 1 = m
      BY <2>6
    <3> HIDE DEF more, m
    <3>2. TextTo(tape, more) = TextTo(tape, more - 1) \o Given(tape, more) /\ Given(tape, more) \in Seq(Nat)
      BY Zenon, <3>1, TextMore, GivenType
    <3> QED BY <3>1, <3>2 DEF more
  <2>9. IsPrefix(TextTo(tape, m), all)
    <3> DEFINE a == TextTo(tape, m)
               b == Given(tape, m + 1)
               c == TextTo(tape, m + 1)
    <3>1. a \in Seq(Nat) /\ b \in Seq(Nat) /\ c = a \o b /\ c \in Seq(Nat) /\ IsPrefix(c, all) /\ all \in Seq(Nat)
      <4>1. a \in Seq(Nat) /\ b \in Seq(Nat) /\ c = a \o b /\ IsPrefix(c, all) /\ all \in Seq(Nat)
        BY Zenon, <2>4, <2>7, <2>8
      <4> HIDE DEF a, b, c, all
      <4> QED BY <4>1
    <3> HIDE DEF a, b, c, all
    <3>2. Len(c) <= Len(all) /\ \A i \in 1 .. Len(c) : c[i] = all[i]
      BY <3>1, PrefixIs
    <3>3. Len(a) <= Len(c) /\ \A i \in 1 .. Len(a) : c[i] = a[i]
      BY <3>1
    <3>4. Len(a) <= Len(all) /\ \A i \in 1 .. Len(a) : a[i] = all[i]
      BY <3>1, <3>2, <3>3
    <3> QED BY <3>1, <3>4, PrefixIs DEF a
  <2> QED BY <2>3, <2>9
<1>2. Len(tape) - n \in Nat /\ Len(tape) - n <= Len(tape) /\ Len(tape) - (Len(tape) - n) = n
  OBVIOUS
<1> HIDE DEF T
<1>3. Len(tape) - n \notin T
  BY <1>1
<1> QED BY <1>2, <1>3 DEF T

-----------------------------------------------------------------------------
\* Where either program can be, and what the register can hold
PtrPcs == {"enable", "enable2", "poll", "read", "insert", "repoll", "give", "exit"}
PtpPcs == {"enable", "enable2", "poll", "write", "done", "closed", "exit"}
TapeRegs == [flag : BOOLEAN, step : BOOLEAN, char : Nat]

TapeTypeOK ==
    /\ tapeDev \in {"ptr", "ptp"}
    /\ tapePc \in (IF tapeDev = "ptr" THEN PtrPcs ELSE PtpPcs)
    /\ tapeReg \in TapeRegs /\ tapeVal \in TapeRegs
    /\ tapeFile \in Seq(Nat) /\ history \in Seq(Nat)
    /\ lastcr \in BOOLEAN /\ tapeAsked \in BOOLEAN /\ tapeCross \in BOOLEAN

\* What is in the register has not been read, or is about to be restored.
FlagInv ==
    /\ ~tapeCross \/ tapeDev = "ptr" => ~(tapeReg.flag /\ tapeReg.step)
    /\ tapePc \in {"enable", "enable2", "read", "insert", "give"} => ~tapeReg.flag
    /\ tapePc = "enable2" => ~tapeVal.flag

\* What has left the interface and the byte that waits in it
WithFlagged(h, reg) == h \o (IF reg.flag THEN <<reg.char>> ELSE <<>>)
Delivered == WithFlagged(history, tapeReg)

\* Where the reader is on a tape of which it has read n bytes
OnTape(tape, n) ==
    /\ tapeFile = SubSeq(tape, n + 1, Len(tape))
    /\ tapePc \in {"enable", "enable2", "poll", "read", "exit"} =>
          Delivered = TextTo(tape, n) /\ (lastcr <=> EndsCr(tape, n))
    /\ tapePc \in {"insert", "repoll", "give"} =>
          n > 0 /\ tapeVal.char = tape[n] /\ (lastcr <=> EndsCr(tape, n - 1))
    /\ tapePc = "insert" => NeedsCr(tape, n) /\ Delivered = TextTo(tape, n - 1)
    /\ tapePc = "repoll" =>
          NeedsCr(tape, n) /\ Delivered = TextTo(tape, n - 1) \o <<PtrMask(tape[n] + 3)>>
    /\ tapePc = "give" =>
          Delivered = IF NeedsCr(tape, n) THEN TextTo(tape, n - 1) \o <<PtrMask(tape[n] + 3)>>
                                          ELSE TextTo(tape, n - 1)

\* Some tape fits; the program need not know which.
ReaderInv == tapeDev = "ptr" => \E tape \in PtrTapes : \E n \in 0 .. Len(tape) : OnTape(tape, n)

\* Whether a byte is still in the punch
Unpunched == IF tapeReg.step /\ tapePc # "done" THEN 1 ELSE 0

\* What has been punched of the bytes given
Punched == SubSeq(history, 1, Len(history) - Unpunched)

\* As long as nothing crossed: the byte in hand is the one in the register, the
\* file has everything but the byte that is still busy.
PunchInv ==
    tapeDev = "ptp" /\ ~tapeCross =>
        /\ tapeReg.step => tapeAsked /\ Len(history) > 0 /\ tapeReg.char = history[Len(history)]
        /\ tapePc = "enable2" => tapeVal.step = tapeReg.step
        /\ tapePc \in {"write", "done"} => tapeReg.step /\ tapeVal.char = tapeReg.char
        /\ tapeFile = Leader \o Kept(Punched) \o Trailer

\* The inductive invariant
TapeInv == TapeTypeOK /\ FlagInv /\ ReaderInv /\ PunchInv

\* The cases of WithFlagged, and what a register holds
LEMMA FlaggedIs ==
    ASSUME NEW h \in Seq(Nat), NEW reg \in TapeRegs
    PROVE  /\ reg.flag => WithFlagged(h, reg) = Append(h, reg.char)
           /\ ~reg.flag => WithFlagged(h, reg) = h
           /\ WithFlagged(h, reg) \in Seq(Nat)
<1>1. reg.char \in Nat
  BY DEF TapeRegs
<1> QED BY <1>1 DEF WithFlagged

LEMMA RegIs ==
    ASSUME NEW flag \in BOOLEAN, NEW step \in BOOLEAN, NEW char \in Nat
    PROVE  /\ Register(flag, step, char) \in TapeRegs /\ Register(flag, step, char).flag = flag
           /\ Register(flag, step, char).step = step /\ Register(flag, step, char).char = char
  BY DEF Register, TapeRegs

\* What the reader's part of the invariant needs, with any bytes.
LEMMA TapesAre == PtrTapes \subseteq Seq(0 .. 255)
  BY PaperAssumption

\* The places in the reader at which no byte is in hand
NoByteYet == {"enable", "enable2", "poll", "read", "exit"}

\* The reader is where it was if what it delivered is as before.
LEMMA OnTapeStays ==
    ASSUME ReaderInv, tapeDev = "ptr", UNCHANGED <<tapeDev, tapeOpts, tapeFile, lastcr>>,
           Delivered' = Delivered,
           \/ tapePc \in NoByteYet /\ tapePc' \in NoByteYet
           \/ tapePc' = tapePc /\ tapeVal'.char = tapeVal.char
           \/ tapePc = "repoll" /\ tapePc' = "give" /\ tapeVal'.char = tapeVal.char
    PROVE  ReaderInv'
<1>1. PICK tape \in PtrTapes : \E n \in 0 .. Len(tape) : OnTape(tape, n)
  BY Zenon DEF ReaderInv
<1>2. PICK n \in 0 .. Len(tape) : OnTape(tape, n)
  BY <1>1
<1>3. /\ \A k : TextTo(tape, k)' = TextTo(tape, k)
      /\ NeedsCr(tape, n)' <=> NeedsCr(tape, n)
      /\ PtrMask(tape[n] + 3)' = PtrMask(tape[n] + 3)
  BY TextStays
<1>4. OnTape(tape, n)'
  <2>1. CASE tapePc \in NoByteYet /\ tapePc' \in NoByteYet
    BY <1>2, <1>3, <2>1 DEF OnTape, NoByteYet, EndsCr
  <2>2. CASE tapePc' = tapePc /\ tapeVal'.char = tapeVal.char
    BY <1>2, <1>3, <2>2 DEF OnTape, EndsCr
  <2>3. CASE tapePc = "repoll" /\ tapePc' = "give" /\ tapeVal'.char = tapeVal.char
    BY <1>2, <1>3, <2>3 DEF OnTape, EndsCr
  <2> QED BY <2>1, <2>2, <2>3
<1> QED BY Zenon, <1>1, <1>2, <1>4 DEF ReaderInv

\* The processor takes what is in the register, or nothing is in it.
LEMMA ReaderPdp ==
    ASSUME TapeInv, tapeDev = "ptr", TapePdp
    PROVE  TapeInv'
<1>1. UNCHANGED <<tapeDev, tapeOpts, tapePc, tapeVal, tapeFile, lastcr>> /\ (StepReader \/ ReadChar \/ TapeBinit)
  BY DEF TapePdp, device, Punch, SkipPunched
<1>2. TapeTypeOK /\ FlagInv /\ ReaderInv
  BY DEF TapeInv
<1>3. tapeReg.flag \in BOOLEAN /\ tapeReg.step \in BOOLEAN /\ tapeReg.char \in Nat
  BY <1>2 DEF TapeTypeOK, TapeRegs
<1>4. /\ tapeReg' \in TapeRegs /\ ~tapeReg'.flag
      /\ history' = IF tapeReg.flag THEN Append(history, tapeReg.char) ELSE history
      /\ tapeAsked' \in BOOLEAN /\ tapeCross' \in BOOLEAN
  BY <1>1, <1>2 DEF StepReader, ReadChar, TapeBinit, TapeTypeOK, TapeRegs
<1>5. Delivered' = Delivered /\ history' \in Seq(Nat)
  <2>1. history' = Delivered /\ Delivered \in Seq(Nat)
    BY <1>2, <1>4, FlaggedIs DEF TapeTypeOK, Delivered
  <2>2. Delivered' = WithFlagged(history', tapeReg')
    BY DEF Delivered
  <2>3. WithFlagged(history', tapeReg') = history'
    BY <1>4, <2>1, FlaggedIs
  <2> QED BY <2>1, <2>2, <2>3
<1>6. ReaderInv'
  BY <1>1, <1>2, <1>5, OnTapeStays
<1>7. TapeTypeOK' /\ FlagInv' /\ PunchInv'
  BY <1>1, <1>2, <1>4, <1>5 DEF TapeTypeOK, FlagInv, PunchInv
<1> QED BY <1>6, <1>7 DEF TapeInv

\* The board is enabled: nothing was flagged before.
LEMMA ReaderEnable ==
    ASSUME TapeInv, tapeDev = "ptr", Enable
    PROVE  TapeInv'
<1>1. UNCHANGED <<tapeDev, tapeOpts, tapeFile, lastcr, tapeAsked, history>>
  BY DEF Enable, device
<1>2. TapeTypeOK /\ FlagInv /\ ReaderInv
  BY DEF TapeInv
<1>3. tapeReg.flag \in BOOLEAN /\ tapeReg.step \in BOOLEAN /\ tapeReg.char \in Nat
  BY <1>2 DEF TapeTypeOK, TapeRegs
<1>4. Nothing \in TapeRegs /\ ~Nothing.flag /\ ~Nothing.step
  BY RegIs DEF Nothing
<1>5. /\ tapePc \in {"enable", "enable2"} /\ tapePc' \in {"enable2", "poll"} /\ ~tapeReg.flag
      /\ tapeReg' \in TapeRegs /\ ~tapeReg'.flag /\ tapeVal' \in TapeRegs /\ tapeCross' \in BOOLEAN
      /\ tapePc' = "enable2" => ~tapeVal'.flag
  <2>1. CASE tapePc = "enable" /\ "clear" \in tapeOpts
    <3>1. /\ tapeReg' = Register(FALSE, FALSE, 0) /\ tapePc' = "poll" /\ tapeVal' = tapeVal
          /\ tapeCross' = (tapeCross \/ tapeReg.step)
      BY <2>1 DEF Enable
    <3>2. tapeReg' \in TapeRegs /\ ~tapeReg'.flag
      BY <3>1, RegIs
    <3> QED BY <1>2, <1>3, <2>1, <3>1, <3>2 DEF TapeTypeOK, FlagInv
  <2>2. CASE tapePc = "enable" /\ "clear" \notin tapeOpts
    BY <1>2, <2>2 DEF Enable, TapeTypeOK, FlagInv
  <2>3. CASE tapePc = "enable2"
    BY <1>2, <1>4, <2>3 DEF Enable, TapeTypeOK, FlagInv
  <2> QED BY <2>1, <2>2, <2>3 DEF Enable
<1>6. Delivered' = Delivered
  <2>1. history \in Seq(Nat) /\ tapeReg \in TapeRegs
    BY <1>2 DEF TapeTypeOK
  <2>2. WithFlagged(history, tapeReg) = history /\ WithFlagged(history, tapeReg') = history
    BY <1>5, <2>1, FlaggedIs
  <2> QED BY <1>1, <2>2 DEF Delivered
<1>7. ReaderInv'
  BY <1>1, <1>2, <1>5, <1>6, OnTapeStays DEF NoByteYet
<1>8. TapeTypeOK' /\ FlagInv' /\ PunchInv'
  BY <1>1, <1>2, <1>5 DEF TapeTypeOK, FlagInv, PunchInv, PtrPcs
<1> QED BY <1>7, <1>8 DEF TapeInv

\* A poll finds the motor stopped or the step bit set, or the program ends.
LEMMA ReaderPoll ==
    ASSUME TapeInv, tapeDev = "ptr", PtrPoll,
           UNCHANGED <<device, tapeAsked, history, tapeCross, tapeLeft>>
    PROVE  TapeInv'
<1>1. /\ UNCHANGED <<tapeDev, tapeOpts, tapeFile, lastcr, tapeAsked, history, tapeCross, tapeVal>>
      /\ tapePc = "poll" /\ tapePc' = "read" /\ tapeReg.step /\ tapeReg' = Nothing
  BY DEF PtrPoll, device
<1>2. TapeTypeOK /\ FlagInv /\ ReaderInv
  BY DEF TapeInv
<1>3. Nothing \in TapeRegs /\ ~Nothing.flag /\ ~Nothing.step
  BY RegIs DEF Nothing
<1>4. Delivered' = Delivered
  <2>1. history \in Seq(Nat) /\ tapeReg \in TapeRegs /\ ~tapeReg.flag
    BY <1>1, <1>2 DEF TapeTypeOK, FlagInv
  <2>2. WithFlagged(history, tapeReg) = history /\ WithFlagged(history, Nothing) = history
    BY <1>3, <2>1, FlaggedIs
  <2> QED BY <1>1, <2>2 DEF Delivered
<1>5. ReaderInv'
  BY <1>1, <1>2, <1>4, OnTapeStays DEF NoByteYet
<1>6. TapeTypeOK' /\ FlagInv' /\ PunchInv'
  BY <1>1, <1>2, <1>3 DEF TapeTypeOK, FlagInv, PunchInv, PtrPcs
<1> QED BY <1>5, <1>6 DEF TapeInv

\* The next byte of the tape
LEMMA NextByte ==
    ASSUME NEW tape \in Seq(0 .. 255), NEW n \in 0 .. Len(tape), SubSeq(tape, n + 1, Len(tape)) # <<>>
    PROVE  /\ n + 1 \in 1 .. Len(tape)
           /\ Head(SubSeq(tape, n + 1, Len(tape))) = tape[n + 1]
           /\ Tail(SubSeq(tape, n + 1, Len(tape))) = SubSeq(tape, n + 1 + 1, Len(tape))
           /\ tape[n + 1] \in 0 .. 255
<1>1. Len(tape) \in Nat
  OBVIOUS
<1>2. n + 1 \in 1 .. Len(tape)
  <2>1. CASE n = Len(tape)
    BY <1>1, <2>1
  <2>2. CASE n # Len(tape)
    BY <1>1, <2>2
  <2> QED BY <2>1, <2>2
<1>3. SubSeq(tape, n + 1, Len(tape)) \in Seq(0 .. 255) /\ Len(SubSeq(tape, n + 1, Len(tape))) = Len(tape) - n
  <2> DEFINE m == Len(tape)
  <2>1. \A i \in n + 1 .. m : tape[i] \in 0 .. 255
    <3>1. \A i \in n + 1 .. m : i \in 1 .. Len(tape)
      BY <1>1
    <3> QED BY Zenon, <3>1, ByteIs
  <2>2. m \in Nat /\ n + 1 \in Nat /\ n + 1 <= m + 1 /\ m <= Len(tape)
    BY <1>1
  <2> QED BY <2>1, <2>2, <1>1
<1>4. Head(SubSeq(tape, n + 1, Len(tape))) = tape[n + 1]
  BY <1>1, <1>2, <1>3
<1>5. Tail(SubSeq(tape, n + 1, Len(tape))) = SubSeq(tape, n + 1 + 1, Len(tape))
  BY <1>1, <1>2, <1>3, SubSeqRecursiveFirst
<1>6. tape[n + 1] \in 0 .. 255
  BY <1>2, ElementOfSeq
<1> QED BY <1>2, <1>4, <1>5, <1>6

\* The next byte is taken from the tape; a CR is to go before a LF, or the tape is at its end.
LEMMA ReaderRead ==
    ASSUME TapeInv, tapeDev = "ptr", PtrRead,
           UNCHANGED <<device, tapeAsked, history, tapeCross, tapeLeft>>
    PROVE  TapeInv'
<1>1. /\ UNCHANGED <<tapeDev, tapeOpts, tapeAsked, history, tapeCross, tapeReg, lastcr>>
      /\ tapePc = "read"
  BY DEF PtrRead, device
<1>2. TapeTypeOK /\ FlagInv /\ ReaderInv
  BY DEF TapeInv
<1>3. Delivered' = Delivered
  BY <1>1 DEF Delivered, WithFlagged
<1>4. CASE tapePc' = "exit" /\ UNCHANGED <<tapeFile, tapeVal>>
  <2>1. ReaderInv'
    BY <1>1, <1>2, <1>3, <1>4, OnTapeStays DEF NoByteYet
  <2>2. TapeTypeOK' /\ FlagInv' /\ PunchInv'
    BY <1>1, <1>2, <1>4 DEF TapeTypeOK, FlagInv, PunchInv, PtrPcs
  <2> QED BY <2>1, <2>2 DEF TapeInv
<1>5. CASE /\ tapeFile # <<>>
           /\ tapeVal' = Byte(Head(tapeFile)) /\ tapeFile' = Tail(tapeFile)
           /\ tapePc' = IF Low7(Head(tapeFile)) = LF /\ "inscr" \in tapeOpts /\ ~lastcr
                        THEN "insert" ELSE "give"
  <2>1. PICK tape \in PtrTapes : \E n \in 0 .. Len(tape) : OnTape(tape, n)
    BY Zenon, <1>1, <1>2 DEF ReaderInv
  <2>2. PICK n \in 0 .. Len(tape) : OnTape(tape, n)
    BY <2>1
  <2>3. tape \in Seq(0 .. 255)
    BY TapesAre
  <2> DEFINE k == n + 1
  <2>4. /\ tapeFile = SubSeq(tape, n + 1, Len(tape)) /\ Delivered = TextTo(tape, n)
        /\ lastcr <=> EndsCr(tape, n)
    BY <1>1, <2>2 DEF OnTape
  <2>5. /\ k \in 1 .. Len(tape) /\ Head(tapeFile) = tape[k] /\ tapeFile' = SubSeq(tape, k + 1, Len(tape))
        /\ tape[k] \in 0 .. 255 /\ tape[k] \in Nat
    <3>1. /\ k \in 1 .. Len(tape) /\ Head(tapeFile) = tape[k] /\ Tail(tapeFile) = SubSeq(tape, k + 1, Len(tape))
      BY <1>5, <2>3, <2>4, NextByte
    <3> HIDE DEF k
    <3> QED BY Zenon, <1>5, <2>3, <3>1, ByteIs
  <2>6. tapeVal' = Register(FALSE, FALSE, tape[k]) /\ tapeVal'.char = tape[k] /\ tapeVal' \in TapeRegs
    BY <1>5, <2>5, RegIs DEF Byte
  <2>7. /\ TextTo(tape, n)' = TextTo(tape, n) /\ (NeedsCr(tape, k)' <=> NeedsCr(tape, k))
    BY <1>1, TextStays
  <2>8. NeedsCr(tape, k) <=> Low7(Head(tapeFile)) = LF /\ "inscr" \in tapeOpts /\ ~lastcr
    <3>1. k - 1 = n /\ (k = 1 <=> ~ (n > 0))
      BY <2>2
    <3> HIDE DEF k
    <3> QED BY <2>4, <2>5, <3>1 DEF NeedsCr, EndsCr
  <2>9. OnTape(tape, k)'
    <3>1. k - 1 = n /\ k > 0
      BY <2>2
    <3>2. EndsCr(tape, k - 1)' <=> EndsCr(tape, n)
      BY <3>1 DEF EndsCr
    <3>3. k' = k
      OBVIOUS
    <3> HIDE DEF k
    <3>4. tapePc' = IF NeedsCr(tape, k) THEN "insert" ELSE "give"
      BY <1>5, <2>8
    <3> QED BY <1>1, <1>3, <2>4, <2>5, <2>6, <2>7, <3>1, <3>2, <3>4 DEF OnTape
  <2>10. ReaderInv'
    <3>1. k \in 0 .. Len(tape)
      BY <2>5
    <3> HIDE DEF k
    <3> QED BY Zenon, <2>1, <2>9, <3>1 DEF ReaderInv
  <2>11. tapeFile' \in Seq(Nat)
    BY <1>2, <1>5 DEF TapeTypeOK
  <2>12. TapeTypeOK' /\ FlagInv' /\ PunchInv'
    BY <1>1, <1>2, <1>5, <2>6, <2>11 DEF TapeTypeOK, FlagInv, PunchInv, PtrPcs
  <2> QED BY <2>10, <2>12 DEF TapeInv
<1> QED BY <1>4, <1>5 DEF PtrRead, Exit

\* A character is put in the register, which the processor has emptied.
LEMMA GiveIs ==
    ASSUME TapeInv, tapeDev = "ptr", ~tapeReg.flag, NEW byte \in Nat, Give(byte), history' = history
    PROVE  /\ tapeReg' \in TapeRegs /\ tapeReg'.flag /\ ~tapeReg'.step
           /\ Delivered' = Delivered \o <<PtrMask(byte)>>
<1>1. PtrMask(byte) \in Nat
  BY MaskIs
<1>2. tapeReg' \in TapeRegs /\ tapeReg'.flag = TRUE /\ tapeReg'.step = FALSE /\ tapeReg'.char = PtrMask(byte)
  <2>1. tapeReg' = Register(TRUE, FALSE, PtrMask(byte))
    BY DEF Give
  <2> QED BY <1>1, <2>1, RegIs
<1>3. history \in Seq(Nat) /\ tapeReg \in TapeRegs
  BY DEF TapeInv, TapeTypeOK
<1>4. Delivered = history /\ Delivered' = Append(history, PtrMask(byte))
  <2>1. WithFlagged(history, tapeReg) = history
    BY <1>3, FlaggedIs
  <2>2. WithFlagged(history, tapeReg') = Append(history, PtrMask(byte))
    BY <1>2, <1>3, FlaggedIs
  <2> QED BY <2>1, <2>2 DEF Delivered
<1>5. Append(history, PtrMask(byte)) = history \o <<PtrMask(byte)>>
  BY <1>1, <1>3
<1> QED BY <1>2, <1>4, <1>5

\* The CR goes first.
LEMMA ReaderInserts ==
    ASSUME TapeInv, tapeDev = "ptr", PtrInsert,
           UNCHANGED <<device, tapeAsked, history, tapeCross, tapeLeft>>
    PROVE  TapeInv'
<1>1. /\ UNCHANGED <<tapeDev, tapeOpts, tapeAsked, history, tapeCross, tapeVal, tapeFile, lastcr>>
  BY DEF PtrInsert, device
<1>2. TapeTypeOK /\ FlagInv /\ ReaderInv
  BY DEF TapeInv
<1>3. CASE tapePc = "insert" /\ Give(tapeVal.char - LF + CR) /\ tapePc' = "repoll"
  <2>1. PICK tape \in PtrTapes : \E n \in 0 .. Len(tape) : OnTape(tape, n)
    BY Zenon, <1>2 DEF ReaderInv
  <2>2. PICK n \in 0 .. Len(tape) : OnTape(tape, n)
    BY <2>1
  <2>3. tape \in Seq(0 .. 255)
    BY TapesAre
  <2>4. /\ tapeFile = SubSeq(tape, n + 1, Len(tape)) /\ Delivered = TextTo(tape, n - 1)
        /\ n > 0 /\ tapeVal.char = tape[n] /\ (lastcr <=> EndsCr(tape, n - 1)) /\ NeedsCr(tape, n)
    BY <1>3, <2>2 DEF OnTape
  <2>5. tape[n] \in Nat /\ tape[n] + 3 \in Nat /\ tape[n] - LF + CR = tape[n] + 3
    <3>1. n \in 1 .. Len(tape)
      BY <2>4
    <3>2. tape[n] \in Nat /\ tape[n] + 3 \in Nat
      BY Zenon, <2>3, <3>1, ByteIs
    <3> DEFINE byte == tape[n]
    <3>3. byte - LF + CR = byte + 3
      <4> HIDE DEF byte
      <4> QED BY <3>2 DEF LF, CR, byte
    <3> QED BY <3>2, <3>3
  <2>6. /\ TextTo(tape, n - 1)' = TextTo(tape, n - 1) /\ (NeedsCr(tape, n)' <=> NeedsCr(tape, n))
        /\ PtrMask(tape[n] + 3)' = PtrMask(tape[n] + 3)
    BY <1>1, TextStays
  <2>7. ~tapeReg.flag
    BY <1>2, <1>3 DEF FlagInv
  <2>8. /\ tapeReg' \in TapeRegs /\ tapeReg'.flag /\ ~tapeReg'.step
        /\ Delivered' = Delivered \o <<PtrMask(tape[n] + 3)>>
    BY <1>1, <1>3, <2>4, <2>5, <2>7, GiveIs
  <2>9. OnTape(tape, n)'
    BY <1>1, <1>3, <2>4, <2>6, <2>8 DEF OnTape, EndsCr
  <2>10. ReaderInv'
    BY Zenon, <2>1, <2>2, <2>9 DEF ReaderInv
  <2>11. TapeTypeOK' /\ FlagInv' /\ PunchInv'
    BY <1>1, <1>2, <1>3, <2>8 DEF TapeTypeOK, FlagInv, PunchInv, PtrPcs
  <2> QED BY <2>10, <2>11 DEF TapeInv
<1>4. CASE tapePc = "repoll" /\ tapeReg.step /\ tapePc' = "give" /\ tapeReg' = tapeReg
  <2>1. Delivered' = Delivered
    BY <1>1, <1>4 DEF Delivered, WithFlagged
  <2>2. ReaderInv'
    BY <1>1, <1>2, <1>4, <2>1, OnTapeStays
  <2>3. TapeTypeOK' /\ FlagInv' /\ PunchInv'
    BY <1>1, <1>2, <1>4 DEF TapeTypeOK, FlagInv, PunchInv, PtrPcs
  <2> QED BY <2>2, <2>3 DEF TapeInv
<1> QED BY <1>3, <1>4 DEF PtrInsert

\* The byte itself goes; a LF after its CR completes what the byte becomes.
LEMMA ReaderGives ==
    ASSUME TapeInv, tapeDev = "ptr", PtrGive,
           UNCHANGED <<device, tapeAsked, history, tapeCross, tapeLeft>>
    PROVE  TapeInv'
<1>1. /\ UNCHANGED <<tapeDev, tapeOpts, tapeAsked, history, tapeCross, tapeFile>>
      /\ tapePc = "give" /\ tapePc' = "poll" /\ Give(tapeVal.char) /\ tapeVal' = Nothing
      /\ lastcr' = (Low7(tapeVal.char) = CR)
  BY DEF PtrGive, device
<1>2. TapeTypeOK /\ FlagInv /\ ReaderInv
  BY DEF TapeInv
<1>3. PICK tape \in PtrTapes : \E n \in 0 .. Len(tape) : OnTape(tape, n)
  BY Zenon, <1>2 DEF ReaderInv
<1>4. PICK n \in 0 .. Len(tape) : OnTape(tape, n)
  BY <1>3
<1>5. tape \in Seq(0 .. 255)
  BY TapesAre
<1>6. /\ tapeFile = SubSeq(tape, n + 1, Len(tape))
      /\ n > 0 /\ tapeVal.char = tape[n]
      /\ Delivered = IF NeedsCr(tape, n) THEN TextTo(tape, n - 1) \o <<PtrMask(tape[n] + 3)>>
                                         ELSE TextTo(tape, n - 1)
  BY <1>1, <1>4 DEF OnTape
<1>7. tape[n] \in Nat /\ tape[n] + 3 \in Nat /\ PtrMask(tape[n]) \in Nat /\ PtrMask(tape[n] + 3) \in Nat
  <2>1. n \in 1 .. Len(tape)
    BY <1>6
  <2>2. tape[n] \in Nat /\ tape[n] + 3 \in Nat
    BY Zenon, <1>5, <2>1, ByteIs
  <2> QED BY <2>2, MaskIs
<1>8. /\ tapeReg' \in TapeRegs /\ tapeReg'.flag /\ ~tapeReg'.step
      /\ Delivered' = Delivered \o <<PtrMask(tape[n])>>
  BY <1>1, <1>2, <1>6, <1>7, GiveIs DEF FlagInv
<1>9. Delivered' = TextTo(tape, n)
  <2> DEFINE text == TextTo(tape, n - 1)
             a == PtrMask(tape[n] + 3)
             b == PtrMask(tape[n])
  <2>1. text \in Seq(Nat) /\ TextTo(tape, n) = text \o Given(tape, n)
    <3>1. n \in 1 .. Len(tape)
      BY <1>6
    <3> QED BY Zenon, <1>5, <3>1, TextMore
  <2>2. Given(tape, n) = IF NeedsCr(tape, n) THEN <<a, b>> ELSE <<b>>
    BY Zenon DEF Given
  <2>3. Delivered' = IF NeedsCr(tape, n) THEN (text \o <<a>>) \o <<b>> ELSE text \o <<b>>
    BY Zenon, <1>6, <1>8
  <2>4. a \in Nat /\ b \in Nat
    BY <1>7
  <2> HIDE DEF text, a, b
  <2>5. (text \o <<a>>) \o <<b>> = text \o <<a, b>>
    <3>1. <<a>> \in Seq(Nat) /\ <<b>> \in Seq(Nat) /\ <<a, b>> \in Seq(Nat)
      BY <2>4
    <3>2. <<a>> \o <<b>> = <<a, b>>
      <4>1. <<a>> \o <<b>> \in Seq(Nat) /\ Len(<<a>> \o <<b>>) = 2 /\ Len(<<a, b>>) = 2
        BY <3>1
      <4>2. \A i \in 1 .. 2 : (<<a>> \o <<b>>)[i] = <<a, b>>[i]
        BY <3>1
      <4> QED BY <3>1, <4>1, <4>2, SeqEqual
    <3>3. (text \o <<a>>) \o <<b>> = text \o (<<a>> \o <<b>>)
      BY <2>1, <3>1, ConcatAssociative
    <3> QED BY Zenon, <3>2, <3>3
  <2> QED BY Zenon, <2>1, <2>2, <2>3, <2>5
<1>10. TextTo(tape, n)' = TextTo(tape, n)
  BY <1>1, TextStays
<1>11. lastcr' <=> EndsCr(tape, n)
  BY <1>1, <1>6 DEF EndsCr
<1>12. OnTape(tape, n)'
  BY <1>1, <1>6, <1>9, <1>10, <1>11 DEF OnTape, EndsCr
<1>13. ReaderInv'
  BY Zenon, <1>3, <1>4, <1>12 DEF ReaderInv
<1>14. Nothing \in TapeRegs
  BY RegIs DEF Nothing
<1>15. TapeTypeOK' /\ FlagInv' /\ PunchInv'
  BY <1>1, <1>2, <1>8, <1>14 DEF TapeTypeOK, FlagInv, PunchInv, PtrPcs
<1> QED BY <1>13, <1>15 DEF TapeInv

-----------------------------------------------------------------------------
(***************************************************************************)
(* The punch.                                                              *)
(***************************************************************************)

\* What is left of one byte
Stays(byte) == IF Removed(PtpMask(byte)) THEN <<>> ELSE <<PtpMask(byte)>>

\* Kept, in terms of FlattenSeq
LEMMA StaysIs == ASSUME NEW byte \in Nat PROVE PtpMask(byte) \in Nat /\ Stays(byte) \in Seq(Nat)
<1>1. PtpMask(byte) \in Nat
  BY DEF PtpMask, Low7
<1> QED BY <1>1 DEF Stays

LEMMA KeptIs == ASSUME NEW bytes PROVE Kept(bytes) = FlattenSeq([k \in DOMAIN bytes |-> Stays(bytes[k])])
  BY Zenon DEF Kept, Stays

\* One more byte given is kept after the others, or is removed.
LEMMA KeptMore ==
    ASSUME NEW bytes \in Seq(Nat), NEW byte \in Nat
    PROVE  Kept(Append(bytes, byte)) = Kept(bytes) \o Stays(byte) /\ Kept(bytes) \in Seq(Nat)
<1> DEFINE f == [k \in DOMAIN bytes |-> Stays(bytes[k])]
           more == Append(bytes, byte)
           g == [k \in DOMAIN more |-> Stays(more[k])]
           n == Len(bytes)
<1>1. n \in Nat /\ DOMAIN bytes = 1 .. n /\ DOMAIN more = 1 .. n + 1 /\ more \in Seq(Nat)
  BY AppendProperties, LenProperties
<1>2. (\A k \in 1 .. n : more[k] = bytes[k] /\ bytes[k] \in Nat) /\ more[n + 1] = byte
  BY <1>1, AppendProperties, ElementOfSeq
<1>3. \A k \in 1 .. n : Stays(bytes[k]) \in Seq(Nat)
  BY <1>2, StaysIs
<1>4. Stays(byte) \in Seq(Nat)
  BY StaysIs
<1>5. f \in Seq(Seq(Nat)) /\ Len(f) = n
  <2> DEFINE st(k) == Stays(bytes[k])
  <2>1. \A k \in 1 .. n : st(k) \in Seq(Nat)
    BY <1>3
  <2>2. f = [k \in 1 .. n |-> st(k)]
    BY <1>1
  <2> HIDE DEF st, f
  <2>3. n \in Nat
    BY <1>1
  <2> HIDE DEF n
  <2>4. [k \in 1 .. n |-> st(k)] \in Seq(Seq(Nat))
    BY <2>1, <2>3
  <2>5. Len([k \in 1 .. n |-> st(k)]) = n
    BY <2>3
  <2> QED BY <2>2, <2>4, <2>5
<1>6. g = Append(f, Stays(byte))
  <2> DEFINE h == Append(f, Stays(byte))
  <2>1. /\ h \in Seq(Seq(Nat)) /\ Len(h) = n + 1 /\ DOMAIN h = 1 .. n + 1
        /\ (\A k \in 1 .. n : h[k] = f[k]) /\ h[n + 1] = Stays(byte)
    <3> DEFINE s == Stays(byte)
    <3>1. s \in Seq(Nat)
      BY <1>4
    <3> HIDE DEF s, f, n
    <3>2. Append(f, s) \in Seq(Seq(Nat)) /\ Len(Append(f, s)) = Len(f) + 1
      BY <1>5, <3>1
    <3>3. (\A k \in 1 .. Len(f) : Append(f, s)[k] = f[k]) /\ Append(f, s)[Len(f) + 1] = s
      BY <1>5, <3>1
    <3>4. DOMAIN Append(f, s) = 1 .. Len(f) + 1
      BY <3>2
    <3> QED BY Zenon, <1>5, <3>2, <3>3, <3>4 DEF s
  <2>2. \A k \in 1 .. n : f[k] = Stays(more[k])
    BY <1>1, <1>2
  <2>3. \A k \in 1 .. n + 1 : h[k] = Stays(more[k])
    <3>1. \A k \in 1 .. n + 1 : k \in 1 .. n \/ k = n + 1
      BY <1>1
    <3> HIDE DEF h, n, f, more
    <3> QED BY Zenon, <1>2, <2>1, <2>2, <3>1
  <2>4. h = [k \in DOMAIN h |-> h[k]]
    <3> HIDE DEF h
    <3> QED BY <2>1
  <2> HIDE DEF h, more, n
  <2>5. h = [k \in 1 .. n + 1 |-> Stays(more[k])]
    BY Zenon, <2>1, <2>3, <2>4
  <2>6. g = [k \in 1 .. n + 1 |-> Stays(more[k])]
    BY Zenon, <1>1
  <2> QED BY <2>5, <2>6 DEF h
<1> HIDE DEF f, g, n
<1>7. FlattenSeq(g) = FlattenSeq(f) \o Stays(byte) /\ FlattenSeq(f) \in Seq(Nat)
  BY Zenon, <1>4, <1>5, <1>6, FlattenMore
<1> QED BY Zenon, <1>7, KeptIs DEF f, g

\* The options stay as they are; what is kept are bytes.
LEMMA KeptStays == ASSUME UNCHANGED tapeOpts, NEW bytes PROVE Kept(bytes)' = Kept(bytes)
  BY DEF Kept, PtpMask, Removed

LEMMA KeptType == ASSUME NEW bytes \in Seq(Nat) PROVE Kept(bytes) \in Seq(Nat)
  BY KeptMore

\* All but the last byte given, while it is busy; one more byte given.
LEMMA PunchedIs ==
    ASSUME NEW h \in Seq(Nat)
    PROVE  /\ SubSeq(h, 1, Len(h)) = h
           /\ \A b \in Nat : SubSeq(Append(h, b), 1, Len(Append(h, b)) - 1) = h
           /\ Len(h) > 0 => /\ SubSeq(h, 1, Len(h) - 1) \in Seq(Nat) /\ h[Len(h)] \in Nat
                            /\ h = Append(SubSeq(h, 1, Len(h) - 1), h[Len(h)])
<1>1. SubSeq(h, 1, Len(h)) = h
  OBVIOUS
<1>2. ASSUME NEW b \in Nat PROVE SubSeq(Append(h, b), 1, Len(Append(h, b)) - 1) = h
  <2>1. Append(h, b) \in Seq(Nat) /\ Len(Append(h, b)) = Len(h) + 1 /\ Len(h) \in Nat
        /\ \A i \in 1 .. Len(h) : Append(h, b)[i] = h[i]
    OBVIOUS
  <2>2. Len(Append(h, b)) - 1 = Len(h)
    BY <2>1
  <2> DEFINE a == Append(h, b)
  <2>3. SubSeq(a, 1, Len(h)) = h
    <3> HIDE DEF a
    <3>1. a \in Seq(Nat) /\ Len(a) = Len(h) + 1 /\ \A i \in 1 .. Len(h) : a[i] = h[i]
      BY <2>1 DEF a
    <3> QED BY <3>1
  <2> QED BY <2>2, <2>3
<1>3. ASSUME Len(h) > 0
      PROVE  /\ SubSeq(h, 1, Len(h) - 1) \in Seq(Nat) /\ h[Len(h)] \in Nat
             /\ h = Append(SubSeq(h, 1, Len(h) - 1), h[Len(h)])
  <2>1. h[Len(h)] \in Nat
    BY <1>3
  <2>2. SubSeq(h, 1, Len(h) - 1) \in Seq(Nat) /\ Len(SubSeq(h, 1, Len(h) - 1)) = Len(h) - 1
        /\ \A i \in 1 .. Len(h) - 1 : SubSeq(h, 1, Len(h) - 1)[i] = h[i]
    <3> DEFINE m == Len(h) - 1
    <3>1. m \in Nat /\ m <= Len(h) /\ Len(h) \in Nat
      BY <1>3
    <3>2. \A i \in 1 .. m : i \in 1 .. Len(h)
      BY <3>1
    <3>3. \A i \in 1 .. m : h[i] \in Nat
      BY <3>2
    <3> HIDE DEF m
    <3>4. SubSeq(h, 1, m) \in Seq(Nat) /\ Len(SubSeq(h, 1, m)) = m
      BY <3>1, <3>3
    <3>5. \A i \in 1 .. m : SubSeq(h, 1, m)[i] = h[i]
      BY <3>1
    <3> QED BY <3>4, <3>5 DEF m
  <2> DEFINE a == Append(SubSeq(h, 1, Len(h) - 1), h[Len(h)])
  <2>3. a \in Seq(Nat) /\ Len(a) = Len(h) /\ \A i \in 1 .. Len(h) : a[i] = h[i]
    BY <1>3, <2>1, <2>2
  <2>4. h = a
    <3> HIDE DEF a
    <3> QED BY <2>3, SeqEqual
  <2> QED BY <2>1, <2>2, <2>4
<1> QED BY <1>1, <1>2, <1>3

\* What is punched stays, if nothing is written.
LEMMA FileStays ==
    ASSUME UNCHANGED <<tapeOpts, tapeFile>>, Punched' = Punched, Trailer' = Trailer,
           tapeFile = Leader \o Kept(Punched) \o Trailer
    PROVE  (tapeFile = Leader \o Kept(Punched) \o Trailer)'
<1>1. Leader' = Leader
  BY DEF Leader
<1>2. Kept(Punched)' = Kept(Punched)
  <2>1. \A h : Kept(h)' = Kept(h)
    BY KeptStays
  <2>2. Kept(Punched)' = Kept(Punched')
    BY DEF Kept, PtpMask, Removed
  <2> QED BY <2>1, <2>2
<1> QED BY <1>1, <1>2

\* The conjuncts of PunchInv
LEMMA PunchParts ==
    ASSUME TapeInv, tapeDev = "ptp", ~tapeCross
    PROVE  /\ TapeTypeOK /\ FlagInv /\ history \in Seq(Nat)
           /\ tapeReg.flag \in BOOLEAN /\ tapeReg.step \in BOOLEAN /\ tapeReg.char \in Nat
           /\ ~(tapeReg.flag /\ tapeReg.step)
           /\ tapeReg.step => tapeAsked /\ Len(history) > 0 /\ tapeReg.char = history[Len(history)]
           /\ tapePc = "enable2" => tapeVal.step = tapeReg.step
           /\ tapePc \in {"write", "done"} => tapeReg.step /\ tapeVal.char = tapeReg.char
           /\ tapeFile = Leader \o Kept(Punched) \o Trailer
  BY DEF TapeInv, TapeTypeOK, TapeRegs, FlagInv, PunchInv

\* A byte is given to the punch, which has nothing to do.
LEMMA PunchGives ==
    ASSUME TapeInv, tapeDev = "ptp", NEW byte \in PunchedBytes, Punch(byte),
           UNCHANGED <<device, tapePc, tapeVal, tapeFile, lastcr>>
    PROVE  TapeInv'
<1>1. /\ ~tapeAsked /\ tapeReg' = Register(FALSE, TRUE, byte) /\ tapeAsked' = TRUE
      /\ history' = Append(history, byte) /\ tapeCross' = (tapeCross \/ tapePc = "enable2")
      /\ UNCHANGED <<tapeDev, tapeOpts, tapePc, tapeVal, tapeFile, lastcr>>
  BY DEF Punch, device
<1>2. byte \in Nat
  BY PaperAssumption
<1>3. TapeTypeOK /\ FlagInv
  BY DEF TapeInv
<1>4. tapeReg' \in TapeRegs /\ ~tapeReg'.flag /\ tapeReg'.step = TRUE /\ tapeReg'.char = byte
  BY <1>1, <1>2, RegIs
<1>5. history' \in Seq(Nat) /\ Len(history') > 0 /\ history'[Len(history')] = byte
  BY <1>1, <1>2, <1>3 DEF TapeTypeOK
<1>6. TapeTypeOK' /\ FlagInv' /\ ReaderInv'
  BY <1>1, <1>3, <1>4, <1>5 DEF TapeTypeOK, FlagInv, ReaderInv
<1>7. ASSUME ~tapeCross' PROVE (tapeFile = Leader \o Kept(Punched) \o Trailer)'
                               /\ tapePc \notin {"enable2", "write", "done"}
  <2>1. ~tapeCross /\ tapePc # "enable2"
    BY <1>1, <1>7
  <2>2. ~tapeReg.step /\ tapePc \notin {"write", "done"} /\ history \in Seq(Nat)
        /\ tapeFile = Leader \o Kept(Punched) \o Trailer
    BY <1>1, <2>1, PunchParts
  <2>3. Punched = history
    <3>1. Unpunched = 0 /\ Len(history) - 0 = Len(history)
      BY <2>2 DEF Unpunched
    <3> QED BY <2>2, <3>1, PunchedIs DEF Punched
  <2>4. Punched' = history
    <3>1. Unpunched' = 1
      BY <1>1, <1>4, <2>2 DEF Unpunched
    <3> QED BY <1>1, <1>2, <2>2, <3>1, PunchedIs DEF Punched
  <2>5. Trailer' = Trailer
    BY <1>1 DEF Trailer
  <2> QED BY <1>1, <2>1, <2>2, <2>3, <2>4, <2>5, FileStays
<1>8. PunchInv'
  BY <1>1, <1>4, <1>5, <1>7 DEF PunchInv
<1> QED BY <1>6, <1>8 DEF TapeInv

\* The PDP-8/L punches, takes the flag, or pulses START.
LEMMA PunchPdp ==
    ASSUME TapeInv, tapeDev = "ptp", TapePdp
    PROVE  TapeInv'
<1>1. CASE \E byte \in PunchedBytes : Punch(byte)
  BY <1>1, PunchGives DEF TapePdp
<1>2. CASE SkipPunched \/ TapeBinit
  <2>1. /\ UNCHANGED <<tapeDev, tapeOpts, tapePc, tapeVal, tapeFile, lastcr, history>>
        /\ tapeAsked' = FALSE /\ tapeCross' \in BOOLEAN /\ (~tapeCross' => ~tapeCross)
        /\ tapeReg' \in TapeRegs /\ tapeReg'.step = tapeReg.step /\ tapeReg'.char = tapeReg.char
        /\ tapeReg'.flag => tapeReg.flag
        /\ ~tapeCross' => ~tapeReg.step
    <3>1. TapeTypeOK /\ FlagInv
      BY DEF TapeInv
    <3>2. CASE SkipPunched
      BY <3>1, <3>2 DEF SkipPunched, TapePdp, device, TapeTypeOK, TapeRegs, FlagInv
    <3>3. CASE TapeBinit
      BY <3>1, <3>3 DEF TapeBinit, TapePdp, device, TapeTypeOK, TapeRegs
    <3> QED BY <1>2, <3>2, <3>3
  <2>2. TapeTypeOK' /\ FlagInv' /\ ReaderInv'
    BY <2>1 DEF TapeInv, TapeTypeOK, FlagInv, ReaderInv
  <2>3. ASSUME ~tapeCross' PROVE PunchInv'
    <3>1. ~tapeReg.step /\ tapePc \notin {"write", "done"} /\ tapeFile = Leader \o Kept(Punched) \o Trailer
          /\ (tapePc = "enable2" => tapeVal.step = tapeReg.step)
      BY <2>1, <2>3, PunchParts
    <3>2. Punched' = Punched /\ Trailer' = Trailer
      BY <2>1 DEF Punched, Unpunched, Trailer
    <3>3. (tapeFile = Leader \o Kept(Punched) \o Trailer)'
      BY <2>1, <3>1, <3>2, FileStays
    <3> QED BY <2>1, <3>1, <3>3 DEF PunchInv
  <2>4. ASSUME tapeCross' PROVE PunchInv'
    BY <2>4 DEF PunchInv
  <2> QED BY <2>2, <2>3, <2>4 DEF TapeInv
<1> QED BY <1>1, <1>2 DEF TapePdp, StepReader, ReadChar

\* The program turns the punch on: only what comes between its read and its write can be lost.
LEMMA PunchEnable ==
    ASSUME TapeInv, tapeDev = "ptp", Enable
    PROVE  TapeInv'
<1>1. /\ UNCHANGED <<tapeDev, tapeOpts, tapeFile, lastcr, tapeAsked, history>>
      /\ tapePc \in {"enable", "enable2"} /\ tapePc' \in {"enable2", "poll"}
  BY DEF Enable, device
<1>2. TapeTypeOK /\ FlagInv
  BY DEF TapeInv
<1>3. tapeReg.flag \in BOOLEAN /\ tapeReg.step \in BOOLEAN /\ tapeReg.char \in Nat
  BY <1>2 DEF TapeTypeOK, TapeRegs
<1>4. Nothing \in TapeRegs
  BY RegIs DEF Nothing
<1>5. /\ tapeReg' \in TapeRegs /\ ~tapeReg'.flag /\ tapeVal' \in TapeRegs /\ tapeCross' \in BOOLEAN
      /\ tapePc' = "enable2" => ~tapeVal'.flag /\ tapeVal'.step = tapeReg'.step
      /\ tapeReg'.char = tapeReg.char
      /\ ~tapeCross' => ~tapeCross /\ tapeReg'.step = tapeReg.step
  <2>1. CASE tapePc = "enable" /\ "clear" \in tapeOpts
    <3>1. /\ tapeReg' = Register(FALSE, FALSE, tapeReg.char) /\ tapePc' = "poll" /\ tapeVal' = tapeVal
          /\ tapeCross' = (tapeCross \/ tapeReg.step)
      BY <2>1 DEF Enable
    <3>2. tapeReg' \in TapeRegs /\ ~tapeReg'.flag /\ tapeReg'.step = FALSE /\ tapeReg'.char = tapeReg.char
      BY <1>3, <3>1, RegIs
    <3>3. tapeCross' \in BOOLEAN /\ tapeVal' \in TapeRegs /\ (~tapeCross' => ~tapeCross /\ tapeReg.step = FALSE)
      BY <1>2, <1>3, <3>1 DEF TapeTypeOK
    <3> QED BY <3>1, <3>2, <3>3
  <2>2. CASE tapePc = "enable" /\ "clear" \notin tapeOpts
    BY <1>2, <2>2 DEF Enable, TapeTypeOK, FlagInv
  <2>3. CASE tapePc = "enable2"
    <3>1. tapeReg' = [tapeVal EXCEPT !.char = tapeReg.char] /\ tapeVal' = Nothing /\ tapePc' = "poll"
          /\ tapeCross' = tapeCross
      BY <2>3 DEF Enable
    <3>2. tapeReg' \in TapeRegs /\ tapeReg'.flag = tapeVal.flag /\ tapeReg'.step = tapeVal.step
          /\ tapeReg'.char = tapeReg.char
      BY <1>2, <1>3, <3>1 DEF TapeTypeOK, TapeRegs
    <3>3. ~tapeCross => tapeVal.step = tapeReg.step
      BY <2>3, PunchParts
    <3> QED BY <1>2, <1>4, <2>3, <3>1, <3>2, <3>3 DEF FlagInv, TapeTypeOK
  <2> QED BY <1>1, <2>1, <2>2, <2>3
<1>6. TapeTypeOK' /\ FlagInv' /\ ReaderInv'
  BY <1>1, <1>2, <1>5 DEF TapeTypeOK, FlagInv, ReaderInv, PtpPcs
<1>7. ASSUME ~tapeCross' PROVE PunchInv'
  <2>1. /\ tapeFile = Leader \o Kept(Punched) \o Trailer
        /\ tapeReg.step => tapeAsked /\ Len(history) > 0 /\ tapeReg.char = history[Len(history)]
    BY <1>5, <1>7, PunchParts
  <2>2. Punched' = Punched /\ Trailer' = Trailer
    BY <1>1, <1>5, <1>7 DEF Punched, Unpunched, Trailer
  <2>3. (tapeFile = Leader \o Kept(Punched) \o Trailer)'
    BY <1>1, <2>1, <2>2, FileStays
  <2> QED BY <1>1, <1>5, <1>7, <2>1, <2>3 DEF PunchInv
<1>8. ASSUME tapeCross' PROVE PunchInv'
  BY <1>8 DEF PunchInv
<1> QED BY <1>6, <1>7, <1>8 DEF TapeInv

\* The rest of the punch's steps are the program's, and give it nothing.
LEMMA PunchPolls ==
    ASSUME TapeInv, tapeDev = "ptp", PtpPoll,
           UNCHANGED <<device, tapeAsked, history, tapeCross, tapeLeft>>
    PROVE  TapeInv'
<1>1. /\ UNCHANGED <<tapeDev, tapeOpts, tapeFile, lastcr, tapeAsked, history, tapeCross, tapeReg>>
      /\ tapePc = "poll" /\ tapePc' = "write" /\ tapeReg.step
      /\ tapeVal' = Register(FALSE, FALSE, tapeReg.char)
  BY DEF PtpPoll, device, Byte
<1>2. TapeTypeOK /\ FlagInv /\ tapeReg.char \in Nat
  BY DEF TapeInv, TapeTypeOK, TapeRegs
<1>3. tapeVal' \in TapeRegs /\ tapeVal'.char = tapeReg.char
  BY <1>1, <1>2, RegIs
<1>7. /\ tapeReg' = tapeReg /\ history' = history /\ tapeAsked' = tapeAsked /\ tapeCross' = tapeCross
      /\ tapePc' = "write" /\ tapeDev' = "ptp"
  BY <1>1
<1>4. TapeTypeOK' /\ FlagInv' /\ ReaderInv'
  <2>1. TapeTypeOK'
    BY <1>1, <1>2, <1>3 DEF TapeTypeOK, PtpPcs
  <2>2. FlagInv'
    BY <1>2, <1>7 DEF FlagInv
  <2>3. ReaderInv'
    BY <1>7 DEF ReaderInv
  <2> QED BY <2>1, <2>2, <2>3
<1>5. ASSUME ~tapeCross PROVE PunchInv'
  <2>1. /\ tapeFile = Leader \o Kept(Punched) \o Trailer
        /\ tapeReg.step => tapeAsked /\ Len(history) > 0 /\ tapeReg.char = history[Len(history)]
    BY <1>5, PunchParts
  <2>2. Punched' = Punched /\ Trailer' = Trailer
    BY <1>1 DEF Punched, Unpunched, Trailer
  <2>3. (tapeFile = Leader \o Kept(Punched) \o Trailer)'
    BY <1>1, <2>1, <2>2, FileStays
  <2>4. (tapeReg.step => tapeAsked /\ Len(history) > 0 /\ tapeReg.char = history[Len(history)])'
    BY <1>7, <2>1
  <2> QED BY <1>1, <1>3, <1>7, <2>3, <2>4 DEF PunchInv
<1>6. ASSUME tapeCross PROVE PunchInv'
  BY <1>1, <1>6 DEF PunchInv
<1> QED BY <1>4, <1>5, <1>6 DEF TapeInv

\* A byte written comes after the others.
LEMMA WriteMore ==
    ASSUME tapePc = "write", tapePc' = "done", UNCHANGED tapeOpts, tapeVal.char \in Nat,
           \/ ~Removed(PtpMask(tapeVal.char)) /\ tapeFile' = Append(tapeFile, PtpMask(tapeVal.char))
           \/ Removed(PtpMask(tapeVal.char)) /\ tapeFile' = tapeFile
    PROVE  \A bytes \in Seq(Nat) : Punches(bytes) =>
               tapeFile' = Leader' \o (Kept(bytes) \o Stays(tapeVal.char)) \o Trailer'
<1> SUFFICES ASSUME NEW bytes \in Seq(Nat), Punches(bytes)
             PROVE  tapeFile' = Leader' \o (Kept(bytes) \o Stays(tapeVal.char)) \o Trailer'
  OBVIOUS
<1>1. Trailer = <<>> /\ Trailer' = <<>> /\ Leader \in Seq(Nat) /\ Leader' = Leader
  BY DEF Trailer, Leader, Nulls
<1> DEFINE l == Leader
           k == Kept(bytes)
           byte == PtpMask(tapeVal.char)
<1>2. l \in Seq(Nat) /\ k \in Seq(Nat) /\ byte \in Nat /\ tapeFile = l \o k \o <<>>
  BY <1>1, KeptType, StaysIs DEF Punches
<1>3. \/ Stays(tapeVal.char) = <<byte>> /\ tapeFile' = Append(tapeFile, byte)
      \/ Stays(tapeVal.char) = <<>> /\ tapeFile' = tapeFile
  BY DEF Stays
<1>4. tapeFile' = l \o (k \o Stays(tapeVal.char)) \o <<>>
  <2> HIDE DEF l, k, byte
  <2>1. tapeFile = l \o k
    BY <1>2
  <2>2. l \o (k \o <<>>) \o <<>> = l \o k
    BY <1>2
  <2>3. l \o (k \o <<byte>>) \o <<>> = Append(l \o k, byte)
    <3>1. k \o <<byte>> = Append(k, byte) /\ Append(k, byte) \in Seq(Nat)
      BY <1>2
    <3>2. l \o Append(k, byte) = Append(l \o k, byte)
      BY <1>2
    <3>3. (l \o Append(k, byte)) \o <<>> = l \o Append(k, byte)
      BY <1>2, <3>1
    <3> QED BY Zenon, <3>1, <3>2, <3>3
  <2> QED BY Zenon, <1>3, <2>1, <2>2, <2>3
<1> QED BY <1>1, <1>4

\* The byte in hand is the last one given: now it is on the tape, or removed.
LEMMA PunchWrites ==
    ASSUME TapeInv, tapeDev = "ptp", PtpWrite,
           UNCHANGED <<device, tapeAsked, history, tapeCross, tapeLeft>>
    PROVE  TapeInv'
<1>1. /\ UNCHANGED <<tapeDev, tapeOpts, lastcr, tapeAsked, history, tapeCross, tapeReg, tapeVal>>
      /\ tapePc = "write"
      /\ \/ tapePc' = "exit" /\ tapeFile' = tapeFile
         \/ tapePc' = "done" /\ ~Removed(PtpMask(tapeVal.char)) /\ tapeFile' = Append(tapeFile, PtpMask(tapeVal.char))
         \/ tapePc' = "done" /\ Removed(PtpMask(tapeVal.char)) /\ tapeFile' = tapeFile
  BY DEF PtpWrite, device, Exit
<1>2. TapeTypeOK /\ FlagInv /\ tapeVal.char \in Nat /\ tapeFile \in Seq(Nat)
  BY DEF TapeInv, TapeTypeOK, TapeRegs
<1>3. PtpMask(tapeVal.char) \in Nat /\ Stays(tapeVal.char) \in Seq(Nat)
  BY <1>2, StaysIs
<1>4. tapeFile' \in Seq(Nat)
  <2> DEFINE byte == PtpMask(tapeVal.char)
  <2>1. Append(tapeFile, byte) \in Seq(Nat)
    <3>1. byte \in Nat
      BY <1>3
    <3> HIDE DEF byte
    <3> QED BY <1>2, <3>1
  <2> HIDE DEF byte
  <2>2. tapeFile' = tapeFile \/ tapeFile' = Append(tapeFile, byte)
    BY <1>1 DEF byte
  <2> QED BY <1>2, <2>1, <2>2
<1>5. TapeTypeOK' /\ FlagInv' /\ ReaderInv'
  BY <1>1, <1>2, <1>4 DEF TapeTypeOK, FlagInv, ReaderInv, PtpPcs
<1>6. ASSUME ~tapeCross PROVE PunchInv'
  <2>1. /\ tapeFile = Leader \o Kept(Punched) \o Trailer /\ history \in Seq(Nat)
        /\ tapeReg.step /\ tapeVal.char = tapeReg.char
        /\ tapeAsked /\ Len(history) > 0 /\ tapeReg.char = history[Len(history)]
    BY <1>1, <1>6, PunchParts
  <2>2. CASE tapePc' = "exit" /\ tapeFile' = tapeFile
    <3>1. Punched' = Punched /\ Trailer' = Trailer
      BY <1>1, <2>2 DEF Punched, Unpunched, Trailer
    <3>2. (tapeFile = Leader \o Kept(Punched) \o Trailer)'
      BY <1>1, <2>1, <2>2, <3>1, FileStays
    <3> QED BY <1>1, <2>1, <2>2, <3>2 DEF PunchInv
  <2>3. CASE tapePc' = "done"
    <3>1. Punched' = history
      <4>1. Unpunched' = 0 /\ Len(history) - 0 = Len(history)
        BY <2>1, <2>3 DEF Unpunched
      <4> QED BY <1>1, <2>1, <4>1, PunchedIs DEF Punched
    <3>2. Punched \in Seq(Nat) /\ history = Append(Punched, tapeVal.char)
      <4>1. Unpunched = 1
        BY <1>1, <2>1 DEF Unpunched
      <4> QED BY <2>1, <4>1, PunchedIs DEF Punched
    <3>3. Kept(history) = Kept(Punched) \o Stays(tapeVal.char) /\ Kept(Punched) \in Seq(Nat)
      BY <1>2, <3>2, KeptMore
    <3>4. tapeFile' = Leader' \o (Kept(Punched) \o Stays(tapeVal.char)) \o Trailer'
      <4>1. Punches(Punched)
        BY <2>1 DEF Punches
      <4> QED BY <1>1, <1>2, <2>3, <3>2, <4>1, WriteMore
    <3>5. (tapeFile = Leader \o Kept(Punched) \o Trailer)'
      <4>1. Kept(Punched)' = Kept(Punched')
        BY <1>1 DEF Kept, PtpMask, Removed
      <4>2. Kept(Punched') = Kept(Punched) \o Stays(tapeVal.char)
        BY <3>1, <3>3
      <4> QED BY <3>4, <4>1, <4>2
    <3> QED BY <1>1, <2>1, <2>3, <3>5 DEF PunchInv
  <2> QED BY <1>1, <2>2, <2>3
<1>7. ASSUME tapeCross PROVE PunchInv'
  BY <1>1, <1>7 DEF PunchInv
<1> QED BY <1>5, <1>6, <1>7 DEF TapeInv

\* The byte is on the file: the punch is no longer busy.
LEMMA PunchDone ==
    ASSUME TapeInv, tapeDev = "ptp", PtpDone,
           UNCHANGED <<device, tapeAsked, history, tapeCross, tapeLeft>>
    PROVE  TapeInv'
<1>1. /\ UNCHANGED <<tapeDev, tapeOpts, tapeFile, lastcr, tapeAsked, history, tapeCross>>
      /\ tapePc = "done" /\ tapePc' = "poll" /\ tapeVal' = Nothing
      /\ tapeReg' = Register(TRUE, FALSE, tapeReg.char)
  BY DEF PtpDone, device
<1>2. TapeTypeOK /\ FlagInv /\ tapeReg.char \in Nat
  BY DEF TapeInv, TapeTypeOK, TapeRegs
<1>3. Nothing \in TapeRegs /\ tapeReg' \in TapeRegs /\ tapeReg'.step = FALSE
  BY <1>1, <1>2, RegIs DEF Nothing
<1>4. TapeTypeOK' /\ FlagInv' /\ ReaderInv'
  BY <1>1, <1>2, <1>3 DEF TapeTypeOK, FlagInv, ReaderInv, PtpPcs
<1>5. ASSUME ~tapeCross PROVE PunchInv'
  <2>1. tapeFile = Leader \o Kept(Punched) \o Trailer
    BY <1>5, PunchParts
  <2>2. Punched' = Punched /\ Trailer' = Trailer
    BY <1>1, <1>3 DEF Punched, Unpunched, Trailer
  <2>3. (tapeFile = Leader \o Kept(Punched) \o Trailer)'
    BY <1>1, <2>1, <2>2, FileStays
  <2> QED BY <1>1, <1>3, <2>3 DEF PunchInv
<1>6. ASSUME tapeCross PROVE PunchInv'
  BY <1>1, <1>6 DEF PunchInv
<1> QED BY <1>4, <1>5, <1>6 DEF TapeInv

\* The nulls of the trailer come after everything.
LEMMA TrailerMore ==
    ASSUME UNCHANGED tapeOpts, tapePc = "poll", tapePc' = "closed",
           tapeFile' = IF "trailer" \in tapeOpts THEN tapeFile \o Nulls ELSE tapeFile
    PROVE  \A bytes \in Seq(Nat) : tapeFile = Leader \o Kept(bytes) \o Trailer =>
               tapeFile' = Leader' \o Kept(bytes) \o Trailer'
<1> SUFFICES ASSUME NEW bytes \in Seq(Nat), tapeFile = Leader \o Kept(bytes) \o Trailer
             PROVE  tapeFile' = Leader' \o Kept(bytes) \o Trailer'
  OBVIOUS
<1>1. /\ Leader \in Seq(Nat) /\ Leader' = Leader /\ Trailer = <<>>
      /\ Trailer' = IF "trailer" \in tapeOpts THEN Nulls ELSE <<>>
  BY DEF Leader, Trailer, Nulls
<1> DEFINE f == Leader \o Kept(bytes)
<1>2. f \in Seq(Nat) /\ tapeFile = f \o <<>>
  BY <1>1, KeptType
<1>3. tapeFile = f
  <2> HIDE DEF f
  <2> QED BY <1>2
<1> QED BY <1>1, <1>2, <1>3

\* The program ends and writes the trailer.
LEMMA PunchEnds ==
    ASSUME TapeInv, tapeDev = "ptp", PtpEnd,
           UNCHANGED <<device, tapeAsked, history, tapeCross, tapeLeft>>
    PROVE  TapeInv'
<1>1. /\ UNCHANGED <<tapeDev, tapeOpts, lastcr, tapeAsked, history, tapeCross, tapeReg, tapeVal>>
      /\ tapePc = "poll" /\ tapePc' = "closed"
      /\ tapeFile' = IF "trailer" \in tapeOpts THEN tapeFile \o Nulls ELSE tapeFile
  BY DEF PtpEnd, device
<1>2. TapeTypeOK /\ FlagInv /\ Nulls \in Seq(Nat)
  BY DEF TapeInv, Nulls
<1>3. TapeTypeOK' /\ FlagInv' /\ ReaderInv'
  BY <1>1, <1>2 DEF TapeTypeOK, FlagInv, ReaderInv, PtpPcs
<1>4. ASSUME ~tapeCross PROVE PunchInv'
  <2>1. /\ tapeFile = Leader \o Kept(Punched) \o Trailer
        /\ tapeReg.step => tapeAsked /\ Len(history) > 0 /\ tapeReg.char = history[Len(history)]
    BY <1>4, PunchParts
  <2>2. Punched' = Punched
    BY <1>1 DEF Punched, Unpunched
  <2>3. Kept(Punched)' = Kept(Punched)
    <3>1. \A h : Kept(h)' = Kept(h)
      BY <1>1, KeptStays
    <3>2. Kept(Punched)' = Kept(Punched')
      BY <1>1 DEF Kept, PtpMask, Removed
    <3> QED BY <2>2, <3>1, <3>2
  <2>4. Punched \in Seq(Nat)
    <3>1. Unpunched = 0 \/ (Unpunched = 1 /\ Len(history) > 0)
      BY <2>1 DEF Unpunched
    <3>2. history \in Seq(Nat) /\ Len(history) - 0 = Len(history)
      BY <1>2 DEF TapeTypeOK
    <3> QED BY <3>1, <3>2, PunchedIs DEF Punched
  <2>5. tapeFile' = Leader' \o Kept(Punched) \o Trailer'
    BY <1>1, <2>1, <2>4, TrailerMore
  <2>6. (tapeFile = Leader \o Kept(Punched) \o Trailer)'
    BY <2>3, <2>5
  <2>7. (tapeReg.step => tapeAsked /\ Len(history) > 0 /\ tapeReg.char = history[Len(history)])'
    <3>1. tapeReg' = tapeReg /\ history' = history /\ tapeAsked' = tapeAsked
      BY <1>1
    <3> QED BY <2>1, <3>1
  <2> QED BY <1>1, <2>6, <2>7 DEF PunchInv
<1>5. ASSUME tapeCross PROVE PunchInv'
  BY <1>1, <1>5 DEF PunchInv
<1> QED BY <1>3, <1>4, <1>5 DEF TapeInv

-----------------------------------------------------------------------------
\* The two programs start.
LEMMA TapeInitInv == TapeInit => TapeInv
<1> SUFFICES ASSUME TapeInit PROVE TapeInv
  OBVIOUS
<1>1. /\ tapeReg = Nothing /\ tapePc = "enable" /\ tapeVal = Nothing /\ lastcr = FALSE
      /\ tapeAsked = FALSE /\ history = <<>> /\ tapeCross = FALSE
  BY DEF TapeInit
<1>2. Nothing \in TapeRegs /\ Nothing.flag = FALSE /\ Nothing.step = FALSE
  BY RegIs DEF Nothing
<1>3. history \in Seq(Nat) /\ Len(history) = 0
  BY <1>1
<1>4. CASE PtrStart
  <2>1. tapeDev = "ptr" /\ tapeFile \in PtrTapes /\ tapeFile \in Seq(0 .. 255)
    BY <1>4, TapesAre DEF PtrStart
  <2>2. tapeFile \in Seq(Nat)
    <3> DEFINE t == tapeFile
    <3>1. t \in Seq(0 .. 255) /\ \A i \in 1 .. Len(t) : t[i] \in Nat
      BY <2>1, ByteIs
    <3> HIDE DEF t
    <3>2. t \in Seq(Nat)
      BY <3>1
    <3> QED BY <3>2 DEF t
  <2>3. OnTape(tapeFile, 0)
    <3>1. SubSeq(tapeFile, 0 + 1, Len(tapeFile)) = tapeFile
      BY <2>2
    <3>2. Delivered = <<>>
      BY <1>1, <1>2, <1>3, FlaggedIs DEF Delivered
    <3> QED BY <1>1, <3>1, <3>2, TextNone DEF OnTape, EndsCr
  <2>4. 0 \in 0 .. Len(tapeFile)
    BY <2>2
  <2>5. ReaderInv
    BY Zenon, <2>1, <2>3, <2>4 DEF ReaderInv
  <2> QED BY <1>1, <1>2, <1>3, <2>1, <2>2, <2>5 DEF TapeInv, TapeTypeOK, FlagInv, PunchInv, PtrPcs
<1>5. CASE PtpStart
  <2>1. tapeDev = "ptp" /\ tapeFile = Leader
    BY <1>5 DEF PtpStart, Leader
  <2>2. tapeFile \in Seq(Nat)
    BY <2>1 DEF Leader, Nulls
  <2>3. Unpunched = 0 /\ Trailer = <<>> /\ Len(history) - 0 = 0
    BY <1>1, <1>2, <1>3 DEF Unpunched, Trailer
  <2>4. Kept(Punched) = <<>>
    <3>1. Punched = <<>>
      BY <1>1, <2>3, PunchedIs DEF Punched
    <3>2. [k \in DOMAIN <<>> |-> Stays(<<>>[k])] = <<>>
      OBVIOUS
    <3>3. Len(<<>>) = 0
      OBVIOUS
    <3>4. FlattenSeq(<<>>) = <<>>
      BY Zenon, <3>3 DEF FlattenSeq
    <3>5. Kept(<<>>) = FlattenSeq([k \in DOMAIN <<>> |-> Stays(<<>>[k])])
      BY KeptIs
    <3> QED BY Zenon, <3>1, <3>2, <3>4, <3>5
  <2>5. tapeFile = Leader \o Kept(Punched) \o Trailer
    BY <2>1, <2>2, <2>3, <2>4
  <2> QED BY <1>1, <1>2, <1>3, <2>1, <2>2, <2>5 DEF TapeInv, TapeTypeOK, FlagInv, ReaderInv, PunchInv, PtpPcs
<1> QED BY <1>4, <1>5 DEF TapeInit

\* Nothing happens.
LEMMA TapeStutters == ASSUME TapeInv, UNCHANGED tapeVars PROVE TapeInv'
<1>1. UNCHANGED <<tapeDev, tapeOpts, tapeReg, tapePc, tapeVal, tapeFile, lastcr, tapeAsked, history, tapeCross>>
  BY DEF tapeVars
<1>2. TapeTypeOK' /\ FlagInv'
  BY <1>1 DEF TapeInv, TapeTypeOK, FlagInv
<1>3. ReaderInv'
  <2>1. CASE tapeDev = "ptr"
    <3>1. Delivered' = Delivered
      BY <1>1 DEF Delivered, WithFlagged
    <3> QED BY <1>1, <2>1, <3>1, OnTapeStays DEF TapeInv
  <2>2. CASE tapeDev # "ptr"
    BY <1>1, <2>2 DEF ReaderInv
  <2> QED BY <2>1, <2>2
<1>4. PunchInv'
  <2>1. CASE tapeDev = "ptp" /\ ~tapeCross
    <3>1. tapeFile = Leader \o Kept(Punched) \o Trailer
      BY <2>1, PunchParts
    <3>2. Punched' = Punched /\ Trailer' = Trailer
      BY <1>1 DEF Punched, Unpunched, Trailer
    <3>3. (tapeFile = Leader \o Kept(Punched) \o Trailer)'
      BY <1>1, <3>1, <3>2, FileStays
    <3> QED BY <1>1, <2>1, <3>3 DEF PunchInv, TapeInv
  <2>2. CASE ~(tapeDev = "ptp" /\ ~tapeCross)
    BY <1>1, <2>2 DEF PunchInv
  <2> QED BY <2>1, <2>2
<1> QED BY <1>2, <1>3, <1>4 DEF TapeInv

\* Every step, of the processor and of either program
LEMMA TapePreserved == TapeInv /\ [TapeNext]_tapeVars => TapeInv'
<1> SUFFICES ASSUME TapeInv, [TapeNext]_tapeVars PROVE TapeInv'
  OBVIOUS
<1>1. tapeDev \in {"ptr", "ptp"} /\ tapePc \in (IF tapeDev = "ptr" THEN PtrPcs ELSE PtpPcs)
  BY DEF TapeInv, TapeTypeOK
<1>2. CASE UNCHANGED tapeVars
  BY <1>2, TapeStutters
<1>3. CASE TapePdp
  BY <1>1, <1>3, ReaderPdp, PunchPdp
<1>4. CASE Enable
  BY <1>1, <1>4, ReaderEnable, PunchEnable
<1>5. CASE Worker /\ UNCHANGED <<device, tapeAsked, history, tapeCross, tapeLeft>>
  <2>1. CASE tapeDev = "ptr"
    <3>1. ~ PtpPoll /\ ~ PtpWrite /\ ~ PtpDone /\ ~ PtpEnd
      BY <1>1, <2>1 DEF PtpPoll, PtpWrite, PtpDone, PtpEnd, PtrPcs
    <3> QED BY <1>5, <2>1, <3>1, ReaderPoll, ReaderRead, ReaderInserts, ReaderGives DEF Worker
  <2>2. CASE tapeDev = "ptp"
    <3>1. ~ PtrPoll /\ ~ PtrRead /\ ~ PtrInsert /\ ~ PtrGive
      BY <1>1, <2>2 DEF PtrPoll, PtrRead, PtrInsert, PtrGive, PtpPcs
    <3> QED BY <1>5, <2>2, <3>1, PunchPolls, PunchWrites, PunchDone, PunchEnds DEF Worker
  <2> QED BY <1>1, <2>1, <2>2
<1> QED BY <1>2, <1>3, <1>4, <1>5 DEF TapeNext, TapeProgram

\* What is left of the tape is its end.
LEMMA RestIsSuffix ==
    ASSUME NEW tape \in Seq(0 .. 255), NEW n \in 0 .. Len(tape)
    PROVE  IsSuffix(SubSeq(tape, n + 1, Len(tape)), tape)
<1> DEFINE m == Len(tape)
           rest == SubSeq(tape, n + 1, m)
           a == Reverse(rest)
           b == Reverse(tape)
<1>1. m \in Nat /\ n \in Nat /\ n <= m
  OBVIOUS
<1>2. /\ \A i \in n + 1 .. m : tape[i] \in Nat
      /\ \A i \in 1 .. m : tape[i] \in Nat
  BY <1>1, ByteIs
<1>3. rest \in Seq(Nat) /\ Len(rest) = m - n /\ \A i \in 1 .. m - n : rest[i] = tape[n + i]
  <2>1. n + 1 \in Nat /\ n + 1 <= m + 1
    BY <1>1
  <2>2. rest \in Seq(Nat)
    BY <1>1, <1>2, <2>1
  <2>3. Len(rest) = m - n
    BY <1>1
  <2>4. \A i \in 1 .. m - n : rest[i] = tape[n + i]
    BY <1>1
  <2> QED BY <2>2, <2>3, <2>4
<1>4. /\ a = [i \in 1 .. Len(rest) |-> rest[(Len(rest) - i) + 1]]
      /\ b = [i \in 1 .. Len(tape) |-> tape[(Len(tape) - i) + 1]]
  BY Zenon DEF Reverse
<1> HIDE DEF rest, a, b
<1>5. a \in Seq(Nat) /\ Len(a) = m - n /\ \A i \in 1 .. m - n : a[i] = tape[m - i + 1]
  <2>1. \A i \in 1 .. m - n : (m - n - i) + 1 \in 1 .. m - n /\ n + ((m - n - i) + 1) = m - i + 1
    BY <1>1
  <2>2. \A i \in 1 .. m - n : rest[(m - n - i) + 1] \in Nat /\ rest[(m - n - i) + 1] = tape[m - i + 1]
    <3> SUFFICES ASSUME NEW i \in 1 .. m - n
                 PROVE  rest[(m - n - i) + 1] \in Nat /\ rest[(m - n - i) + 1] = tape[m - i + 1]
      OBVIOUS
    <3> DEFINE j == (m - n - i) + 1
               k == m - i + 1
    <3>1. j \in 1 .. m - n /\ n + j = k /\ k \in 1 .. m
      BY <1>1
    <3> HIDE DEF m, j, k
    <3>2. rest[j] = tape[k] /\ tape[k] \in Nat
      BY <1>2, <1>3, <3>1
    <3> QED BY <3>2 DEF j, k
  <2> DEFINE l == m - n
             f == [i \in 1 .. l |-> rest[(l - i) + 1]]
  <2>3. a = f
    BY <1>3, <1>4
  <2>4. l \in Nat
    BY <1>1
  <2>5. \A i \in 1 .. l : f[i] = tape[m - i + 1] /\ f[i] \in Nat
    BY <2>2
  <2>6. f \in Seq(Nat) /\ Len(f) = l
    <3> HIDE DEF l
    <3>1. DOMAIN f = 1 .. l /\ f = [i \in 1 .. l |-> f[i]]
      OBVIOUS
    <3> HIDE DEF f
    <3> QED BY <2>4, <2>5, <3>1
  <2> HIDE DEF f
  <2> QED BY <2>3, <2>5, <2>6
<1>6. b \in Seq(Nat) /\ Len(b) = m /\ \A i \in 1 .. m : b[i] = tape[m - i + 1]
  <2>1. \A i \in 1 .. m : m - i + 1 \in 1 .. m
    BY <1>1
  <2>2. \A i \in 1 .. m : tape[m - i + 1] \in Nat
    BY <1>2, <2>1
  <2>3. b = [i \in 1 .. m |-> tape[m - i + 1]]
    BY <1>4
  <2> HIDE DEF m
  <2> QED BY <1>1, <2>2, <2>3
<1>7. IsPrefix(a, b)
  <2>1. Len(a) <= Len(b) /\ \A i \in 1 .. Len(a) : a[i] = b[i]
    <3>1. m - n <= m /\ \A i \in 1 .. m - n : i \in 1 .. m
      BY <1>1
    <3> HIDE DEF m
    <3> QED BY <1>5, <1>6, <3>1
  <2> QED BY <1>5, <1>6, <2>1, PrefixIs
<1> QED BY <1>7 DEF IsSuffix, a, b, rest

\* Prefixes: the front of a concatenation
LEMMA PrefixTrans ==
    ASSUME NEW a \in Seq(Nat), NEW b \in Seq(Nat), NEW c \in Seq(Nat), IsPrefix(a \o b, c)
    PROVE  IsPrefix(a, c)
<1>1. a \o b \in Seq(Nat) /\ Len(a) <= Len(a \o b) /\ \A i \in 1 .. Len(a) : (a \o b)[i] = a[i] /\ i \in 1 .. Len(a \o b)
  OBVIOUS
<1>2. Len(a \o b) <= Len(c) /\ \A i \in 1 .. Len(a \o b) : (a \o b)[i] = c[i]
  BY <1>1, PrefixIs
<1>3. Len(a) <= Len(c) /\ \A i \in 1 .. Len(a) : a[i] = c[i]
  <2> DEFINE d == a \o b
  <2> HIDE DEF d
  <2>1. Len(a) <= Len(d) /\ (\A i \in 1 .. Len(a) : d[i] = a[i] /\ i \in 1 .. Len(d))
        /\ Len(d) <= Len(c) /\ (\A i \in 1 .. Len(d) : d[i] = c[i]) /\ d \in Seq(Nat)
    BY <1>1, <1>2 DEF d
  <2> QED BY <2>1
<1> QED BY <1>3, PrefixIs

\* What the reader delivered is a prefix of the text of a tape it is on.
LEMMA ReaderShown == TapeInv => TapeReadInOrder
<1> SUFFICES ASSUME TapeInv, tapeDev = "ptr"
             PROVE  \E tape \in PtrTapes : IsSuffix(tapeFile, tape) /\ IsPrefix(Delivered, TapeText(tape))
  BY DEF TapeReadInOrder, Delivered, WithFlagged
<1>1. PICK tape \in PtrTapes : \E n \in 0 .. Len(tape) : OnTape(tape, n)
  BY Zenon DEF TapeInv, ReaderInv
<1>2. PICK n \in 0 .. Len(tape) : OnTape(tape, n)
  BY <1>1
<1>3. tape \in Seq(0 .. 255)
  BY TapesAre
<1>4. IsSuffix(tapeFile, tape)
  <2>1. tapeFile = SubSeq(tape, n + 1, Len(tape))
    BY <1>2 DEF OnTape
  <2> QED BY <1>3, <2>1, RestIsSuffix
<1> DEFINE all == TapeText(tape)
<1>5. IsPrefix(TextTo(tape, n), all) /\ TextTo(tape, n) \in Seq(Nat) /\ all \in Seq(Nat)
  <2>1. Len(tape) \in 0 .. Len(tape)
    BY <1>3
  <2> QED BY <1>3, <2>1, TextIs, TextPrefix, TextType
<1>6. tapePc \in PtrPcs
  BY DEF TapeInv, TapeTypeOK
<1> DEFINE front == TextTo(tape, n - 1)
<1>7. ASSUME n > 0
      PROVE  /\ front \in Seq(Nat) /\ IsPrefix(front, all)
             /\ NeedsCr(tape, n) => IsPrefix(front \o <<PtrMask(tape[n] + 3)>>, all)
  <2>1. n \in 1 .. Len(tape)
    BY <1>7
  <2>2. TextTo(tape, n) = front \o Given(tape, n) /\ front \in Seq(Nat) /\ Given(tape, n) \in Seq(Nat)
    BY <1>3, <2>1, TextMore, GivenType
  <2> HIDE DEF front, all
  <2>3. IsPrefix(front, all)
    BY <1>5, <2>2, PrefixTrans
  <2>4. ASSUME NeedsCr(tape, n) PROVE IsPrefix(front \o <<PtrMask(tape[n] + 3)>>, all)
    <3> DEFINE x == PtrMask(tape[n] + 3)
               y == PtrMask(tape[n])
    <3>1. x \in Nat /\ y \in Nat
      BY <1>3, <2>1, ByteIs, MaskIs
    <3>2. Given(tape, n) = <<x, y>>
      BY <2>4 DEF Given
    <3> HIDE DEF x, y
    <3>3. <<x>> \in Seq(Nat) /\ <<y>> \in Seq(Nat) /\ <<x>> \o <<y>> = <<x, y>>
      <4>1. <<x>> \in Seq(Nat) /\ <<y>> \in Seq(Nat) /\ <<x, y>> \in Seq(Nat)
        BY <3>1
      <4>2. <<x>> \o <<y>> \in Seq(Nat) /\ Len(<<x>> \o <<y>>) = 2 /\ Len(<<x, y>>) = 2
        BY <4>1
      <4>3. \A i \in 1 .. 2 : (<<x>> \o <<y>>)[i] = <<x, y>>[i]
        BY <4>1
      <4> QED BY <4>1, <4>2, <4>3, SeqEqual
    <3>4. (front \o <<x>>) \o <<y>> = front \o (<<x>> \o <<y>>) /\ front \o <<x>> \in Seq(Nat)
      BY <2>2, <3>3, ConcatAssociative
    <3>5. IsPrefix((front \o <<x>>) \o <<y>>, all)
      BY Zenon, <1>5, <2>2, <3>2, <3>3, <3>4
    <3>6. IsPrefix(front \o <<x>>, all)
      BY <1>5, <3>3, <3>4, <3>5, PrefixTrans
    <3> QED BY <3>6 DEF x
  <2> QED BY <2>2, <2>3, <2>4
<1> HIDE DEF all
<1>8. IsPrefix(Delivered, all)
  BY <1>2, <1>5, <1>6, <1>7 DEF OnTape, PtrPcs
<1> QED BY <1>4, <1>8 DEF all

-----------------------------------------------------------------------------
(***************************************************************************)
(* Whatever crosses: the punch's file are the bytes given at some places,   *)
(* each later than the one before.                                         *)
(***************************************************************************)
OrderedPlaces(places) ==
    /\ \A i, j \in 1 .. Len(places) : i < j => places[i] < places[j]
    /\ \A i \in 1 .. Len(places) : i <= places[i] /\ places[i] <= Len(history)
BytesAt(places) == [i \in 1 .. Len(places) |-> history[places[i]]]
Before(places, p) == \A i \in 1 .. Len(places) : places[i] < p

\* The byte to be taken next, or in hand, was given after all that are on the file.
PlacesFit(places) ==
    /\ OrderedPlaces(places) /\ Punches(BytesAt(places))
    /\ tapePc \in {"enable", "enable2"} => places = <<>>
    /\ tapePc = "poll" /\ tapeReg.step => Before(places, Len(history))
    /\ tapePc = "write" => \E p \in 1 .. Len(history) : Before(places, p) /\ tapeVal.char = history[p]

OnceInv ==
    tapeDev = "ptp" =>
        /\ Len(history) > 0 => tapeReg.char = history[Len(history)]
        /\ tapeReg.step \/ (tapePc = "enable2" /\ tapeVal.step) => Len(history) > 0
        /\ \E places \in Seq(Nat) : PlacesFit(places)

\* What the steps keep
LEMMA BytesType ==
    ASSUME history \in Seq(Nat), NEW places \in Seq(Nat), OrderedPlaces(places)
    PROVE  BytesAt(places) \in Seq(Nat) /\ Len(BytesAt(places)) = Len(places)
<1> DEFINE n == Len(places)
<1>1. n \in Nat /\ \A i \in 1 .. n : places[i] \in Nat /\ places[i] \in 1 .. Len(history)
  BY DEF OrderedPlaces
<1>2. \A i \in 1 .. n : history[places[i]] \in Nat
  BY <1>1
<1>3. BytesAt(places) = [i \in 1 .. n |-> history[places[i]]]
  BY DEF BytesAt
<1> HIDE DEF n
<1>4. BytesAt(places) \in [1 .. n -> Nat]
  BY <1>2, <1>3
<1> DEFINE b == BytesAt(places)
<1> HIDE DEF b
<1>5. b \in [1 .. n -> Nat]
  BY Zenon, <1>4 DEF b
<1>6. b \in Seq(Nat) /\ Len(b) = n
  BY <1>1, <1>5
<1> QED BY Zenon, <1>6 DEF b, n

LEMMA PlacesStay ==
    ASSUME history \in Seq(Nat), UNCHANGED <<tapeOpts, tapeFile>>, Trailer' = Trailer,
           history' = history \/ (\E b \in Nat : history' = Append(history, b)),
           NEW places \in Seq(Nat), OrderedPlaces(places), Punches(BytesAt(places))
    PROVE  OrderedPlaces(places)' /\ Punches(BytesAt(places))' /\ Len(history') >= Len(history)
<1>1. Len(history) \in Nat /\ Len(history') \in Nat /\ Len(history') >= Len(history)
      /\ \A i \in 1 .. Len(history) : history'[i] = history[i]
  <2>1. CASE history' = history
    BY <2>1
  <2>2. ASSUME NEW b \in Nat, history' = Append(history, b)
        PROVE  /\ Len(history) \in Nat /\ Len(history') = Len(history) + 1
               /\ \A i \in 1 .. Len(history) : history'[i] = history[i]
    BY <2>2
  <2>3. CASE \E b \in Nat : history' = Append(history, b)
    <3>1. /\ Len(history) \in Nat /\ Len(history') = Len(history) + 1
          /\ \A i \in 1 .. Len(history) : history'[i] = history[i]
      BY Zenon, <2>2, <2>3
    <3> QED BY <3>1
  <2> QED BY Zenon, <2>1, <2>3
<1>2. \A i \in 1 .. Len(places) : places[i] \in Nat /\ places[i] \in 1 .. Len(history)
  BY DEF OrderedPlaces
<1>3. OrderedPlaces(places)'
  BY <1>1, <1>2 DEF OrderedPlaces
<1>4. BytesAt(places)' = BytesAt(places)
  BY <1>1, <1>2 DEF BytesAt
<1>5. Kept(BytesAt(places))' = Kept(BytesAt(places))
  <2>1. \A h : Kept(h)' = Kept(h)
    BY KeptStays
  <2>2. Kept(BytesAt(places))' = Kept(BytesAt(places)')
    BY DEF Kept, PtpMask, Removed
  <2> QED BY <1>4, <2>1, <2>2
<1>6. Leader' = Leader
  BY DEF Leader
<1>7. Punches(BytesAt(places))'
  BY <1>5, <1>6 DEF Punches
<1> QED BY <1>1, <1>3, <1>7

LEMMA PlacesMore ==
    ASSUME history \in Seq(Nat), NEW places \in Seq(Nat), OrderedPlaces(places),
           NEW p \in 1 .. Len(history), Before(places, p)
    PROVE  /\ Append(places, p) \in Seq(Nat) /\ OrderedPlaces(Append(places, p))
           /\ BytesAt(Append(places, p)) = Append(BytesAt(places), history[p])
<1> DEFINE n == Len(places)
           a == Append(places, p)
<1>1. n \in Nat /\ a \in Seq(Nat) /\ Len(a) = n + 1 /\ (\A i \in 1 .. n : a[i] = places[i]) /\ a[n + 1] = p
      /\ p \in Nat /\ (\A i \in 1 .. n : places[i] \in Nat) /\ 1 <= p /\ p <= Len(history) /\ Len(history) \in Nat
  OBVIOUS
<1>2. \A i \in 1 .. n + 1 : i \in 1 .. n \/ i = n + 1
  <2> HIDE DEF n
  <2>1. n \in Nat
    BY <1>1
  <2> QED BY <2>1
<1>3. /\ \A i, j \in 1 .. n : i < j => places[i] < places[j]
      /\ \A i \in 1 .. n : i <= places[i] /\ places[i] <= Len(history) /\ places[i] < p
  BY DEF OrderedPlaces, Before
<1>4. n + 1 <= p
  <2>1. CASE n = 0
    BY <1>1, <2>1
  <2>2. CASE n # 0
    <3>1. n \in 1 .. n
      BY <1>1, <2>2
    <3>2. n <= places[n] /\ places[n] < p /\ places[n] \in Nat
      BY <1>1, <1>3, <3>1
    <3> QED BY <1>1, <3>2
  <2> QED BY <2>1, <2>2
<1>5. OrderedPlaces(a)
  <2> HIDE DEF a, n
  <2>1. \A i, j \in 1 .. n + 1 : i < j => a[i] < a[j]
    <3> SUFFICES ASSUME NEW i \in 1 .. n + 1, NEW j \in 1 .. n + 1, i < j PROVE a[i] < a[j]
      OBVIOUS
    <3>1. i \in 1 .. n
      BY <1>1
    <3>2. CASE j \in 1 .. n
      BY <1>1, <1>3, <3>1, <3>2
    <3>3. CASE j = n + 1
      BY <1>1, <1>3, <3>1, <3>3
    <3> QED BY <1>2, <3>2, <3>3
  <2>2. \A i \in 1 .. n + 1 : i <= a[i] /\ a[i] <= Len(history)
    BY <1>1, <1>2, <1>3, <1>4
  <2> QED BY <1>1, <2>1, <2>2 DEF OrderedPlaces
<1>6. BytesAt(a) = Append(BytesAt(places), history[p])
  <2> DEFINE b == BytesAt(places)
             c == BytesAt(a)
             d == Append(b, history[p])
  <2>1. b \in Seq(Nat) /\ Len(b) = n /\ history[p] \in Nat
    BY BytesType
  <2>2. c \in Seq(Nat) /\ Len(c) = n + 1
    BY <1>1, <1>5, BytesType
  <2>3. d \in Seq(Nat) /\ Len(d) = n + 1 /\ (\A i \in 1 .. n : d[i] = b[i]) /\ d[n + 1] = history[p]
    BY <2>1
  <2>4. \A i \in 1 .. n : b[i] = history[places[i]]
    BY DEF BytesAt
  <2>5. \A i \in 1 .. n + 1 : c[i] = history[a[i]]
    <3> HIDE DEF a
    <3> QED BY <1>1 DEF BytesAt
  <2> HIDE DEF a, b, c, d, n
  <2>6. \A i \in 1 .. n + 1 : c[i] = d[i]
    BY <1>1, <1>2, <2>3, <2>4, <2>5
  <2>7. c = d
    BY <2>2, <2>3, <2>6, SeqEqual
  <2> QED BY <2>7 DEF c, d, b
<1> QED BY <1>1, <1>5, <1>6

\* What a step of the punch's keeps, whichever it is.
LEMMA OnceParts ==
    ASSUME TapeInv, OnceInv, tapeDev = "ptp"
    PROVE  /\ history \in Seq(Nat) /\ tapeReg.flag \in BOOLEAN /\ tapeReg.step \in BOOLEAN /\ tapeReg.char \in Nat
           /\ tapeVal.char \in Nat /\ tapePc \in PtpPcs
           /\ Len(history) > 0 => tapeReg.char = history[Len(history)]
           /\ tapeReg.step \/ (tapePc = "enable2" /\ tapeVal.step) => Len(history) > 0
           /\ \E places \in Seq(Nat) : PlacesFit(places)
  BY DEF TapeInv, OnceInv, TapeTypeOK, TapeRegs

\* The PDP-8/L punches, takes the flag, or pulses START.
LEMMA OncePdp ==
    ASSUME TapeInv, OnceInv, tapeDev = "ptp", TapePdp
    PROVE  OnceInv'
<1>1. PICK places \in Seq(Nat) : PlacesFit(places)
  BY OnceParts
<1>2. OrderedPlaces(places) /\ Punches(BytesAt(places)) /\ history \in Seq(Nat)
  BY <1>1, OnceParts DEF PlacesFit
<1>3. UNCHANGED <<tapeDev, tapeOpts, tapePc, tapeVal, tapeFile>> /\ Trailer' = Trailer
  BY DEF TapePdp, device, Trailer
<1>4. CASE \E byte \in PunchedBytes : Punch(byte)
  <2>1. PICK byte \in PunchedBytes : Punch(byte)
    BY <1>4
  <2>2. byte \in Nat
    BY PaperAssumption
  <2>3. history' = Append(history, byte) /\ tapeReg' = Register(FALSE, TRUE, byte)
    BY <2>1 DEF Punch
  <2>4. history' \in Seq(Nat) /\ Len(history') = Len(history) + 1 /\ history'[Len(history')] = byte
        /\ \A i \in 1 .. Len(history) : history'[i] = history[i]
    BY <1>2, <2>2, <2>3
  <2>5. tapeReg'.char = byte
    BY <2>2, <2>3, RegIs
  <2>6. OrderedPlaces(places)' /\ Punches(BytesAt(places))'
    BY <1>2, <1>3, <2>2, <2>3, PlacesStay
  <2>7. Before(places, Len(history'))
    <3> SUFFICES ASSUME NEW i \in 1 .. Len(places) PROVE places[i] < Len(history')
      BY DEF Before
    <3>1. places[i] <= Len(history) /\ places[i] \in Nat /\ Len(history) \in Nat
      BY <1>2 DEF OrderedPlaces
    <3>2. Len(history') = Len(history) + 1
      BY <2>4
    <3> QED BY <3>1, <3>2
  <2>8. tapePc = "write" => \E p \in 1 .. Len(history') : Before(places, p) /\ tapeVal.char = history'[p]
    <3> SUFFICES ASSUME tapePc = "write"
                 PROVE  \E p \in 1 .. Len(history') : Before(places, p) /\ tapeVal.char = history'[p]
      OBVIOUS
    <3>1. PICK p \in 1 .. Len(history) : Before(places, p) /\ tapeVal.char = history[p]
      BY <1>1 DEF PlacesFit
    <3>2. p \in 1 .. Len(history') /\ history'[p] = history[p]
      BY <1>2, <2>4
    <3> QED BY <3>1, <3>2
  <2>9. PlacesFit(places)'
    BY <1>1, <1>3, <2>6, <2>7, <2>8 DEF PlacesFit, Before
  <2>10. Len(history') > 0
    BY <1>2, <2>4
  <2> QED BY <2>4, <2>5, <2>9, <2>10 DEF OnceInv
<1>5. CASE SkipPunched \/ TapeBinit
  <2>1. /\ history' = history /\ tapeReg'.step = tapeReg.step /\ tapeReg'.char = tapeReg.char
    <3>1. tapeReg \in TapeRegs
      BY DEF TapeInv, TapeTypeOK
    <3> QED BY <1>5, <3>1 DEF SkipPunched, TapeBinit, TapeRegs
  <2>2. OrderedPlaces(places)' /\ Punches(BytesAt(places))'
    BY <1>2, <1>3, <2>1, PlacesStay
  <2>3. PlacesFit(places)'
    BY <1>1, <1>3, <2>1, <2>2 DEF PlacesFit, Before
  <2> QED BY <1>3, <2>1, <2>3, OnceParts DEF OnceInv
<1> QED BY <1>4, <1>5 DEF TapePdp, StepReader, ReadChar

\* The program's steps that write nothing into the file
LEMMA OnceQuiet ==
    ASSUME TapeInv, OnceInv, tapeDev = "ptp",
           UNCHANGED <<tapeDev, tapeOpts, tapeFile, history>>, Trailer' = Trailer,
           tapeReg'.char = tapeReg.char,
           tapeReg'.step \/ (tapePc' = "enable2" /\ tapeVal'.step) =>
               tapeReg.step \/ (tapePc = "enable2" /\ tapeVal.step),
           tapePc' \in {"enable", "enable2"} => tapePc \in {"enable", "enable2"},
           tapePc' = "poll" /\ tapeReg'.step => tapePc \in {"enable", "enable2"},
           tapePc' = "write" => tapePc = "poll" /\ tapeReg.step /\ tapeVal'.char = tapeReg.char
    PROVE  OnceInv'
<1>1. PICK places \in Seq(Nat) : PlacesFit(places)
  BY OnceParts
<1>2. OrderedPlaces(places) /\ Punches(BytesAt(places)) /\ history \in Seq(Nat)
  BY <1>1, OnceParts DEF PlacesFit
<1>3. OrderedPlaces(places)' /\ Punches(BytesAt(places))'
  BY <1>2, PlacesStay
<1>4. (tapePc \in {"enable", "enable2"} => places = <<>>)'
  BY <1>1 DEF PlacesFit
<1>5. (tapePc = "poll" /\ tapeReg.step => Before(places, Len(history)))'
  <2>1. Before(<<>>, Len(history))
    BY DEF Before
  <2> QED BY <1>1, <2>1 DEF PlacesFit, Before
<1>6. (tapePc = "write" => \E p \in 1 .. Len(history) : Before(places, p) /\ tapeVal.char = history[p])'
  <2> SUFFICES ASSUME tapePc' = "write"
               PROVE  \E p \in 1 .. Len(history) : Before(places, p) /\ tapeVal'.char = history[p]
    BY DEF Before
  <2>1. Before(places, Len(history)) /\ tapeReg.step
    BY <1>1 DEF PlacesFit
  <2>2. Len(history) > 0 /\ tapeReg.char = history[Len(history)] /\ Len(history) \in 1 .. Len(history)
    BY <1>2, <2>1, OnceParts
  <2> QED BY <2>1, <2>2
<1>7. PlacesFit(places)'
  BY <1>3, <1>4, <1>5, <1>6 DEF PlacesFit
<1>8. (Len(history) > 0 => tapeReg.char = history[Len(history)])'
  BY OnceParts
<1>9. (tapeReg.step \/ (tapePc = "enable2" /\ tapeVal.step) => Len(history) > 0)'
  BY OnceParts
<1> QED BY <1>7, <1>8, <1>9 DEF OnceInv

\* The byte in hand was given after all that are on the file.
LEMMA OnceWrites ==
    ASSUME TapeInv, OnceInv, tapeDev = "ptp", PtpWrite, tapePc' = "done",
           UNCHANGED <<device, tapeAsked, history, tapeCross, tapeLeft>>
    PROVE  OnceInv'
<1>1. PICK places \in Seq(Nat) : PlacesFit(places)
  BY OnceParts
<1>2. /\ UNCHANGED <<tapeDev, tapeOpts, history, tapeReg, tapeVal>> /\ tapePc = "write"
      /\ \/ ~Removed(PtpMask(tapeVal.char)) /\ tapeFile' = Append(tapeFile, PtpMask(tapeVal.char))
         \/ Removed(PtpMask(tapeVal.char)) /\ tapeFile' = tapeFile
  BY DEF PtpWrite, device, Exit
<1>3. OrderedPlaces(places) /\ Punches(BytesAt(places)) /\ history \in Seq(Nat)
  BY <1>1, OnceParts DEF PlacesFit
<1>4. PICK p \in 1 .. Len(history) : Before(places, p) /\ tapeVal.char = history[p]
  BY <1>1, <1>2 DEF PlacesFit
<1> DEFINE more == Append(places, p)
<1>5. more \in Seq(Nat) /\ OrderedPlaces(more) /\ BytesAt(more) = Append(BytesAt(places), tapeVal.char)
  BY <1>3, <1>4, PlacesMore
<1>6. BytesAt(places) \in Seq(Nat) /\ tapeVal.char \in Nat
  BY <1>3, BytesType, OnceParts
<1>7. tapeFile' = Leader' \o (Kept(BytesAt(places)) \o Stays(tapeVal.char)) \o Trailer'
  BY <1>2, <1>3, <1>6, WriteMore
<1>8. Kept(BytesAt(more)) = Kept(BytesAt(places)) \o Stays(tapeVal.char)
  <2> HIDE DEF more
  <2> QED BY <1>5, <1>6, KeptMore
<1>9. OrderedPlaces(more)' /\ BytesAt(more)' = BytesAt(more)
  <2> HIDE DEF more
  <2> QED BY <1>2, <1>5 DEF OrderedPlaces, BytesAt
<1>10. Kept(BytesAt(more))' = Kept(BytesAt(more))
  <2> HIDE DEF more
  <2>1. \A h : Kept(h)' = Kept(h)
    BY <1>2, KeptStays
  <2>2. Kept(BytesAt(more))' = Kept(BytesAt(more)')
    BY <1>2 DEF Kept, PtpMask, Removed
  <2> QED BY <1>9, <2>1, <2>2
<1> HIDE DEF more
<1>11. Punches(BytesAt(more))'
  BY <1>7, <1>8, <1>10 DEF Punches
<1>12. PlacesFit(more)'
  BY <1>9, <1>11 DEF PlacesFit
<1> QED BY <1>2, <1>5, <1>12, OnceParts DEF OnceInv

\* The trailer is written.
LEMMA OnceEnds ==
    ASSUME TapeInv, OnceInv, tapeDev = "ptp", PtpEnd,
           UNCHANGED <<device, tapeAsked, history, tapeCross, tapeLeft>>
    PROVE  OnceInv'
<1>1. PICK places \in Seq(Nat) : PlacesFit(places)
  BY OnceParts
<1>2. /\ UNCHANGED <<tapeDev, tapeOpts, history, tapeReg, tapeVal>> /\ tapePc = "poll" /\ tapePc' = "closed"
      /\ tapeFile' = IF "trailer" \in tapeOpts THEN tapeFile \o Nulls ELSE tapeFile
  BY DEF PtpEnd, device
<1>3. OrderedPlaces(places) /\ Punches(BytesAt(places)) /\ history \in Seq(Nat)
  BY <1>1, OnceParts DEF PlacesFit
<1>4. OrderedPlaces(places)' /\ BytesAt(places)' = BytesAt(places)
  BY <1>2, <1>3 DEF OrderedPlaces, BytesAt
<1>5. Kept(BytesAt(places))' = Kept(BytesAt(places))
  <2>1. \A h : Kept(h)' = Kept(h)
    BY <1>2, KeptStays
  <2>2. Kept(BytesAt(places))' = Kept(BytesAt(places)')
    BY <1>2 DEF Kept, PtpMask, Removed
  <2> QED BY <1>4, <2>1, <2>2
<1>6. Punches(BytesAt(places))'
  <2> DEFINE b == BytesAt(places)
  <2>1. b \in Seq(Nat) /\ tapeFile = Leader \o Kept(b) \o Trailer
    BY <1>3, BytesType DEF Punches
  <2>2. Kept(b)' = Kept(b)
    BY Zenon, <1>5
  <2> HIDE DEF b
  <2>3. tapeFile' = Leader' \o Kept(b) \o Trailer'
    BY <1>2, <2>1, TrailerMore
  <2>4. tapeFile' = Leader' \o Kept(b)' \o Trailer'
    BY Zenon, <2>2, <2>3
  <2> QED BY Zenon, <2>4 DEF Punches, b
<1>7. PlacesFit(places)'
  BY <1>2, <1>4, <1>6 DEF PlacesFit
<1> QED BY <1>2, <1>7, OnceParts DEF OnceInv

\* Every step, of the processor and of either program
LEMMA OncePreserved == TapeInv /\ OnceInv /\ [TapeNext]_tapeVars => OnceInv'
<1> SUFFICES ASSUME TapeInv, OnceInv, [TapeNext]_tapeVars PROVE OnceInv'
  OBVIOUS
<1>1. CASE tapeDev = "ptr"
  <2>1. UNCHANGED tapeDev
    BY DEF TapeNext, TapePdp, TapeProgram, Enable, device, tapeVars
  <2> QED BY <1>1, <2>1 DEF OnceInv
<1>2. CASE tapeDev = "ptp"
  <2>1. tapePc \in PtpPcs /\ tapeReg \in TapeRegs /\ tapeVal \in TapeRegs
    BY <1>2 DEF TapeInv, TapeTypeOK
  <2>2. CASE UNCHANGED tapeVars
    <3>1. UNCHANGED <<tapeDev, tapeOpts, tapeFile, history, tapePc, tapeReg, tapeVal>>
      BY <2>2 DEF tapeVars
    <3>2. PICK places \in Seq(Nat) : PlacesFit(places)
      BY <1>2, OnceParts
    <3>3. PlacesFit(places)'
      <4>1. OrderedPlaces(places) /\ Punches(BytesAt(places)) /\ history \in Seq(Nat) /\ Trailer' = Trailer
        BY <1>2, <3>1, <3>2, OnceParts DEF PlacesFit, Trailer
      <4>2. OrderedPlaces(places)' /\ Punches(BytesAt(places))'
        BY <3>1, <4>1, PlacesStay
      <4> QED BY <3>1, <3>2, <4>2 DEF PlacesFit, Before
    <3> QED BY <1>2, <3>1, <3>3, OnceParts DEF OnceInv
  <2>3. CASE TapePdp
    BY <1>2, <2>3, OncePdp
  <2>4. CASE Enable
    <3>1. UNCHANGED <<tapeDev, tapeOpts, tapeFile, history>> /\ tapePc \in {"enable", "enable2"}
          /\ tapePc' \in {"enable2", "poll"}
      BY <2>4 DEF Enable, device
    <3>2. Trailer' = Trailer
      BY <3>1 DEF Trailer
    <3>3. tapeReg'.char = tapeReg.char
          /\ (tapeReg'.step \/ (tapePc' = "enable2" /\ tapeVal'.step) =>
                  tapeReg.step \/ (tapePc = "enable2" /\ tapeVal.step))
      <4>1. CASE tapePc = "enable" /\ "clear" \in tapeOpts
        <5>1. tapeReg' = Register(FALSE, FALSE, tapeReg.char) /\ tapePc' = "poll" /\ tapeReg.char \in Nat
          BY <1>2, <2>1, <2>4, <4>1 DEF Enable, TapeRegs
        <5>2. tapeReg'.step = FALSE /\ tapeReg'.char = tapeReg.char
          BY <5>1, RegIs
        <5> QED BY <5>1, <5>2
      <4>2. CASE tapePc = "enable" /\ "clear" \notin tapeOpts
        BY <1>2, <2>1, <2>4, <4>2 DEF Enable
      <4>3. CASE tapePc = "enable2"
        <5>1. tapeReg' = [tapeVal EXCEPT !.char = tapeReg.char] /\ tapePc' = "poll"
          BY <1>2, <2>4, <4>3 DEF Enable
        <5> QED BY <2>1, <4>3, <5>1 DEF TapeRegs
      <4> QED BY <3>1, <4>1, <4>2, <4>3
    <3> QED BY <1>2, <3>1, <3>2, <3>3, OnceQuiet
  <2>5. CASE PtpPoll /\ UNCHANGED <<device, tapeAsked, history, tapeCross, tapeLeft>>
    <3>1. UNCHANGED <<tapeDev, tapeOpts, tapeFile, history, tapeReg>> /\ tapePc = "poll" /\ tapePc' = "write"
          /\ tapeReg.step /\ tapeVal' = Register(FALSE, FALSE, tapeReg.char)
      BY <2>5 DEF PtpPoll, device, Byte
    <3>2. Trailer' = Trailer /\ tapeVal'.char = tapeReg.char
      BY <2>1, <3>1, RegIs DEF Trailer, TapeRegs
    <3> QED BY <1>2, <3>1, <3>2, OnceQuiet
  <2>6. CASE PtpWrite /\ UNCHANGED <<device, tapeAsked, history, tapeCross, tapeLeft>>
    <3>1. tapePc = "write" /\ tapePc' \in {"done", "exit"}
      BY <2>6 DEF PtpWrite, Exit
    <3>2. CASE tapePc' = "exit"
      <4>1. UNCHANGED <<tapeDev, tapeOpts, tapeFile, history, tapeReg>>
        BY <2>6, <3>2 DEF PtpWrite, device
      <4>2. Trailer' = Trailer
        BY <3>1, <3>2, <4>1 DEF Trailer
      <4> QED BY <1>2, <3>1, <3>2, <4>1, <4>2, OnceQuiet
    <3> QED BY <1>2, <2>6, <3>1, <3>2, OnceWrites
  <2>7. CASE PtpDone /\ UNCHANGED <<device, tapeAsked, history, tapeCross, tapeLeft>>
    <3>1. UNCHANGED <<tapeDev, tapeOpts, tapeFile, history>> /\ tapePc = "done" /\ tapePc' = "poll"
          /\ tapeReg' = Register(TRUE, FALSE, tapeReg.char)
      BY <2>7 DEF PtpDone, device
    <3>2. Trailer' = Trailer /\ tapeReg'.char = tapeReg.char /\ tapeReg'.step = FALSE
      BY <2>1, <3>1, RegIs DEF Trailer, TapeRegs
    <3> QED BY <1>2, <3>1, <3>2, OnceQuiet
  <2>8. CASE PtpEnd /\ UNCHANGED <<device, tapeAsked, history, tapeCross, tapeLeft>>
    BY <1>2, <2>8, OnceEnds
  <2>9. ~ PtrPoll /\ ~ PtrRead /\ ~ PtrInsert /\ ~ PtrGive
    BY <1>2, <2>1 DEF PtrPoll, PtrRead, PtrInsert, PtrGive, PtpPcs
  <2> QED BY <2>2, <2>3, <2>4, <2>5, <2>6, <2>7, <2>8, <2>9 DEF TapeNext, TapeProgram, Worker
<1> QED BY <1>1, <1>2 DEF TapeInv, TapeTypeOK

LEMMA OnceInit == TapeInit => OnceInv
<1> SUFFICES ASSUME TapeInit, tapeDev = "ptp" PROVE OnceInv
  BY DEF OnceInv
<1>1. tapeFile = Leader /\ tapePc = "enable" /\ history = <<>> /\ tapeReg.step = FALSE
  BY RegIs DEF TapeInit, PtrStart, PtpStart, Leader, Nothing
<1>2. TapeInv
  BY TapeInitInv
<1>3. tapeFile = Leader \o Kept(Punched) \o Trailer /\ Punched = <<>>
  <2>1. tapeCross = FALSE
    BY DEF TapeInit
  <2>2. Unpunched = 0 /\ Len(history) - 0 = 0 /\ Len(history) = 0
    BY <1>1 DEF Unpunched
  <2>3. Punched = <<>>
    BY <1>1, <2>2, PunchedIs DEF Punched
  <2> QED BY <1>2, <2>1, <2>3, PunchParts
<1>4. BytesAt(<<>>) = <<>>
  BY DEF BytesAt
<1>5. PlacesFit(<<>>)
  BY <1>1, <1>3, <1>4 DEF PlacesFit, OrderedPlaces, Punches, Before
<1>6. <<>> \in Seq(Nat) /\ Len(history) = 0
  BY <1>1
<1>7. ~ (Len(history) > 0) /\ ~ tapeReg.step /\ tapePc # "enable2"
  BY <1>1, <1>6
<1>8. \E places \in Seq(Nat) : PlacesFit(places)
  BY Zenon, <1>5, <1>6
<1> QED BY Zenon, <1>7, <1>8 DEF OnceInv

\* There are no more places than bytes.
LEMMA OnceShown == TapeInv /\ OnceInv /\ tapeDev = "ptp" => PunchedOnce
<1> SUFFICES ASSUME TapeInv, OnceInv, tapeDev = "ptp" PROVE PunchedOnce
  OBVIOUS
<1>1. PICK places \in Seq(Nat) : PlacesFit(places)
  BY OnceParts
<1> DEFINE n == Len(places)
<1>2. OrderedPlaces(places) /\ Punches(BytesAt(places)) /\ history \in Seq(Nat) /\ n \in Nat /\ Len(history) \in Nat
  BY <1>1, OnceParts DEF PlacesFit
<1>3. \A i \in 1 .. n : places[i] \in 1 .. Len(history) /\ i <= places[i]
  BY <1>2 DEF OrderedPlaces
<1>4. n \in 0 .. Len(history)
  <2>1. CASE n = 0
    BY <1>2, <2>1
  <2>2. CASE n # 0
    <3>1. n \in 1 .. n
      BY <1>2, <2>2
    <3>2. n <= places[n] /\ places[n] \in 1 .. Len(history)
      BY <1>3, <3>1
    <3> QED BY <1>2, <3>2
  <2> QED BY <2>1, <2>2
<1>5. places \in [1 .. n -> 1 .. Len(history)]
  <2>1. places = [i \in 1 .. n |-> places[i]]
    OBVIOUS
  <2> HIDE DEF n
  <2> QED BY <1>3, <2>1
<1>6. \A i, j \in 1 .. n : i < j => places[i] < places[j]
  BY <1>2 DEF OrderedPlaces
<1>7. Punches([i \in 1 .. n |-> history[places[i]]])
  BY <1>2 DEF BytesAt
<1> HIDE DEF n
<1> QED BY <1>4, <1>5, <1>6, <1>7 DEF PunchedOnce

\* z8lptr and z8lptp, for tapes of any bytes and any options, started and ended
\* and with the step, read, punch and START pulses coming at any time: what
\* leaves the reader's interface - read, or thrown away by a START or RFC that
\* clears the flag - is the text of the tape, each byte once and in order, with
\* the CRs of -inscr and the parity bit of -7bit.  The punch's file is its leader,
\* bytes given to the punch, in order and none twice, less those -remcr, -remdel
\* and -remnul remove, and its trailer; and no byte is missing but the one still in
\* the punch, unless START came while one was, or a pulse between the read and the
\* write of a |= .
THEOREM TapesAreRight == TapeSpec => []TapeRight
<1>1. TapeInv /\ OnceInv => TapePunchedRight
  <2> SUFFICES ASSUME TapeInv, OnceInv, tapeDev = "ptp"
               PROVE  PunchedOnce /\ (~tapeCross => PunchedAll)
    BY DEF TapePunchedRight
  <2>1. ~tapeCross => tapeFile = Leader \o Kept(Punched) \o Trailer
    BY PunchParts
  <2>2. ~tapeCross => PunchedAll
    BY <2>1 DEF PunchedAll, Punches, Punched, Unpunched
  <2> QED BY <2>2, OnceShown
<1>2. TapeInv /\ OnceInv => TapeRight
  BY <1>1, ReaderShown DEF TapeRight
<1> QED BY TapeInitInv, TapePreserved, OnceInit, OncePreserved, <1>2, PTL DEF TapeSpec
=============================================================================
