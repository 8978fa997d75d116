------------------------------ MODULE PaperTape ------------------------------
(***************************************************************************)
(* The paper tape reader with z8lptr, and the punch with z8lptp.  Either   *)
(* interface is one register, <flag> <enable> <step or busy> <char>, that  *)
(* the PDP-8/L's instructions and START change in one clock and the program *)
(* reads and writes as a whole; at its start it may do both, with |=.      *)
(*                                                                         *)
(* Waiting for the next poll (-cps) is left out: a poll comes in the end.  *)
(***************************************************************************)
EXTENDS SequencesExt

CONSTANTS
    PtrTapes,      \* the contents the reader's file may have
    PtrOptions,    \* sets of options of z8lptr
    PunchedBytes,  \* what the PDP-8/L program may punch
    PtpOptions,    \* sets of options of z8lptp
    MaxPunched, MaxBinits    \* bounds

\* A tape is a file of bytes, and AC<04:11> goes to the punch.
ASSUME PaperAssumption == (PtrTapes \subseteq Seq(0 .. 255)) /\ (PunchedBytes \subseteq 0 .. 255)

VARIABLES
    tapeDev,   \* "ptr" or "ptp"
    tapeOpts,  \* the options given
    tapeReg,   \* the interface's register
    tapePc, tapeVal,    \* the program: where it is, the register or (as char) byte it holds
    tapeFile,  \* the reader's bytes still to come, or the bytes punched
    lastcr,    \* the reader's last byte was a CR
    tapeAsked,     \* the PDP-8/L program waits for the flag
    history,   \* reader: bytes that have left the interface; punch: bytes given to it
    tapeCross, \* history: the PDP-8/L came between a |= , or START while busy
    tapeLeft   \* what is left of the bounds

tapeVars == <<tapeDev, tapeOpts, tapeReg, tapePc, tapeVal, tapeFile, lastcr, tapeAsked, history,
              tapeCross, tapeLeft>>
device == <<tapeDev, tapeOpts>>

CR == 13
LF == 10
Low7(byte) == byte % 128
TopBit(byte) == IF byte < 128 THEN byte + 128 ELSE byte
PtrMask(byte) == IF "7bit" \in tapeOpts THEN TopBit(byte) ELSE byte
PtpMask(byte) == IF "7bit" \in tapeOpts THEN Low7(byte) ELSE byte
Nulls == <<0>>   \* one stands for the sixteen of a leader or trailer

Register(flag, step, char) == [flag |-> flag, step |-> step, char |-> char]
Nothing == Register(FALSE, FALSE, 0)
Byte(byte) == Register(FALSE, FALSE, byte)

TapeIdle ==
    /\ tapeDev = "ptr" /\ tapeOpts = {} /\ tapeFile = <<>> /\ tapeReg = Nothing
    /\ tapePc = "enable" /\ tapeVal = Nothing /\ lastcr = FALSE /\ tapeAsked = FALSE /\ history = <<>>
    /\ tapeCross = FALSE /\ tapeLeft = [bytes |-> MaxPunched, binits |-> MaxBinits]

\* The options are read, the file opened and the punch's leader written before
\* the board is found.
PtrStart == /\ tapeDev = "ptr" /\ tapeOpts \in PtrOptions
            /\ tapeFile \in PtrTapes
PtpStart == /\ tapeDev = "ptp" /\ tapeOpts \in PtpOptions
            /\ tapeFile = IF "leader" \in tapeOpts THEN Nulls ELSE <<>>

TapeInit ==
    /\ PtrStart \/ PtpStart
    /\ tapeReg = Nothing
    /\ tapePc = "enable" /\ tapeVal = Nothing /\ lastcr = FALSE /\ tapeAsked = FALSE /\ history = <<>>
    /\ tapeCross = FALSE /\ tapeLeft = [bytes |-> MaxPunched, binits |-> MaxBinits]

-----------------------------------------------------------------------------
\* The PDP-8/L.  A program asks for a byte, waits for the flag, reads the byte.
StepReader ==       \* RFC
    /\ tapeDev = "ptr" /\ ~tapeAsked
    /\ history' = IF tapeReg.flag THEN Append(history, tapeReg.char) ELSE history
    /\ tapeReg' = [tapeReg EXCEPT !.flag = FALSE, !.step = TRUE]
    /\ tapeAsked' = TRUE
    /\ tapeCross' = (tapeCross \/ tapePc = "enable2")
    /\ UNCHANGED tapeLeft

ReadChar ==   \* RSF skipped, RRB
    /\ tapeDev = "ptr" /\ tapeReg.flag
    /\ tapeReg' = [tapeReg EXCEPT !.flag = FALSE]
    /\ history' = Append(history, tapeReg.char)
    /\ tapeAsked' = FALSE
    /\ UNCHANGED <<tapeCross, tapeLeft>>

Punch(byte) ==    \* PLS
    /\ tapeDev = "ptp" /\ ~tapeAsked /\ tapeLeft.bytes > 0
    /\ tapeReg' = Register(FALSE, TRUE, byte)
    /\ tapeAsked' = TRUE
    /\ history' = Append(history, byte)
    /\ tapeCross' = (tapeCross \/ tapePc = "enable2")
    /\ tapeLeft' = [tapeLeft EXCEPT !.bytes = @ - 1]

SkipPunched ==    \* PSF skipped
    /\ tapeDev = "ptp" /\ tapeAsked /\ tapeReg.flag
    /\ tapeAsked' = FALSE
    /\ UNCHANGED <<tapeReg, history, tapeCross, tapeLeft>>

\* START: the reader forgets its flag and the request, the punch only its flag.
TapeBinit ==
    /\ tapeLeft.binits > 0
    /\ tapeLeft' = [tapeLeft EXCEPT !.binits = @ - 1]
    /\ tapeAsked' = FALSE
    /\ IF tapeDev = "ptr"
       THEN /\ tapeReg' = [tapeReg EXCEPT !.flag = FALSE, !.step = FALSE]
            /\ history' = IF tapeReg.flag THEN Append(history, tapeReg.char) ELSE history
            /\ UNCHANGED tapeCross
       ELSE /\ tapeReg' = [tapeReg EXCEPT !.flag = FALSE]
            /\ tapeCross' = (tapeCross \/ tapeReg.step)
            /\ UNCHANGED history

TapePdp ==
    /\ StepReader \/ ReadChar \/ (\E byte \in PunchedBytes : Punch(byte)) \/ SkipPunched \/ TapeBinit
    /\ UNCHANGED <<device, tapePc, tapeVal, tapeFile, lastcr>>

-----------------------------------------------------------------------------
\* Enabling the board: with -clear a write, else a read and a write.
Enable ==
    /\ \/ /\ tapePc = "enable" /\ "clear" \in tapeOpts
          /\ tapeReg' = Register(FALSE, FALSE, IF tapeDev = "ptr" THEN 0 ELSE tapeReg.char)
          /\ tapePc' = "poll"
          /\ tapeCross' = (tapeCross \/ tapeReg.step)
          /\ UNCHANGED tapeVal
       \/ /\ tapePc = "enable" /\ "clear" \notin tapeOpts
          /\ tapeVal' = tapeReg
          /\ tapePc' = "enable2"
          /\ UNCHANGED <<tapeReg, tapeCross>>
       \/ /\ tapePc = "enable2"
          /\ tapeReg' = IF tapeDev = "ptr" THEN tapeVal ELSE [tapeVal EXCEPT !.char = tapeReg.char]
          /\ tapePc' = "poll" /\ tapeVal' = Nothing
          /\ UNCHANGED tapeCross
    /\ UNCHANGED <<device, tapeFile, lastcr, tapeAsked, history, tapeLeft>>

Exit == tapePc' = "exit"
Give(byte) == tapeReg' = Register(TRUE, FALSE, PtrMask(byte))

\* The reader: a request seen is taken back before the file is read.
PtrPoll ==
    /\ tapePc = "poll" /\ tapeDev = "ptr" /\ tapeReg.step
    /\ tapeReg' = Nothing
    /\ tapePc' = "read"
    /\ UNCHANGED <<tapeVal, tapeFile, lastcr>>

PtrRead ==
    /\ tapePc = "read"
    /\ \/ Exit /\ UNCHANGED <<tapeFile, tapeVal>>                  \* an error, or the end
       \/ /\ tapeFile # <<>>
          /\ tapeVal' = Byte(Head(tapeFile)) /\ tapeFile' = Tail(tapeFile)
          /\ tapePc' = IF Low7(Head(tapeFile)) = LF /\ "inscr" \in tapeOpts /\ ~lastcr
                       THEN "insert" ELSE "give"
    /\ UNCHANGED <<tapeReg, lastcr>>

\* Mutant: the LF follows the CR at once.
PtrInsertBlind ==
    /\ tapePc = "insert"
    /\ Give(tapeVal.char - LF + CR)
    /\ tapePc' = "give"
    /\ UNCHANGED <<tapeVal, tapeFile, lastcr>>

PtrInsert ==
    \/ /\ tapePc = "insert"
       /\ Give(tapeVal.char - LF + CR)
       /\ tapePc' = "repoll"
       /\ UNCHANGED <<tapeVal, tapeFile, lastcr>>
    \/ /\ tapePc = "repoll" /\ tapeReg.step
       /\ tapePc' = "give"
       /\ UNCHANGED <<tapeReg, tapeVal, tapeFile, lastcr>>

\* Mutant: the byte is written without its flag.
PtrGiveNoFlag ==
    /\ tapePc = "give"
    /\ tapeReg' = Byte(PtrMask(tapeVal.char))
    /\ lastcr' = (Low7(tapeVal.char) = CR)
    /\ tapePc' = "poll" /\ tapeVal' = Nothing
    /\ UNCHANGED tapeFile

PtrGive ==
    /\ tapePc = "give"
    /\ Give(tapeVal.char)
    /\ lastcr' = (Low7(tapeVal.char) = CR)
    /\ tapePc' = "poll" /\ tapeVal' = Nothing
    /\ UNCHANGED tapeFile

\* The punch: the byte of a busy register goes to the file, unless removed.
PtpPoll ==
    /\ tapePc = "poll" /\ tapeDev = "ptp" /\ tapeReg.step
    /\ tapeVal' = Byte(tapeReg.char)
    /\ tapePc' = "write"
    /\ UNCHANGED <<tapeReg, tapeFile, lastcr>>

Removed(byte) == \/ byte = CR /\ "remcr" \in tapeOpts
                 \/ byte = 127 /\ "remdel" \in tapeOpts
                 \/ byte = 0 /\ "remnul" \in tapeOpts

PtpWrite ==
    /\ tapePc = "write"
    /\ \/ /\ Removed(PtpMask(tapeVal.char)) /\ tapePc' = "done" /\ UNCHANGED <<tapeVal, tapeFile>>
       \/ /\ ~Removed(PtpMask(tapeVal.char))
          /\ \/ tapePc' = "done" /\ tapeFile' = Append(tapeFile, PtpMask(tapeVal.char)) /\ UNCHANGED tapeVal
             \/ Exit /\ UNCHANGED <<tapeVal, tapeFile>>            \* the disk is full
    /\ UNCHANGED <<tapeReg, lastcr>>

PtpDone ==
    /\ tapePc = "done"
    /\ tapeReg' = Register(TRUE, FALSE, tapeReg.char)
    /\ tapePc' = "poll" /\ tapeVal' = Nothing
    /\ UNCHANGED <<tapeFile, lastcr>>

\* Control-C is noticed between two polls.
PtpEnd ==
    /\ tapePc = "poll" /\ tapeDev = "ptp"
    /\ tapeFile' = IF "trailer" \in tapeOpts THEN tapeFile \o Nulls ELSE tapeFile
    /\ tapePc' = "closed"
    /\ UNCHANGED <<tapeReg, tapeVal, lastcr>>

Worker == PtrPoll \/ PtrRead \/ PtrInsert \/ PtrGive \/ PtpPoll \/ PtpWrite \/ PtpDone \/ PtpEnd
TapeProgram == Enable \/ (Worker /\ UNCHANGED <<device, tapeAsked, history, tapeCross, tapeLeft>>)

TapeNext == TapePdp \/ TapeProgram
TapeFair == WF_tapeVars(TapeProgram)
TapeSpec == TapeInit /\ [][TapeNext]_tapeVars /\ TapeFair

-----------------------------------------------------------------------------
\* What the bytes of a tape become under -inscr and -7bit, and what is left of
\* the bytes punched under -7bit and -remcr, -remdel, -remnul.
TapeText(tape) ==
    FlattenSeq([k \in DOMAIN tape |->
        IF "inscr" \in tapeOpts /\ Low7(tape[k]) = LF /\ (k = 1 \/ Low7(tape[k - 1]) # CR)
        THEN <<PtrMask(tape[k] + 3), PtrMask(tape[k])>> ELSE <<PtrMask(tape[k])>>])
Kept(bytes) ==
    FlattenSeq([k \in DOMAIN bytes |-> LET byte == PtpMask(bytes[k])
                                       IN  IF Removed(byte) THEN <<>> ELSE <<byte>>])

\* What leaves the interface is the text of the tape, each byte once and in order:
\* read by the PDP-8/L, or thrown away by a START or RFC while the flag is up.
TapeReadInOrder ==
    tapeDev = "ptr" =>
        \E tape \in PtrTapes :
            /\ IsSuffix(tapeFile, tape)
            /\ IsPrefix(history \o (IF tapeReg.flag THEN <<tapeReg.char>> ELSE <<>>), TapeText(tape))

\* The nulls before and after what is punched
Leader == IF "leader" \in tapeOpts THEN Nulls ELSE <<>>
Trailer == IF tapePc = "closed" /\ "trailer" \in tapeOpts THEN Nulls ELSE <<>>
Punches(bytes) == tapeFile = Leader \o Kept(bytes) \o Trailer

\* Whatever comes when: what is punched was given, in this order, none of it twice.
PunchedOnce ==
    \E n \in 0 .. Len(history) : \E places \in [1 .. n -> 1 .. Len(history)] :
        /\ \A i, j \in 1 .. n : i < j => places[i] < places[j]
        /\ Punches([i \in 1 .. n |-> history[places[i]]])

\* All is punched but the byte that is still busy.
PunchedAll ==
    LET busy == IF tapeReg.step /\ tapePc # "done" THEN 1 ELSE 0
    IN  Punches(SubSeq(history, 1, Len(history) - busy))

\* A byte given to the punch is lost only if START comes while it is busy, or the
\* PDP-8/L between the two halves of the program's |= ; none is punched twice.
TapePunchedRight == tapeDev = "ptp" => PunchedOnce /\ (~tapeCross => PunchedAll)

\* The tape's bytes go in order, none twice, to the reader and from the punch.
TapeRight == TapeReadInOrder /\ TapePunchedRight

\* The PDP-8/L waits for the flag, and neither START nor the start of the
\* program has taken the request back.
TapeWaits == tapeAsked /\ ~tapeReg.flag /\ ~tapeCross /\ tapePc \notin {"exit", "closed"}
=============================================================================
