-------------------------------- MODULE Z8lTty --------------------------------
(***************************************************************************)
(* z8ltty serves one teletype: the gate array's console interface (TT) or  *)
(* a line of its terminal multiplexer (DC).  The PDP-8/L raises prfull and *)
(* prflag or lowers kbflag by its instructions, in one clock; the program  *)
(* reads a register, decides, and writes it some time later.  START can    *)
(* come between the two.                                                   *)
(*                                                                         *)
(* Times are left out: whether the next character is due is a free choice. *)
(***************************************************************************)
EXTENDS Naturals
LOCAL INSTANCE Sequences

CONSTANTS
    Starts,       \* how z8ltty may be started: -dc02, -nokb, -upcase, and is stdin a terminal
    PrintBytes,   \* what the PDP-8/L program may print
    KeyBytes,     \* what the user may type
    Tape,         \* the bytes of the file for the reader
    StopStrings,  \* the strings -stopon may be given
    TtyBounds     \* bounds: [print: bytes printed; command: runs and single characters;
                  \* event: keys, STARTs, control-Cs and file commands together]

ASSUME StartsAssumption ==
    \A start \in Starts : start.board \in {"TT", "DC"}
                           /\ DOMAIN start \subseteq {"board", "nokb", "upcase", "stdintty"}
ASSUME BytesAssumption == PrintBytes \cup KeyBytes \subseteq 0 .. 255
ASSUME TapeAssumption == Tape \in Seq(0 .. 255)
ASSUME StopAssumption == \A s \in StopStrings : s \in Seq(1 .. 127)

VARIABLES
    ttBoard,    \* "TT" or "DC"
    tty,        \* the interface's registers
    ttyPc,      \* where z8ltty is
    ttyVal,     \* the character it has in hand
    ttyOpt,     \* its options: nokb, stdintty, the masks, the quiet flags, kbnever
    punchfile,  \* is a punch file open
    reader,     \* is a reader file open, and what is left of it
    stopon,     \* the -stopon strings, each with its hits
    ttyCtrlC,   \* ctrlcflag
    typed,      \* keys waiting in stdin
    pdpMay,     \* the PDP-8/L program knows that the printer is free
    printed,      \* what has been printed since the run began
    unprinted,  \* history: printed by the PDP-8/L, not yet by z8ltty
    unread,     \* history: accepted for the PDP-8/L, not yet read by it
    crossed,    \* history: START came while a character was in hand
    ttyCount    \* what is left of the bounds

ttyVars == <<ttBoard, tty, ttyPc, ttyVal, ttyOpt, punchfile, reader, stopon, ttyCtrlC, typed,
             pdpMay, printed, unprinted, unread, crossed, ttyCount>>
pdpSide == <<pdpMay>>
progSide == <<ttyPc, ttyVal, ttyOpt, punchfile, reader, stopon, ttyCtrlC, typed, printed>>

CtrlBackslash == 28
WithMask(byte, mask) == IF mask = 128 /\ byte < 128 THEN byte + 128 ELSE byte
Mask7(byte) == byte % 128
Upper(byte) == IF byte \in 97 .. 122 THEN byte - 32 ELSE byte
Take(what) == ttyCount[what] > 0 /\ ttyCount' = [ttyCount EXCEPT ![what] = @ - 1]

TtyRegisters == [kbflag |-> FALSE, kbchar |-> 0, prflag |-> FALSE, prfull |-> FALSE, prchar |-> 0]
Options == [nokb |-> FALSE, stdintty |-> TRUE, upcase |-> FALSE, readermask |-> 0,
            punchquiet |-> FALSE, readerquiet |-> FALSE, kbnever |-> FALSE]

TtyIdle ==
    /\ ttBoard = "TT" /\ tty = TtyRegisters
    /\ ttyPc = "prompt" /\ ttyVal = 0 /\ ttyOpt = Options
    /\ punchfile = FALSE /\ reader = [open |-> FALSE, left |-> <<>>]
    /\ stopon = <<>> /\ ttyCtrlC = FALSE /\ typed = <<>> /\ pdpMay = TRUE /\ printed = <<>>
    /\ unprinted = <<>> /\ unread = <<>> /\ crossed = FALSE
    /\ ttyCount = [print |-> 0, command |-> 0, event |-> 0]

\* main finds and enables the board; -nokb, -upcase and the terminal are given.
TtyInit ==
    \E start \in Starts :
        /\ ttBoard = start.board
        /\ tty = TtyRegisters
        /\ ttyOpt = [name \in DOMAIN Options |-> IF name \in DOMAIN start THEN start[name] ELSE Options[name]]
        /\ ttyPc = "prompt" /\ ttyVal = 0
        /\ punchfile = FALSE /\ reader = [open |-> FALSE, left |-> <<>>]
        /\ stopon = <<>> /\ ttyCtrlC = FALSE /\ typed = <<>> /\ pdpMay = TRUE /\ printed = <<>>
        /\ unprinted = <<>> /\ unread = <<>> /\ crossed = FALSE
        /\ ttyCount \in TtyBounds

-----------------------------------------------------------------------------
\* The PDP-8/L.  Its program prints only when it knows the printer is free.
PrintByte(byte, clear) ==
    /\ pdpMay /\ Take("print")
    /\ clear \/ (~tty.prflag /\ ttBoard = "TT")
    /\ tty' = [tty EXCEPT !.prchar = byte, !.prfull = TRUE, !.prflag = IF clear THEN FALSE ELSE @]
    /\ pdpMay' = FALSE
    /\ unprinted' = Append(unprinted, byte)
    /\ UNCHANGED <<unread, crossed>>

SkipPrinted == ~pdpMay /\ tty.prflag /\ pdpMay' = TRUE
               /\ UNCHANGED <<tty, unprinted, unread, crossed, ttyCount>>

ClearPrFlag == pdpMay /\ tty.prflag /\ tty' = [tty EXCEPT !.prflag = FALSE]
               /\ UNCHANGED <<pdpMay, unprinted, unread, crossed, ttyCount>>

ReadKey ==
    /\ tty.kbflag
    /\ tty' = [tty EXCEPT !.kbflag = FALSE]
    /\ unread' = Tail(unread)
    /\ UNCHANGED <<pdpMay, unprinted, crossed, ttyCount>>

\* What z8ltty has fetched and not yet printed, what it has still to fetch, and the
\* key or tape byte it has found room for.
InHand == IF ttyPc \in {"taken", "received", "show"} THEN <<ttyVal>> ELSE <<>>
ToGive == IF ttyPc \in {"put", "sendput"} THEN <<ttyVal>> ELSE <<>>
ToFetch == IF tty.prfull /\ ttyPc \notin {"taken", "received"} THEN <<tty.prchar>> ELSE <<>>

\* BINIT: START, or the program's CAF, forgets what has not been fetched.
Binit ==
    /\ Take("event")
    /\ tty' = [tty EXCEPT !.kbflag = FALSE, !.prflag = FALSE, !.prfull = FALSE]
    /\ pdpMay' = TRUE
    /\ unprinted' = InHand
    /\ unread' = ToGive
    /\ crossed' = (crossed \/ ttyPc \in {"taken", "received"})

Pdp ==
    /\ \/ \E byte \in PrintBytes, clear \in BOOLEAN : PrintByte(byte, clear)
       \/ SkipPrinted
       \/ ClearPrFlag
       \/ ReadKey
       \/ Binit
    /\ UNCHANGED <<ttBoard, progSide>>

-----------------------------------------------------------------------------
\* The registers as the program writes them: the DC's has write enables.
DcWrite(bits, byte) ==
    [tty EXCEPT !.kbchar = IF 24 \in bits THEN byte ELSE @,
                !.prfull = IF 26 \in bits THEN 29 \in bits ELSE @,
                !.prflag = IF 27 \in bits THEN 30 \in bits ELSE @,
                !.kbflag = IF 28 \in bits THEN 31 \in bits ELSE @]

\* Mutant: the write enable of prfull is missing.
dc_getprcharNoFull == DcWrite({30, 27}, 0)
dc_getprchar == DcWrite({30, 27, 26}, 0)
tt_getprchar == [tty EXCEPT !.prflag = TRUE, !.prfull = FALSE]
dc_putkbchar == DcWrite({31, 28, 24}, ttyVal)
tt_putkbchar == [tty EXCEPT !.kbflag = TRUE, !.kbchar = ttyVal]
PrinterTaken == IF ttBoard = "TT" THEN tt_getprchar ELSE dc_getprchar
KeyGiven == IF ttBoard = "TT" THEN tt_putkbchar ELSE dc_putkbchar

\* Reading the printer's register: a character if it is full.
FetchPrinter(next) ==
    /\ tty.prfull
    /\ ttyVal' = tty.prchar
    /\ ttyPc' = next

\* putkbchar's test: a key or tape byte that comes while the one before is unread is
\* refused, and what cmd_run has had refused is gone.
OfferKey(byte, put, refused) ==
    IF tty.kbflag THEN ttyPc' = refused /\ UNCHANGED <<ttyVal, unread>>
                  ELSE ttyPc' = put /\ ttyVal' = byte /\ unread' = Append(unread, byte)

PutKey(from, to) ==
    /\ ttyPc = from
    /\ tty' = KeyGiven
    /\ ttyPc' = to /\ ttyVal' = 0
    /\ UNCHANGED <<ttyOpt, punchfile, reader, stopon, ttyCtrlC, typed, printed, unprinted, unread>>

-----------------------------------------------------------------------------
\* Mutant: a mismatch starts from the beginning of the string.
FallBackToStart(s) == IF s.buff # <<>> /\ s.buff[1] = Mask7(ttyVal) THEN 1 ELSE 0

\* stoponcheck: on a mismatch the search goes down through the places where
\* the string has the character, to the longest shorter match it continues.
FallBack(s) ==
    LET ends == {i \in 0 .. s.hits - 1 :
                    /\ s.buff[i + 1] = Mask7(ttyVal)
                    /\ SubSeq(s.buff, 1, i) = SubSeq(s.buff, s.hits - i + 1, s.hits)}
    IN IF ends = {} THEN 0 ELSE 1 + CHOOSE i \in ends : \A j \in ends : j <= i

StopOnCheck(s) ==
    [s EXCEPT !.hits =
        IF Mask7(ttyVal) = 0 THEN 0
        ELSE IF s.hits < Len(s.buff) /\ s.buff[s.hits + 1] = Mask7(ttyVal) THEN s.hits + 1
        ELSE FallBack(s)]
Matched(s) == s.hits = Len(s.buff) /\ Mask7(ttyVal) # 0

\* Back to the prompt, which clears ctrlcflag; the strings are freed.
Stopped == /\ ttyPc' = "prompt" /\ stopon' = <<>> /\ ttyCtrlC' = FALSE /\ printed' = <<>>

\* cmd_run.  A bad argument leaves what the arguments before it have set.
RunStart ==
    /\ ttyPc = "prompt" /\ Take("command")
    /\ \E kb \in {"default", "kb", "nokb"}, strings \in {<<>>} \cup {<<s>> : s \in StopStrings}, bad \in BOOLEAN :
        LET nokb == IF kb = "default" THEN ttyOpt.nokb ELSE kb = "nokb"
        IN /\ bad => strings = <<>>
           /\ ttyOpt' = [ttyOpt EXCEPT !.nokb = nokb, !.kbnever = ~bad /\ nokb /\ ~reader.open]
           /\ stopon' = [k \in DOMAIN strings |-> [buff |-> strings[k], hits |-> 0]]
           /\ ttyPc' = IF bad THEN "prompt" ELSE "run"
    /\ UNCHANGED <<tty, ttyVal, punchfile, reader, ttyCtrlC, typed, printed, unprinted, unread>>

RunHead ==
    /\ ttyPc = "run"
    /\ IF ttyCtrlC THEN Stopped /\ UNCHANGED ttyVal
       ELSE (FetchPrinter("taken") \/ (ttyPc' = "keys" /\ UNCHANGED ttyVal))
            /\ UNCHANGED <<stopon, ttyCtrlC, printed>>
    /\ UNCHANGED <<tty, ttyOpt, punchfile, reader, typed, unprinted, unread, ttyCount>>

RunTaken ==
    /\ ttyPc = "taken"
    /\ tty' = PrinterTaken
    /\ ttyPc' = "show"
    /\ UNCHANGED <<ttyVal, ttyOpt, punchfile, reader, stopon, ttyCtrlC, typed, printed, unprinted, unread, ttyCount>>

\* To the screen, to the punch file (which may fail), then the strings.
RunShow ==
    LET checked == [k \in DOMAIN stopon |-> StopOnCheck(stopon[k])]
    IN /\ ttyPc = "show"
       /\ unprinted' = Tail(unprinted)
       /\ \/ punchfile /\ Stopped                 \* error writing the punch file
          \/ IF \E k \in DOMAIN checked : Matched(checked[k])
             THEN Stopped
             ELSE /\ ttyPc' = "keys" /\ stopon' = checked /\ printed' = Append(printed, Mask7(ttyVal))
                  /\ UNCHANGED ttyCtrlC
       /\ ttyVal' = 0                             \* prreg goes out of scope
       /\ UNCHANGED <<tty, ttyOpt, punchfile, reader, typed, unread, ttyCount>>

\* The keyboard: nothing due; a key; or, no key waiting, the reader's next byte.
NoKey == ttyPc' = "run" /\ UNCHANGED <<ttyVal, ttyOpt, reader, stopon, ttyCtrlC, typed, printed, unread>>

EndOfStdin == /\ ~ttyOpt.kbnever /\ ~ttyOpt.nokb /\ ~ttyOpt.stdintty /\ typed = <<>>
              /\ Stopped /\ UNCHANGED <<ttyVal, ttyOpt, reader, typed, unread>>

KeyFromStdin ==
    /\ ~ttyOpt.kbnever /\ ~ttyOpt.nokb /\ typed # <<>>
    /\ typed' = Tail(typed)
    /\ IF Head(typed) = CtrlBackslash /\ ttyOpt.stdintty
       THEN Stopped /\ UNCHANGED <<ttyVal, unread>>
       ELSE /\ OfferKey(WithMask(IF ttyOpt.upcase THEN Upper(Head(typed)) ELSE Head(typed), 128), "put", "run")
            /\ UNCHANGED <<stopon, ttyCtrlC, printed>>
    /\ UNCHANGED <<ttyOpt, reader>>

ByteFromReader ==
    /\ ~ttyOpt.kbnever /\ (ttyOpt.nokb \/ typed = <<>>) /\ reader.open
    /\ \/ Stopped /\ UNCHANGED <<ttyVal, ttyOpt, reader, unread>>    \* error reading the file
       \/ /\ reader.left = <<>>
          /\ reader' = [reader EXCEPT !.open = FALSE]
          /\ ttyOpt' = [ttyOpt EXCEPT !.readerquiet = FALSE]
          /\ ttyPc' = "run"
          /\ UNCHANGED <<ttyVal, stopon, ttyCtrlC, printed, unread>>
       \/ /\ reader.left # <<>>
          /\ reader' = [reader EXCEPT !.left = Tail(@)]
          /\ OfferKey(WithMask(Head(reader.left), ttyOpt.readermask), "put", "run")
          /\ UNCHANGED <<ttyOpt, stopon, ttyCtrlC, printed>>
    /\ UNCHANGED typed

RunKeys ==
    /\ ttyPc = "keys"
    /\ NoKey \/ EndOfStdin \/ KeyFromStdin \/ ByteFromReader
    /\ UNCHANGED <<tty, punchfile, unprinted, ttyCount>>

RunPut == PutKey("put", "run") /\ UNCHANGED ttyCount

-----------------------------------------------------------------------------
\* The commands that send or fetch one character, until they time out.
SendStart ==
    /\ ttyPc = "prompt" /\ Take("command")
    /\ \E byte \in KeyBytes, mask \in {0, 128} : ttyVal' = WithMask(byte, mask)
    /\ ttyPc' = "send"
    /\ UNCHANGED <<tty, ttyOpt, punchfile, reader, stopon, ttyCtrlC, typed, printed, unprinted, unread>>

SendTry ==
    /\ ttyPc = "send"
    /\ \/ ~ttyCtrlC /\ ~tty.kbflag /\ OfferKey(ttyVal, "sendput", "send") /\ UNCHANGED ttyCtrlC
       \/ /\ ttyCtrlC \/ tty.kbflag                                  \* interrupted or timed out
          /\ ttyPc' = "prompt" /\ ttyCtrlC' = FALSE
          /\ UNCHANGED <<ttyVal, unread>>
    /\ UNCHANGED <<tty, ttyOpt, punchfile, reader, stopon, typed, printed, unprinted, ttyCount>>

SendPut == PutKey("sendput", "prompt") /\ UNCHANGED ttyCount

RecvStart ==
    /\ ttyPc = "prompt" /\ Take("command")
    /\ ttyPc' = "recv"
    /\ UNCHANGED <<tty, ttyVal, ttyOpt, punchfile, reader, stopon, ttyCtrlC, typed, printed, unprinted, unread>>

RecvTry ==
    /\ ttyPc = "recv"
    /\ \/ ~ttyCtrlC /\ FetchPrinter("received") /\ UNCHANGED ttyCtrlC
       \/ /\ ttyCtrlC \/ ~tty.prfull
          /\ ttyPc' = "prompt" /\ ttyCtrlC' = FALSE /\ UNCHANGED ttyVal
    /\ UNCHANGED <<tty, ttyOpt, punchfile, reader, stopon, typed, printed, unprinted, unread, ttyCount>>

RecvTaken ==
    /\ ttyPc = "received"
    /\ tty' = PrinterTaken
    /\ unprinted' = Tail(unprinted)
    /\ ttyPc' = "prompt" /\ ttyCtrlC' = FALSE /\ ttyVal' = 0
    /\ UNCHANGED <<ttyOpt, punchfile, reader, stopon, typed, printed, unread, ttyCount>>

\* load closes the old file, then takes the options and opens the new one.
PunchLoad ==
    \/ punchfile' = FALSE /\ ttyOpt' = [ttyOpt EXCEPT !.punchquiet = FALSE]
    \/ \E quiet \in BOOLEAN : punchfile' = TRUE /\ ttyOpt' = [ttyOpt EXCEPT !.punchquiet = quiet]

ReaderLoad ==
    \E mask \in {0, 128} :
        \/ /\ reader' = [open |-> FALSE, left |-> <<>>]
           /\ ttyOpt' = [ttyOpt EXCEPT !.readerquiet = FALSE, !.readermask = mask]
        \/ \E quiet \in BOOLEAN :
              /\ reader' = [open |-> TRUE, left |-> Tape]
              /\ ttyOpt' = [ttyOpt EXCEPT !.readerquiet = quiet, !.readermask = mask]

PunchUnload == punchfile' = FALSE /\ ttyOpt' = [ttyOpt EXCEPT !.punchquiet = FALSE]
ReaderUnload == /\ reader' = [open |-> FALSE, left |-> <<>>]
                /\ ttyOpt' = [ttyOpt EXCEPT !.readerquiet = FALSE]

FileCommand ==
    /\ ttyPc = "prompt" /\ Take("event")
    /\ \/ (PunchLoad \/ PunchUnload) /\ UNCHANGED reader
       \/ (ReaderLoad \/ ReaderUnload) /\ UNCHANGED punchfile
    /\ UNCHANGED <<tty, ttyPc, ttyVal, stopon, ttyCtrlC, typed, printed, unprinted, unread>>

\* Control-C reaches the program unless the terminal is raw; a second one ends it.
Interrupt ==
    /\ ttyPc \notin {"prompt", "dead"}
    /\ ttyPc \in {"run", "taken", "show", "keys", "put"} => ttyOpt.nokb \/ ~ttyOpt.stdintty
    /\ Take("event")
    /\ IF ttyCtrlC THEN ttyPc' = "dead" /\ UNCHANGED ttyCtrlC
                   ELSE ttyCtrlC' = TRUE /\ UNCHANGED ttyPc
    /\ unprinted' = IF ttyCtrlC THEN ToFetch \o IF ttyPc \in {"taken", "received"} THEN <<tty.prchar>> ELSE <<>>
                                ELSE unprinted
    /\ unread' = IF ttyCtrlC /\ ToGive # <<>> THEN <<>> ELSE unread
    /\ UNCHANGED <<tty, ttyVal, ttyOpt, punchfile, reader, stopon, typed, printed>>

UserTypes ==
    /\ Take("event")
    /\ \E byte \in KeyBytes : typed' = Append(typed, byte)
    /\ UNCHANGED <<tty, ttyPc, ttyVal, ttyOpt, punchfile, reader, stopon, ttyCtrlC, printed, unprinted, unread>>

Run == RunHead \/ RunTaken \/ RunShow \/ RunKeys \/ RunPut
Program ==
    /\ \/ RunStart \/ Run
       \/ SendStart \/ SendTry \/ SendPut \/ RecvStart \/ RecvTry \/ RecvTaken
       \/ FileCommand \/ Interrupt \/ UserTypes
    /\ UNCHANGED <<ttBoard, pdpMay, crossed>>

TtyNext == Pdp \/ Program

\* The loop of cmd_run goes round every millisecond, and in the end the
\* printer's next character is due in one of them.
TtyRuns == Run /\ UNCHANGED <<ttBoard, pdpMay, crossed>>
TtyTakes == RunHead /\ ttyPc' = "taken" /\ UNCHANGED <<ttBoard, pdpMay, crossed>>
TtyFair == WF_ttyVars(TtyRuns) /\ SF_ttyVars(TtyTakes)

TtySpec == TtyInit /\ [][TtyNext]_ttyVars /\ TtyFair

-----------------------------------------------------------------------------
\* A character the PDP-8/L prints is printed once, in order, whatever the run
\* and the commands do; only a START between z8ltty's reading of the register
\* and its writing of the flag can spoil that, or the end of z8ltty itself.
PrintedOnce == ttyPc # "dead" /\ ~crossed => unprinted = InHand \o ToFetch

\* The keys and tape bytes that z8ltty has accepted and the PDP-8/L has not read are the
\* one in the register and the one in hand, never both: between the test of the flag
\* and the writing of the register nothing is overwritten, taken twice or lost but to
\* START and the end of z8ltty.  (Those refused, because the one before is unread, are dropped.)
KeysReadOnce ==
    unread = (IF tty.kbflag THEN <<tty.kbchar>> ELSE <<>>) \o ToGive /\ Len(unread) <= 1

\* hits is the length of the longest start of the string that what has been
\* printed ends with.
EndsWith(s, t) == Len(t) <= Len(s) /\ SubSeq(s, Len(s) - Len(t) + 1, Len(s)) = t
StopOnRight ==
    \A k \in DOMAIN stopon :
        LET buff == stopon[k].buff
            here == {n \in 0 .. Len(buff) : EndsWith(printed, SubSeq(buff, 1, n))}
        IN stopon[k].hits = CHOOSE n \in here : \A j \in here : j <= n

\* No string, the empty one apart, has been printed while the run still goes on.
NoneMissed ==
    \A k \in DOMAIN stopon, n \in 1 .. Len(printed) :
        stopon[k].buff # <<>> => ~ EndsWith(SubSeq(printed, 1, n), stopon[k].buff)

\* The screen is muted only while the file it was muted for is loaded.
MutedOnlyByFile == (ttyOpt.readerquiet => reader.open) /\ (ttyOpt.punchquiet => punchfile)

\* z8ltty prints each character once, and what it accepts for the PDP-8/L is read once,
\* whatever the PDP-8/L's program does between its reading and its writing of a register.
TtyRight == PrintedOnce /\ KeysReadOnce

\* A run does not go on past any of its strings, and a file mutes the screen only while
\* it is loaded.
RunRight == StopOnRight /\ NoneMissed /\ MutedOnlyByFile

\* A printed character waits while a run goes on.
PrinterWaits == tty.prfull /\ ttyPc \in {"run", "taken", "show", "keys", "put"}
=============================================================================
