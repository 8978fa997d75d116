------------------------------- MODULE TclMain -------------------------------
(***************************************************************************)
(* tclmain and readprompt: the command prompt of z8ltty, z8lrk8je, z8ltc08,*)
(* pipan8l and z8lpanel.  With -log, stdout is a pipe that logthread copies*)
(* to the terminal and the log; the prompt waits until it has.  With       *)
(* repeat, control-D closes the prompt and control-C opens it again.       *)
(* atexit commands are run last first.  Signals come between any two steps;*)
(* inside its handler SIGINT is blocked, and only another thread takes one.*)
(***************************************************************************)
EXTENDS Naturals
LOCAL INSTANCE Sequences

CONSTANTS MaxLines, MaxCtrlC, MaxAtExit   \* bounds
ASSUME TclBoundsAssumption == {MaxLines, MaxCtrlC, MaxAtExit} \subseteq Nat

VARIABLES
    tclMode,     \* [log, repeat]: how tclmain was called
    tclPc,       \* the main thread
    ctrlcflag,
    logPipe,     \* stdout: what has been written and not yet read
    echoit, logPc,      \* logthread
    logflushed, asleep, \* logflush's flag; the main thread is in pthread_cond_wait
    screen,      \* what has reached the terminal
    wrote,       \* history: what the main thread has meant for the terminal
    tclexits,    \* the atexit commands, last first
    ranAtExit,   \* history: the ones that have been begun
    tclxOwner,   \* tclxmutex is held
    handlers,    \* the C library's list of what exit has to call, last first
    sigBlocked,  \* siginthand has called exit
    cutShort,    \* history: a control-C has made an exit that forgets commands
    tclLeft      \* what is left of the bounds

tclVars == <<tclMode, tclPc, ctrlcflag, logPipe, echoit, logPc, logflushed, asleep, screen, wrote,
             tclexits, ranAtExit, tclxOwner, handlers, sigBlocked, cutShort, tclLeft>>
logSide == <<echoit, logPc, screen>>
atexitSide == <<tclexits, ranAtExit, tclxOwner>>
exitSide == <<atexitSide, handlers>>
signalSide == <<sigBlocked, cutShort>>
flushSide == <<logflushed, asleep>>

LogOnly == 255   \* what follows on the line is for the log alone
Nul == 0         \* after LogOnly: tell logflush
NewLine == 10
ControlC == 3    \* stands for the text of the handler
Text == 65
Echo == <<LogOnly, ControlC, NewLine>>
Out(text) == IF tclMode.log THEN logPipe \o text ELSE logPipe

TclStart(mode) ==
    /\ tclMode = mode
    /\ tclPc = "loop" /\ ctrlcflag = FALSE /\ logPipe = <<>> /\ echoit = TRUE /\ logPc = "read"
    /\ logflushed = FALSE /\ asleep = FALSE /\ screen = <<>> /\ wrote = <<>> /\ tclexits = <<>>
    /\ ranAtExit = <<>> /\ tclxOwner = FALSE /\ sigBlocked = FALSE /\ cutShort = FALSE
    /\ handlers = IF mode.log THEN <<"closelog">> ELSE <<>>
    /\ tclLeft = [line |-> MaxLines, ctrlc |-> MaxCtrlC, atexit |-> MaxAtExit]
TclIdle == TclStart([log |-> FALSE, repeat |-> FALSE])
TclInit == \E log, repeat \in BOOLEAN : ~(log /\ repeat) /\ TclStart([log |-> log, repeat |-> repeat])

Goto(from, to) == tclPc = from /\ tclPc' = to
Take1(what) == tclLeft[what] > 0 /\ tclLeft' = [tclLeft EXCEPT ![what] = @ - 1]

-----------------------------------------------------------------------------
\* tclloop and readprompt
LoopTop ==
    /\ Goto("loop", IF tclMode.log THEN "flush" ELSE "readline")
    /\ ctrlcflag' = FALSE
    /\ UNCHANGED <<logPipe, flushSide, wrote, exitSide, tclLeft>>

\* Mutant: the flag of the flush before is not reset.
FlushAskStale ==
    /\ Goto("flush", "flushing")
    /\ logPipe' = logPipe \o <<LogOnly, Nul>>
    /\ UNCHANGED <<ctrlcflag, logflushed, asleep, wrote, exitSide, tclLeft>>

\* logflush, under logflmutex, which no other thread takes.
FlushAsk ==
    /\ Goto("flush", "flushing")
    /\ logflushed' = FALSE
    /\ logPipe' = logPipe \o <<LogOnly, Nul>>
    /\ UNCHANGED <<ctrlcflag, asleep, wrote, exitSide, tclLeft>>

FlushTest ==
    /\ tclPc = "flushing" /\ tclPc' = IF logflushed THEN "readline" ELSE "towait"
    /\ UNCHANGED <<ctrlcflag, logPipe, flushSide, wrote, exitSide, tclLeft>>

FlushWait ==
    /\ Goto("towait", "waiting")
    /\ asleep' = TRUE
    /\ UNCHANGED <<ctrlcflag, logPipe, logflushed, wrote, exitSide, tclLeft>>

FlushWake ==
    /\ ~asleep /\ Goto("waiting", "flushing")
    /\ UNCHANGED <<ctrlcflag, logPipe, flushSide, wrote, exitSide, tclLeft>>

\* A line, or control-D or the end of the file.
ReadLine ==
    /\ tclPc = "readline"
    /\ ctrlcflag' = FALSE
    /\ \/ Take1("line") /\ tclPc' = "eval"
       \/ tclPc' = (IF tclMode.repeat THEN "closed" ELSE "tclatexit") /\ UNCHANGED tclLeft
    /\ UNCHANGED <<logPipe, flushSide, wrote, exitSide>>

\* The commands that matter here: output; atexit; ctrlcflag; exit.
Output ==
    /\ Goto("eval", "loop")
    /\ logPipe' = Out(<<Text, NewLine>>)
    /\ wrote' = IF tclMode.log THEN wrote \o <<Text, NewLine>> ELSE wrote
    /\ UNCHANGED <<ctrlcflag, flushSide, exitSide, tclLeft>>

\* tclatexit is registered after the first command has been put into the list.
cmd_atexit ==
    \/ /\ Goto("eval", "newexit") /\ tclxOwner' = TRUE
       /\ UNCHANGED <<ctrlcflag, logPipe, flushSide, wrote, tclexits, ranAtExit, handlers, tclLeft>>
    \/ /\ Goto("newexit", IF tclexits = <<>> THEN "register" ELSE "loop") /\ Take1("atexit")
       /\ tclexits' = <<MaxAtExit - tclLeft.atexit + 1>> \o tclexits
       /\ tclxOwner' = FALSE
       /\ UNCHANGED <<ctrlcflag, logPipe, flushSide, wrote, ranAtExit, handlers>>
    \/ /\ Goto("register", "loop")
       /\ handlers' = <<"tclatexit">> \o handlers
       /\ UNCHANGED <<ctrlcflag, logPipe, flushSide, wrote, atexitSide, tclLeft>>

cmd_ctrlcflag ==
    /\ Goto("eval", "loop")
    /\ \E value \in {ctrlcflag, TRUE, FALSE} : ctrlcflag' = value
    /\ UNCHANGED <<logPipe, flushSide, wrote, exitSide, tclLeft>>

cmd_exit ==
    /\ Goto("eval", "exit")
    /\ UNCHANGED <<ctrlcflag, logPipe, flushSide, wrote, exitSide, tclLeft>>

Eval == Output \/ cmd_ctrlcflag \/ cmd_exit \/ (cmd_atexit /\ (tclPc = "eval" => tclLeft.atexit > 0))

\* The wait for control-C: sigintmask is empty, so nothing is blocked between
\* the test and sigsuspend, which returns only for a signal that comes later.
TestCtrlC ==
    /\ tclPc = "closed" /\ tclPc' = IF ctrlcflag THEN "loop" ELSE "tosuspend"
    /\ UNCHANGED <<ctrlcflag, logPipe, flushSide, wrote, exitSide, tclLeft>>

Suspend ==
    /\ Goto("tosuspend", "suspended")
    /\ UNCHANGED <<ctrlcflag, logPipe, flushSide, wrote, exitSide, tclLeft>>

\* tclatexit, called by main at control-D or by exit: the mutex is given up while
\* a command runs.  main returns when it is done, which is an exit too.
AtExit ==
    \/ /\ tclPc = "tclatexit" /\ ~tclxOwner
       /\ tclxOwner' = TRUE
       /\ tclPc' = "popexit"
       /\ UNCHANGED <<tclexits, ranAtExit>>
    \/ /\ tclPc = "popexit"
       /\ tclxOwner' = FALSE
       /\ IF tclexits = <<>> THEN tclPc' = "exit" /\ UNCHANGED <<tclexits, ranAtExit>>
          ELSE /\ tclPc' = "runexit"
               /\ tclexits' = Tail(tclexits)
               /\ ranAtExit' = Append(ranAtExit, Head(tclexits))
    \/ Goto("runexit", "tclatexit") /\ UNCHANGED atexitSide

\* exit takes a handler off its list before it calls it: an exit called by a
\* handler goes on with those that are left.
NextHandler ==
    /\ tclPc = "exit"
    /\ IF handlers = <<>> THEN tclPc' = "gone" /\ UNCHANGED handlers
       ELSE tclPc' = Head(handlers) /\ handlers' = Tail(handlers)
    /\ UNCHANGED atexitSide

\* closelog: stdout is closed.  logthread is detached, so the wait for it fails
\* at once; no handler is left, and what is in the pipe may be lost.
CloseLog ==
    /\ Goto("closelog", "logclosed") \/ Goto("logclosed", "gone")
    /\ UNCHANGED exitSide

ExitStep == ((AtExit /\ UNCHANGED handlers) \/ NextHandler \/ CloseLog)
            /\ UNCHANGED <<ctrlcflag, logPipe, flushSide, wrote, tclLeft>>

MainThread ==
    /\ LoopTop \/ FlushAsk \/ FlushTest \/ FlushWait \/ FlushWake \/ ReadLine \/ Eval
       \/ TestCtrlC \/ Suspend \/ ExitStep
    /\ UNCHANGED <<tclMode, logSide, signalSide>>

\* An exit now forgets the commands in the list: tclatexit is not, or no longer,
\* on exit's list.
Forgets == /\ tclPc \in {"register", "tclatexit", "popexit", "runexit"}
           /\ \A i \in DOMAIN handlers : handlers[i] # "tclatexit"

\* siginthand, on the main thread; at the prompt control-C is off.
OnMain ==
    /\ ~sigBlocked
    /\ logPipe' = Out(Echo)
    /\ ctrlcflag' = TRUE
    /\ tclPc' = IF ctrlcflag THEN "exit"
                ELSE IF tclPc = "suspended" THEN "closed" ELSE tclPc
    /\ asleep' = (asleep /\ ~ctrlcflag)
    /\ sigBlocked' = ctrlcflag
    /\ cutShort' = (cutShort \/ (ctrlcflag /\ Forgets))

\* While the main thread is in its exit another thread, logthread or one of the
\* program's, takes the signal: its exit ends the process in the middle of the
\* other (or, in a C library where it waits for it, does nothing).
Elsewhere ==
    /\ sigBlocked /\ ctrlcflag
    /\ logPipe' = Out(Echo)
    /\ tclPc' = "gone" /\ asleep' = FALSE
    /\ cutShort' = TRUE
    /\ UNCHANGED <<ctrlcflag, sigBlocked>>

siginthand ==
    /\ tclPc \notin {"readline", "logclosed", "hung", "gone"}
    /\ Take1("ctrlc")
    /\ OnMain \/ Elsewhere
    /\ UNCHANGED <<tclMode, logSide, logflushed, wrote, exitSide>>

\* With stdout closed writepipe takes the error for progress and never ends.
siginthand_Closed ==
    /\ ~sigBlocked /\ Goto("logclosed", "hung") /\ Take1("ctrlc")
    /\ UNCHANGED <<tclMode, ctrlcflag, logPipe, flushSide, wrote, logSide, exitSide, signalSide>>

-----------------------------------------------------------------------------
\* logthread, a character at a time.  It does not take logflmutex.
logthread ==
    /\ tclPc # "gone"
    /\ \/ /\ logPc = "read" /\ logPipe # <<>>
          /\ logPipe' = Tail(logPipe)
          /\ LET c == Head(logPipe)
                 flush == c = Nul /\ ~echoit
             IN /\ echoit' = IF flush \/ c = NewLine THEN TRUE ELSE echoit /\ c # LogOnly
                /\ screen' = IF echoit /\ c # LogOnly THEN Append(screen, c) ELSE screen
                /\ logflushed' = (logflushed \/ flush)
                /\ logPc' = IF flush THEN "broadcast" ELSE "read"
          /\ UNCHANGED asleep
       \/ /\ logPc = "broadcast"
          /\ logPc' = "read" /\ asleep' = FALSE
          /\ UNCHANGED <<logPipe, echoit, screen, logflushed>>
    /\ UNCHANGED <<tclMode, tclPc, ctrlcflag, wrote, exitSide, signalSide, tclLeft>>

TclNext == MainThread \/ siginthand \/ siginthand_Closed \/ logthread
TclSpec == TclInit /\ [][TclNext]_tclVars

-----------------------------------------------------------------------------
\* When the prompt is shown all output before it has reached the terminal,
\* though it went through the pipe, in order and without the log's own lines.
FlushedBeforePrompt == /\ tclPc = "readline" => screen = wrote
                       /\ Len(screen) <= Len(wrote) /\ screen = SubSeq(wrote, 1, Len(screen))

\* The atexit commands are begun last first, each once and none left out; and when
\* the program ends all have been, unless a control-C that exits came between the
\* first one's entry in the list and atexit(tclatexit), while exit was running them,
\* or on another thread while control-C's own exit was.
AtExitLastFirst ==
    LET given == MaxAtExit - tclLeft.atexit IN
    /\ \A i \in DOMAIN ranAtExit : ranAtExit[i] = given + 1 - i
    /\ tclPc = "gone" /\ ~cutShort => Len(ranAtExit) = given

\* The prompt comes after the output; on exit the atexit commands are run.
PromptRight == FlushedBeforePrompt /\ AtExitLastFirst
=============================================================================
