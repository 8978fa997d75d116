# A TLA+ verification of the PDP-8/L replacement boards

This directory holds TLA+ models of the parts of this repository where several
actors work on shared state: programs on the ARM processor, the gate array they
talk to through memory-mapped registers, and the PDP-8/L (real, or simulated in
the gate array) whose program gives i/o instructions to the same registers. The
modules are model-checked with TLC on small instances, and the safety properties
that matter most are proved with TLAPS for every value of the constants.

`PROJECT.json` is the index: components, runs, the mutants that show what each
property catches, the lines each definition stands for, findings, hazards,
theorems.

## The system

Everything hangs on one clock and one page of registers (`zynq.v`). An ARM access
reads or writes one 32-bit register, whole; a write takes one clock, in which
a device does nothing else (`if BINIT .. else if armwrite .. else if CSTEP`).
An i/o instruction gives each device one `iopstart` clock. So the atoms are single
register accesses, single instructions and, inside the memory, single clocks; and
what takes an ARM program two accesses (read, change, write back) has the
processor's instructions in between. That is where most of the hazards are.

| Component | Source | State | Operations |
|---|---|---|---|
| CM lock | `z8lutil.cc` 232-265, `pdp8lcmem.v` register 3 | a cell holding a pid | cmlock, cmunlk, a process dies |
| CM dma | `z8lutil.cc` 185-230, `pdp8lcmem.v`, `pdp8lsim.v` WC/CA/BRK | control, flags, break state, the latched overflow | dmacycle, dmaflush, BREAK cycles, direct accesses |
| External memory arbitration | `pdp8lxmem.v` 447-643, `pdp8lcmem.v` direct mode | two state machines, ored outputs | processor memory cycle, direct access, ARM write, START key |
| RK8JE disk | `pdp8lrk8je.v`, `z8lrk8je.cc` | six registers, the drives, the thread | DSKP DCLR DLAG DLCA DLDC, thread, load, unload |
| TC08 DECtape | `pdp8ltc08.v`, `z8ltc08.cc` | one register, tape and head, the thread | DTXA DTLA DTCA DTSF, thread, load, unload |
| Processor | `pdp8lsim.v` | AC, L, PC, IR, major and time state, interrupt enables | memory cycles, IOPs, console switches |
| MC8/L | `pdp8lxmem.v` 232-405 | IF, DF, IF after jump, save fields, interrupt inhibit | 62xx, LOAD IF, interrupt acknowledge, LOAD ADDR |
| os8zap | `pdp8lxmem.v` 499-582 | what the last three cycles looked like | shortens ISZ; JMP .-1 |
| Shadow monitor | `pdp8lshad.v` | its own major and time state, error bits | follows every cycle |
| Reference simulators | `simlib.cc`, the main loop of `z8lsimtest.cc` | the registers, between major states or instructions; the run thread | one major state, the panel's switches; one instruction |
| Teletype, PTR, PTP, DC02 | `pdp8ltty.v`, `pdp8lptr.v`, `pdp8lptp.v`, `pdp8ldc02.v`, their programs | flag, full or busy bit, character | IOTs, the polling loops |
| VC8 display | `pdp8lvc8.v`, `z8lvc8.cc` | ring of points, flags; the program's ring | IOTs, the drawing thread |
| ARM memory port | `extmemmap.v` | reading, writing, addresses | AXI read, AXI write |
| Front panel on the Zynq | `i2cmaster.v`, `i2czlib.cc`, `z8lpanel.cc` | lock cell, four i2c chips, each process's copies of their registers | lock, read and write a chip, setsw, relsw, relall |
| Front panel on a Raspberry PI | `pipan8l.cc`, `i2clib.cc` | copies of the paddles under a mutex | setsw, flushit, getreg, status over udp |
| Core file, status, tools | `z8lcore.cc`, `z8lpbit.cc`, `z8ltrace.cc` and others | copies | copy, display |
| Scripting | `tclmain.cc`, `readprompt.cc`, `cmd_pin.cc`, `assemble.cc`, `disassemble.cc` | the log's pipe and flag, signals, atexit commands | prompt, log, assemble, disassemble |

How they interact: the disk and tape programs do dma by the CM controller, so by
the CM lock; the controller asks the processor for BREAK cycles, or keeps it out
of the external memory and drives the ram itself; the processor tells MC8/L when
a field may change; a program on the PDP-8/L sees all of it as flags and words.

What makes each component right:

* CM lock: one owner; a dead owner is cleared out, a live one never; every call
  returns or gives up; with the assertions of `cmunlk`.
* CM dma: an access is atomic against the processor's read-modify-write cycles;
  the result is the request's own; no register write falls on a busy controller,
  which would ignore it; a flushed write is in memory; no one waits for ever.
* Arbitration: never two drivers on the ored bus, no access in the middle of a
  memory cycle, the address stands still under write enable, every access ends.
* RK8JE, TC08: the right words in the right places when the program sees DONE or
  success, the right error otherwise; protection respected; always an end.
* Processor and MC8/L: each instruction does what the reference says, wherever
  dma and interrupts come; an interrupt saves where the program goes on.
* Character devices: no character printed, or accepted for the PDP-8/L, is lost or doubled,
  whatever the PDP-8/L does between a program's two accesses; a run never goes on past one
  of its strings.
* Display: the screen shows the latest of the points at each pixel, and none that has gone,
  though two rings are indexed differently.
* Panels: a switch ends where it was set and no transistor ever drives into a low
  pin, wherever processes are killed; a flicked switch is seen, a reading is fresh.
* ARM memory port: a write goes to its own address, a read gets its own word.
* simlib agrees with the other description of the instruction set, `z8lsimtest.cc`.
* Scripting: the prompt comes after the output; the atexit commands are run last first,
  none twice; what was disassembled assembles to the same instruction or is refused.

## The modules

| Module | Models | Is checked against |
|---|---|---|
| `Mutex` | a lock whose holder may die | |
| `CmLock` | cmlock and cmunlk, one bus access per step | refines `Mutex` |
| `AtomicMemory` | a memory with atomic accesses | |
| `CmDma` | dmacycle, dmaflush, the controller, the processor's cycles | refines `AtomicMemory` |
| `XmemArb` | the two memory state machines clock by clock | |
| `Rk8je` | the disk controller and its thread | |
| `Tc08` | the tape controller, its thread and the tape | |
| `SimTest` | the instruction-level reference: the memory cycles a program must make | |
| `Cpu` | the processor and MC8/L, one memory cycle per step | refines `SimTest` |
| `Z8lTty` | z8ltty with a console interface or a line of the DC02 | |
| `PaperTape` | reader and punch with z8lptr and z8lptp | |
| `Z8lVc8` | the display's ring with z8lvc8's own ring and window | |
| `Panel` `PanelBoards` | z8lpanel and the chips; the pins of the two boards | |
| `Pipan8l` | pipan8l's Tcl thread, udp thread and status process | |
| `SimLib` | the simulator behind pipan8l, and what z8lsimtest expects | |
| `TclMain` | the command prompt, the log's thread, signals, exit | |
| `Assemble` | the disassembler, then the assembler, token by token | |
| `ExtMemMap` | the ARM's window into the memory, clock by clock | |
| `MCPeripherals` | these nine side by side, each with its own machine | |
| `SharedProofs` `CmDmaProofs` `MemoryProofs` `Rk8jeProofs` `Tc08Proofs` `CpuProofs` `DeviceProofs` `SimProofs` | the theorems | |
| `MC...` | the instances for TLC | |

`CmLock`, `CmDma` and the controllers compose by their promises: `CmDma` takes the
lock as an atomic step with holders that may die (what `CmLock` shows), `Rk8je` and
`Tc08` take a dma as one step (what `CmDma` shows; a program that has seen the
flag runs on the processor, whose later cycles come after the store), and
`XmemArb` opens up the direct access that `CmDma` has as a few steps.

**CmLock.** `cell` is the register; `WriteCell` is the test-and-set of
`pdp8lcmem.v` 140-150 (a pid is stored if the cell is free, and frees it if it is
the holder's own). `LockCall`, `TryWrite`, `TryRead`, `GiveUp`, `ProbeHolder`,
`ReleaseDead` are the accesses of `cmlock` in order, `UnlockRead`, `UnlockWrite`
those of `cmunlk`, `Crash` ends a process anywhere. Abstracted: the pid is the
process, and is not reused; the clock is a count of batches of tries.

**CmDma.** A process is at `Call`, `Locked` (lock taken), `WaitIdle` (CMWAIT),
`WriteFlags`, `WriteCtl`, `PollDone`, `Unlock`. The processor makes memory cycles:
`StartCycle`, `Modify` (TS2), the controller samples in `SampleOverflow`,
`WriteBack` (TS3). `RaiseRequest` may come in time for the next cycle or not. With
`NoBrkOpt` the controller's direct states run instead, between cycles.

**XmemArb.** `XmClock` and `CmClock` are one clock of each state machine, `Clock`
both, with an ARM write or the START key stalling what they stall in the source;
`Bus` is the or of the outputs, as in `zynq.v` 1669-1672.

**Rk8je.** The registers of `pdp8lrk8je.v` as variables, each instruction an
action, each register access of the thread an action (`Poll`, `Claim`,
`ReadRegister`, `Check`, `Wake`, `ReadWord`, `WriteWord`, `Pwrite`, `WriteMem`,
`WriteFlg`, `WriteSts`), and the operator's `Host` commands under the thread's mutex.

**Tc08.** `status_a`, `status_b`, `iopend` are the register; `apc` is where the
thread is; `stepskip` and `stepxfer` move the head over four positions per block.
The thread's two read-modify-writes are two steps each (`GoOffRead`, `GoOffWrite`,
`FinRead`, `FinWrite`). The history variables `asked`, `waiting`, `polite` say what
the program may expect: a *polite* program sets word count and address, starts with
the flags clear, and waits for a flag. Whatever else it does is modelled (changed
commands, BINIT, starts in the middle), but then nothing is promised of the data.

**Cpu.** `cpu` are the registers of `pdp8lsim.v`, `xm` those of `pdp8lxmem.v`; an
action is a memory cycle (`Fetch`, `Defer`, `Exec`, `WordCount`, `CurrentAddress`,
`Break`) or a switch. Within a cycle the operators apply in the order of the time
states: `Fetched` (TS2), `NextAfterFetch`/`hltbrkintfet` (TS3: the next state, before
the io pulses), `LoadIf` (TP3), `Captured` (end of TS3), `IopStart` (pulses),
`FetchExecuted`, `IntAck` (TS4), `EndCycle` (TP4). Requests for dma, interrupts and,
with `Stops`, halting may be there or not at every decision; what memory holds is
arbitrary, so the programs are all programs over `Instructions`. The accumulator is
left out. `announced` is a history variable: the field of the last CIF until the jump.

**SimTest** is what `z8lsimtest.cc` compares the machine with: instructions one by
one, each a list of expected cycles. `Cpu` instantiates it with the registers as they
would be had a pending change of field already happened (`Late`): the reference changes
the field in the jump, the gates only when the next cycle is FETCH or EXEC, after dma.

**Z8lTty.** `tty` is the interface's registers; an action of z8ltty is one register
access (`Ready` or `dc_getprchar`, then the store), one command, or one character
taken through the strings of -stopon (`FallBack` is what is still matched). The
PDP-8/L's instructions and START come between any two. `unprinted` is a history
variable: what the PDP-8/L has printed and the terminal has not got; `unread` is what z8ltty has
accepted for the PDP-8/L and that has not read. z8ltty.cc 669 and 687 do not look at
putkbchar's result: a key or a tape's byte that comes while the one before is unread is dropped,
and nothing is promised of it.

**PaperTape.** One register per interface. The programs' first `|=` is a read and a
write; then they poll, and put a whole register or a character back. `history` is what has left the reader's interface, read or thrown away by START
or by an RFC that comes while the flag is up, or what was given to the punch. `tapeCross` marks a START while the
punch is busy and what came between the two halves of a `|=`: after that a byte may be missing from
the punch's file, but those there are still in order and none is twice (`PunchedOnce`).

**Z8lVc8.** `queue` and `eflags` are the gate array's; `stage` is where the thread is
in its round of 50 ms: dequeue, erase, resize, expire, draw, buttons. `allins`,
`allnew`, `allrem` are its indices, inserted modulo `BuffPts`, gone through modulo
`RingSize`, as in the source. The positions from `BuffPts` up never hold a point, though a
resize takes them for points at (0,0) when the ring goes past its end; `ScreenTrue` counts only
points (`Entries`) and leaves out the corner's pixel while its index has such a position (`NeverCame`).

**Panel.** `iodir` and `olat` are the chips' registers. A process takes the
test-and-set cell in two accesses (`LockWrite`, `LockLook`) or frees a dead one's
(`LockRelease`), reads the chips two registers at a time (`ReadDir`, `ReadVal`), lets
go of the lock, changes its copy (`Modify`), takes the lock again and writes in the
two phases of `writepads` (`ApplyPut`, `WriteDir`, `WriteLat`). `Killed` is possible anywhere.

**Pipan8l.** `setpin` changes the copy and marks it dirty; `WritePaddle` and
`ReadPaddle` are single i2c transfers of whichever thread holds the mutex. A datagram
stays in the network once sent, so it may arrive late, twice, or never.

**SimLib.** `singlestep` is one major state, a function of the registers; `RunTest` and
`SimStep` are the run thread's, `WritePads` the panel's. `Tested` is `z8lsimtest.cc`'s
account of the same instructions, written from its source, not from `simlib.cc`'s.

**TclMain.** `logPipe` is stdout; `FlushAsk`, the copying and `logflushed` are the
handshake of `logflush` with `logthread`; control-C comes between any two steps. `handlers` is what
the C library's exit still has to call: `atexit` puts `tclatexit` on it after the first command
is in the list and the mutex is free again (`cmd_atexit`'s third step), and exit takes a handler off before
it calls it (`NextHandler`). So an exit by a second control-C in between, or while exit is already
running the commands, forgets those that are left (`Forgets`, remembered in `cutShort`). A
control-C while the main thread holds `tclxmutex` leads to an exit that waits for itself. In its
handler SIGINT is blocked on the main thread; another thread may take it and end the process in the middle
(`Elsewhere`). `logthread` is detached (146), so `closelog` waits for nothing.

**Assemble.** A line is a sequence of tokens with the operand as digits (written by
the disassembler in octal, read by `strtoul`); `Micro` is the table of micro
operations with the orders they may come in. The instruction that comes out need not be the one
that went in (`Same`): it may be group 1's CLA or NOP for group 2's, and on page 0 an operand
of the instruction's own page comes out as one of page 0, the same word of memory.

**ExtMemMap.** A clock (`ExtClock`) is the reset branch, or the read side, the write side
and the block ram all from the values before it, with the AXI master's signals as
inputs. `Coincide` says whether a read address may come in the clock in which a write starts.
## What the runs check

| Run | Question | Bounds |
|---|---|---|
| `cmlock` | is the lock a mutex that the dead cannot keep? | 3 processes, 1 probe of a live holder before giving up |
| `cmdma` | are dma accesses atomic, flushed when said, and do they end? | 2 processes, one access each, either mode, deaths anywhere |
| `xmemarb` | do the two state machines share the memory? | two addresses; delays of any length |
| `xmemarb_key` | the same while START is held (violated) | |
| `rk8je` | words, errors, protection, end of a disk transfer | block and field of 2 words, one good and one bad disk address; a busy controller gets instructions that only set CBSY (`Hasty = FALSE`) |
| `rk8je_abort` | DCLR aborts any i/o in progress (violated) | |
| `tc08` | head, words, errors, protection, end of a tape operation | 2 blocks of 2 words, field of 3 words, 2 starts |
| `tc08_unload` | no unload while a drive is in use (violated) | |
| `cpu` | are the cycles those of the reference; is an announced field never lost? | 2 fields of 4 words, pages of 2, each kind of instruction |
| `cpu_stop` | the same jump with STOP and STEP (violated) | |
| `peripherals` | does each of the programs at the edge of the machine do its device right? | below |
| `extmem_race` | does a written word land, with a read beside it (violated) | 2 addresses, 2 words |

The bounds of `peripherals`, one device after the other: z8ltty: three characters
printed with one event (a key, START, control-C, a file) or one with two, the stop string
AAB whose beginning comes twice; paper tape: tapes with LF after CR and not, an
eighth bit, three bytes punched, one START; prompt: three lines, two control-Cs, two atexit
commands; panel: two processes, three commands, moves or kills, a toggle with its pins on two
chips and a button; pipan8l: a script that flicks a switch around its flushes, two status
pings; simlib: every program of one instruction out of four, one out of thirty, and
HLT, stepped or run, with a key; display: four points, or two and a load of the flags, in two
grays, over a ring of three indexed modulo five; assembler: all 4096 instructions but group 3, on
page 0 (address 5), at the second word of a page (129), on a page of three octal digits (400) and
from 01000 on (700); memory port: two addresses and words, delays of any length.

Why the bounds are enough. *Processes*: a lock error needs two contenders and the
dead owner, three in all; a dma error needs a leftover of one program and the call of
another, two. *Memory and blocks*: two blocks give an end, a beginning and a
neighbour to mistake for one's own; two words a first and a last; three words of
memory make a transfer wrap around and a word count both shorter and longer than a
block. A two-digit word has the two things the obverse complement does, swap and
complement. *Starts*: a second start is what meets the leftovers of the first.
Every run fires every action; each property has a mutant, a plausible slip in the
code it is about (an operator beside the original: `...AtOnce`, `...Not`, `...Stale`),
that TLC finds violated under the same configuration.

**Fairness** is assumed of what runs on its own, never of a program or an operator:
the gates (clocked), the steps of a process inside cmlock, cmunlk and dmacycle (a
scheduled thread; a dead one takes no steps), and a device thread, whose polls and
delays are `usleep`s that end. Programs may stop giving instructions at any point,
operators may never press a key. `CmLockReturns`, `DeadPidCleared`, `CallsReturn`,
`BlockEnds`, `TransferEnds`, `OperationEnds` need no more. In `peripherals` the loops of
z8ltty, z8lptr and z8lptp run (weak fairness), simlib's thread runs and is joined, and the
AXI master takes the answers it asked for. z8ltty looks at the printer again and again
between other things, and each time finds its time come or not; that it does come in the
end is strong fairness of `TtyTakes`.

## What the violated runs show

* `xmemarb_key`: while START is held with the processor stopped, `pdp8lxmem.v` does
  not take its address off the ored bus, contrary to its comment at line 453; a
  direct access of the controller then goes to the or of two addresses.
* `rk8je_abort`: DCLR does not abort a transfer in progress: nothing clears the busy
  bit the thread looks at.
* `tc08_unload`: `tcunload` closes the file of a drive that is locked for a transfer.
* `cpu_stop`: stopped right at a JMP the processor tells MC8/L neither FETCH nor EXEC,
  so CONT goes on in the old field (single stepping CIF, JMP shows it).
* `extmem_race`: a read whose address is accepted in the clock in which a write starts
  finds "not writing", the write finds "not reading", both are set, and the ram's address
  is the read's: the word is stored there, its own address keeps the old one, and the
  write is acknowledged. With `Coincide = FALSE` the port is right (`PortRight`, proved).

Seen while modelling, but nothing in the repository promises otherwise:

* `tclmain.cc` 206-208: the mask for `sigsuspend` is never filled; a control-C between the
  test and the wait is not noticed, a second one exits.
* `tclmain.cc` 268: a second control-C while exit runs the atexit commands exits again, and those
  that are left are not run, as `PromptRight` says; nor is the first if it comes before 394.
* `tclmain.cc` 146, 356: the wait for a detached thread fails at once, so what is still in the pipe may
  be lost at the end, although the comment at 351 wants it in the log (no property is about it).
* `tclmain.cc` 364: `len` is tested and not `rc`; a control-C after `closelog` has closed stdout
  makes `writepipe` go on for ever (`siginthand_Closed`).
* `tclmain.cc` 338-349: `logthread` broadcasts without the mutex; a broadcast just before
  the wait is lost and the prompt waits until more is logged.
* `z8lvc8.cc` 358: flags loaded during an erase are ored back as they were before it; an
  erase asked for again in those 50 ms is not seen.
* `z8lvc8.cc` 377: where the ring wraps, points fade without being taken off the window,
  and a resize draws ring positions that never held a point, as points at (0,0); `ScreenTrue`
  leaves out that one pixel as long as such a position is its index.
* `i2czlib.cc` 440: a button somebody is pressing reads as pressed, and the next
  `writepads` holds it down for good (so the model has no pressed buttons).
* Two z8lpanel processes read, change and write in two holdings of the lock: one setsw can
  undo the other's (`SwitchesAsWanted` is about one process's own pads).
* `pipan8l.cc` 617: a switch set and cleared with no flush in between, by either thread, was
  never pressed; `FlicksSeen` is about what the flushes do.
* `simlib.cc`: START in the middle of an instruction goes on with that instruction; a
  key that comes before the last was read replaces it.
* `assemble.cc` 126: addresses from 01000 on and IOT digits are read as decimal unless they
  begin with 0; SWP is unknown; MQL MUY is refused.
* `z8lptr.cc` 125: `|= ENAB` can put an old flag back; 144: the end of the file takes a
  request without an answer. `z8ltty.cc` 311: a shorter punch file over a longer one keeps
  the longer one's end.
* `z8lrk8je.cc` 490: a START during a transfer can be taken away by the end of the old one.

## What is proved

TLAPS checks these for all values of the constants that satisfy the named
assumptions of the modules (`...Assumption`), each from an inductive invariant.

* `SharedProofs`, of the CM lock: `TypeCorrect`, `AtMostOneOwner`, `OwnerInCell`,
  `RobbedOnlyWhenDead`, and `ImplementsMutex`, the refinement of `Mutex` (initial states
  and each step). The invariant says
  what each process knows of the cell: an owner's pid is in it, a process that has
  not won the lock has no pid in it, and one about to clear somebody else's pid
  has seen that one dead, who stays dead. Without the last, the release write of a
  slow prober could not be told from a theft.
* `CmDmaProofs`: `WritesAreTaken` and `FlushedIsStored`, by an invariant (`IInv`) that
  ties each stage of a call to the lock and the controller's busy bit: between seeing
  the controller idle and writing it, a process holds the lock, and only a holder makes
  the controller busy. On it rest `DmaIsAtomic`, the refinement of `AtomicMemory`, and
  `ResultIsRight`. Their invariant (`AInv`) says for each kind of cycle how far the
  access has got: what memory is, computed from memory before the access
  (`AccessInCycles` splits its effect into the three cycles), where the address and
  the word are, and in which stage of the shift register the overflow is. Memory
  counts as changed when the break cycle's word is written back (or in state 22
  without the option); every other step of an access is a stutter.
* `MemoryProofs`: `BusQuiet` and `CyclesUndisturbed`, for a machine whose START key is
  not held (`~ InitKey`; with it the first is false, see above). The invariant
  relates the two state machines: once the controller has seen the memory idle the
  processor's side stays idle and its address register is clear. `AddressStays` adds that
  the controller's write enable is up only in the states whose address stands still
  (`WriteInv`).
* There too, of the ARM's window, `PortIsRight`, for any memory, when no read is accepted in
  the clock in which a write starts (`~ Coincide`; with one it is false, see above). `Turns` says that only one side is at work and what was accepted
  waits for the other; `AtPort` what the port shows and what memory holds in each clock.
* `Rk8jeProofs`: `TransferIsRight` and `ErrorIsRight`, for disks, sectors and memory of any
  size, and for every program and operator `ProtectionHolds` and `BusyIsKept`. The
  invariant `TransferInv` says per stage of the thread what it has taken from the registers and
  whether the program still has what it asked for there (`Served`): up to the stage the
  registers are taken by word, the copies agree with what was asked; during the loop the
  first words are moved (`Moved`) and the rest of a written sector is zero; at the end the
  status the thread holds is the one the program will read, and fits the drive, which the
  operator cannot change before the program is told (`Judged`). A program that is not
  polite ends that part of the invariant, not the others (`AtStage`).
* `Tc08Proofs`: `HeadIsRight`, for tapes of any length: each step of the head passes
  exactly one mark or block and reports no end while one is left, and reports the end, with
  the head standing there, when none is. It needs only that
  the head is on the tape and arithmetic on the four positions, in two lemmas.
  `OnlyWritableWritten`, since a write command once decoded keeps the drive locked until
  its last word (`Writable`), and `ErrorIsRight`, since while a program waits for the
  flags only the thread touches the register (`Answering`) and writes back what was there
  (`LeftAlone`). `TransferIsRight`, for tapes,
  blocks, words and memory of any size: `WordsInv` says at each step which words of which
  block the buffer holds, which blocks are passed and done, and that the word count and the
  current address stand where they would after as many words (`Done`, `Counted`), in either direction.
* `CpuProofs`: `TypeCorrect` and `AnnouncedFieldKept`, for every set of programs and
  fields and with the STOP switch or without. The invariant `AnnouncedWaits`: while
  a field is announced, it is the one waiting in the extension, and interrupts are
  inhibited. `WithinPages` is the arithmetic of effective addresses.
* There too `CyclesAreExpected`, the refinement of `SimTest`: without the
  STOP and STEP switches, every cycle of `Cpu` is one that the reference expects, for
  all programs and field sizes. With them it does not hold (`cpu_stop`). The
  invariant `CycleShape` says what the extension's captured enable and the
  instruction register are in each cycle, and that a JMS has made its change of field
  before it executes. `Expected` is what the reference holds while a change is
  pending, `Held` what it holds otherwise; `RoundStep` shows that the last cycle of an
  instruction is a round of the reference's loop, `InstructionStep` the others.
* There too, of the panel: `PanelTypesRight` and `NothingCooks`, for any processes, switches, chips and wiring
  that gives each pin one use. A process at the chips holds the lock (`Locked`; only a dead
  one's is released, and the dead touch nothing), so what it has read is what the chips
  hold (`Synced`, `Ready`). From that `writepads` computes registers of which any mixture
  with the old ones is safe (`Mixable`), so each single write, done once, again, or
  never, leaves a collector driven only where the base is high (`Cold`).
  `SwitchesAreAsWanted` adds what a process has read and is about to write at each step
  (`Reading`, `Putting`): a level is taken for what it is only where no switch can move it.
  Trying to prove it showed that the property had been stated too strongly for buttons: it took
  a line that is driven for one that is low, which a process killed between a chip's two
  registers tells apart, though only after more commands than the run's bound.
* There too `NothingStale`, for any script, paddles and network (`FreshInv`: an answer to the latest
  ping was read after it, and so is, word by word, what is being read for one), and
  `FlicksAreSeen` (`FlickInv`: presses not yet seen are those where the copy is ahead of
  the paddles, at most one for each switch). The second is for scripts that flush between
  two settings of the same switch (`Patient`), as the run's and `flicksw` do; without that it
  is false, a switch set and reset with no flush in between is never pressed.
* `DeviceProofs`: `CharactersOnce`, for both boards (`PrinterInv`: what z8ltty has in hand is still in the
  register, and one that is free has nothing to print; `KeyInv`: from the test of the keyboard's flag to the
  writing of the register only z8ltty touches it), `RunsStop`, for any
  strings: none has come by (`NoneMissed`), since a run whose output ends with one has `hits` at its
  length and stops in that step (`Longest`: after every character hits is the longest end of the output that the
  string begins with; `StopStep` shows that going back in the string itself finds it, with
  `EndsUpShorter`: of two matches the shorter is a border of the longer), and `PromptIsRight`,
  for any number of commands and signals. Its invariant `PipeInv` reads the pipe ahead
  (`Copies`): for each position how long the screen will be then and whether the thread
  echoes, up to the end, where the screen is what was written and everything is
  echoed again; in front of the Nul that is waited for nothing is missing. So a
  control-C's text in the middle changes nothing. `ExitInv` counts the commands run and left, and
  `HandlerInv` says that
  `tclatexit` is on exit's list as long as commands are left, but for the step between the first one's entry
  and its registration, while it runs itself, and at an end that a control-C has cut short.
* There too `ScreenIsTrue`, for rings of any two sizes, any points and windows (`VcInv`: as long as the
  ring has not been full, its three marks stay in order along it, and a pixel shows the latest point
  that came to it if that has been drawn, and is dark if that is gone; in between, a new entry
  that is not drawn yet, it shows anything; `NewestInv`: the index has the latest of a pixel's entries; `NeverInv`:
  a position that never held a point is named by the corner's pixel alone). The two moduli
  meet in `SpanGrows`: an entry put in modulo `MAXBUFFPTS` is one more of those gone through
  modulo `XYSIZE * XYSIZE`; with it may come positions that never held a point, which are
  in the index only after a resize and only at the corner.
* There too `TapesAreRight`, for tapes of any bytes and any options of z8lptr and z8lptp. `OnTape` says of
  the reader how many bytes of a tape it has read and, at each place of its loop, which part of
  their text has been delivered; `PunchInv` of the punch that the file has everything given but the
  byte that is busy, as long as no START came while one was and nothing in the middle of a `|=`, and, whatever
  came, bytes that were given, in order and none twice.
  The text and what is kept are put together by `FlattenSeq` of the community modules, a function
  defined recursively; no lemma of the library says what it computes, and the induction
  theorems cannot be used here, so `FlattensExist` and `FlattensUnique` show from the least counterexample
  that the recursion is well defined, and `FlattenMore` that a sequence more is put at the end.
* `SimProofs`: `SimIsRight`, for any memory of up to eight fields, program, switches and keys.
  The simulator has the registers that are expected when an instruction ends
  (`Agree`). In its middle they differ, so the invariant is about the future: what
  z8lsimtest.cc still has to do of the instruction, done on registers that agree with the
  simulator's (`TestRest`, `TestLast`), gives what is expected (`Fits`). Each step is then
  compared with its part alone: fetch (`FetchFits`), pointer and last cycle (`ContinuedFits`).
  The expected rotation is the bits of link and accumulator moved around (`Turned`), simlib.cc's
  is its shifts; `WordDigits` and the lemmas on turns show that these are the same.
  Trying to prove it showed two things wrong in the model: z8lsimtest.cc tests no I/O
  instruction but 6001, 6002 and 6200 to 6277, and after START with STEP in the middle of an
  instruction (it clears the accumulator) nothing is known to be expected. Neither comes up
  in the run's programs and presses.
* There too `LinesReassembled`, for any words but those of group 3 (`AsmAssumption`) and any addresses.
  What the disassembler writes of micro operations is cut into seven slots (`SlotOn`, `SlotName`),
  each empty, an operation, or a skip with its delimiter (`LineIs`, from `SkipsLine`, `Group1Is`
  and `Group2Is`). The invariant `AsmInv` says that the assembler stands at a slot that is on
  (`MicroAt`): what is left of the line is the slots from there, what is already taken is the
  operations of the slots before it, and the word so far has the bits of those (`BuiltBit`).
  Then `SlotsAgree` goes through the slots' pairs and the table of conflicts, `MicroStep`
  takes one operation, and `Finished` compares the bits at the end with the instruction's. `RefusedInv` says what the assembler
  does with the rest: the digits of an IOT are read in decimal, which is too large, and a
  rotate that does not exist is no operation it knows.
  `WithBits` is a recursive function over twelve bits, unfolded in `WithBitsIs`.
  Trying to prove it showed that the property was stated too strongly: on page 0 the page bit is
  lost, though the instruction means the same; the run had no address there and has one now.

Only model-checked:

* the liveness properties: fairness and ENABLED are out of this prover's reach.

## What is not modelled

* Seek times and delay lengths, rates, the file locks between processes.
* TC08: one drive; DTLB with the dma field, and the slow transfer of a boot block
  that lets the program change it; the interrupt enable bit.
* RK8JE: the four drives are one; DRST changes nothing.
* Processor: the accumulator's and memory's contents in `Cpu` (they are in `SimLib` and
  `Assemble`); os8zap, which shortens `ISZ; JMP .-1` by what memory holds; the shadow monitor,
  which repeats the processor's state machine and drives nothing.
* Teletype: echo, terminal modes, the interrupt enable; DC02: the selection of lines.
* Display: how long a point stays (it may fade at any time), drawing of the buttons, the joystick.
* Panels: lights, bits on the i2c bus, the switches of the simulated processor.
* Group 3 of the instruction set in `Assemble`; Tcl itself, and the pin command.
* The core file, status displays, test and trace programs, kernel drivers: nothing shared
  but reads; boards and PDP-8 programs: not programs of this system (PROJECT.json has each).
