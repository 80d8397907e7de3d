# Verification of atmega328_emu

TLA+ models of the ATmega328P emulator in `src/`, model-checked with TLC, and
theorems about them proved with TLAPS. Paths below are relative to
`src/src/atmega328/` unless they say otherwise. File and line of every
definition are in `PROJECT.json` ("map").

## 1. The system

The emulator is one process. `main.c` loads an Intel hex file into the emulated
program memory, starts a CPU thread and then reads one-letter commands from the
terminal for ever. All state is global; there is no lock, no join, no atomic.

```
  console thread (main.c) --- cpu_start / cpu_stop ---> _cpuStopSignal
        |                                                     |
        | eve_enqueueEvent                                    v
        +------> eventQueue ------ eve_handleEvents ----> CPU thread(s) (cpu.h)
                                                              |
                 pin registers <--- writes ---- event handlers, instructions
                       | int_catch...                         |
                       v                                      v
                 interrupt flags --- int_handleInterrupts --> vector, stack
```

| component | state | operations | what makes it correct |
|---|---|---|---|
| Console (`main.c`), facade (`atmega328.h`) | `is_running` | boot, commands `s h e c l m d 1 2 3 4` | every command has its effect, in the order typed |
| CPU control (`cpu.h`) | `_cpuStopSignal`, the threads | `cpu_start`, `cpu_startVerbose`, `cpu_stop`, the loops `_run`, `_runVerbose` | one CPU at a time; a start starts, a stop stops |
| Event queue (`eventhandler.h`) | `eventQueue`, `_queueFront`, `_queueRear`, `_eventPending` | `eve_enqueueEvent`, `_dequeueEvent`, `eve_handleEvents` | first in, first out; whole events; only the oldest of a full ring are lost; no event waits for ever |
| Interrupts (`interrupts.h`, `register.h`) | flag, mask, control and pin registers, I bit | `int_catch...`, `int_handleInterrupts`, register writes, `eve_writeToInt...Pin`, `cli`, `reti` | one cause one call; by priority; routines are not interrupted unless they allow it; no flag is lost or starved |
| Call stack (`instructions/implementation.h`, `cpu.h`) | SPH, SPL, the RAM | `call rcall ret reti push pop`, entry of a routine | last in, first out |
| Instructions and operand decoder | registers, `reg_programCounter`, SREG bits | 32 instruction functions | result, flags and next address as the instruction set says |
| Registers (`register.h`) | I/O registers | 512 table entries to read and write functions | each address reaches its own function; ports report their pins |
| Memory (`memory/memory.h`) | three arrays | 8 and 16 bit access, fetch | no access leaves its array |
| Loader (`memory/loader.h`) | the program memory | parse 100 records | the program that is in the file is in the memory |
| Cycle counter, timer 0 (`cpu.h`) | `cpu_cycleCounter`, TCNT0, TIFR0 | `cpu_incrementCycleCounter` | counts what the instructions take; no round of the timer is missed |
| Pacing (`cpu.h`, `timing.h`) | the time totals of the loop | sleep until the round's time is used up | the clock speed is kept in the long run |
| Jump tables, operand decoder | none | `generator_jump_table.py`, 14 extract functions | one instruction for each word, in emulator and disassembler; the operands that its comment describes |
| Disassembler | a program counter of its own | `ins_disassembleProgram`, 32 disassemble functions | shows what is in the file; its lengths are those of the emulator; the listing ends |
| Speed test, peripherals, utilities | none that another part reads | text output, bit helpers | - |

**Hard behaviours.** (1) The console thread and the CPU thread run the two ends
of the ring at the same time, one load or store apart. (2) One flag,
`_cpuStopSignal`, is written by the console and by every thread that begins or
ends. (3) Interrupts arrive between any two instructions; flags, masks and the
I bit change in between, and routines may nest. (4) The stack pointer is two
bytes that the instructions do not move in the same way. (5) Counters wrap:
timers, unsigned differences of times, 8 and 16 bit operands. (6) What a word
means, how long it is and where it leads is written down in several places that
must agree. (7) Times are measured with a clock that can be set, and a sleep
takes longer than told or is refused. `PROJECT.json`
lists each hazard at its line, with the property that covers it or the reason
why none does.

## 2. The modules

| module | models | checked by |
|---|---|---|
| `EventQueue` | `eventhandler.h`: each load and store of the two sides is one action | `EventQueueSafe`, `EventQueueRaces` (through `MCEventQueue`) |
| `BoundedQueue` | abstract: a queue that forgets its oldest event when full | as `ImplementsBoundedQueue` |
| `EventQueue_proofs` | under every overlap the indices stay in the ring and the latest event gets through; under `Safe` `EventQueue` implements `BoundedQueue` | TLAPS |
| `CpuControl` | threads of `cpu.h`, `_cpuStopSignal`, the commands `s h e c` | `CpuControl`, `CpuControlTwoCpus` |
| `Interrupts` | from a pin to the routine: `interrupts.h`, the pin and interrupt registers of `register.h`, the pin events, `cli`, `reti`, writes to SREG | `Interrupts` (through `MCInterrupts`) |
| `Interrupts_proofs` | routines are atomic and entered by priority, flags are neither lost nor invented | TLAPS |
| `CallStack` | `call rcall ret reti push pop` and the entry of a routine, byte by byte | `CallStackClear` |
| `ByteStack` | abstract: a stack of bytes | as `ImplementsByteStack` |
| `CallStack_proofs` | `CallStack` implements `ByteStack` | TLAPS |
| `Alu` | `add adc subi sbci cp dec andi ori eor clr sbiw` and the flags of SREG | `AluChains` |
| `Alu_proofs` | numbers of any length are added and subtracted exactly; N xor V is the sign | TLAPS |
| `ProgramLayout` | what an assembler leaves in the program memory | used by `ControlFlow` |
| `ControlFlow` | where each instruction, each skip and the entry of a routine take the program counter | `ControlFlow` (through `MCControlFlow`) |
| `ControlFlow_proofs` | the program counter stays at the starts of instructions | TLAPS |
| `CycleCounter` | `cpu_incrementCycleCounter`, timer 0 and the instructions that access it | used by `Pacing` |
| `Pacing` | the times in the loop of `cpu.h`, `timing.h` | `Pacing` (through `MCPacing`) |
| `Pacing_proofs` | the carried delta is the true lag and the loss of the quotients; the emulator is ahead by that loss only; no sleep is too long; no round of timer 0 is missed | TLAPS |
| `Ports` | PORT, DDR and PIN of the three ports, the lines printed for their pins | `Ports` (through `MCPorts`) |
| `Ports_proofs` | the last line of a pin tells its level; the program reads what was typed | TLAPS |
| `Decoder` | the patterns of the jump tables, `decoder.h`, the lengths of instructions | used by `Listing` |
| `Listing` | `loader.h` and `ins_disassembleProgram`, the commands `l` and `d` | `Listing` (through `MCListing`) |
| `Emulator` | the threads of `CpuControl`, the ring of `EventQueue` and the machine of `Interrupts` in one state space: the commands `s h e c 1 2 3 4` and the body of the loop | `Emulator` (through `MCEmulator`) |
| `Console_proofs` | the commands of the console: `s h e c` lead to one CPU at a time, and only a stop ends its loop (`CpuControl`); the CPUs started one after the other are one machine, and the latest of `1 2 3 4` arrives at its pin (`Emulator`); every word is one instruction of one length and with the operands of its comment, and `l d` show the file (`Decoder`, `Listing`) | TLAPS |

How they compose: each module has the state that its properties need, and where two meet one
has as a single step what the other refines. `Emulator` puts three of them together: it
extends `CpuControl`, whose `Round` becomes the steps `Body`, takes `Interrupts` once for
each thread, with the same registers and with a `phase` and a `left` that are the thread's
own, and has as its queue the ring of `EventQueue`, with the threads as its `Cpus` and every
overlap that the code allows. A round is also a round of `Pacing`, whose steps `Instruction`
and `InterruptsHandled` are the `Instruction` and `EnterRoutine` of `Interrupts`,
`ControlFlow` and `Alu`. The handler that `EventQueue` calls is `PinEvent` of `Interrupts`
and `Event` of `Ports`. The stack of return addresses in `ControlFlow` and `Interrupts` is
the one that `CallStack` implements. `Listing` extends `Decoder`, `Pacing` extends
`CycleCounter`, `ControlFlow` extends `ProgramLayout`. `Console_proofs` extends all the
modules it is about, so the names of `CpuControl` and `Emulator` are their own (`CpuInit`,
`CpuNext`, `EmuInit`, `EmuNext`, ...).

Definitions whose comment begins "A fault the runs must notice" are not part of
any specification: each is a wrong form of the definition below it, and putting
it in that place makes a property fail.

### EventQueue

`front`, `rear`, `pending`, `slots` are `_queueFront`, `_queueRear`,
`_eventPending` and `eventQueue`. A call of `eve_enqueueEvent` is the actions
`EnqueueRear`, `EnqueueFun`, `EnqueueArg`, `EnqueueTest`, `EnqueueLoadFront`,
`EnqueueStoreFront`, `EnqueueFlag`; `mpc` says which comes next. A call of
`eve_handleEvents` is `HandleEvents` (the test of `_eventPending`), the six
accesses of `_dequeueEvent`, its test, `DequeueClear` and `CallHandler`; `cpc`
says where each thread is. The queue is compiled without optimisation, so every
access of a global in the source is an access of memory, in the order written; a
slot is two words. A handler runs in the CPU thread and touches the pins only:
it is one step here, recorded in `last`, and its effect is in `Interrupts`. A
call through a null pointer ends the process (`alive`).

The code has no synchronisation, so the ring is a queue only for some overlaps.
`Safe` names them: at most one CPU thread is in `eve_handleEvents`, and while
both sides are inside their functions the ring holds at least 2 and at most
QUEUE_SIZE - 2 events. Both thresholds are tight: with a 1 or a QUEUE_SIZE - 1 in
their place TLC finds the ring lose an event or hand over a slot before it is
written. `SafeSpec` is the code restricted to those overlaps; `Spec` is the code
with all of them. Nothing in the code enforces `Safe`: only `ImplementsBoundedQueue`
is about it, everything else is stated of `Spec`.

Outside `Safe` a slot may be read before it is written, old events may be handed over
again, and a null one ends the process. What the code still gives is said by
`NothingWaits` and `EventsAreTaken`: the event typed last is handed over last, and the
CPU threads come to rest. Two things break that too, and the history variable `raced`
records them, from one enqueue to the next: `_eventPending` is raised while a CPU thread
is between its slot and the line that lowers it (eventhandler.h:36-37, the lost
wake-up: the event waits until another is typed), and two CPU threads are in
`eve_handleEvents` at once. No guard reads `raced`.

The refinement to `BoundedQueue` maps an event into the queue when its enqueue
has settled both indices (`mpc` back to `flag`), and out of it when its handler
is called. `headFront` and `tailRear` undo an index that was moved too early.

### CpuControl

A thread is `created`, then `Reset` (the assignment in front of the loop),
`Test`, `Round`, ..., `Clear` (the assignment behind it), `PrintStopped`.
`CpuStart` creates a thread if one can be had; the code ignores the result of
`pthread_create`. `Round` stands for everything a round of the loop does to the
machine, `Fault` for the `exit` of a bad memory access.

Three users: `any` types anything at any time. `alternating` starts and stops in
turn. `patient` reads the screen: it stops only after the CPU has printed an
instruction, and starts only after "cpu stopped" (so, after a start without -v,
which prints nothing, it does not stop). `Users` says who may sit there.

### Interrupts

Registers are sets of one-bits; the pin registers, EIMSK, EICRA (as two senses),
PCICR, PCMSK0-2, the flags of EIFR and PCIFR and the I bit are the variables of
the names in the source. `WritePins` is `_pinbWrite0x23`, `_pincWrite0x26` and
`_pindWrite0x29` with the `int_catch...` functions they call; `PinEvent` is
`eve_writeToInt0Pin` and `eve_writeToInt1Pin`, which read PIND through the table
(PORTD | PIND) and write the whole byte back. `EnterRoutine` and `NoInterrupt`
are `int_handleInterrupts` after every instruction. The program is arbitrary:
any instruction that touches one of those registers, `cli`, `reti`, or one that
touches none of them. `context` and `stack` stand for the return addresses; how
they are stored is in `CallStack`. The code has no `sei` instruction: the I
bit is set by a write to SREG or by `reti`. `cause` is auxiliary: it remembers
which flags have had a reason since their routine was last entered.

### Emulator

`at` and `counter` are what a thread of `_run` or `_runVerbose` has of its own: where
it is in the body of the loop, and how many instructions are left. Registers, pins and
the queue are global. `HandleEvents` is the line that `_runVerbose` prints and the call
of `eve_handleEvents`, `Instruction` and `HandleInterrupts` are the two halves of an
iteration; after the last one the thread goes back to `test`. All other steps are those
of `CpuControl` and leave the machine alone. What of a round has to do with time is in
`Pacing`. `CommandPin` is a command `1` to `4`.
The commands fill the ring of `EventQueue` and `HandleEvents`, `Dequeue` and
`CallHandler` empty it, each load and store a step between which the console thread and
the other CPU thread do theirs; a handler is the step `PinEvent` of the machine. A user
types the next command when `eve_enqueueEvent` has returned. No overlap is left out:
`LatestLevelArrives` and `EventsAreHandled` except an event whose flag was `raced`
against, and `StopsAreInvisible` is about what the threads do with any events they get.

`Place` and `Counter` are the place and the counter of the one thread that is in
the middle of a round, or those of the top of the loop if none is: with them
`StopsAreInvisible` says that the threads together do what `Interrupts`, a loop without
an end, does. `typed` and `untouched` are auxiliary: the event that was typed last, and
that the program has left PIND and PORTD alone.

### CallStack

`sph` and `spl` are the two bytes at STACKPOINTER. `push` and `pop` write both
(`DecrementSp`, `IncrementSp`); `call`, `rcall`, `ret`, `reti` and the entry of a
routine go through `cpu_decrementIncrementStackPointer`, which adds to SPL alone
(`SubFromSpl`, `AddToSpl`). A read beyond the RAM ends the process (`fault`).
`ClearSpec` is any program of
all operations that stays clear of two traps: an SPL that wraps in a call or
return, and a `pop` of the last byte, which reads the byte behind it too.

### Alu

`sreg` holds the six flags; the program is arbitrary, so an action is an
instruction together with the bytes it finds in its registers. Each flag has the
formula of the source: the bit formulas of `adc` and `add` (`CarryOfSum`, ...),
those of `subi` and `sbci` (`HalfOfDifference`, ...), and the different H and V
of `cp` (`HalfOfCompare`, `OverflowOfCompare`). S is computed from the old N and
V (`SignBit`), in `sbiw` it receives the carry. Instructions that touch no flag
are left out: they change nothing here. `chain` and `reference` are auxiliary.
`chain` follows one number through `add adc adc ...` or `subi sbci sbci ...`:
its weight so far, what integers say (`exact`) and what the bytes say (`got`).
`dec`, the logic instructions and `sbiw` may come in between, for they leave C
alone; a write to SREG ends the chain.

### ProgramLayout and ControlFlow

An instruction is known by the way it moves the program counter: `skip` is
`sbic` and `sbis`, `load` the two instructions of two words that do not jump,
`plain` all that only go on. `LaidOut` is what an assembler guarantees: where
instructions start, that operands are not starts, and that every way leads to a
start. `pc` is `reg_programCounter`, `stack` the return addresses, `between` is
TRUE after an instruction and before `int_handleInterrupts`. Flags and I/O bits
are not kept, so `brne` and the skips may go either way and a routine may be
entered after any instruction. `Destination` is the arithmetic of `rjmp` and
`rcall`, `BrneTaken` that of `brne` (which adds the offset less 127 and is
therefore right for backward branches only), `MaskedAsLong` the masks of the
skips. The model ends when `pc` is not at the start of an instruction.

### CycleCounter and Pacing

`Cycles` is the loop of `cpu_incrementCycleCounter`: one more than it is told.
`tcnt0` and `tov0` are TCNT0 and the overflow bit of TIFR0, the only bit of it
that is kept. An instruction counts before or after it stores, which is why `out`
and `sts`, `cbi` and `sbi` to these registers are different actions. `elapsed` is
auxiliary: the cycles counted, less TIMER for each TOV0 that the program has taken down
by `out`; a write to TCNT0 sets it anew. It is `Lost` once the timer has gone round twice with
TOV0 left up, or `sts`, `cbi` or `sbi` has stored into TIFR0.

`Pacing` goes through a round of `_run` line by line: `StartRound` (66-73),
`Instruction` and the interrupts (73-80), `Calculate` (82), `Measure` (84),
`Sleep` (86), `Account` (88-90). `spent` is the time by the clock since
`timeStamp`; `calc`, `actual` and `delta` are the variables of the code, words
that wrap at WORD. `Disturb` is what the host may do at any moment: take the
processor away, or set CLOCK_REALTIME in either direction. `Owed` is what
delta stands for as an integer.

The code counts SEC \div clock nanoseconds for a cycle, where SEC / clock is meant.
`lag` is the true lag, the time of the rounds by the clock less the time that
their cycles take at the clock speed; so that it is an integer it is counted in parts of a
nanosecond of which there are `clock` (`lag` grows by `clock * spent` and
shrinks by `SEC * cycles`). `dropped` is what the quotients have lost, `SEC % clock` parts
per cycle: nothing at a speed that divides a second, half a nanosecond per cycle at
16 MHz, for ever. Since neither has a bound, they are followed until `dropped` would
exceed `MaxDropped` (`watched`); the code's own variables go on. No guard reads the three.

The time from the last measurement of a round to the first of the next is
counted by nobody in the code, and left out. `_runVerbose` has the same
lines; what it prints takes time, like any work.

### Ports

`port`, `ddr` and `pin` are the nine registers, each the set of its one-bits;
`shown` is the level that the terminal showed last for a pin of the board, and
`typed` what the console set the pins of INT0 and INT1 to. Both are auxiliary, as
is `habits`, which remembers that the program did something the properties
except: write PORTD (`portd`) or PIND (`pind`), or change the direction of a bit
that is 1 in PORT (`direction`). `WritePort` is the three write functions of
`register.h`, with the pin numbers of each.

### Decoder and Listing

`Pattern` is the table of `generator_jump_table.py`, nibble by nibble, and `Table`
what the generator writes into both jump tables. `FirstRegister`, ..., `Constant`
are the calls of `decoder.h` with the masks and shifts it has (`Masked` is `&` with
a mask, written over the 16 bits of a word so that it can be reasoned about);
`MeantOperands` reads the same operands off the letters in the comments of the
instructions. `ExecutedLength`, `SkippedLength`, `ListedLengths` are the three
places that know how many words an instruction takes.

In `Listing` a file is a sequence of records. `ParseRecord` stores the words of
one; `ParseElsewhere` is a record that is read behind the end of the file, or
after one that put the parser out of step: nothing happens or the memory is no
longer `known`. `Load` may replace one file by another. `Line` is an iteration of
the loop in `ins_disassembleProgram`; `programCounter` starts anywhere, because
the code does not initialise it, and `rcall` adds whatever its caller finds,
because `rcall_disassemble` returns nothing.

## 3. The runs

| run | asks | instance | result |
|---|---|---|---|
| `EventQueueSafe` | is the ring the queue, under `Safe`? | 5 slots (the smallest ring whose `Safe` range 2..3 has more than one value), two events that differ in both words, two CPU threads | holds, 102 000 states |
| `EventQueueRaces` | what is left with every overlap? | 3 slots, one event, two CPU threads | indices stay in the ring; an announced enqueue is followed by a handler call; the latest event gets through and the threads come to rest unless its flag was raced against; 367 000 states |
| `CpuControl` | is a raised signal always taken? one CPU, start and stop obeyed, no stale signal, for the user who reads the screen? | 3 threads, so that a starting, a running and an ending one meet; a user of each kind that matters | holds, 18 600 states |
| `CpuControlTwoCpus` | one CPU when start and stop alternate? | 2 threads | violated |
| `Interrupts` | order, atomicity, no spurious entry, no lost flag; is no interrupt forgotten; does an event on one pin leave the other interrupt alone? | both external interrupts in two settings that have all four senses, the pin change of PORTD, a flag that is written, an output pin that is driven or not, one nested routine | holds, 593 000 states |
| `CallStackClear` | last in, first out for programs clear of the traps | bytes of 4 values, RAM of two pages, two return addresses and one byte value | holds |
| `AluChains` | are sums and differences of several bytes exact, do Z, N xor V and H say what integers say? | bytes of 8 values, nibbles of 4, numbers of three bytes | holds, 45 000 states |
| `ControlFlow` | does the program counter stay on instructions and follow the program? | memory of 24 words, branches of -4..3, jumps of -8..7, three calls or routines deep; a program with every kind of instruction and every kind behind a skip, one around the end of the memory, one with a forward branch | holds, 20 000 states |
| `Pacing` | is the delta the true lag and the loss, is the emulator ahead by the loss only, does it catch up, do sleeps fit, is a round of the timer missed? | a second of 16 ns, words of 1024, clocks of 0, 2, 5 and 16 Hz (which divide by zero, are too slow, do not divide the second, and execute two instructions a round), two disturbances, a loss of up to 12 parts | holds, 2 700 000 states |
| `Ports` | do the lines tell the levels; is what was typed read? | one bit of B and C, both interrupt pins of D | holds, 443 000 states |
| `Listing` | one pattern per word, lengths and operands agree, the lines show the file, the listing ends? | a parser of 3 records, 664 files of two records that hold every word where it gets listed (of `lds16` only some), 8 files that are odd, 100 lines as in the source, starts at 0, 1, 99 and 0xffff | holds, 81 000 states |
| `Emulator` | are threads started and stopped at any moment one machine; does the level typed last reach its pin; is every event handled, in either loop? | two threads of a patient user, a ring of two slots, rounds of two instructions, one kind of event, INT0 by the level | holds, 339 000 states |

*Bounds.* The source has 100 slots, 256 values of a byte and 2304 bytes of memory. The
ring's behaviour depends on the distance of front and rear at the moment of an access, and 5
slots give every class (empty, 1, inside, full but one, full). A page of 4 lets SPL wrap and
two pages let SPH change. Pin 2 and 3 stand for all bits of a port: a pin change looks only
at whether a changed bit is masked. The program of the run changes PIND alone; ports B and C
go the same way with another flag, which a write to PCIFR raises here. One nested routine
gives every pair of an interrupting and an interrupted routine; `MaxNesting` bounds it in
`OutSreg`. A byte of 8 values in two nibbles has every combination of the bits the flag
formulas look at, with and without a carry between the nibbles; the third byte of a number
is the first one whose carry comes from an `adc` or `sbci`. A memory of 24 words lets a jump
of -8..7 go around either end. In `Pacing` a word is more than eight times the largest time,
as 2^64 ns is (584 years); a second is 16 ns, and the disturbances of 20, -5 and -18 ns are
more and less than that, so that a sleep is skipped because the host was late, made longer,
and refused because the clock was set back. A clock of 5 Hz loses a fifth of a nanosecond
with each cycle, as 16 MHz loses a half; the bound of 12 such parts is reached after three
to six rounds, the theorem has none. The three actions of a port's bit do not look at another bit, so one bit per port
is enough, and two where the events set one and read the other. `Listing` does not bound the
words at all: all 65536 are listed, except operands of `lds16`, at which a listing stays for
ever. In `EventQueueRaces` and `Emulator` one kind of event is enough to tell a written slot
from a null or a half written one, which says low where the event says high; an old event in
the place of a new one shows only with two, and the theorems `LatestGetsThrough` and
`LatestLevelReachesPin` have any events. In `Emulator` two threads are enough for an ending
and a starting one to meet, a ring of two slots to be empty, full and overfull, and two
instructions for a place in the middle of a round. The theorems below remove the bounds for
what they state.

*Deadlock* is checked except where the program stops: the process ends (`exit`
command, null handler) in `CpuControl`, `Emulator` and `EventQueueRaces`, by a bad
address in `CallStack`, by a fetch in `ControlFlow` (whose model also ends at a
word that is no instruction), by a division by zero in `Pacing` (whose times are
bounded), by a bad address in `Listing`.

*Fairness.* The operating system schedules every thread, and every loop in the
code goes on by itself: weak fairness of each CPU thread, and of the console
thread while it is inside `eve_enqueueEvent`. The user need not type: no
fairness of commands. `SafeSpec` asks the same of the steps it allows. In
`Interrupts` the CPU thread never stops taking steps. It is not assumed that the
program ever enables interrupts: `PendingIsServed` speaks of programs that do so
again and again. In `Pacing` the thread goes on (weak fairness of the steps of
the loop); disturbances are not fair, and bounded. In `Listing` the loop that
prints goes on. `Emulator` asks what `CpuControl` asks: each thread goes on, in the body
of the loop too.

## 4. What disagrees with the comments

* `CpuControlTwoCpus`: cpu.h:2 says the thread can be stopped and started at all
  time. A start before the old thread has tested the signal leaves two threads
  executing. For the same reason (cpu.h:64) a stop before the new thread has
  reset the signal is erased: `StopObeyed` fails for the alternating user too.

The others are modelled as the code has them and have no run of their own; the
properties say in their comments what they except.

*Interrupts and stack.*

* interrupts.h:94 says it looks for interrupts that trigger on low level; it does
  not read the pin (`LevelFlags`). A level interrupt of higher priority also
  starves the others, which `PendingIsServed` allows by its wording.
* register.h:177 says PCINT1; PINC is reported as group 0, and all three groups
  look at PCMSK0 (interrupts.h:68, 77, 86).
* implementation.h:656 says the return address is loaded from the stack; calls and
  returns do not adjust SPH (cpu.h:48), so one that crosses a multiple of 256 is
  not found again. `ClearSpec` excludes it.
* A read of PIND returns PORTD as well, so an event writes the driven bits back
  into PIND and can make an edge on the other pin (`PinTriggersItsInterrupt`
  assumes PORTD = 0, `InputIsTyped` that the program leaves PORTD and PIND alone).
* `pop` loads 16 bits (implementation.h:593). Writing a one to EIFR or PCIFR sets
  the flag, where the data sheet clears it.

*Instructions.*

* implementation.h:163 says `brne` branches in either direction; the offset has lost
  its sign (168-170), and a forward branch lands 128 words too low. `OnInstructions`
  and `FollowsTheProgram` except it.
* S is always one instruction late (implementation.h:49); H and V of `cp` use other
  formulas than those of `subi` (259, 265), so signed tests after `cp` are not
  among the properties; `sbiw` drops bits of its constant (0-63 in the comment,
  0-15 in the code) and has no carry (906, 926).
* `sbic` and `sbis` say addresses 0-31 and decode four bits; `subi` and `sbci` take
  five bits for a register of sixteen (977); `lds16` does not remap its registers.
  `LosesBits` names these words.
* Not in a model: `lds32` keeps 8 bits of its address (443); `lds16` passes bit and
  level to `uti_setBitInWord` the wrong way round, so its address does not depend
  on the operand, and it reads the EEPROM (482-493).

*Cycles and times.*

* Every instruction counts one cycle more than it is told (cpu.h:41).
* An overflow overwrites TIFR0 (cpu.h:33). `sts`, `cbi` and `sbi` on TIFR0 lose an
  overflow of their own cycles; after them `NoRoundIsMissed` says nothing.
* A clock below some Hz (debug.h:68 says "minimum 2 Hz") asks for sleeps of a second
  or more, which nanosleep refuses; what was not slept is carried over and the
  loop never sleeps again. So does a clock that was set back. 0 Hz, which `-c`
  accepts, divides by zero. At 16 MHz a cycle counts as 62 ns, not
  62.5, so the emulated clock gains 0.8 % and is never set right: `AheadByTheLossOnly` and
  `DeltaIsLag` say how much, `CatchesUp` is about the time as the code counts it.

*Ports and listing.*

* peripherals.h:10 says every change of an output pin is reported; a change of DDR
  is not (`ShownIsDriven`). The board pins in the names of map.h (`PORTB4_PIN_18`)
  are not those that register.h prints (16 for bit 4 of B).
* map.h:2 says the program memory is read only when running; `l` writes it then.
* loader.h:26 speaks of 20 lines; the parser reads 100, and 100 also when there are
  fewer. It ignores record types, the size of the memory and the result of fopen,
  and takes every line to end with two characters.
* `lds16_disassemble` leaves the length 0 and `rcall_disassemble` returns nothing, so
  `ListingEnds` excepts them; `pop_disassemble` can end the process (`ProcessEnds`).

## 5. The proofs

| theorem | says, for every value of the constants |
|---|---|
| `EventQueue_proofs!TypeCorrect` | `Spec => []TypeOK`: whatever overlaps, both indices stay within the array, and slots hold only words of events |
| `EventQueue_proofs!LatestGetsThrough` | `Spec => []NothingWaits`, every overlap, a ring of any size, any events |
| `EventQueue_proofs!RingIsABoundedQueue` | `SafeSpec => ImplementsBoundedQueue`, a ring of any size |
| `Console_proofs!CpuTypeCorrect` | `CpuSpec => []CpuTypeOK`, any set of threads, any user |
| `Console_proofs!PatientAtMostOne` | `CpuSpec => []PatientAtMostOneCpu` |
| `Console_proofs!PatientOnlyStopEnds` | `CpuSpec => OnlyStopEndsTheLoop` |
| `Console_proofs!EmulatorTypeCorrect` | `EmuSpec => []EmuTypeOK`, any threads, queue and program |
| `Console_proofs!OneMachine` | `EmuSpec => StopsAreInvisible`: under a patient user the threads implement the one loop of `Interrupts` |
| `Console_proofs!LatestLevelReachesPin` | `EmuSpec => []LatestLevelArrives`, whatever is typed, every overlap, a ring of any size |
| `Console_proofs!TypeCorrect` | `Spec => []TypeOK` of `Listing`, any files, any start of the listing |
| `Console_proofs!OneInstructionPerWord` | `Spec => []OnePattern` |
| `Console_proofs!LengthsAreOne` | `Spec => []LengthsAgree` |
| `Console_proofs!OperandsAreTheComments` | `Spec => []OperandsAsDocumented` |
| `Console_proofs!ListingShowsTheFile` | `Spec => LinesShowTheFile`, plain files of any length while the memory is still known, any number of parsed records |
| `Interrupts_proofs!TypeCorrect` | `Spec => []TypeOK` |
| `Interrupts_proofs!AtomicRoutines` | `Spec => []RoutinesAreAtomic`, any depth of nesting |
| `Interrupts_proofs!PriorityHolds` | `Spec => LowestVectorFirst` |
| `Interrupts_proofs!EntriesHaveACause` | `Spec => NoSpuriousEntry` |
| `Interrupts_proofs!FlagsAreKept` | `Spec => NoLostFlag` |
| `Interrupts_proofs!EventsStayOnTheirPin` | `Spec => PinTriggersItsInterrupt` |
| `CallStack_proofs!TypeCorrect` | `ClearSpec => []TypeOK` |
| `CallStack_proofs!StackIsLifo` | `ClearSpec => ImplementsByteStack` |
| `Alu_proofs!TypeCorrect` | `Spec => []TypeOK` |
| `Alu_proofs!ChainsAreExact` | `Spec => []CarryChainExact`, numbers of any length |
| `Alu_proofs!ZeroIsWhole` | `Spec => []ZeroOfWholeDifference` |
| `Alu_proofs!SignedTestsHold` | `Spec => []SignedTests` |
| `Alu_proofs!HalfCarryHolds` | `Spec => []HalfCarryOfNibbles`, any width of byte and nibble |
| `ControlFlow_proofs!TypeCorrect` | `Spec => []TypeOK` |
| `ControlFlow_proofs!StaysOnInstructions` | `Spec => []OnInstructions`, any program that is laid out, any depth |
| `ControlFlow_proofs!EveryStepFollows` | `Spec => FollowsTheProgram` |
| `Pacing_proofs!TypeCorrect` | `Spec => []TypeOK` |
| `Pacing_proofs!DeltaTellsLag` | `Spec => []DeltaIsLag`, any clock speed, any word that is large enough for the times |
| `Pacing_proofs!AheadByLoss` | `Spec => []AheadByTheLossOnly`, any clock speed, any disturbances |
| `Pacing_proofs!NoSleepTooLong` | `Spec => []SleepsFit` |
| `Pacing_proofs!NoRoundMissed` | `Spec => []NoRoundIsMissed`, any size of the timer |
| `Ports_proofs!TypeCorrect` | `Spec => []TypeOK` |
| `Ports_proofs!LastLineTellsLevel` | `Spec => []ShownIsDriven`, all bits of all ports |
| `Ports_proofs!ConsolePinsAreTyped` | `Spec => []InputIsTyped` |

Assumptions: QUEUE_SIZE is a number above 1 and the events are pin events; PAGE
is above 2 and the memory is larger than a page; the pins and register values of
`Interrupts` are sets of bits and flags, its rounds and nesting numbers; a byte
of `Alu` has an even number of values; a user of `CpuControl` is one of three kinds;
the ring of `Emulator` has two slots at least, its events are those of the two pins, and
its rounds have an instruction at least;
the programs of `ControlFlow` are laid out, its word is larger than its memory; the
times of `Pacing` are bounded by an eighth of its word, and timer 0 has more
values than an instruction counts cycles; the bits of `Ports` are those that have
a pin, among them the two of the console. The files of `Listing` are sequences of
records, each with as many words as its count of bytes asks for; a listing ends within the
program memory, it starts at some word, and the length that `rcall` leaves to chance is a byte.

*EventQueue.* `TypeOK` is inductive; the remainder in `Succ` keeps an index in
the ring (`SuccInIndex`), and an assignment of one word keeps a slot a slot
(`SlotParts`). One step per action.

`NothingWaits` is proved of `Spec`, whatever overlaps. From the moment the flag of an
enqueue is up and not raced against, until the next enqueue (`Settled`), at most one CPU thread
is in `eve_handleEvents`, and when the flag went up it had either not chosen its slot yet or
was done with the flag. `LatestInv` follows
that thread: if it has found its front at the rear it has copied the newest slot, if not, the
flag stays up, so when the flag is down the front is the rear and the newest slot
was handed over last (`LatestOfConsole`, `LatestOfOne`, `LatestOfCpu`).

The refinement of the ring needs `RingInv`, which says what each side may rely on.
`ConsoleInv`: from `test` on the slot at `rear` holds the whole event; a console
that has found the ring full meets no CPU thread; and outside calls the flag
says whether `Held`, the length of the queue, is above 0. `CpuInv`: the slot copied is
the one of the oldest event, and the copy is complete before the handler is called;
the flag is taken back only if that event is the last one. The two sides do not get in
each other's way because of `Safe`: with at least two events and room for two
(`Overlap`) the slot written and the slot read differ (`SlotsApart`) and the front is
not the rear (`LastOrNot`). The arithmetic is apart from that: lemmas about places in
the ring (`Neighbours`, `Places`) and about the queue between two of them (`PutItem`,
`TakeItem`, `PutIntoFull`). `TestStep` and `StoreStep` are the abstract `Put`, `CallStep` is the
abstract `Take`, and every other step is unseen.

*CpuControl.* `PatientAtMostOneCpu` is not inductive: it needs to know what the screen
and the signal say about the threads. `PatientInv` adds it: there is at most one
live thread; "stopped" is on the screen only when no thread is left; a raised
signal means the latest command was a stop, and a thread is past its reset
as soon as it has printed an instruction. A patient user therefore starts only
when there is no thread and stops only a thread that will see the signal.

*Emulator.* A step of `EmuSpec` is a step of `CpuControl` that leaves the machine alone, or
a step of one thread in its body, which leaves it where it is or takes it to the test
(`ControlStep`, `BodyMoves`); so `PatientInv` is kept here too (`PatientBody`). `EmuInv`
adds that a thread outside its body is at the beginning, with no instruction left
(`AtRest`): only the end of a round leads to the test. As at most one thread of a patient
user lives, the one loop is where that thread is (`OnePlace`), and each step of its body is
the step of the same name of the one loop (`SameInstruction`, `SameHandling`,
`OneLoopSteps`); all other steps stutter. The ring here takes the steps of `EventQueue` or
stands still (`SameSteps`, `Accesses`), so what is proved there holds
(`RingFacts!LatestInv`, `LatestStep`). `LatestLevelArrives` adds how an event gets into the
newest slot (`Written`: word by word, behind the new rear) and from its handler to its pin
(`Reached`: the pin has the level of the event handled last, for the program leaves port D
alone). It holds for any user, since it is about the ring and not about which thread takes
from it.

*CallStack.* The stack pointer stays between the registers and the end of the
RAM (`SpInRam`); with it, each operation moves `sp` by what the abstract
operation grows or shrinks the stack (`SplMoves`, `SpMoves`: here the traps are
excluded), and the bytes below the moved pointer are those of `Bytes`, so each
step of the code is a step of `ByteStack` under the mapping.

*Interrupts.* `TypeInv` adds to the types that the I bit set inside a routine
leaves room on the stack for one more, and that a round that is under way has
instructions left. `AtomicInv` says that while the I bit is set the routine that
executes has set it itself, which is what makes pushing it sound. `CausedInv`
says that every raised flag has a cause. The action properties follow from
these, one step per action. `PinTriggersItsInterrupt` needs no invariant: while PORTD
drives nothing, a pin event changes no level but that of its own pin (`EventOnOtherPin`).

*Alu.* `SumCarries` and `DifferenceBorrows` tie the bit formulas to integers:
x + y + c is the result plus the carry times the size of a byte. `ExtendExact`
carries that to the next weight; for H the same is shown of the low nibbles
(`NibbleOf`, `SumLow`, `DifferenceLow`); `AluInv` is the types with what C and Z say of
the chain. `SignedTests` needs no history: each instruction establishes it.

*ControlFlow.* `TypeOK` and `OnInstructions` together are inductive once it is known
that an interrupt comes only between two instructions: the lemmas say that each
destination the code computes is the one that `Targets` means (`DestinationIsTarget`
for the wrap around the memory, `BackwardBranch`, `InstructionsAim`), and `LaidOut`
that this is a start (`Laid`). A return address is one of these or the `pc` at which
a routine was entered, which is again a start; a return takes the latest of them
(`InstructionKeeps`, `EnterKeeps`).

*Pacing.* A word is the remainder of the integer it stands for, so sums and differences may
wrap on the way as long as the last result is in range (`WordsVanish`, `SleepTimeIs`,
`DeltaIs`). `PacingInv` says that delta is the word of `Owed` (`Carried`) and that `actual`
is the word of a time that is at most what has been spent, unless the clock was set back
(`Measured`): so a sleep is never too short, after it the round is covered (`RoundCovered`),
and `Owed` is 0 or above when the round ends (`NotAhead`). A round adds to `Owed` the time
spent less the time counted (`AccountOwes`), and clock times the time counted is SEC times
the cycles less their loss (`QuotientLoses`): so `DeltaIsLag` is kept (`DeltaStep`), and
`AheadByTheLossOnly` follows. `SleepsFit` needs a bound from the other side: `RoundInv` says
that the cycles counted so far are at most those of the instructions executed so far
(`CyclesBounded`), so that the time of a round is below a second (`CalcFits`), and that time
goes forward unless the clock was set back. `NoRoundIsMissed` is inductive: what has elapsed
is within two rounds of the timer (`Rounds`), and each kind of instruction takes it on as
TCNT0 and TOV0 show it (`CountShows`, `InstructionShows`).

*Ports.* No two bits have one pin of the board (`OnePinPerBit`), so a line printed
for a pin speaks of one bit; `ShownIsDriven` is then inductive with `TypeOK`.
`InputIsTyped` needs to know that the typed level is kept in PIND alone
(`TypedInPind`).

*Decoder.* What is said of all 65536 words is not proved by looking at each. A word is
its 16 bits (`Halves`: what is left above a bit is twice what is left above the next one,
and that bit), so masks and shifts select bits (`FieldsAreBits`). The letters of a comment are
positions in the word, whose bits `Gathered` puts together; the two agree for each kind of
operand (`FieldsAreLetters`, `GatheredAre`, `OperandsOfWord`). A word matches a pattern when
its nibbles are what the pattern asks (`MatchingAsks`); of any two patterns there is a
nibble of which they ask different things (`AsksApart`), so at most one matches. The tests for
long instructions are masks, which ask the same of the nibbles (`MasksAre`): the
lengths are one. These are facts about words; `TypeOK` says that what the listing shows is
one. They found an ambiguity that TLC does not see: the letters of `MeantRegister` were
read by a CASE with overlapping arms.

*Listing.* `LinesShowTheFile` relates a line to the latest record that covers its
address. `ListingInv` carries this from the parser to the loop: of a plain file, an address
holds the word of the latest record among those parsed that covers it (`Shows`); outside the
parser all the records it ever reads have been read (`Loaded`), and a listing is of
a file (`Listed`). Parsing a record keeps that: the addresses it stores
are the ones it covers (`StoredIsCovered`), all others keep what they had
(`ParsingShows`). The loader swaps the bytes of a word and the fetch swaps them back
(`WordFacts`).

*Only model-checked.* The liveness properties (`EventsAreTaken`, `FlagIsServed`,
`SignalConsumed`, `StartObeyed`, `StopObeyed`, `PendingIsServed`, `CatchesUp`,
`ListingEnds`, `EventsAreHandled`): TLAPS has no reasoning about fairness or ENABLED here.
Every other property of the passing runs is a theorem. Where the types of a module are
a theorem that says less than the others do (`CallStack`, `Alu`, `Listing`, `Emulator`, ...),
no run repeats them.

## 6. Not modelled

* The dispatch of an address to its function in `register.h` (two tables of 256
  entries, 276-793) and the console registers (121-137), which print a byte or end
  the process. A model of a table is the table again.
* The bytes that `in`, `ldi`, `lds32`, `lds16` and `sts` move, and the EEPROM:
  assignments without a hazard beyond those in section 4.
* `debug.h`, the speed test: it reads the counter and the clock and prints; nothing
  reads what it keeps.
* The argument parser of `main.c` apart from the clock speed; text output; utilities
  that nobody calls (`uti_extractBits`) or that print.
* The two generated jump tables are modelled through their generator: `Table` is what
  it writes, each entry of the 65536. They are 97 % of the lines of the repository,
  which says nothing about how much of its logic they hold.

What is left to compose: the times of `Pacing`, which `Emulator` leaves out. That an event
typed at the console ends in its routine is shown in parts: the threads come to the end of
the events (`EventsAreHandled`), the pin has the level typed last (`LatestLevelArrives`), and,
since the threads are one loop (`StopsAreInvisible`), the change of the pin raises a flag that
is kept (`NoLostFlag`) and served while the CPU is left running (`PendingIsServed`); no run
follows one event all the way.
