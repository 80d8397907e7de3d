------------------------------ MODULE Emulator ------------------------------
(***************************************************************************)
(* The threads of CpuControl at work on the machine of Interrupts, and the *)
(* console commands 1 to 4 with the ring of EventQueue that brings them    *)
(* there, one access at a time: the loop of cpu.h step by step.  The       *)
(* loop's place and its counter are local to a thread, the registers, the  *)
(* pins and the ring belong to nobody.  CpuControl's Round is the body of  *)
(* the loop here, in several steps, during which the console thread and    *)
(* another CPU thread do theirs.                                           *)
(***************************************************************************)
EXTENDS CpuControl, Naturals, Sequences

CONSTANTS
    Events,     \* the events of the commands 1 to 4
    QUEUE_SIZE, \* the number of slots of the ring (100 in the source)
    PinValues, PortDValues, EimskValues, SenseValues, PcicrValues, PcmskValues,
    FlagValues, InstructionsPerRound, MaxNesting        \* those of Interrupts

ASSUME RoundsAssumption == InstructionsPerRound \in Nat \ {0}
ASSUME CommandsAssumption ==
    /\ Events \subseteq [fun : {"eve_writeToInt0Pin", "eve_writeToInt1Pin"}, arg : {0, 1}]
    /\ QUEUE_SIZE \in Nat /\ QUEUE_SIZE > 1
ASSUME ValuesAssumption ==
    /\ PinValues \in [{"B", "C", "D"} -> SUBSET (SUBSET (0 .. 7))]
    /\ PortDValues \subseteq SUBSET (0 .. 7)

VARIABLES
    front, rear, pending, slots, mpc, mev, mfront, cpc, cfront, cev, handled, raced,
                                        \* EventQueue
    pins, portd, eimsk, sense, pcicr, pcmsk, flags, enable, context, stack, cause,
                                        \* Interrupts
    at,         \* where each thread is in the body of its loop: phase of Interrupts
    counter,    \* the instructions left in its round: left of Interrupts
    typed,      \* auxiliary: the event typed last
    untouched   \* auxiliary: the program has never changed PIND or driven PORTD

ring    == <<front, rear, pending, slots, mpc, mev, mfront, cpc, cfront, cev, handled, raced>>
machine == <<pins, portd, eimsk, sense, pcicr, pcmsk, flags, enable, context, stack, cause>>
locals  == <<at, counter>>
history == <<typed, untouched>>
emuVars == <<cpuVars, ring, machine, locals, history>>

(* The variables of CpuControl but alive, which a null event changes.      *)
control == <<threadPc, verbose, stopSignal, console, last, screen, user>>

NullEvent == [fun |-> "NULL", arg |-> 0]

Ring    == INSTANCE EventQueue WITH Cpus <- Threads, last <- handled
Loop(t) == INSTANCE Interrupts WITH phase <- at[t], left <- counter[t]

Places == {"events", "execute", "interrupts"}

EmuInit ==
    /\ CpuInit /\ Ring!Init
    /\ pins = [p \in {"B", "C", "D"} |-> {}] /\ portd = {}
    /\ eimsk = {} /\ sense = [n \in 0 .. 1 |-> "LOW"]
    /\ pcicr = {} /\ pcmsk = [g \in 0 .. 2 |-> {}]
    /\ flags = {} /\ enable = FALSE /\ cause = {}
    /\ context = [of |-> "main", opened |-> FALSE] /\ stack = <<>>
    /\ at = [t \in Threads |-> "events"] /\ counter = [t \in Threads |-> 0]
    /\ typed = NullEvent /\ untouched = TRUE

-----------------------------------------------------------------------------
(* The commands 1 to 4: atm_setPin5high .. atm_setPin4low.  The console    *)
(* thread reads the next command when it is back from eve_enqueueEvent.    *)

CommandPin(e) ==
    /\ console = "loop"
    /\ Ring!EnqueueRear(e)
    /\ typed' = e
    /\ UNCHANGED <<control, machine, locals, untouched>>

Enqueue ==
    /\ Ring!Enqueue
    /\ UNCHANGED <<control, machine, locals, history>>

-----------------------------------------------------------------------------
(* The body of the loop, of one thread.                                    *)

InBody(t) == alive /\ threadPc[t] = "round"

(* The thread moves in its body: where to, Interrupts says. *)
Moves(t) ==
    /\ InBody(t)
    /\ \E p \in Places, n \in 0 .. InstructionsPerRound :
          at' = [at EXCEPT ![t] = p] /\ counter' = [counter EXCEPT ![t] = n]

(* _runVerbose prints the next instruction first. *)
Trace(t) == screen' = screen \cup IF verbose[t] THEN {"trace"} ELSE {}

(* A fault the runs must notice: of the two loops only _run has the call   *)
(* of eve_handleEvents.                                                    *)
HandleEventsUnlessVerbose(t) ==
    /\ InBody(t) /\ Trace(t)
    /\ at[t] = "events" /\ cpc[t] = "loop"
    /\ IF pending /\ ~verbose[t]
       THEN Ring!HandleEvents(t) /\ UNCHANGED <<machine, locals>>
       ELSE Moves(t) /\ Loop(t)!NoEvent /\ UNCHANGED ring
    /\ UNCHANGED <<threadPc, verbose, stopSignal, console, last, alive, user, history>>

(* eve_handleEvents looks at _eventPending. *)
HandleEvents(t) ==
    /\ InBody(t) /\ Trace(t)
    /\ at[t] = "events" /\ cpc[t] = "loop"
    /\ IF pending
       THEN Ring!HandleEvents(t) /\ UNCHANGED <<machine, locals>>
       ELSE Moves(t) /\ Loop(t)!NoEvent /\ UNCHANGED ring
    /\ UNCHANGED <<threadPc, verbose, stopSignal, console, last, alive, user, history>>

(* _dequeueEvent, one access at a time. *)
Dequeue(t) ==
    /\ InBody(t)
    /\ cpc[t] # "call" /\ Ring!Dequeue(t)
    /\ UNCHANGED <<control, machine, locals, history>>

IntOf(e) == IF e.fun = "eve_writeToInt0Pin" THEN 0 ELSE 1
High(e)  == e.arg # 0

(* The event is handed to its handler; a null one ends the process. *)
CallHandler(t) ==
    /\ InBody(t)
    /\ Ring!CallHandler(t)
    /\ IF cev[t].fun = "NULL"
       THEN UNCHANGED <<machine, locals>>
       ELSE Moves(t) /\ Loop(t)!PinEvent(IntOf(cev[t]), High(cev[t]))
    /\ UNCHANGED <<control, history>>

Instruction(t) ==
    /\ Moves(t)
    /\ Loop(t)!Instruction
    /\ untouched' = (untouched /\ pins'["D"] = pins["D"] /\ portd' = {})
    /\ UNCHANGED <<cpuVars, ring, typed>>

(* A fault the runs must notice: the signal is tested between two          *)
(* instructions, too.                                                      *)
EndRoundEarly(t) ==
    threadPc' = IF at'[t] = "events" \/ stopSignal
                THEN [threadPc EXCEPT ![t] = "test"] ELSE threadPc

(* After the last instruction of the round the signal is tested. *)
EndRound(t) ==
    threadPc' = IF at'[t] = "events" THEN [threadPc EXCEPT ![t] = "test"] ELSE threadPc

HandleInterrupts(t) ==
    /\ Moves(t)
    /\ Loop(t)!NoInterrupt \/ Loop(t)!EnterRoutine
    /\ EndRound(t)
    /\ UNCHANGED <<verbose, stopSignal, console, last, screen, alive, user>>
    /\ UNCHANGED <<ring, history>>

Body(t) ==
    \/ HandleEvents(t) \/ Dequeue(t) \/ CallHandler(t)
    \/ Instruction(t) \/ HandleInterrupts(t)

-----------------------------------------------------------------------------
(* What starts and ends a body leaves the machine alone; the locals of a   *)
(* thread that ends are gone with it.                                      *)
NextThreadStep(t) ==
    /\ Reset(t) \/ Test(t) \/ Clear(t) \/ PrintStopped(t)
    /\ UNCHANGED <<ring, machine, locals, history>>

FaultOf(t) ==
    /\ at[t] = "execute" /\ Fault(t)
    /\ UNCHANGED <<ring, machine, locals, history>>

BootCpu == Boot /\ UNCHANGED <<ring, machine, locals, history>>

Command ==
    /\ mpc = "idle"
    /\ \/ CommandExit
       \/ MayStart /\ CommandStart
       \/ MayStop /\ CommandStop
    /\ UNCHANGED <<ring, machine, locals, history>>

EmuNext ==
    \/ BootCpu \/ Command \/ Enqueue
    \/ \E e \in Events : CommandPin(e)
    \/ \E t \in Threads : NextThreadStep(t) \/ FaultOf(t) \/ Body(t)

(* As in CpuControl and EventQueue: the threads go on, the user need not   *)
(* type anything.                                                          *)
EmuSpec ==
    /\ EmuInit /\ [][EmuNext]_emuVars
    /\ WF_emuVars(BootCpu) /\ WF_emuVars(Enqueue)
    /\ \A t \in Threads : WF_emuVars(NextThreadStep(t) \/ Body(t))

-----------------------------------------------------------------------------
EmuTypeOK ==
    /\ CpuTypeOK /\ Ring!TypeOK
    /\ at \in [Threads -> Places] /\ counter \in [Threads -> 0 .. InstructionsPerRound]
    /\ pins \in [{"B", "C", "D"} -> SUBSET (0 .. 7)] /\ portd \subseteq 0 .. 7
    /\ typed \in Events \cup {NullEvent} /\ untouched \in BOOLEAN

(* The place of the one loop in which the threads take turns. *)
InMidRound == {t \in Threads : at[t] # "events"}
Place   == IF InMidRound = {} THEN "events" ELSE at[CHOOSE t \in InMidRound : TRUE]
Counter == IF InMidRound = {} THEN 0 ELSE counter[CHOOSE t \in InMidRound : TRUE]

OneLoop == INSTANCE Interrupts WITH phase <- Place, left <- Counter

(* The CPU "will continue execution where it has been stopped last time"   *)
(* (cpu.h): the CPUs that a patient user starts and stops one after the    *)
(* other are to the program one CPU that is never stopped, so whatever is  *)
(* said of Interrupts holds of them.                                       *)
StopsAreInvisible ==
    OneLoop!Init /\ [][user = "patient" => OneLoop!Next]_(OneLoop!vars)

(* The pins of INT0 and INT1 follow the console, however the CPU is        *)
(* started and stopped meanwhile and whatever stale or repeated events     *)
(* come on the way: when nothing is on the way any more, the pin that was  *)
(* typed last has the level that was typed last, unless the flag of that   *)
(* event was raced against or the program touches port D.                  *)
LatestLevelArrives ==
    Ring!Quiet /\ ~raced /\ untouched /\ typed # NullEvent
        => (IntOf(typed) + 2 \in pins["D"] <=> High(typed))

(* While a patient user lets the CPU run and types no more, the CPU comes  *)
(* to the end of the events, in whichever of the two loops, unless the     *)
(* flag of the last one was raced against.                                 *)
EventsAreHandled ==
    <>[](user = "patient" /\ last = "start" /\ alive /\ mpc = "idle" /\ ~raced)
        => <>[]Ring!Quiet
=============================================================================
