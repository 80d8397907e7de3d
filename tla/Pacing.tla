------------------------------- MODULE Pacing -------------------------------
(***************************************************************************)
(* How the loop of cpu.h keeps the emulated clock to the wall clock: it    *)
(* executes some instructions, computes the time that their cycles take,   *)
(* measures the time that they took, sleeps for what is missing and        *)
(* carries over what the sleep did not get right.  All of this is done in  *)
(* unsigned 64 bit numbers that wrap, and by a clock that can be set.      *)
(*                                                                         *)
(* The code counts SEC \div clock nanoseconds for a cycle, which is SEC %  *)
(* clock parts of clock too few: 62 for 62.5 at 16 MHz.  Beside what the   *)
(* code carries in delta, lag is the true lag, the time that the rounds    *)
(* have taken less the time that their cycles take at the clock speed, in  *)
(* parts of a nanosecond of which there are clock, and dropped is what the *)
(* quotients have lost, in the same parts.  Where the quotient is not      *)
(* exact the two drift apart for ever and are watched up to a bound.       *)
(* What passes between the last measurement of a round and the first one   *)
(* of the next is not measured by the code and is left out.                *)
(***************************************************************************)
EXTENDS Integers, CycleCounter

CONSTANTS
    WORD,            \* the number of values of a uint64_t
    SEC,             \* NANOSEC_PER_SEC
    MEGA,            \* 1000000: the instructions per round are a millionth of the speed
    ClockSpeeds,     \* the values of cpu_clockSpeed
    EntryIncrement,  \* the increment of an interrupt entry, 4
    WorkTimes,       \* the time in which the host executes an instruction
    Overshoots,      \* by how much a sleep takes longer than requested
    Disturbances,    \* what preemption adds, and setting the clock adds or takes
    MaxDisturbances, \* bound: how often that happens
    MaxLag,          \* bound: delta and the times of a round, in both directions
    MaxDropped       \* bound: up to which loss the true lag is watched

ASSUME PacingAssumption ==
    /\ WORD \in Nat /\ SEC \in Nat \ {0} /\ MEGA \in Nat \ {0}
    /\ MaxLag \in Nat /\ MaxDisturbances \in Nat /\ MaxDropped \in Nat
    /\ 8 * MaxLag < WORD
    /\ ClockSpeeds \subseteq Nat
    /\ EntryIncrement \in 0 .. TIMER - 2
    /\ WorkTimes \subseteq Nat /\ Overshoots \subseteq Nat /\ Disturbances \subseteq Int

VARIABLES
    clock,        \* cpu_clockSpeed
    phase,        \* where _run is
    left,         \* the instructions of the round that are left
    spent,        \* the time by the clock since timeStamp, as it really is
    calc,         \* calcExecutionTime
    actual,       \* actualExecutionTime
    delta,        \* delta
    lag,          \* auxiliary: see above
    dropped,      \* auxiliary: see above
    watched,      \* auxiliary: FALSE when dropped has reached its bound
    disturbed,    \* how often something disturbed the clock
    setBack,      \* TRUE when the clock has been set back
    tooLong       \* TRUE when nanosleep has refused a second or more

loop == <<clock, phase, left, spent, calc, actual, delta>>
trueTime == <<lag, dropped, watched>>
faults == <<disturbed, setBack, tooLong>>
timer == <<cycles, tcnt0, tov0, elapsed>>
vars == <<loop, trueTime, faults, timer>>

Init ==
    /\ clock \in ClockSpeeds
    /\ phase = "start" /\ left = 0
    /\ spent = 0 /\ calc = 0 /\ actual = 0 /\ delta = 0
    /\ lag = 0 /\ dropped = 0 /\ watched = TRUE
    /\ disturbed = 0 /\ setBack = FALSE /\ tooLong = FALSE
    /\ cycles = 0 /\ tcnt0 = 0 /\ tov0 = FALSE /\ elapsed = 0

(* The value of an integer in a uint64_t, and back through long long. *)
Unsigned(x) == x % WORD
Signed(u) == IF u > WORD \div 2 THEN u - WORD ELSE u

InstructionsToExecute == clock \div MEGA + 1

-----------------------------------------------------------------------------
StartRound ==
    /\ phase = "start" /\ phase' = "execute"
    /\ left' = InstructionsToExecute
    /\ spent' = 0 /\ cycles' = 0
    /\ UNCHANGED <<clock, calc, actual, delta, trueTime, faults, tcnt0, tov0, elapsed>>

InstructionEnds ==
    /\ phase = "execute" /\ phase' = "interrupts"
    /\ left' = left - 1
    /\ \E w \in WorkTimes : spent' = spent + w
    /\ UNCHANGED <<clock, calc, actual, delta, trueTime, faults>>

Instruction(n) ==
    /\ InstructionEnds
    /\ \/ CountOnly(Cycles(n))
       \/ OutTcnt0(Cycles(n)) \/ OutTifr0(Cycles(n))
       \/ StsTcnt0(Cycles(n)) \/ StsTifr0(Cycles(n))
       \/ CbiTifr0(Cycles(n)) \/ SbiTifr0(Cycles(n))

(* int_handleInterrupts. *)
InterruptsHandled ==
    /\ phase = "interrupts"
    /\ phase' = IF left > 0 THEN "execute" ELSE "calculate"
    /\ UNCHANGED <<clock, left, spent, calc, actual, delta, trueTime, faults>>

NoInterrupt == InterruptsHandled /\ UNCHANGED timer
EnterRoutine == InterruptsHandled /\ CountOnly(Cycles(EntryIncrement))

Calculate ==
    /\ phase = "calculate" /\ clock # 0
    /\ phase' = "measure"
    /\ calc' = cycles * (SEC \div clock) /\ calc' <= MaxLag
    /\ UNCHANGED <<clock, left, spent, actual, delta, trueTime, faults, timer>>

(* The quotient ends the process. *)
DivideByZero ==
    /\ phase = "calculate" /\ clock = 0
    /\ phase' = "dead"
    /\ UNCHANGED <<clock, left, spent, calc, actual, delta, trueTime, faults, timer>>

Measure ==
    /\ phase = "measure" /\ phase' = "sleep"
    /\ spent \in -MaxLag .. MaxLag
    /\ actual' = Unsigned(spent)
    /\ UNCHANGED <<clock, left, spent, calc, delta, trueTime, faults, timer>>

(* A fault the runs must notice: what the last sleep got wrong is not made *)
(* up for.                                                                 *)
SleepTimeWithoutDelta == Signed(Unsigned(calc - actual))

(* The argument of tim_sleep. *)
SleepTime == Signed(Unsigned(calc - actual - delta))

(* nanosleep sleeps for the time requested or longer, and refuses a        *)
(* negative number of nanoseconds and one of a second or more.             *)
Sleep ==
    /\ phase = "sleep" /\ phase' = "account"
    /\ IF SleepTime \in 0 .. SEC - 1
       THEN /\ \E o \in Overshoots : spent' = spent + SleepTime + o
            /\ UNCHANGED tooLong
       ELSE /\ tooLong' = (tooLong \/ SleepTime >= SEC)
            /\ UNCHANGED spent
    /\ UNCHANGED <<clock, left, calc, actual, delta, trueTime, disturbed, setBack, timer>>

(* What delta stands for. *)
Owed == Signed(delta)

(* The clock tells the time spent, and the cycles the time to be emulated. *)
Watch ==
    LET loss == dropped + cycles * (SEC % clock)
    IN  /\ watched' = (watched /\ loss <= MaxDropped)
        /\ dropped' = IF watched' THEN loss ELSE 0
        /\ lag' = IF watched' THEN lag + clock * spent - SEC * cycles ELSE 0

Accounted ==
    /\ phase = "account" /\ phase' = "start"
    /\ Owed + spent - calc \in -MaxLag .. MaxLag
    /\ Watch
    /\ spent' = 0 /\ calc' = 0 /\ actual' = 0 /\ cycles' = 0
    /\ UNCHANGED <<clock, left, faults, tcnt0, tov0, elapsed>>

(* Faults the runs must notice: the time before the sleep is taken for the *)
(* whole, the emulated time is not taken off.                              *)
AccountBeforeSleep == Accounted /\ delta' = Unsigned(actual + delta - calc)
AccountWithoutCalc == Accounted /\ delta' = Unsigned(Unsigned(spent) + delta)

Account == Accounted /\ delta' = Unsigned(Unsigned(spent) + delta - calc)

(* The host does something else, or somebody sets CLOCK_REALTIME. *)
Disturb(d) ==
    /\ phase \notin {"start", "dead"}
    /\ disturbed < MaxDisturbances
    /\ spent + d \in -MaxLag .. MaxLag
    /\ spent' = spent + d
    /\ disturbed' = disturbed + 1
    /\ setBack' = (setBack \/ d < 0)
    /\ UNCHANGED <<clock, phase, left, calc, actual, delta, trueTime, tooLong, timer>>

Step ==
    \/ StartRound \/ NoInterrupt \/ EnterRoutine \/ Calculate \/ DivideByZero
    \/ Measure \/ Sleep \/ Account
    \/ \E n \in Increments : Instruction(n)

Next == Step \/ \E d \in Disturbances : Disturb(d)

(* The operating system runs the thread. *)
Spec == Init /\ [][Next]_vars /\ WF_vars(Step)

-----------------------------------------------------------------------------
TypeOK ==
    /\ clock \in ClockSpeeds
    /\ phase \in {"start", "execute", "interrupts", "calculate", "measure", "sleep",
                  "account", "dead"}
    /\ left \in Nat /\ cycles \in Nat /\ calc \in Nat
    /\ spent \in Int /\ lag \in Int /\ dropped \in 0 .. MaxDropped /\ watched \in BOOLEAN
    /\ actual \in 0 .. WORD - 1 /\ delta \in 0 .. WORD - 1
    /\ disturbed \in 0 .. MaxDisturbances
    /\ setBack \in BOOLEAN /\ tooLong \in BOOLEAN
    /\ tcnt0 \in 0 .. TIMER - 1 /\ tov0 \in BOOLEAN /\ elapsed \in 0 .. Lost

(* The unsigned difference that is carried from round to round is the true *)
(* lag and what the quotients have lost, however often its parts have      *)
(* wrapped and wherever the clock was set.                                 *)
DeltaIsLag == watched => clock * Owed = lag + dropped

(* The emulated clock runs ahead of the wall clock by what the quotients   *)
(* have lost and no more, which is nothing at a speed that divides SEC and *)
(* grows with every cycle at 16 MHz; unless the wall clock was set back or *)
(* a sleep was refused because it was too long.                            *)
AheadByTheLossOnly == watched /\ ~setBack /\ ~tooLong => lag >= -dropped

(* A clock speed at which every round takes less than a second.            *)
Fits ==
    /\ clock # 0 /\ clock <= SEC
    /\ \A n \in Increments :
          InstructionsToExecute * (Cycles(n) + Cycles(EntryIncrement)) * (SEC \div clock) < SEC

(* At such a speed no sleep is refused as too long, unless the clock was   *)
(* set back: the sleep never has to make up for more than its round.       *)
SleepsFit == tooLong => setBack \/ ~Fits

(* Once nothing disturbs the clock any more, the loop comes back, from     *)
(* either side, to the time that it counts for its cycles and stays within *)
(* one overshoot of it: at a speed that divides SEC to the wall clock, at  *)
(* others to what drifts away from it by the loss.  (Were a sleep refused  *)
(* as too long, it would not.)                                             *)
CatchesUp ==
    <>tooLong \/ <>[](Fits => Owed >= 0 /\ \E o \in Overshoots : Owed <= o)

(* A program that takes TOV0 down by out before the timer goes round again *)
(* misses no round of timer 0: the cycles since the start, less the rounds *)
(* that it has taken down, are what TCNT0 and TOV0 show.  (Of sts, cbi and *)
(* sbi to TIFR0 the code does not say it: they overwrite an overflow of    *)
(* their own cycles.)                                                      *)
NoRoundIsMissed ==
    elapsed # Lost => elapsed = tcnt0 + (IF tov0 THEN TIMER ELSE 0)
=============================================================================
