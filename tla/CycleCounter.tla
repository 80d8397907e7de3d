---------------------------- MODULE CycleCounter ----------------------------
(***************************************************************************)
(* The cycle counter of cpu.h and timer 0, which counts the same cycles:   *)
(* TCNT0 and its overflow flag in TIFR0.  An instruction counts its cycles *)
(* before or after it stores its result, which matters when the result is  *)
(* one of these two registers.  No interrupt comes from the overflow.      *)
(*                                                                         *)
(* elapsed is a history variable: the cycles counted, less those of the    *)
(* rounds of the timer that the program has taken down with TOV0 by out.   *)
(* It is Lost when a second round begins with the first not taken down,    *)
(* and when another instruction stores into TIFR0.                         *)
(***************************************************************************)
EXTENDS Naturals

CONSTANTS
    TIMER,        \* the number of values of TCNT0, 256
    Increments,   \* the arguments of cpu_incrementCycleCounter, 1 to 4
    TimerValues   \* the values that a program stores into TCNT0

ASSUME TimerAssumption ==
    /\ TIMER \in Nat \ {0}
    /\ Increments \subseteq 0 .. TIMER - 2    \* a loop up to 255 would not end
    /\ TimerValues \subseteq 0 .. TIMER - 1

VARIABLES
    cycles,       \* cpu_cycleCounter - cycleCountStart
    tcnt0,        \* TCNT0
    tov0,         \* the bit TOV0 of TIFR0
    elapsed       \* auxiliary: see above

(* for (i = 0; i <= increments; i++) *)
Cycles(increments) == increments + 1

Overflows(timer, count) == timer + count >= TIMER

(* cpu_incrementCycleCounter, TCNT0 and TOV0 being timer and flag before. *)
Count(count, timer, flag) ==
    /\ cycles' = cycles + count
    /\ tcnt0' = (timer + count) % TIMER
    /\ tov0' = (flag \/ Overflows(timer, count))

Lost == 2 * TIMER

Elapses(n) == elapsed' = IF elapsed = Lost \/ n >= Lost THEN Lost ELSE n

-----------------------------------------------------------------------------
(* in, sts to another register, and all that do not touch the timer. *)
CountOnly(count) == Count(count, tcnt0, tov0) /\ Elapses(elapsed + count)

(* out stores first and counts then. *)
OutTcnt0(count) ==
    \E v \in TimerValues :
        Count(count, v, tov0) /\ Elapses((elapsed \div TIMER) * TIMER + v + count)

(* What the program leaves of TOV0 it has not taken down. *)
Collects(flag, count) ==
    Elapses((elapsed % TIMER) + (IF flag THEN TIMER ELSE 0) + count)

(* A fault the runs must notice: out counts first, as the others do. *)
OutTifr0CountsFirst(count) ==
    /\ cycles' = cycles + count
    /\ tcnt0' = (tcnt0 + count) % TIMER
    /\ tov0' \in BOOLEAN /\ Collects(tov0', count)

OutTifr0(count) == \E f \in BOOLEAN : Count(count, tcnt0, f) /\ Collects(f, count)

(* sts, cbi and sbi count first; cbi and sbi of another bit of TIFR0 store *)
(* the TOV0 that they read before, of TOV0 itself what they are told.      *)
StsTcnt0(count) ==
    /\ cycles' = cycles + count
    /\ tov0' = (tov0 \/ Overflows(tcnt0, count))
    /\ \E v \in TimerValues :
          tcnt0' = v /\ Elapses(((elapsed + count) \div TIMER) * TIMER + v)

StsTifr0(count) ==
    /\ cycles' = cycles + count
    /\ tcnt0' = (tcnt0 + count) % TIMER
    /\ tov0' \in BOOLEAN /\ elapsed' = Lost

CbiTifr0(count) ==
    /\ cycles' = cycles + count
    /\ tcnt0' = (tcnt0 + count) % TIMER
    /\ tov0' \in {tov0, FALSE} /\ elapsed' = Lost

SbiTifr0(count) ==
    /\ cycles' = cycles + count
    /\ tcnt0' = (tcnt0 + count) % TIMER
    /\ tov0' \in {tov0, TRUE} /\ elapsed' = Lost
=============================================================================
