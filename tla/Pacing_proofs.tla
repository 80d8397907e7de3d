---------------------------- MODULE Pacing_proofs ----------------------------
(***************************************************************************)
(* For every size of the words, clock speed, program and host: what the    *)
(* loop carries over is the true lag and the loss of the quotients, so the *)
(* emulated clock runs ahead of the wall clock by that loss and no more    *)
(* unless that was set back or a sleep was refused, no sleep is too long   *)
(* at a speed that fits, and no round of timer 0 is missed.                *)
(***************************************************************************)
EXTENDS Pacing, TLAPS

(* Remainders of numbers that are a few words below zero or above it.      *)
LEMMA Remainders ==
    ASSUME NEW m \in Nat \ {0}, NEW x \in Int
    PROVE  /\ 0 <= x /\ x < m => x % m = x
           /\ m <= x /\ x < 2 * m => x % m = x - m
           /\ 2 * m <= x /\ x < 3 * m => x % m = x - 2 * m
           /\ 0 - m <= x /\ x < 0 => x % m = x + m
           /\ 0 - 2 * m <= x /\ x < 0 - m => x % m = x + 2 * m
           /\ 0 - 3 * m <= x /\ x < 0 - 2 * m => x % m = x + 3 * m
  <1>1. 0 <= x /\ x < m => x % m = x BY SMT
  <1>2. m <= x /\ x < 2 * m => x % m = x - m BY SMT
  <1>3. 2 * m <= x /\ x < 3 * m => x % m = x - 2 * m BY SMT
  <1>4. 0 - m <= x /\ x < 0 => x % m = x + m BY SMT
  <1>5. 0 - 2 * m <= x /\ x < 0 - m => x % m = x + 2 * m BY SMT
  <1>6. 0 - 3 * m <= x /\ x < 0 - 2 * m => x % m = x + 3 * m BY SMT
  <1>7. QED BY <1>1, <1>2, <1>3, <1>4, <1>5, <1>6

Near(k) == 0 - k * MaxLag .. k * MaxLag

LEMMA Sizes == WORD \in Nat \ {0} /\ MaxLag \in Nat /\ 8 * MaxLag < WORD
  BY PacingAssumption, SMT

(* A small number, its unsigned form, and back.                            *)
LEMMA UnsignedOfSmall ==
    ASSUME NEW v \in Near(4)
    PROVE  /\ Unsigned(v) = IF v < 0 THEN v + WORD ELSE v
           /\ Unsigned(v) \in 0 .. WORD - 1
           /\ Signed(Unsigned(v)) = v
  <1>1. v \in Int /\ 0 - 4 * MaxLag <= v /\ v <= 4 * MaxLag
    BY Sizes, SMT DEF Near
  <1>2. Unsigned(v) = IF v < 0 THEN v + WORD ELSE v
    <2>1. CASE v < 0
      <3>1. 0 - WORD <= v BY <1>1, Sizes, SMT
      <3>2. QED BY <1>1, <2>1, <3>1, Sizes, Remainders DEF Unsigned
    <2>2. CASE ~(v < 0)
      <3>1. 0 <= v /\ v < WORD BY <1>1, <2>2, Sizes, SMT
      <3>2. QED BY <1>1, <2>2, <3>1, Sizes, Remainders DEF Unsigned
    <2>3. QED BY <2>1, <2>2
  <1>3. Unsigned(v) \in 0 .. WORD - 1 BY <1>1, <1>2, Sizes, SMT
  <1>4. Signed(Unsigned(v)) = v
    <2>1. CASE v < 0 BY <1>1, <1>2, <2>1, Sizes, SMT DEF Signed
    <2>2. CASE ~(v < 0) BY <1>1, <1>2, <2>2, Sizes, SMT DEF Signed
    <2>3. QED BY <2>1, <2>2
  <1>5. QED BY <1>2, <1>3, <1>4

(* Words may be added to a small number.                                   *)
LEMMA WordsVanish ==
    ASSUME NEW z \in Near(4)
    PROVE  /\ Unsigned(z + WORD) = Unsigned(z)
           /\ Unsigned(z + 2 * WORD) = Unsigned(z)
           /\ Unsigned(z - WORD) = Unsigned(z)
           /\ Unsigned(z - 2 * WORD) = Unsigned(z)
  <1>1. z \in Int /\ 0 - 4 * MaxLag <= z /\ z <= 4 * MaxLag BY Sizes, SMT DEF Near
  <1>2. Unsigned(z) = IF z < 0 THEN z + WORD ELSE z BY UnsignedOfSmall
  <1>3. Unsigned(z + WORD) = IF z < 0 THEN z + WORD ELSE z
    <2>0. z + WORD \in Int BY <1>1, Sizes, SMT
    <2>1. CASE z < 0
      <3>1. 0 <= z + WORD /\ z + WORD < WORD BY <1>1, <2>1, Sizes, SMT
      <3>2. QED BY <2>0, <2>1, <3>1, Sizes, Remainders DEF Unsigned
    <2>2. CASE ~(z < 0)
      <3>1. WORD <= z + WORD /\ z + WORD < 2 * WORD /\ (z + WORD) - WORD = z
        BY <1>1, <2>2, Sizes, SMT
      <3>2. QED BY <2>0, <2>2, <3>1, Sizes, Remainders DEF Unsigned
    <2>3. QED BY <2>1, <2>2
  <1>4. Unsigned(z + 2 * WORD) = IF z < 0 THEN z + WORD ELSE z
    <2>0. z + 2 * WORD \in Int BY <1>1, Sizes, SMT
    <2>1. CASE z < 0
      <3>1. /\ WORD <= z + 2 * WORD /\ z + 2 * WORD < 2 * WORD
            /\ (z + 2 * WORD) - WORD = z + WORD
        BY <1>1, <2>1, Sizes, SMT
      <3>2. QED BY <2>0, <2>1, <3>1, Sizes, Remainders DEF Unsigned
    <2>2. CASE ~(z < 0)
      <3>1. /\ 2 * WORD <= z + 2 * WORD /\ z + 2 * WORD < 3 * WORD
            /\ (z + 2 * WORD) - 2 * WORD = z
        BY <1>1, <2>2, Sizes, SMT
      <3>2. QED BY <2>0, <2>2, <3>1, Sizes, Remainders DEF Unsigned
    <2>3. QED BY <2>1, <2>2
  <1>5. Unsigned(z - WORD) = IF z < 0 THEN z + WORD ELSE z
    <2>0. z - WORD \in Int BY <1>1, Sizes, SMT
    <2>1. CASE z < 0
      <3>1. /\ 0 - 2 * WORD <= z - WORD /\ z - WORD < 0 - WORD
            /\ (z - WORD) + 2 * WORD = z + WORD
        BY <1>1, <2>1, Sizes, SMT
      <3>2. QED BY <2>0, <2>1, <3>1, Sizes, Remainders DEF Unsigned
    <2>2. CASE ~(z < 0)
      <3>1. 0 - WORD <= z - WORD /\ z - WORD < 0 /\ (z - WORD) + WORD = z
        BY <1>1, <2>2, Sizes, SMT
      <3>2. QED BY <2>0, <2>2, <3>1, Sizes, Remainders DEF Unsigned
    <2>3. QED BY <2>1, <2>2
  <1>6. Unsigned(z - 2 * WORD) = IF z < 0 THEN z + WORD ELSE z
    <2>0. z - 2 * WORD \in Int BY <1>1, Sizes, SMT
    <2>1. CASE z < 0
      <3>1. /\ 0 - 3 * WORD <= z - 2 * WORD /\ z - 2 * WORD < 0 - 2 * WORD
            /\ (z - 2 * WORD) + 3 * WORD = z + WORD
        BY <1>1, <2>1, Sizes, SMT
      <3>2. QED BY <2>0, <2>1, <3>1, Sizes, Remainders DEF Unsigned
    <2>2. CASE ~(z < 0)
      <3>1. /\ 0 - 2 * WORD <= z - 2 * WORD /\ z - 2 * WORD < 0 - WORD
            /\ (z - 2 * WORD) + 2 * WORD = z
        BY <1>1, <2>2, Sizes, SMT
      <3>2. QED BY <2>0, <2>2, <3>1, Sizes, Remainders DEF Unsigned
    <2>3. QED BY <2>1, <2>2
  <1>7. QED BY <1>2, <1>3, <1>4, <1>5, <1>6

-----------------------------------------------------------------------------
(* The two differences of the loop.                                        *)

LEMMA SleepTimeIs ==
    ASSUME NEW c \in Near(1), NEW a \in Near(1), NEW d \in Near(1),
           calc = c, actual = Unsigned(a), delta = Unsigned(d)
    PROVE  SleepTime = c - a - d
  <1> DEFINE z == c - a - d
  <1>1. z \in Near(4) /\ a \in Near(4) /\ d \in Near(4) BY Sizes, SMT DEF Near
  <1>2. /\ actual = IF a < 0 THEN a + WORD ELSE a
        /\ delta = IF d < 0 THEN d + WORD ELSE d
    BY <1>1, UnsignedOfSmall
  <1>3. c \in Int /\ a \in Int /\ d \in Int BY Sizes, SMT DEF Near
  <1>4. \/ calc - actual - delta = z
        \/ calc - actual - delta = z - WORD
        \/ calc - actual - delta = z - 2 * WORD
    BY <1>2, <1>3, Sizes, SMT
  <1>5. Unsigned(calc - actual - delta) = Unsigned(z) BY <1>1, <1>4, WordsVanish
  <1>6. QED BY <1>1, <1>5, UnsignedOfSmall DEF SleepTime

LEMMA DeltaIs ==
    ASSUME NEW s \in Near(4), NEW d \in Near(1), NEW c \in Near(1),
           s + d - c \in Near(1), delta = Unsigned(d)
    PROVE  Unsigned(Unsigned(s) + delta - c) = Unsigned(d + s - c)
  <1> DEFINE z == d + s - c
  <1>1. s \in Int /\ d \in Int /\ c \in Int BY Sizes, SMT DEF Near
  <1>2. s + d - c = z BY <1>1, SMT
  <1>3. z \in Near(4) /\ d \in Near(4) BY <1>1, <1>2, Sizes, SMT DEF Near
  <1>4. /\ Unsigned(s) = IF s < 0 THEN s + WORD ELSE s
        /\ delta = IF d < 0 THEN d + WORD ELSE d
    BY <1>3, UnsignedOfSmall
  <1>5. \/ Unsigned(s) + delta - c = z
        \/ Unsigned(s) + delta - c = z + WORD
        \/ Unsigned(s) + delta - c = z + 2 * WORD
    BY <1>1, <1>4, Sizes, SMT
  <1>6. QED BY <1>3, <1>5, WordsVanish

-----------------------------------------------------------------------------
(* The inductive invariant: what is measured is at most what is spent,     *)
(* unless the clock was set back.                                          *)
Carried == delta = Unsigned(Owed) /\ Owed \in -MaxLag .. MaxLag

NotAhead == ~setBack /\ ~tooLong => Owed >= 0

Calculated ==
    phase \in {"measure", "sleep", "account"} => clock # 0 /\ calc = cycles * (SEC \div clock)

Measured ==
    phase = "sleep" =>
        \E a \in Near(1) : actual = Unsigned(a) /\ (~setBack => a <= spent)

RoundCovered == phase = "account" /\ ~setBack /\ ~tooLong => Owed + spent - calc >= 0

InstructionsLeft == phase = "execute" => left > 0

PacingInv ==
    /\ TypeOK /\ calc <= MaxLag
    /\ Carried /\ Measured /\ RoundCovered /\ InstructionsLeft /\ NotAhead
    /\ Calculated

LEMMA LagIsSmall ==
    ASSUME PacingInv
    PROVE  /\ Owed \in Near(1) /\ Owed \in Near(4) /\ Owed \in Int
           /\ calc \in Near(1) /\ calc \in Int /\ spent \in Int
  BY Sizes, SMT DEF PacingInv, TypeOK, Carried, Near

(* Unless the clock is set back, time does not run backwards.              *)
LEMMA TimePasses ==
    ASSUME PacingInv, NEW d \in Int, d >= 0 \/ setBack', setBack => setBack',
           spent' = spent + d,
           UNCHANGED <<phase, calc, actual, delta, tooLong>>, UNCHANGED trueTime
    PROVE  Measured' /\ RoundCovered' /\ NotAhead' /\ Carried'
  <1>1. spent \in Int /\ Owed \in Int /\ calc \in Int BY LagIsSmall
  <1>2. Carried' /\ NotAhead' BY DEF PacingInv, Carried, NotAhead, Unsigned, Owed, Signed
  <1>3. RoundCovered'
    <2> SUFFICES ASSUME phase' = "account", ~setBack', ~tooLong'
                 PROVE  Owed' + spent' - calc' >= 0
      BY DEF RoundCovered
    <2>1. Owed + spent - calc >= 0 BY DEF PacingInv, RoundCovered
    <2>2. d >= 0 OBVIOUS
    <2>3. Owed + (spent + d) - calc >= 0 BY <1>1, <2>1, <2>2, SMT
    <2>4. Owed' = Owed BY DEF Owed, Signed
    <2>5. QED BY <2>3, <2>4
  <1>4. Measured'
    <2> SUFFICES ASSUME phase' = "sleep"
                 PROVE  \E a \in Near(1)' : actual' = Unsigned(a)' /\ (~setBack' => a <= spent')
      BY DEF Measured
    <2>1. PICK a \in Near(1) : actual = Unsigned(a) /\ (~setBack => a <= spent)
      BY DEF PacingInv, Measured
    <2>2. a \in Int BY Sizes, SMT DEF Near
    <2>3. ~setBack' => a <= spent + d BY <1>1, <2>1, <2>2, SMT
    <2>4. QED BY <2>1, <2>3 DEF Near, Unsigned
  <1>5. QED BY <1>2, <1>3, <1>4

-----------------------------------------------------------------------------
TimerTyped ==
    /\ cycles \in Nat /\ tcnt0 \in 0 .. TIMER - 1 /\ tov0 \in BOOLEAN
    /\ elapsed \in 0 .. Lost

LEMMA CountTyped ==
    ASSUME NEW n \in Nat, NEW t \in 0 .. TIMER - 1, NEW f \in BOOLEAN, cycles \in Nat,
           Count(n, t, f)
    PROVE  cycles' \in Nat /\ tcnt0' \in 0 .. TIMER - 1 /\ tov0' \in BOOLEAN
  <1>1. cycles' \in Nat BY SMT DEF Count
  <1>2. TIMER \in Nat \ {0} /\ t + n \in Int BY TimerAssumption, SMT
  <1>3. (t + n) % TIMER \in 0 .. TIMER - 1 BY <1>2, SMT
  <1>4. tov0' = (f \/ Overflows(t, n)) BY DEF Count
  <1>5. tov0' \in BOOLEAN BY <1>4, Zenon
  <1>6. QED BY <1>1, <1>3, <1>5 DEF Count

LEMMA ElapsedTyped ==
    /\ \A n \in Nat : Elapses(n) => elapsed' \in 0 .. Lost
    /\ Lost \in 0 .. Lost /\ Lost' = Lost
  <1>1. Lost \in Nat BY TimerAssumption, SMT DEF Lost
  <1>2. QED BY <1>1, SMT DEF Elapses, Lost

LEMMA CountOnlyTyped ==
    ASSUME NEW n \in Nat, TimerTyped, CountOnly(n)
    PROVE  TimerTyped'
  <1>1. Lost \in Nat BY TimerAssumption, SMT DEF Lost
  <1>2. elapsed + n \in Nat BY <1>1, SMT DEF TimerTyped
  <1>3. elapsed' \in 0 .. Lost BY <1>2, ElapsedTyped DEF CountOnly
  <1>4. QED BY <1>3, CountTyped, ElapsedTyped DEF CountOnly, TimerTyped

LEMMA InstructionTyped ==
    ASSUME PacingInv, NEW n \in Increments, Instruction(n)
    PROVE  TimerTyped'
  <1> DEFINE c == Cycles(n)
  <1>1. /\ c \in Nat /\ TIMER \in Nat \ {0} /\ TimerValues \subseteq 0 .. TIMER - 1
    BY TimerAssumption, SMT DEF Cycles
  <1> HIDE DEF c
  <1>2. TimerTyped BY DEF PacingInv, TypeOK, TimerTyped
  <1>3. /\ cycles \in Nat /\ tcnt0 \in 0 .. TIMER - 1 /\ tov0 \in BOOLEAN /\ elapsed \in Nat
    BY <1>1, <1>2, SMT DEF TimerTyped, Lost
  <1>4. CASE CountOnly(c)
    BY <1>1, <1>2, <1>4, CountOnlyTyped
  <1>5. CASE OutTcnt0(c)
    <2>1. PICK v \in TimerValues :
             Count(c, v, tov0) /\ Elapses((elapsed \div TIMER) * TIMER + v + c)
      BY <1>5 DEF OutTcnt0
    <2>2. v \in 0 .. TIMER - 1 BY <1>1
    <2>3. (elapsed \div TIMER) * TIMER + v + c \in Nat
      <3>1. elapsed \div TIMER \in Nat BY <1>1, <1>3, SMT
      <3>2. (elapsed \div TIMER) * TIMER \in Nat BY <1>1, <3>1, SMT
      <3>3. QED BY <1>1, <2>2, <3>2, SMT
    <2>4. QED BY <1>1, <1>3, <2>1, <2>2, <2>3, CountTyped, ElapsedTyped DEF TimerTyped
  <1>6. CASE OutTifr0(c)
    <2>1. PICK f \in BOOLEAN : Count(c, tcnt0, f) /\ Collects(f, c)
      BY <1>6 DEF OutTifr0
    <2>2. (elapsed % TIMER) + (IF f THEN TIMER ELSE 0) + c \in Nat BY <1>1, <1>3, SMT
    <2>3. QED BY <1>1, <1>3, <2>1, <2>2, CountTyped, ElapsedTyped DEF TimerTyped, Collects
  <1>7. cycles + c \in Nat /\ (tcnt0 + c) % TIMER \in 0 .. TIMER - 1
    BY <1>1, <1>3, SMT
  <1>8. CASE StsTcnt0(c)
    <2>1. tov0' = (tov0 \/ Overflows(tcnt0, c)) BY <1>8 DEF StsTcnt0
    <2>2. tov0' \in BOOLEAN BY <2>1, Zenon
    <2>3. PICK v \in TimerValues :
             tcnt0' = v /\ Elapses(((elapsed + c) \div TIMER) * TIMER + v)
      BY <1>8 DEF StsTcnt0
    <2>4. v \in 0 .. TIMER - 1 BY <1>1
    <2>5. ((elapsed + c) \div TIMER) * TIMER + v \in Nat
      <3>1. (elapsed + c) \div TIMER \in Nat BY <1>1, <1>3, SMT
      <3>2. ((elapsed + c) \div TIMER) * TIMER \in Nat BY <1>1, <3>1, SMT
      <3>3. QED BY <1>1, <2>4, <3>2, SMT
    <2>6. QED
      BY <1>7, <1>8, <2>2, <2>3, <2>4, <2>5, ElapsedTyped DEF StsTcnt0, TimerTyped
  <1>9. CASE StsTifr0(c) BY <1>7, <1>9, ElapsedTyped DEF StsTifr0, TimerTyped
  <1>10. CASE CbiTifr0(c) BY <1>3, <1>7, <1>10, ElapsedTyped DEF CbiTifr0, TimerTyped
  <1>11. CASE SbiTifr0(c) BY <1>3, <1>7, <1>11, ElapsedTyped DEF SbiTifr0, TimerTyped
  <1>12. QED
    BY <1>4, <1>5, <1>6, <1>8, <1>9, <1>10, <1>11 DEF Instruction, c

(* What is lost and what is true stay numbers.                             *)
LEMMA WatchTyped ==
    ASSUME PacingInv, phase = "account", Watch
    PROVE  lag' \in Int /\ dropped' \in 0 .. MaxDropped /\ watched' \in BOOLEAN
  <1>1. /\ clock \in Nat \ {0} /\ SEC \in Nat /\ MaxDropped \in Nat
        /\ cycles \in Nat /\ dropped \in Nat /\ spent \in Int /\ lag \in Int
    BY PacingAssumption DEF PacingInv, TypeOK, Calculated
  <1>2. SEC % clock \in Nat BY <1>1, SMT
  <1> DEFINE loss == dropped + cycles * (SEC % clock)
  <1>3. loss \in Nat
    <2>1. cycles * (SEC % clock) \in Nat BY <1>1, <1>2, SMT
    <2>2. QED BY <1>1, <2>1, SMT
  <1>4. lag + clock * spent - SEC * cycles \in Int
    <2>1. clock * spent \in Int /\ SEC * cycles \in Int BY <1>1, SMT
    <2>2. QED BY <1>1, <2>1, SMT
  <1> HIDE DEF loss
  <1>5. /\ watched' = (watched /\ loss <= MaxDropped)
        /\ dropped' = IF watched' THEN loss ELSE 0
        /\ lag' = IF watched' THEN lag + clock * spent - SEC * cycles ELSE 0
    BY DEF Watch, loss
  <1>6. watched' \in BOOLEAN BY <1>5, Zenon
  <1>7. watched' => loss <= MaxDropped BY <1>5, Zenon
  <1>8. dropped' \in 0 .. MaxDropped BY <1>1, <1>3, <1>5, <1>7, SMT
  <1>9. lag' \in Int BY <1>4, <1>5, <1>6
  <1>10. QED BY <1>6, <1>8, <1>9

(* What is owed after a round, though it is computed in words.             *)
LEMMA AccountOwes ==
    ASSUME PacingInv, Account
    PROVE  /\ delta' = Unsigned(Owed + spent - calc) /\ delta' \in 0 .. WORD - 1
           /\ Owed' = Owed + spent - calc
  <1> DEFINE z == Owed + spent - calc
  <1>1. z \in -MaxLag .. MaxLag /\ delta' = Unsigned(Unsigned(spent) + delta - calc)
    BY DEF Account, Accounted
  <1>2. Owed \in Int /\ calc \in Int /\ spent \in Int BY LagIsSmall
  <1>3. z \in Near(1) /\ z \in Near(4) BY <1>1, Sizes, SMT DEF Near
  <1>4. spent \in Near(4)
    <2>1. Owed \in Near(1) /\ calc \in Near(1) BY LagIsSmall
    <2>2. spent = z - Owed + calc BY <1>2, SMT
    <2>3. \A x, y, w \in Near(1) : x - y + w \in Near(4) BY Sizes, SMT DEF Near
    <2>4. QED BY <1>3, <2>1, <2>2, <2>3
  <1>5. spent + Owed - calc \in Near(1)
    <2>1. spent + Owed - calc = z BY <1>2, SMT
    <2>2. QED BY <1>3, <2>1
  <1>6. delta' = Unsigned(z)
    BY <1>1, <1>4, <1>5, LagIsSmall, DeltaIs DEF PacingInv, Carried
  <1>7. delta' \in 0 .. WORD - 1 BY <1>3, <1>6, UnsignedOfSmall
  <1>8. Owed' = z
    <2>1. Owed' = Signed(delta') BY DEF Owed, Signed
    <2>2. QED BY <1>3, <1>6, <2>1, UnsignedOfSmall
  <1>9. QED BY <1>6, <1>7, <1>8

LEMMA PacingStep ==
    ASSUME PacingInv, [Next]_vars
    PROVE  PacingInv'
  <1> USE DEF PacingInv
  <1>0. TypeOK /\ clock \in Nat /\ MEGA \in Nat \ {0} /\ SEC \in Nat \ {0}
    BY PacingAssumption DEF TypeOK
  <1>1. CASE StartRound
    <2>1. InstructionsToExecute \in Nat /\ InstructionsToExecute > 0
      BY <1>0, SMT DEF InstructionsToExecute
    <2>2. QED
      BY <1>1, <2>1 DEF StartRound, TypeOK, trueTime, faults, Carried, Measured, RoundCovered,
         InstructionsLeft, NotAhead, Unsigned, Owed, Signed, Calculated
  <1>2. ASSUME NEW n \in Increments, Instruction(n) PROVE PacingInv'
    <2>1. InstructionEnds BY <1>2 DEF Instruction
    <2>2. PICK w \in WorkTimes : spent' = spent + w BY <2>1 DEF InstructionEnds
    <2>3. w \in Nat /\ spent' \in Int /\ left' \in Nat
      BY <2>1, <2>2, PacingAssumption, SMT DEF InstructionEnds, InstructionsLeft, TypeOK
    <2>4. TypeOK'
      BY <1>2, <2>1, <2>3, InstructionTyped DEF TimerTyped, TypeOK, InstructionEnds, trueTime,
         faults
    <2>5. QED
      BY <2>1, <2>4 DEF InstructionEnds, faults, Carried, Measured, RoundCovered,
         InstructionsLeft, NotAhead, Unsigned, Owed, Signed, Calculated
  <1>3. CASE InterruptsHandled /\ (UNCHANGED timer \/ CountOnly(Cycles(EntryIncrement)))
    <2>1. TimerTyped'
      <3>1. CASE UNCHANGED timer BY <3>1 DEF timer, TypeOK, TimerTyped, Lost
      <3>2. CASE CountOnly(Cycles(EntryIncrement))
        <4>1. Cycles(EntryIncrement) \in Nat BY PacingAssumption, TimerAssumption, SMT DEF Cycles
        <4>2. QED BY <3>2, <4>1, CountOnlyTyped DEF TypeOK, TimerTyped
      <3>3. QED BY <1>3, <3>1, <3>2
    <2>2. QED
      BY <1>3, <2>1 DEF TimerTyped, InterruptsHandled, TypeOK, trueTime, faults, Carried,
         Measured, RoundCovered,
         InstructionsLeft, NotAhead, Unsigned, Owed, Signed, Calculated
  <1>4. CASE Calculate
    <2>1. SEC \div clock \in Nat
      <3>1. clock \in Nat \ {0} BY <1>0, <1>4 DEF Calculate
      <3>2. QED BY <1>0, <3>1, SMT
    <2>2. cycles * (SEC \div clock) \in Nat BY <2>1, SMT DEF TypeOK
    <2>3. QED
      BY <1>4, <2>2 DEF Calculate, TypeOK, trueTime, faults, timer, Carried, Measured,
         RoundCovered,
         InstructionsLeft, NotAhead, Unsigned, Owed, Signed, Calculated
  <1>5. CASE DivideByZero
    BY <1>5 DEF DivideByZero, TypeOK, trueTime, faults, timer, Carried, Measured, RoundCovered,
       InstructionsLeft, NotAhead, Unsigned, Owed, Signed, Calculated
  <1>6. CASE Measure
    <2>1. spent \in Near(1) /\ spent \in Near(4)
      BY <1>6, Sizes, SMT DEF Measure, Near
    <2>2. Unsigned(spent) \in 0 .. WORD - 1 BY <2>1, UnsignedOfSmall
    <2>3. TypeOK' BY <1>6, <2>2 DEF Measure, TypeOK, trueTime, faults, timer
    <2>4. Measured'
      <3>1. spent \in Int BY <2>1, Sizes, SMT DEF Near
      <3>2. actual' = Unsigned(spent) /\ spent' = spent /\ spent <= spent
        BY <1>6, <3>1, SMT DEF Measure, timer
      <3>3. QED BY <2>1, <3>2 DEF Measured, Near, Unsigned
    <2>5. QED
      BY <1>6, <2>3, <2>4 DEF Measure, faults, timer, Carried, RoundCovered,
         InstructionsLeft, NotAhead, Unsigned, Owed, Signed, Calculated
  <1>7. CASE Sleep
    <2>1. PICK a \in Near(1) : actual = Unsigned(a) /\ (~setBack => a <= spent)
      BY <1>7 DEF Sleep, Measured
    <2>2. SleepTime = calc - a - Owed
      BY <2>1, LagIsSmall, SleepTimeIs DEF Carried
    <2>3. a \in Int /\ Owed \in Int /\ calc \in Int /\ spent \in Int
      BY LagIsSmall, Sizes, SMT DEF Near
    <2>4. /\ UNCHANGED <<clock, left, calc, actual, delta, disturbed, trueTime, setBack, timer>>
          /\ phase = "sleep" /\ phase' = "account"
      BY <1>7 DEF Sleep
    <2>5. /\ spent' \in Int /\ tooLong' \in BOOLEAN /\ (tooLong => tooLong')
          /\ ~setBack /\ ~tooLong' => Owed + spent' - calc >= 0
      <3>1. CASE SleepTime \in 0 .. SEC - 1
        <4>1. PICK o \in Overshoots : spent' = spent + SleepTime + o
          BY <1>7, <3>1 DEF Sleep
        <4>2. o \in Nat BY PacingAssumption
        <4>3. tooLong' = tooLong BY <1>7, <3>1 DEF Sleep
        <4>4. spent' = spent + (calc - a - Owed) + o BY <2>2, <4>1
        <4>5. spent' \in Int BY <2>3, <4>2, <4>4, SMT
        <4>6. a <= spent => Owed + spent' - calc >= 0
          <5>1. a <= spent => Owed + (spent + (calc - a - Owed) + o) - calc >= 0
            BY <2>3, <4>2, SMT
          <5>2. QED BY <4>4, <5>1
        <4>7. QED BY <2>1, <4>3, <4>5, <4>6 DEF TypeOK
      <3>2. CASE SleepTime \notin 0 .. SEC - 1
        <4>1. spent' = spent /\ tooLong' = (tooLong \/ SleepTime >= SEC)
          BY <1>7, <3>2 DEF Sleep
        <4>2. tooLong' \in BOOLEAN BY <4>1, Zenon
        <4>3. ~(SleepTime >= SEC) => calc - a - Owed < 0
          BY <1>0, <2>2, <2>3, <3>2, SMT
        <4>4. calc - a - Owed < 0 /\ a <= spent => Owed + spent - calc >= 0
          BY <2>3, SMT
        <4>5. QED BY <2>1, <2>3, <4>1, <4>2, <4>3, <4>4
      <3>3. QED BY <3>1, <3>2
    <2>6. TypeOK' BY <2>4, <2>5 DEF TypeOK, trueTime, timer
    <2>7. QED
      BY <2>4, <2>5, <2>6 DEF Carried, Measured, RoundCovered, InstructionsLeft, NotAhead,
         Unsigned, Owed, Signed, Calculated, timer
  <1>8. CASE Account
    <2> DEFINE z == Owed + spent - calc
    <2>1. /\ z \in -MaxLag .. MaxLag /\ Watch
          /\ delta' = Unsigned(Unsigned(spent) + delta - calc)
          /\ phase = "account" /\ phase' = "start"
          /\ spent' = 0 /\ calc' = 0 /\ actual' = 0 /\ cycles' = 0
          /\ UNCHANGED <<clock, left, faults, tcnt0, tov0, elapsed>>
      BY <1>8 DEF Account, Accounted
    <2>2. delta' = Unsigned(z) /\ Owed' = z /\ delta' \in 0 .. WORD - 1
      BY <1>8, AccountOwes
    <2> HIDE DEF z
    <2>9. 0 \in 0 .. WORD - 1 /\ 0 \in Nat /\ 0 \in Int /\ 0 <= MaxLag BY Sizes, SMT
    <2>10. lag' \in Int /\ dropped' \in 0 .. MaxDropped /\ watched' \in BOOLEAN
      BY <2>1, WatchTyped
    <2>11. TypeOK' BY <2>1, <2>2, <2>9, <2>10 DEF TypeOK, faults, Lost
    <2>12. Carried' BY <2>1, <2>2 DEF Carried, Unsigned
    <2>13. NotAhead' BY <2>1, <2>2 DEF RoundCovered, NotAhead, faults, z
    <2>14. QED
      BY <2>1, <2>9, <2>11, <2>12, <2>13 DEF Measured, RoundCovered, InstructionsLeft, Calculated
  <1>9. ASSUME NEW d \in Disturbances, Disturb(d) PROVE PacingInv'
    <2>1. d \in Int BY PacingAssumption
    <2>2. /\ spent' = spent + d /\ disturbed' = disturbed + 1 /\ disturbed < MaxDisturbances
          /\ setBack' = (setBack \/ d < 0)
          /\ UNCHANGED <<clock, phase, left, calc, actual, delta, tooLong, trueTime, timer>>
      BY <1>9 DEF Disturb
    <2>3. setBack' \in BOOLEAN BY <2>2, Zenon
    <2>4. spent' \in Int /\ disturbed' \in 0 .. MaxDisturbances
      BY <2>1, <2>2, PacingAssumption, SMT DEF TypeOK
    <2>5. TypeOK' BY <2>2, <2>3, <2>4 DEF TypeOK, trueTime, timer
    <2>6. d >= 0 \/ setBack'
      <3>1. CASE d < 0 BY <2>2, <3>1, Zenon
      <3>2. CASE ~(d < 0)
        <4>1. d >= 0 BY <2>1, <3>2, SMT
        <4>2. QED BY <4>1
      <3>3. QED BY <3>1, <3>2
    <2>7. Measured' /\ RoundCovered' /\ NotAhead' /\ Carried'
      BY <2>1, <2>2, <2>6, TimePasses
    <2>8. QED BY <2>2, <2>5, <2>7 DEF InstructionsLeft, Calculated, timer
  <1>10. CASE UNCHANGED vars
    BY <1>10 DEF vars, loop, trueTime, faults, timer, TypeOK, Lost, Carried, Measured,
       RoundCovered,
       InstructionsLeft, NotAhead, Unsigned, Owed, Signed, Calculated
  <1>11. QED
    BY <1>1, <1>2, <1>3, <1>4, <1>5, <1>6, <1>7, <1>8, <1>9, <1>10
       DEF Next, Step, NoInterrupt, EnterRoutine

LEMMA StartsEven == Init => PacingInv
  <1> SUFFICES ASSUME Init PROVE PacingInv
    OBVIOUS
  <1>1. 0 \in Near(4) /\ Unsigned(0) = 0
    <2>1. 0 \in Near(4) BY Sizes, SMT DEF Near
    <2>2. QED BY <2>1, UnsignedOfSmall
  <1>2. /\ 0 \in 0 .. WORD - 1 /\ 0 \in -MaxLag .. MaxLag /\ 0 \in 0 .. MaxDisturbances
        /\ 0 \in 0 .. TIMER - 1 /\ 0 <= MaxLag
        /\ 0 \in 0 .. Lost /\ 0 \in 0 .. MaxDropped
    BY Sizes, PacingAssumption, TimerAssumption, SMT DEF Lost
  <1>3. TypeOK
    <2>1. /\ left \in Nat /\ cycles \in Nat /\ calc \in Nat /\ spent \in Int
          /\ lag \in Int /\ dropped \in 0 .. MaxDropped
          /\ actual \in 0 .. WORD - 1 /\ delta \in 0 .. WORD - 1
          /\ disturbed \in 0 .. MaxDisturbances /\ tcnt0 \in 0 .. TIMER - 1
          /\ elapsed \in 0 .. Lost
      BY <1>2 DEF Init
    <2>2. clock \in ClockSpeeds /\ phase = "start" BY DEF Init
    <2>3. setBack \in BOOLEAN /\ tooLong \in BOOLEAN /\ tov0 \in BOOLEAN /\ watched \in BOOLEAN
      BY DEF Init
    <2>4. QED BY <2>1, <2>2, <2>3 DEF TypeOK
  <1>4. Owed = 0 BY <1>1, UnsignedOfSmall DEF Init, Owed
  <1>5. QED
    BY <1>1, <1>2, <1>3, <1>4 DEF Init, PacingInv, Carried, Measured, RoundCovered,
       InstructionsLeft, NotAhead, Calculated

LEMMA PacingInvariant == Spec => []PacingInv
  BY StartsEven, PacingStep, PTL DEF Spec

(* For every clock speed, program and host the variables of the loop and   *)
(* of the timer keep their types.                                          *)
THEOREM TypeCorrect == Spec => []TypeOK
  <1>1. PacingInv => TypeOK BY DEF PacingInv
  <1>2. QED BY <1>1, PacingInvariant, PTL

-----------------------------------------------------------------------------
(* The time that the code counts for the cycles of a round, in the parts   *)
(* of which there are clock, and what it loses of their true time.         *)
LEMMA QuotientLoses ==
    ASSUME NEW k \in Nat \ {0}, NEW s \in Nat, NEW n \in Nat
    PROVE  k * (n * (s \div k)) = s * n - n * (s % k)
  <1> DEFINE q == s \div k
  <1> DEFINE r == s % k
  <1>1. q \in Int /\ r \in Int /\ s = k * q + r BY SMT
  <1> HIDE DEF q, r
  <1>2. k * (n * q) = (k * q) * n BY <1>1, SMT
  <1>3. s * n = (k * q) * n + n * r BY <1>1, SMT
  <1>4. k * q \in Int BY <1>1, SMT
  <1>5. (k * q) * n \in Int /\ n * r \in Int BY <1>1, <1>4, SMT
  <1>6. s * n - n * r = (k * q) * n BY <1>3, <1>5, SMT
  <1>7. QED BY <1>2, <1>6 DEF q, r

LEMMA DeltaStep ==
    ASSUME PacingInv, DeltaIsLag, [Next]_vars
    PROVE  DeltaIsLag'
  <1>1. CASE Account
    <2> SUFFICES ASSUME watched' PROVE clock' * Owed' = lag' + dropped'
      BY DEF DeltaIsLag
    <2> DEFINE time == clock * spent
    <2> DEFINE count == clock * calc
    <2> DEFINE whole == SEC * cycles
    <2> DEFINE loss == cycles * (SEC % clock)
    <2> DEFINE owed == clock * Owed
    <2>1. /\ clock' = clock /\ Watch /\ phase = "account"
          /\ Owed' = Owed + spent - calc
      BY <1>1, AccountOwes DEF Account, Accounted
    <2>2. /\ clock \in Nat \ {0} /\ SEC \in Nat /\ cycles \in Nat
          /\ spent \in Int /\ calc \in Int /\ Owed \in Int
          /\ lag \in Int /\ dropped \in Int
          /\ calc = cycles * (SEC \div clock)
      BY <2>1, LagIsSmall, PacingAssumption DEF PacingInv, TypeOK, Calculated
    <2>3. watched /\ dropped' = dropped + loss /\ lag' = lag + time - whole
      BY <2>1 DEF Watch
    <2>4. owed = lag + dropped BY <2>3 DEF DeltaIsLag
    <2>5. count = whole - loss BY <2>2, QuotientLoses
    <2>6. SEC % clock \in Int BY <2>2, SMT
    <2>7. /\ time \in Int /\ count \in Int /\ whole \in Int /\ loss \in Int
          /\ owed \in Int
      BY <2>2, <2>6, SMT
    <2>8. clock * (Owed + spent - calc) = owed + time - count BY <2>2, SMT
    <2> HIDE DEF time, count, whole, loss, owed
    <2>9. owed + time - count = (lag + time - whole) + (dropped + loss)
      BY <2>2, <2>4, <2>5, <2>7, SMT
    <2>10. QED BY <2>1, <2>3, <2>8, <2>9
  <1>2. CASE ~Account
    <2>1. UNCHANGED <<clock, delta, trueTime>>
      BY <1>2 DEF Next, Step, vars, loop, StartRound, NoInterrupt, EnterRoutine,
         InterruptsHandled, Calculate, DivideByZero, Measure, Sleep, Instruction,
         InstructionEnds, Disturb
    <2>2. QED BY <2>1 DEF DeltaIsLag, trueTime, Owed, Signed
  <1>3. QED BY <1>1, <1>2

(* What the loop carries over in an unsigned number is the true lag of the *)
(* emulated clock and what the quotients have lost, ahead or behind, for   *)
(* words of any size that hold eight times the lag and for every clock     *)
(* speed, whether it divides a second or not.                              *)
THEOREM DeltaTellsLag == Spec => []DeltaIsLag
  <1>1. Init => DeltaIsLag
    <2> SUFFICES ASSUME Init PROVE clock * Owed = lag + dropped
      BY DEF DeltaIsLag
    <2>1. 0 \in Near(4) /\ clock \in Int
      BY Sizes, PacingAssumption, SMT DEF Near, Init
    <2>2. Owed = 0
      <3>1. Signed(Unsigned(0)) = 0 /\ Unsigned(0) = 0 BY <2>1, UnsignedOfSmall
      <3>2. QED BY <3>1 DEF Init, Owed
    <2>3. clock * 0 = 0 + 0 BY <2>1, SMT
    <2>4. QED BY <2>2, <2>3 DEF Init
  <1>2. QED BY <1>1, DeltaStep, PacingInvariant, PTL DEF Spec

(* Whatever the program and the host do, the emulated clock runs ahead of  *)
(* the wall clock by no more than what the quotients have lost, unless the *)
(* wall clock was set back or a sleep was refused.                         *)
THEOREM AheadByLoss == Spec => []AheadByTheLossOnly
  <1>1. PacingInv /\ DeltaIsLag => AheadByTheLossOnly
    <2> SUFFICES ASSUME PacingInv, DeltaIsLag, watched, ~setBack, ~tooLong
                 PROVE  lag >= -dropped
      BY DEF AheadByTheLossOnly
    <2>1. clock \in Nat /\ Owed \in Nat /\ lag \in Int /\ dropped \in Int
      <3>1. Owed >= 0 BY DEF PacingInv, NotAhead
      <3>2. QED BY <3>1, LagIsSmall, PacingAssumption DEF PacingInv, TypeOK
    <2>2. clock * Owed \in Nat BY <2>1, SMT
    <2>3. lag + dropped \in Nat BY <2>2 DEF DeltaIsLag
    <2>4. QED BY <2>1, <2>3, SMT
  <1>2. QED BY <1>1, PacingInvariant, DeltaTellsLag, PTL

-----------------------------------------------------------------------------
(* Why no sleep is too long at a speed that fits: the cycles of a round    *)
(* are at most those of its longest instruction, counted for each of them  *)
(* with an interrupt entry, and the sleep is at most their time, because   *)
(* neither the measured time nor the lag is negative.                      *)
PerInstruction(n) == Cycles(n) + Cycles(EntryIncrement)

Within(c) ==
    \E n \in Increments : cycles + c <= (InstructionsToExecute - left) * PerInstruction(n)

CyclesBounded ==
    /\ phase \in {"execute", "interrupts", "calculate"} => left <= InstructionsToExecute
    /\ phase = "execute" => cycles = 0 \/ Within(0)
    /\ phase = "interrupts" => Within(Cycles(EntryIncrement))
    /\ phase = "calculate" => left = 0 /\ Within(0)

CalcFits == phase \in {"measure", "sleep"} /\ Fits => calc < SEC

Forward ==
    ~setBack /\ phase \in {"execute", "interrupts", "calculate", "measure"} => spent >= 0

MeasuredForward ==
    ~setBack /\ phase = "sleep" => \E a \in Near(1) : actual = Unsigned(a) /\ a >= 0

RoundInv == CyclesBounded /\ CalcFits /\ Forward /\ MeasuredForward /\ SleepsFit

(* One more instruction, with an interrupt entry, in both cases at most as *)
(* long as the longer of two.                                              *)
LEMMA OneMore ==
    ASSUME NEW k \in Nat, NEW x \in Nat, NEW y \in Nat, NEW z \in Nat,
           x <= k * y, z >= y
    PROVE  x + z <= (k + 1) * z
  <1>1. k * y <= k * z BY SMT
  <1>2. (k + 1) * z = k * z + z BY SMT
  <1>3. k * y \in Nat /\ k * z \in Nat BY SMT
  <1> DEFINE ky == k * y
  <1> DEFINE kz == k * z
  <1> HIDE DEF ky, kz
  <1>4. ky \in Nat /\ kz \in Nat /\ ky <= kz /\ x <= ky /\ (k + 1) * z = kz + z
    BY <1>1, <1>2, <1>3 DEF ky, kz
  <1>5. x + z <= kz + z BY <1>4, SMT
  <1>6. QED BY <1>4, <1>5

LEMMA OneMoreOf ==
    ASSUME NEW k \in Nat, NEW x \in Nat, NEW y \in Nat, NEW z \in Nat, x <= k * y
    PROVE  x + z <= (k + 1) * y \/ x + z <= (k + 1) * z
  <1>1. CASE z >= y BY <1>1, OneMore
  <1>2. CASE ~(z >= y)
    <2>1. z <= y BY <1>2, SMT
    <2>2. x + y <= (k + 1) * y
      <3>1. y >= y BY SMT
      <3>2. QED BY <3>1, OneMore
    <2>3. (k + 1) * y \in Nat BY SMT
    <2> DEFINE w == (k + 1) * y
    <2> HIDE DEF w
    <2>4. w \in Nat /\ x + y <= w BY <2>2, <2>3 DEF w
    <2>5. x + z <= w BY <2>1, <2>4, SMT
    <2>6. QED BY <2>5 DEF w
  <1>3. QED BY <1>1, <1>2

LEMMA Longer ==
    ASSUME NEW q \in Nat, NEW x \in Nat, NEW y \in Nat, x <= y
    PROVE  x * q <= y * q
  BY SMT

LEMMA RoundSizes ==
    ASSUME TypeOK
    PROVE  /\ InstructionsToExecute \in Nat /\ InstructionsToExecute > 0
           /\ Cycles(EntryIncrement) \in Nat
           /\ \A n \in Increments : Cycles(n) \in Nat /\ PerInstruction(n) \in Nat
  <1>1. clock \in Nat /\ MEGA \in Nat \ {0} BY PacingAssumption DEF TypeOK
  <1>2. InstructionsToExecute \in Nat /\ InstructionsToExecute > 0
    BY <1>1, SMT DEF InstructionsToExecute
  <1>3. Cycles(EntryIncrement) \in Nat
    BY PacingAssumption, TimerAssumption, SMT DEF Cycles
  <1>4. \A n \in Increments : Cycles(n) \in Nat BY TimerAssumption, SMT DEF Cycles
  <1> HIDE DEF Cycles
  <1>5. \A n \in Increments : PerInstruction(n) \in Nat BY <1>3, <1>4, SMT DEF PerInstruction
  <1>6. QED BY <1>2, <1>3, <1>4, <1>5

(* Every kind of instruction counts its cycles once, before or after.      *)
LEMMA InstructionCounts ==
    ASSUME NEW n \in Increments, Instruction(n)
    PROVE  cycles' = cycles + Cycles(n)
  BY DEF Instruction, CountOnly, OutTcnt0, OutTifr0, StsTcnt0, StsTifr0, CbiTifr0,
     SbiTifr0, Count

(* An instruction and the time for an entry after it stay within bounds.   *)
LEMMA InstructionWithin ==
    ASSUME PacingInv, CyclesBounded, NEW n \in Increments, Instruction(n)
    PROVE  CyclesBounded'
  <1> DEFINE entry == Cycles(EntryIncrement)
  <1> DEFINE k == InstructionsToExecute - left
  <1>1. /\ phase = "execute" /\ phase' = "interrupts" /\ left' = left - 1 /\ clock' = clock
        /\ cycles' = cycles + Cycles(n)
    BY InstructionCounts DEF Instruction, InstructionEnds
  <1>2. /\ InstructionsToExecute \in Nat /\ entry \in Nat /\ Cycles(n) \in Nat
        /\ \A m \in Increments : PerInstruction(m) \in Nat
        /\ PerInstruction(n) = Cycles(n) + entry
    BY RoundSizes DEF PacingInv, PerInstruction
  <1>3. left \in Nat /\ left > 0 /\ left <= InstructionsToExecute /\ cycles \in Nat
    BY <1>1 DEF PacingInv, TypeOK, InstructionsLeft, CyclesBounded
  <1>4. InstructionsToExecute' = InstructionsToExecute BY <1>1 DEF InstructionsToExecute
  <1> HIDE DEF entry
  <1>5. k \in Nat /\ InstructionsToExecute - left' = k + 1 /\ left' <= InstructionsToExecute
    BY <1>1, <1>2, <1>3, SMT
  <1> HIDE DEF k
  <1>6. cycles' + entry = cycles + PerInstruction(n) BY <1>1, <1>2, <1>3, SMT
  <1>7. \E m \in Increments : cycles + PerInstruction(n) <= (k + 1) * PerInstruction(m)
    <2>1. CASE cycles = 0
      <3>1. 0 \in Nat /\ 0 <= k * 0 /\ PerInstruction(n) >= 0 BY <1>2, <1>5, SMT
      <3>2. 0 + PerInstruction(n) <= (k + 1) * PerInstruction(n)
        BY <1>2, <1>5, <3>1, OneMore
      <3>3. QED BY <2>1, <3>2
    <2>2. CASE Within(0)
      <3>1. PICK m \in Increments : cycles + 0 <= k * PerInstruction(m)
        BY <2>2 DEF Within, k
      <3>2. cycles <= k * PerInstruction(m) BY <1>3, <3>1, SMT
      <3>3. \/ cycles + PerInstruction(n) <= (k + 1) * PerInstruction(m)
            \/ cycles + PerInstruction(n) <= (k + 1) * PerInstruction(n)
        BY <1>2, <1>3, <1>5, <3>2, OneMoreOf
      <3>4. QED BY <3>3
    <2>3. QED BY <1>1, <2>1, <2>2 DEF CyclesBounded
  <1>8. Within(entry)'
    <2>1. PICK m \in Increments : cycles + PerInstruction(n) <= (k + 1) * PerInstruction(m)
      BY <1>7
    <2>2. cycles' + entry <= (InstructionsToExecute' - left') * PerInstruction(m)
      BY <1>4, <1>5, <1>6, <2>1
    <2>3. entry' = entry /\ PerInstruction(m)' = PerInstruction(m)
      BY DEF entry, PerInstruction, Cycles
    <2>4. QED BY <2>2, <2>3 DEF Within
  <1>9. QED BY <1>1, <1>4, <1>5, <1>8 DEF CyclesBounded, entry

LEMMA EntryWithin ==
    ASSUME PacingInv, CyclesBounded, InterruptsHandled,
           UNCHANGED timer \/ CountOnly(Cycles(EntryIncrement))
    PROVE  CyclesBounded'
  <1>1. /\ phase = "interrupts" /\ left' = left /\ clock' = clock
        /\ phase' = IF left > 0 THEN "execute" ELSE "calculate"
    BY DEF InterruptsHandled
  <1>2. Cycles(EntryIncrement) \in Nat /\ cycles \in Nat /\ left \in Nat
    BY RoundSizes DEF PacingInv, TypeOK
  <1>3. cycles' = cycles \/ cycles' = cycles + Cycles(EntryIncrement)
    BY DEF timer, CountOnly, Count
  <1>4. InstructionsToExecute' = InstructionsToExecute /\ InstructionsToExecute \in Nat
    BY <1>1, RoundSizes DEF InstructionsToExecute, PacingInv
  <1>5. left <= InstructionsToExecute /\ Within(Cycles(EntryIncrement))
    BY <1>1 DEF CyclesBounded
  <1>6. PICK n \in Increments :
           cycles + Cycles(EntryIncrement) <= (InstructionsToExecute - left) * PerInstruction(n)
    BY <1>5 DEF Within
  <1>7. (InstructionsToExecute - left) * PerInstruction(n) \in Int
    BY <1>2, <1>4, RoundSizes, SMT DEF PacingInv
  <1> DEFINE w == (InstructionsToExecute - left) * PerInstruction(n)
  <1> HIDE DEF w, Cycles
  <1>8. w \in Int /\ cycles + Cycles(EntryIncrement) <= w BY <1>6, <1>7 DEF w
  <1>9. cycles' + 0 <= w BY <1>2, <1>3, <1>8, SMT
  <1>10. Within(0)' BY <1>1, <1>4, <1>9 DEF w, Within, PerInstruction, Cycles
  <1>11. left > 0 \/ left = 0 BY <1>2, SMT
  <1>12. QED BY <1>1, <1>4, <1>5, <1>10, <1>11 DEF CyclesBounded

(* At a speed that fits, the time of the cycles of a round is less than a  *)
(* second.                                                                 *)
LEMMA CalculateFits ==
    ASSUME PacingInv, CyclesBounded, Calculate, Fits
    PROVE  calc' < SEC
  <1>1. phase = "calculate" /\ clock # 0 /\ calc' = cycles * (SEC \div clock)
    BY DEF Calculate
  <1>2. cycles \in Nat /\ clock \in Nat \ {0} /\ SEC \in Nat \ {0}
    BY <1>1, PacingAssumption DEF PacingInv, TypeOK
  <1>3. SEC \div clock \in Nat BY <1>2, SMT
  <1>4. left = 0 /\ Within(0) BY <1>1 DEF CyclesBounded
  <1>5. PICK n \in Increments :
           cycles + 0 <= (InstructionsToExecute - 0) * PerInstruction(n)
    BY <1>4 DEF Within
  <1>6. InstructionsToExecute \in Nat /\ PerInstruction(n) \in Nat
    BY RoundSizes DEF PacingInv
  <1>7. InstructionsToExecute * PerInstruction(n) \in Nat BY <1>6, SMT
  <1>8. cycles <= InstructionsToExecute * PerInstruction(n)
    BY <1>2, <1>5, <1>6, SMT
  <1>9. cycles * (SEC \div clock)
          <= InstructionsToExecute * PerInstruction(n) * (SEC \div clock)
    BY <1>2, <1>3, <1>7, <1>8, Longer
  <1>10. InstructionsToExecute * PerInstruction(n) * (SEC \div clock) < SEC
    BY DEF Fits, PerInstruction
  <1> DEFINE t == InstructionsToExecute * PerInstruction(n) * (SEC \div clock)
  <1> DEFINE c == cycles * (SEC \div clock)
  <1>11. t \in Int /\ c \in Int BY <1>2, <1>3, <1>7, SMT
  <1> HIDE DEF t, c
  <1>12. c <= t /\ t < SEC BY <1>9, <1>10 DEF t, c
  <1>13. c < SEC BY <1>2, <1>11, <1>12, SMT
  <1>14. QED BY <1>1, <1>13 DEF c

LEMMA SameClock ==
    ASSUME UNCHANGED clock
    PROVE  Fits' = Fits /\ InstructionsToExecute' = InstructionsToExecute
  BY DEF Fits, InstructionsToExecute, Cycles

(* A sleep whose argument is too long has its reason: the clock was set    *)
(* back or the speed does not fit.                                         *)
LEMMA SleepIsShort ==
    ASSUME PacingInv, RoundInv, Sleep, ~setBack, Fits
    PROVE  ~tooLong'
  <1>1. ~tooLong BY DEF RoundInv, SleepsFit
  <1>2. PICK a \in Near(1) : actual = Unsigned(a) /\ a >= 0
    BY DEF Sleep, RoundInv, MeasuredForward
  <1>3. SleepTime = calc - a - Owed
    BY <1>2, LagIsSmall, SleepTimeIs DEF PacingInv, Carried
  <1>4. a \in Int /\ Owed \in Int /\ calc \in Int /\ SEC \in Int
    BY <1>2, LagIsSmall, Sizes, PacingAssumption, SMT DEF Near
  <1>5. Owed >= 0 BY <1>1 DEF PacingInv, NotAhead
  <1>6. calc < SEC BY DEF RoundInv, CalcFits, Sleep
  <1>7. ~(calc - a - Owed >= SEC) BY <1>2, <1>4, <1>5, <1>6, SMT
  <1>8. ~(SleepTime >= SEC) BY <1>3, <1>7
  <1>9. QED BY <1>1, <1>8 DEF Sleep

LEMMA RoundStep ==
    ASSUME PacingInv, RoundInv, [Next]_vars
    PROVE  RoundInv'
  <1> USE DEF RoundInv
  <1>0. spent \in Int /\ left \in Nat BY DEF PacingInv, TypeOK
  <1>1. CASE StartRound
    <2>1. InstructionsToExecute \in Nat BY RoundSizes DEF PacingInv
    <2>2. InstructionsToExecute' = InstructionsToExecute /\ Fits' = Fits
      BY <1>1, SameClock DEF StartRound
    <2>3. left' <= InstructionsToExecute' BY <1>1, <2>1, <2>2, SMT DEF StartRound
    <2>4. CyclesBounded' BY <1>1, <2>3 DEF StartRound, CyclesBounded
    <2>5. Forward' BY <1>1, SMT DEF StartRound, Forward
    <2>6. QED
      BY <1>1, <2>2, <2>4, <2>5 DEF StartRound, faults, CalcFits, MeasuredForward, SleepsFit
  <1>2. ASSUME NEW n \in Increments, Instruction(n) PROVE RoundInv'
    <2>1. InstructionEnds BY <1>2 DEF Instruction
    <2>2. Fits' = Fits BY <2>1, SameClock DEF InstructionEnds
    <2>3. CyclesBounded' BY <1>2, InstructionWithin
    <2>4. Forward'
      <3>1. PICK w \in WorkTimes : spent' = spent + w BY <2>1 DEF InstructionEnds
      <3>2. w \in Nat BY PacingAssumption
      <3>3. setBack' = setBack /\ phase = "execute" BY <2>1 DEF InstructionEnds, faults
      <3>4. ~setBack => spent + w >= 0 BY <1>0, <3>2, <3>3, SMT DEF Forward
      <3>5. QED BY <3>1, <3>3, <3>4 DEF Forward
    <2>5. QED
      BY <2>1, <2>2, <2>3, <2>4 DEF InstructionEnds, faults, CalcFits, MeasuredForward,
         SleepsFit
  <1>3. CASE InterruptsHandled /\ (UNCHANGED timer \/ CountOnly(Cycles(EntryIncrement)))
    <2>1. CyclesBounded' BY <1>3, EntryWithin
    <2>2. Fits' = Fits BY <1>3, SameClock DEF InterruptsHandled
    <2>3. QED
      BY <1>3, <2>1, <2>2 DEF InterruptsHandled, faults, CalcFits, Forward, MeasuredForward,
         SleepsFit
  <1>4. CASE Calculate
    <2>1. Fits' = Fits BY <1>4, SameClock DEF Calculate
    <2>2. CalcFits' BY <1>4, <2>1, CalculateFits DEF CalcFits
    <2>3. QED
      BY <1>4, <2>1, <2>2 DEF Calculate, faults, CyclesBounded, Forward, MeasuredForward,
         SleepsFit
  <1>5. CASE DivideByZero
    <2>1. Fits' = Fits BY <1>5, SameClock DEF DivideByZero
    <2>2. QED
      BY <1>5, <2>1 DEF DivideByZero, faults, CyclesBounded, CalcFits, Forward,
         MeasuredForward, SleepsFit
  <1>6. CASE Measure
    <2>1. Fits' = Fits BY <1>6, SameClock DEF Measure
    <2>2. spent \in Near(1) BY <1>6, Sizes, SMT DEF Measure, Near
    <2>3. MeasuredForward'
      BY <1>6, <2>2 DEF Measure, faults, Forward, MeasuredForward, Near, Unsigned
    <2>4. QED
      BY <1>6, <2>1, <2>3 DEF Measure, faults, CyclesBounded, CalcFits, Forward, SleepsFit
  <1>7. CASE Sleep
    <2>1. Fits' = Fits BY <1>7, SameClock DEF Sleep
    <2>2. SleepsFit' BY <1>7, <2>1, SleepIsShort DEF Sleep, SleepsFit
    <2>3. QED
      BY <1>7, <2>1, <2>2 DEF Sleep, CyclesBounded, CalcFits, Forward, MeasuredForward
  <1>8. CASE Account
    <2>1. Fits' = Fits BY <1>8, SameClock DEF Account, Accounted
    <2>2. QED
      BY <1>8, <2>1 DEF Account, Accounted, faults, CyclesBounded, CalcFits, Forward,
         MeasuredForward, SleepsFit
  <1>9. ASSUME NEW d \in Disturbances, Disturb(d) PROVE RoundInv'
    <2>1. d \in Int BY PacingAssumption
    <2>2. /\ spent' = spent + d /\ setBack' = (setBack \/ d < 0)
          /\ UNCHANGED <<clock, phase, left, calc, actual, delta, tooLong, trueTime, timer>>
      BY <1>9 DEF Disturb
    <2>3. (setBack => setBack') /\ (~setBack' => ~(d < 0)) BY <2>2, Zenon
    <2>4. Fits' = Fits /\ InstructionsToExecute' = InstructionsToExecute
      BY <2>2, SameClock
    <2>5. Forward'
      <3>1. ~(d < 0) /\ spent >= 0 => spent + d >= 0 BY <1>0, <2>1, SMT
      <3>2. QED BY <2>2, <2>3, <3>1 DEF Forward
    <2>6. CyclesBounded'
      BY <2>2, <2>4 DEF timer, CyclesBounded, Within, PerInstruction, Cycles
    <2>7. CalcFits' BY <2>2, <2>4 DEF CalcFits
    <2>8. MeasuredForward' BY <2>2, <2>3 DEF MeasuredForward, Near, Unsigned
    <2>9. SleepsFit' BY <2>2, <2>3, <2>4 DEF SleepsFit
    <2>10. QED BY <2>5, <2>6, <2>7, <2>8, <2>9
  <1>10. CASE UNCHANGED vars
    <2>1. /\ UNCHANGED <<clock, phase, left, spent, calc, actual>>
          /\ UNCHANGED <<setBack, tooLong, cycles>>
      BY <1>10 DEF vars, loop, faults, timer
    <2>2. Fits' = Fits /\ InstructionsToExecute' = InstructionsToExecute
      BY <2>1, SameClock
    <2>3. CyclesBounded' BY <2>1, <2>2 DEF CyclesBounded, Within, PerInstruction, Cycles
    <2>4. MeasuredForward' BY <2>1 DEF MeasuredForward, Near, Unsigned
    <2>5. QED BY <2>1, <2>2, <2>3, <2>4 DEF CalcFits, Forward, SleepsFit
  <1>11. QED
    BY <1>1, <1>2, <1>3, <1>4, <1>5, <1>6, <1>7, <1>8, <1>9, <1>10
       DEF Next, Step, NoInterrupt, EnterRoutine

LEMMA RoundInvariant == Spec => []RoundInv
  <1>1. Init => RoundInv
    BY DEF Init, RoundInv, CyclesBounded, CalcFits, Forward, MeasuredForward, SleepsFit
  <1>2. QED BY <1>1, RoundStep, PacingInvariant, PTL DEF Spec

(* At a clock speed at which every round takes less than a second no sleep *)
(* is refused as too long, unless the clock was set back, whatever the     *)
(* program executes and however slow the host is.                          *)
THEOREM NoSleepTooLong == Spec => []SleepsFit
  <1>1. RoundInv => SleepsFit BY DEF RoundInv
  <1>2. QED BY <1>1, RoundInvariant, PTL

-----------------------------------------------------------------------------
(* What has elapsed within three rounds of the timer, in whole rounds and  *)
(* the rest.                                                               *)
LEMMA Rounds ==
    ASSUME NEW e \in Nat
    PROVE  /\ TIMER \in Nat \ {0}
           /\ e < TIMER => (e \div TIMER) * TIMER = 0 /\ e % TIMER = e
           /\ TIMER <= e /\ e < 2 * TIMER
                 => (e \div TIMER) * TIMER = TIMER /\ e % TIMER = e - TIMER
           /\ 2 * TIMER <= e => (e \div TIMER) * TIMER >= 2 * TIMER
  <1>1. TIMER \in Nat \ {0} BY TimerAssumption
  <1> DEFINE q == e \div TIMER
  <1> DEFINE r == e % TIMER
  <1>2. q \in Int /\ r \in Int /\ 0 <= r /\ r < TIMER /\ e = TIMER * q + r BY <1>1, SMT
  <1> HIDE DEF q, r
  <1>3. q < 0 \/ q = 0 \/ q = 1 \/ q >= 2 BY <1>2, SMT
  <1>4. q < 0 => TIMER * q <= 0 - TIMER BY <1>1, <1>2, SMT
  <1>5. q >= 2 => TIMER * q >= 2 * TIMER BY <1>1, <1>2, SMT
  <1>6. TIMER * q \in Int /\ q * TIMER = TIMER * q BY <1>1, <1>2, SMT
  <1>7. (q = 0 => TIMER * q = 0) /\ (q = 1 => TIMER * q = TIMER) BY <1>1, <1>2, SMT
  <1> DEFINE p == TIMER * q
  <1> HIDE DEF p
  <1>8. /\ p \in Int /\ q * TIMER = p /\ e = p + r
        /\ (q < 0 => p <= 0 - TIMER) /\ (q >= 2 => p >= 2 * TIMER)
        /\ (q = 0 => p = 0) /\ (q = 1 => p = TIMER)
    BY <1>2, <1>4, <1>5, <1>6, <1>7 DEF p
  <1>9. /\ e < TIMER => p = 0 /\ r = e
        /\ TIMER <= e /\ e < 2 * TIMER => p = TIMER /\ r = e - TIMER
        /\ 2 * TIMER <= e => p >= 2 * TIMER
    BY <1>1, <1>2, <1>3, <1>8, SMT
  <1>10. QED BY <1>1, <1>8, <1>9 DEF q, r

Round(flag) == IF flag THEN TIMER ELSE 0

(* What the timer shows after it has counted from what it showed before.   *)
LEMMA CountShows ==
    ASSUME NEW c \in Nat, c < TIMER, NEW t \in 0 .. TIMER - 1, NEW f \in BOOLEAN,
           Count(c, t, f), Elapses(t + Round(f) + c), elapsed # Lost
    PROVE  NoRoundIsMissed'
  <1>1. TIMER \in Nat \ {0} /\ t \in Nat /\ t < TIMER /\ t + c \in Nat
    BY TimerAssumption, SMT
  <1>2. /\ tcnt0' = (t + c) % TIMER /\ tov0' = (f \/ t + c >= TIMER)
        /\ elapsed' = IF t + Round(f) + c >= Lost THEN Lost ELSE t + Round(f) + c
    BY DEF Count, Overflows, Elapses
  <1>3. Lost' = Lost /\ Lost = 2 * TIMER BY DEF Lost
  <1> SUFFICES ASSUME elapsed' # Lost PROVE elapsed' = tcnt0' + Round(tov0')
    BY <1>3 DEF NoRoundIsMissed, Round
  <1>4. CASE t + c < TIMER
    <2>1. tcnt0' = t + c BY <1>1, <1>2, <1>4, Rounds
    <2>2. ~(t + c >= TIMER) BY <1>1, <1>4, SMT
    <2>3. tov0' = f BY <1>2, <2>2, Zenon
    <2>4. t + Round(f) + c = t + c + Round(f) BY <1>1, SMT DEF Round
    <2>5. QED BY <1>2, <2>1, <2>3, <2>4
  <1>5. CASE ~(t + c < TIMER)
    <2>1. t + c >= TIMER /\ TIMER <= t + c /\ t + c < 2 * TIMER BY <1>1, <1>5, SMT
    <2>2. tcnt0' = t + c - TIMER BY <1>1, <1>2, <2>1, Rounds
    <2>3. tov0' BY <1>2, <2>1, Zenon
    <2>4. f => t + Round(f) + c >= Lost BY <1>1, <1>3, <2>1, SMT DEF Round
    <2>5. ~f BY <1>2, <2>4
    <2>6. elapsed' = t + 0 + c BY <1>2, <2>5 DEF Round
    <2>7. t + 0 + c = (t + c - TIMER) + TIMER BY <1>1, SMT
    <2>8. QED BY <2>2, <2>3, <2>6, <2>7 DEF Round
  <1>6. QED BY <1>4, <1>5

LEMMA CountOnlyShows ==
    ASSUME PacingInv, NoRoundIsMissed, NEW c \in Nat, c < TIMER, CountOnly(c)
    PROVE  NoRoundIsMissed'
  <1>1. CASE elapsed = Lost
    BY <1>1 DEF CountOnly, Elapses, NoRoundIsMissed, Lost
  <1>2. CASE elapsed # Lost
    <2>1. elapsed = tcnt0 + Round(tov0) BY <1>2 DEF NoRoundIsMissed, Round
    <2>2. tcnt0 \in 0 .. TIMER - 1 /\ tov0 \in BOOLEAN BY DEF PacingInv, TypeOK
    <2>3. Count(c, tcnt0, tov0) /\ Elapses(tcnt0 + Round(tov0) + c)
      BY <2>1 DEF CountOnly
    <2>4. QED BY <1>2, <2>2, <2>3, CountShows
  <1>3. QED BY <1>1, <1>2

(* The five ways of storing into TCNT0 or TIFR0, and not storing.          *)
LEMMA InstructionShows ==
    ASSUME PacingInv, NoRoundIsMissed, NEW n \in Increments, Instruction(n)
    PROVE  NoRoundIsMissed'
  <1> DEFINE c == Cycles(n)
  <1>1. /\ c \in Nat /\ c < TIMER /\ TIMER \in Nat \ {0}
        /\ TimerValues \subseteq 0 .. TIMER - 1
    BY TimerAssumption, SMT DEF Cycles
  <1>2. tcnt0 \in 0 .. TIMER - 1 /\ tov0 \in BOOLEAN BY DEF PacingInv, TypeOK
  <1>3. tcnt0 \in Nat /\ tcnt0 < TIMER BY <1>1, <1>2, SMT
  <1>4. CASE CountOnly(c) BY <1>1, <1>4, CountOnlyShows
  <1>5. CASE StsTifr0(c) \/ CbiTifr0(c) \/ SbiTifr0(c)
    BY <1>5 DEF StsTifr0, CbiTifr0, SbiTifr0, NoRoundIsMissed, Lost
  <1>6. CASE elapsed = Lost /\ (OutTcnt0(c) \/ OutTifr0(c) \/ StsTcnt0(c))
    BY <1>6 DEF OutTcnt0, OutTifr0, StsTcnt0, Collects, Elapses, NoRoundIsMissed, Lost
  <1> HIDE DEF c
  <1>7. ASSUME elapsed # Lost, OutTcnt0(c) \/ OutTifr0(c) \/ StsTcnt0(c)
        PROVE  NoRoundIsMissed'
    <2>1. elapsed = tcnt0 + Round(tov0) BY <1>7 DEF NoRoundIsMissed, Round
    <2>2. /\ elapsed \in Nat
          /\ ~tov0 => elapsed < TIMER
          /\ tov0 => TIMER <= elapsed /\ elapsed < 2 * TIMER
      BY <1>1, <1>3, <2>1, SMT DEF Round
    <2>3. CASE OutTcnt0(c)
      <3>1. PICK v \in TimerValues :
               Count(c, v, tov0) /\ Elapses((elapsed \div TIMER) * TIMER + v + c)
        BY <2>3 DEF OutTcnt0
      <3>2. v \in 0 .. TIMER - 1 /\ v \in Nat BY <1>1, SMT
      <3>3. (elapsed \div TIMER) * TIMER = Round(tov0) BY <2>2, Rounds DEF Round
      <3>4. Round(tov0) + v + c = v + Round(tov0) + c BY <1>1, <3>2, SMT DEF Round
      <3>5. QED BY <1>1, <1>2, <1>7, <3>1, <3>2, <3>3, <3>4, CountShows
    <2>4. CASE OutTifr0(c)
      <3>1. PICK f \in BOOLEAN : Count(c, tcnt0, f) /\ Collects(f, c)
        BY <2>4 DEF OutTifr0
      <3>2. elapsed % TIMER = tcnt0
        <4>1. CASE tov0
          <5>1. elapsed % TIMER = elapsed - TIMER BY <2>2, <4>1, Rounds
          <5>2. elapsed = tcnt0 + TIMER BY <2>1, <4>1 DEF Round
          <5>3. QED BY <1>1, <1>3, <5>1, <5>2, SMT
        <4>2. CASE ~tov0
          <5>1. elapsed % TIMER = elapsed BY <2>2, <4>2, Rounds
          <5>2. elapsed = tcnt0 + 0 BY <2>1, <4>2 DEF Round
          <5>3. QED BY <1>3, <5>1, <5>2, SMT
        <4>3. QED BY <4>1, <4>2
      <3>3. Elapses(tcnt0 + Round(f) + c) BY <3>1, <3>2 DEF Collects, Round
      <3>4. QED BY <1>1, <1>2, <1>7, <3>1, <3>3, CountShows
    <2>5. CASE StsTcnt0(c)
      <3>1. PICK v \in TimerValues :
               tcnt0' = v /\ Elapses(((elapsed + c) \div TIMER) * TIMER + v)
        BY <2>5 DEF StsTcnt0
      <3>2. v \in Nat BY <1>1, SMT
      <3>3. tov0' = (tov0 \/ tcnt0 + c >= TIMER) BY <2>5 DEF StsTcnt0, Overflows
      <3>4. elapsed + c \in Nat BY <1>1, <2>2, SMT
      <3> DEFINE whole == ((elapsed + c) \div TIMER) * TIMER
      <3>5. /\ elapsed + c < TIMER => whole = 0
            /\ TIMER <= elapsed + c /\ elapsed + c < 2 * TIMER => whole = TIMER
            /\ 2 * TIMER <= elapsed + c => whole >= 2 * TIMER
        BY <3>4, Rounds
      <3>6. whole \in Int
        <4>1. (elapsed + c) \div TIMER \in Int BY <1>1, <3>4, SMT
        <4>2. QED BY <1>1, <4>1, SMT
      <3> HIDE DEF whole
      <3>7. Lost' = Lost /\ Lost = 2 * TIMER BY DEF Lost
      <3>8. elapsed' = IF whole + v >= Lost THEN Lost ELSE whole + v
        BY <1>7, <3>1 DEF Elapses, whole
      <3>9. 2 * TIMER <= elapsed + c => elapsed' = Lost
        <4>1. 2 * TIMER <= elapsed + c => whole + v >= 2 * TIMER
          BY <1>1, <3>2, <3>4, <3>5, <3>6, SMT
        <4>2. QED BY <3>7, <3>8, <4>1
      <3>10. SUFFICES ASSUME elapsed' # Lost PROVE elapsed' = v + Round(tov0')
        BY <3>1, <3>7 DEF NoRoundIsMissed, Round
      <3>11. elapsed + c < 2 * TIMER BY <1>1, <3>4, <3>9, <3>10, SMT
      <3>12. CASE tov0 \/ tcnt0 + c >= TIMER
        <4>1. tov0' BY <3>3, <3>12, Zenon
        <4>2. TIMER <= elapsed + c
          <5>1. CASE tov0 BY <1>1, <2>2, <5>1, SMT
          <5>2. CASE tcnt0 + c >= TIMER /\ ~tov0
            <6>1. elapsed = tcnt0 + 0 BY <2>1, <5>2 DEF Round
            <6>2. QED BY <1>1, <1>3, <5>2, <6>1, SMT
          <5>3. QED BY <3>12, <5>1, <5>2
        <4>3. whole = TIMER BY <3>5, <3>11, <4>2
        <4>4. elapsed' = TIMER + v BY <3>8, <3>10, <4>3
        <4>5. QED BY <1>1, <3>2, <4>1, <4>4, SMT DEF Round
      <3>13. CASE ~(tov0 \/ tcnt0 + c >= TIMER)
        <4>1. ~tov0' BY <3>3, <3>13, Zenon
        <4>2. elapsed = tcnt0 + 0 BY <2>1, <3>13 DEF Round
        <4>3. elapsed + c < TIMER BY <1>1, <1>3, <3>13, <4>2, SMT
        <4>4. elapsed' = 0 + v BY <3>5, <3>8, <3>10, <4>3
        <4>5. QED BY <3>2, <4>1, <4>4, SMT DEF Round
      <3>14. QED BY <3>12, <3>13
    <2>6. QED BY <1>7, <2>3, <2>4, <2>5
  <1>8. QED BY <1>4, <1>5, <1>6, <1>7 DEF Instruction, c

(* Whatever the lengths of the instructions, the values the program stores *)
(* and the interrupts between: a program that takes TOV0 down by out,      *)
(* before the timer goes round again, misses no round, also when the       *)
(* instruction that clears the flag is the one that lets the timer go      *)
(* round, because out counts its cycles after it has stored.               *)
THEOREM NoRoundMissed == Spec => []NoRoundIsMissed
  <1>1. Init => NoRoundIsMissed
    <2>1. 0 = 0 + 0 OBVIOUS
    <2>2. QED BY <2>1 DEF Init, NoRoundIsMissed
  <1>2. ASSUME PacingInv, NoRoundIsMissed, [Next]_vars
        PROVE  NoRoundIsMissed'
    <2>1. ASSUME NEW n \in Increments, Instruction(n) PROVE NoRoundIsMissed'
      BY <1>2, <2>1, InstructionShows
    <2>2. CASE EnterRoutine
      <3>1. Cycles(EntryIncrement) \in Nat /\ Cycles(EntryIncrement) < TIMER
        BY PacingAssumption, TimerAssumption, SMT DEF Cycles
      <3>2. QED BY <1>2, <2>2, <3>1, CountOnlyShows DEF EnterRoutine
    <2>3. CASE UNCHANGED <<tcnt0, tov0, elapsed>>
      BY <1>2, <2>3 DEF NoRoundIsMissed, Lost
    <2>4. QED
      BY <1>2, <2>1, <2>2, <2>3 DEF Next, Step, vars, timer, StartRound, NoInterrupt,
         Calculate, DivideByZero, Measure, Sleep, Account, Accounted, Disturb
  <1>3. QED BY <1>1, <1>2, PacingInvariant, PTL DEF Spec
=============================================================================
