---------------------------- MODULE Ports_proofs ----------------------------
(***************************************************************************)
(* What Ports promises, for every choice of the bits of each port.  The    *)
(* board connects no two bits to one pin, so a line printed for a pin      *)
(* speaks of a single bit; the invariant behind InputIsTyped says where    *)
(* the typed level is kept.                                                *)
(***************************************************************************)
EXTENDS Ports, TLAPS

(* No two bits share a pin of the board.                                   *)
LEMMA OnePinPerBit ==
    ASSUME NEW p \in PortNames, NEW q \in PortNames,
           NEW b \in DOMAIN PinNumber[p], NEW c \in DOMAIN PinNumber[q],
           PinNumber[p][b] = PinNumber[q][c]
    PROVE  p = q /\ b = c
<1>1. \A x \in 0 .. 7 : x \in {0, 1, 2, 3, 4, 5, 6, 7}
  OBVIOUS
<1>2. \A x \in 0 .. 6 : x \in {0, 1, 2, 3, 4, 5, 6}
  OBVIOUS
<1>3. DOMAIN PinNumber["B"] = 0 .. 7 /\ DOMAIN PinNumber["C"] = 0 .. 6
      /\ DOMAIN PinNumber["D"] = 0 .. 7
  BY DEF PinNumber
<1>4. /\ \A x \in 0 .. 7 : PinNumber["B"][x] =
            (CASE x = 7 -> 10 [] x = 6 -> 9 [] x = 5 -> 19 [] x = 3 -> 18
                 [] x = 2 -> 17 [] x = 4 -> 16 [] x = 1 -> 15 [] OTHER -> 14)
      /\ \A x \in 0 .. 6 : PinNumber["C"][x] =
            (CASE x = 6 -> 1 [] x = 5 -> 28 [] x = 3 -> 27 [] x = 2 -> 26
                 [] x = 4 -> 25 [] x = 1 -> 24 [] OTHER -> 22)
      /\ \A x \in 0 .. 7 : PinNumber["D"][x] =
            (CASE x = 7 -> 13 [] x = 6 -> 12 [] x = 5 -> 11 [] x = 3 -> 6
                 [] x = 2 -> 5 [] x = 4 -> 4 [] x = 1 -> 3 [] OTHER -> 2)
  BY DEF PinNumber
<1>5. CASE p = "B"
  BY <1>1, <1>2, <1>3, <1>4, <1>5, SMTT(30) DEF PortNames
<1>6. CASE p = "C"
  BY <1>1, <1>2, <1>3, <1>4, <1>6, SMTT(30) DEF PortNames
<1>7. CASE p = "D"
  BY <1>1, <1>2, <1>3, <1>4, <1>7, SMTT(30) DEF PortNames
<1> QED
  BY <1>5, <1>6, <1>7 DEF PortNames

LEMMA SetBitType ==
    ASSUME NEW S, NEW byte \in SUBSET S, NEW bit \in S, NEW isSet
    PROVE  SetBit(byte, bit, isSet) \in SUBSET S
BY DEF SetBit

-----------------------------------------------------------------------------
LEMMA InitTypeOK == Init => TypeOK
<1> SUFFICES ASSUME Init PROVE TypeOK
  OBVIOUS
<1> USE DEF Init, TypeOK, Registers
<1>1. /\ DOMAIN port = PortNames /\ DOMAIN ddr = PortNames /\ DOMAIN pin = PortNames
      /\ \A p \in PortNames : port[p] = {} /\ ddr[p] = {} /\ pin[p] = {}
  OBVIOUS
<1>2. shown \in [BoardPins -> BOOLEAN]
  OBVIOUS
<1> QED
  BY <1>1, <1>2

(* Every action keeps the types of the registers that it writes.           *)
LEMMA WriteType ==
    ASSUME NEW r, DOMAIN r = PortNames,
           \A q \in PortNames : r[q] \subseteq Bits[q],
           NEW p \in PortNames, NEW value \in SUBSET Bits[p],
           NEW s, s = [r EXCEPT ![p] = value]
    PROVE  DOMAIN s = PortNames /\ \A q \in PortNames : s[q] \subseteq Bits[q]
OBVIOUS

LEMMA StepTypeOK == TypeOK /\ [Next]_vars => TypeOK'
<1> SUFFICES ASSUME TypeOK, [Next]_vars PROVE TypeOK'
  OBVIOUS
<1> DEFINE R(r) == /\ DOMAIN r = PortNames
                   /\ \A p \in PortNames : r[p] \subseteq Bits[p]
<1>a. R(port) /\ R(ddr) /\ R(pin)
  BY DEF TypeOK
<1>b. \A p \in PortNames : ReadPin(p) \subseteq Bits[p]
  BY <1>a DEF ReadPin
<1>q. ASSUME R(port'), R(ddr'), R(pin'), shown' \in [BoardPins -> BOOLEAN],
             typed' \subseteq {INT0_PIN, INT1_PIN},
             habits' \subseteq {"direction", "portd", "pind"}
      PROVE  TypeOK'
  BY <1>q DEF TypeOK
<1>h. habits \subseteq {"direction", "portd", "pind"} /\ shown \in [BoardPins -> BOOLEAN]
      /\ typed \subseteq {INT0_PIN, INT1_PIN}
  BY DEF TypeOK
<1>1. ASSUME NEW p \in PortNames, NEW value \in SUBSET Bits[p], WritePort(p, value)
      PROVE  TypeOK'
  <2>1. R(port')
    BY <1>1, <1>a, WriteType DEF WritePort
  <2>2. shown' \in [BoardPins -> BOOLEAN]
    BY <1>1, <1>h DEF WritePort, Printed
  <2>3. habits' \subseteq {"direction", "portd", "pind"}
    BY <1>1, <1>h DEF WritePort
  <2>4. UNCHANGED <<ddr, pin, typed>>
    BY <1>1 DEF WritePort
  <2> QED
    BY <1>a, <1>h, <1>q, <2>1, <2>2, <2>3, <2>4
<1>2. ASSUME NEW p \in PortNames, NEW value \in SUBSET Bits[p], WriteDdr(p, value)
      PROVE  TypeOK'
  <2>1. R(ddr')
    BY <1>2, <1>a, WriteType DEF WriteDdr
  <2>2. habits' \subseteq {"direction", "portd", "pind"}
    BY <1>2, <1>h DEF WriteDdr
  <2>3. UNCHANGED <<port, pin, shown, typed>>
    BY <1>2 DEF WriteDdr
  <2> QED
    BY <1>a, <1>h, <1>q, <2>1, <2>2, <2>3
<1>3. ASSUME NEW p \in PortNames, NEW value \in SUBSET Bits[p], WritePin(p, value)
      PROVE  R(pin')
  BY <1>3, <1>a, WriteType DEF WritePin
<1>4. ASSUME NEW p \in PortNames, NEW value \in SUBSET Bits[p], OutPin(p, value)
      PROVE  TypeOK'
  <2>1. R(pin')
    BY <1>3, <1>4 DEF OutPin
  <2>2. habits' \subseteq {"direction", "portd", "pind"}
    BY <1>4, <1>h DEF OutPin
  <2>3. UNCHANGED <<port, ddr, shown, typed>>
    BY <1>4 DEF OutPin
  <2> QED
    BY <1>a, <1>h, <1>q, <2>1, <2>2, <2>3
<1>5. ASSUME NEW p \in PortNames, NEW bit \in Bits[p], NEW isSet \in {0, 1},
             ChangePin(p, bit, isSet)
      PROVE  TypeOK'
  <2>1. SetBit(ReadPin(p), bit, isSet) \in SUBSET Bits[p]
    BY <1>b, SetBitType
  <2>2. R(pin')
    BY <1>3, <1>5, <2>1 DEF ChangePin
  <2>3. habits' \subseteq {"direction", "portd", "pind"}
    BY <1>5, <1>h DEF ChangePin
  <2>4. UNCHANGED <<port, ddr, shown, typed>>
    BY <1>5 DEF ChangePin
  <2> QED
    BY <1>a, <1>h, <1>q, <2>2, <2>3, <2>4
<1>6. ASSUME NEW bit \in {INT0_PIN, INT1_PIN}, NEW highOrLow \in {0, 1},
             WriteToPin(bit, highOrLow)
      PROVE  TypeOK'
  <2>0. "D" \in PortNames /\ bit \in Bits["D"]
    BY BitsAssumption DEF PortNames
  <2>1. SetBit(ReadPin("D"), bit, highOrLow) \in SUBSET Bits["D"]
    BY <1>b, <2>0, SetBitType
  <2>2. R(pin')
    BY <1>3, <1>6, <2>0, <2>1 DEF WriteToPin
  <2>3. typed' \subseteq {INT0_PIN, INT1_PIN}
    BY <1>6, <1>h DEF WriteToPin, SetBit
  <2>4. UNCHANGED <<port, ddr, shown, habits>>
    BY <1>6 DEF WriteToPin
  <2> QED
    BY <1>a, <1>h, <1>q, <2>2, <2>3, <2>4
<1>7. CASE UNCHANGED vars
  BY <1>7, <1>a, <1>h, <1>q DEF vars
<1> QED
  BY <1>1, <1>2, <1>4, <1>5, <1>6, <1>7 DEF Next, Program, Event

(* Whatever the program and the console do, registers and printed levels   *)
(* keep their types: the handlers of register.h and eventhandler.h set     *)
(* only bits that their ports have.                                        *)
THEOREM TypeCorrect == Spec => []TypeOK
BY InitTypeOK, StepTypeOK, PTL DEF Spec

-----------------------------------------------------------------------------
LEMMA InitShown == Init => ShownIsDriven
<1> SUFFICES ASSUME Init, NEW p \in PortNames, NEW b \in Bits[p]
             PROVE  shown[PinNumber[p][b]] <=> b \in HighPins(p)
  BY DEF ShownIsDriven
<1>1. HighPins(p) = {}
  BY DEF HighPins, Init, Registers
<1>2. PinNumber[p][b] \in BoardPins
  <2>1. b \in DOMAIN PinNumber[p]
    BY BitsAssumption
  <2> QED
    BY <2>1, SMTT(30) DEF PinNumber, BoardPins, PortNames
<1> QED
  BY <1>1, <1>2 DEF Init

LEMMA OnBoard ==
    ASSUME NEW p \in PortNames, NEW b \in Bits[p]
    PROVE  b \in DOMAIN PinNumber[p] /\ PinNumber[p][b] \in BoardPins
<1>1. b \in DOMAIN PinNumber[p]
  BY BitsAssumption
<1> QED
  BY <1>1, SMTT(30) DEF PinNumber, BoardPins, PortNames

LEMMA StepShown == TypeOK /\ ShownIsDriven /\ [Next]_vars => ShownIsDriven'
<1> SUFFICES ASSUME TypeOK, ShownIsDriven, [Next]_vars PROVE ShownIsDriven'
  OBVIOUS
<1>1. ASSUME NEW p \in PortNames, NEW value \in SUBSET Bits[p], WritePort(p, value)
      PROVE  ShownIsDriven'
  <2> SUFFICES ASSUME "direction" \notin habits, NEW q \in PortNames, NEW c \in Bits[q]
               PROVE  shown'[PinNumber[q][c]] <=> c \in port'[q] \cap ddr'[q]
    BY <1>1 DEF ShownIsDriven, WritePort, HighPins
  <2> DEFINE old == HighPins(p)
             new == value \cap ddr[p]
             n   == PinNumber[q][c]
  <2>1. n \in BoardPins /\ c \in DOMAIN PinNumber[q]
    BY OnBoard
  <2>2. shown' = Printed(p, old, new) /\ ddr' = ddr /\ port' = [port EXCEPT ![p] = value]
    BY <1>1 DEF WritePort
  <2>3. old \subseteq Bits[p] /\ new \subseteq Bits[p]
    BY DEF TypeOK, HighPins
  <2>4. \A b \in old \cup new : PinNumber[p][b] = n <=> p = q /\ b = c
    BY <2>1, <2>3, OnBoard, OnePinPerBit
  <2>5. shown'[n] = IF \E b \in (old \ new) \cup (new \ old) : PinNumber[p][b] = n
                    THEN \E b \in new : PinNumber[p][b] = n ELSE shown[n]
    BY <2>1, <2>2 DEF Printed
  <2>6. shown[n] <=> c \in HighPins(q)
    BY DEF ShownIsDriven
  <2>7. CASE p = q
    <3>1. port'[q] \cap ddr'[q] = new
      BY <2>2, <2>7 DEF TypeOK
    <3>2. (\E b \in (old \ new) \cup (new \ old) : PinNumber[p][b] = n)
            <=> c \in (old \ new) \cup (new \ old)
      BY <2>4, <2>7
    <3>3. (\E b \in new : PinNumber[p][b] = n) <=> c \in new
      BY <2>4, <2>7
    <3>4. c \in old <=> shown[n]
      BY <2>6, <2>7
    <3>5. shown'[n] <=> c \in new
      <4> HIDE DEF new, old, n
      <4> QED
        BY <2>5, <3>2, <3>3, <3>4
    <3> QED
      BY <3>1, <3>5
  <2>8. CASE p # q
    <3>1. port'[q] \cap ddr'[q] = HighPins(q)
      BY <2>2, <2>8 DEF TypeOK, HighPins
    <3>2. ~ \E b \in (old \ new) \cup (new \ old) : PinNumber[p][b] = n
      BY <2>4, <2>8
    <3>3. shown'[n] = shown[n]
      <4> HIDE DEF new, old, n
      <4> QED
        BY <2>5, <3>2
    <3> QED
      BY <2>6, <3>1, <3>3
  <2> QED
    BY <2>7, <2>8
<1>2. ASSUME NEW p \in PortNames, NEW value \in SUBSET Bits[p], WriteDdr(p, value)
      PROVE  ShownIsDriven'
  <2> SUFFICES ASSUME "direction" \notin habits', NEW q \in PortNames, NEW c \in Bits[q]
               PROVE  shown[PinNumber[q][c]] <=> c \in port[q] \cap ddr'[q]
    BY <1>2 DEF ShownIsDriven, WriteDdr, HighPins
  <2>1. "direction" \notin habits /\ value \cap port[p] = HighPins(p)
    BY <1>2 DEF WriteDdr
  <2>2. shown[PinNumber[q][c]] <=> c \in HighPins(q)
    BY <2>1 DEF ShownIsDriven
  <2>3. port[q] \cap ddr'[q] = HighPins(q)
    BY <1>2, <2>1 DEF WriteDdr, HighPins, TypeOK
  <2> QED
    BY <2>2, <2>3
<1>3. ASSUME UNCHANGED <<port, ddr, shown>>, habits \subseteq habits'
      PROVE  ShownIsDriven'
  BY <1>3 DEF ShownIsDriven, HighPins
<1>4. ASSUME NEW p \in PortNames, NEW value \in SUBSET Bits[p], OutPin(p, value)
      PROVE  ShownIsDriven'
  BY <1>3, <1>4 DEF OutPin
<1>5. ASSUME NEW p \in PortNames, NEW bit \in Bits[p], NEW isSet \in {0, 1},
             ChangePin(p, bit, isSet)
      PROVE  ShownIsDriven'
  BY <1>3, <1>5 DEF ChangePin
<1>6. ASSUME NEW bit \in {INT0_PIN, INT1_PIN}, NEW highOrLow \in {0, 1},
             WriteToPin(bit, highOrLow)
      PROVE  ShownIsDriven'
  BY <1>3, <1>6 DEF WriteToPin
<1>7. CASE UNCHANGED vars
  BY <1>3, <1>7 DEF vars
<1> QED
  BY <1>1, <1>2, <1>4, <1>5, <1>6, <1>7 DEF Next, Program, Event

(* Whatever is written to the ports, in any order, the last line printed   *)
(* by per_digitalPinOut for a pin tells its level, as long as the          *)
(* direction of a bit changes only while its bit of PORT is 0.             *)
THEOREM LastLineTellsLevel == Spec => []ShownIsDriven
<1>1. Init => TypeOK /\ ShownIsDriven
  BY InitTypeOK, InitShown
<1>2. TypeOK /\ ShownIsDriven /\ [Next]_vars => (TypeOK /\ ShownIsDriven)'
  BY StepTypeOK, StepShown
<1> QED
  BY <1>1, <1>2, PTL DEF Spec

-----------------------------------------------------------------------------
(* Where the typed level is kept: in PIND alone, PORTD is 0.               *)
TypedInPind ==
    habits \cap {"portd", "pind"} = {} => port["D"] = {} /\ pin["D"] = typed

LEMMA InitTyped == Init => TypedInPind
BY DEF Init, TypedInPind, Registers, PortNames

LEMMA StepTyped == TypeOK /\ TypedInPind /\ [Next]_vars => TypedInPind'
<1> SUFFICES ASSUME TypeOK, TypedInPind, [Next]_vars,
                    habits' \cap {"portd", "pind"} = {}
             PROVE  port'["D"] = {} /\ pin'["D"] = typed'
  BY DEF TypedInPind
<1>0. DOMAIN port = PortNames /\ DOMAIN pin = PortNames /\ "D" \in PortNames
  BY DEF TypeOK, PortNames
<1>1. ASSUME NEW p \in PortNames, NEW value \in SUBSET Bits[p], WritePort(p, value)
      PROVE  port'["D"] = {} /\ pin'["D"] = typed'
  BY <1>0, <1>1 DEF WritePort, TypedInPind
<1>2. ASSUME NEW p \in PortNames, NEW value \in SUBSET Bits[p], WriteDdr(p, value)
      PROVE  port'["D"] = {} /\ pin'["D"] = typed'
  BY <1>2 DEF WriteDdr, TypedInPind
<1>3. ASSUME NEW p \in PortNames, NEW value \in SUBSET Bits[p], OutPin(p, value)
      PROVE  port'["D"] = {} /\ pin'["D"] = typed'
  BY <1>0, <1>3 DEF OutPin, WritePin, TypedInPind
<1>4. ASSUME NEW p \in PortNames, NEW bit \in Bits[p], NEW isSet \in {0, 1},
             ChangePin(p, bit, isSet)
      PROVE  port'["D"] = {} /\ pin'["D"] = typed'
  BY <1>0, <1>4 DEF ChangePin, WritePin, TypedInPind
<1>5. ASSUME NEW bit \in {INT0_PIN, INT1_PIN}, NEW highOrLow \in {0, 1},
             WriteToPin(bit, highOrLow)
      PROVE  port'["D"] = {} /\ pin'["D"] = typed'
  <2>1. port["D"] = {} /\ ReadPin("D") = typed
    BY <1>5 DEF WriteToPin, TypedInPind, ReadPin
  <2> QED
    BY <1>0, <1>5, <2>1 DEF WriteToPin, WritePin
<1>6. CASE UNCHANGED vars
  BY <1>6 DEF vars, TypedInPind
<1> QED
  BY <1>1, <1>2, <1>3, <1>4, <1>5, <1>6 DEF Next, Program, Event

(* A program that leaves PORTD and PIND alone reads on the two pins of the *)
(* console what was typed last, for every choice of bits.                  *)
THEOREM ConsolePinsAreTyped == Spec => []InputIsTyped
<1>1. Init => TypeOK /\ TypedInPind
  BY InitTypeOK, InitTyped
<1>2. TypeOK /\ TypedInPind /\ [Next]_vars => (TypeOK /\ TypedInPind)'
  BY StepTypeOK, StepTyped
<1>3. TypedInPind => InputIsTyped
  BY DEF TypedInPind, InputIsTyped, ReadPin
<1> QED
  BY <1>1, <1>2, <1>3, PTL DEF Spec
=============================================================================
