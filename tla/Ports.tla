------------------------------- MODULE Ports -------------------------------
(***************************************************************************)
(* The digital ports of register.h.  A port has a data register PORT, a    *)
(* data direction register DDR and a register PIN of its inputs.  A write  *)
(* to PORT prints the output pins that it changes; the console's events    *)
(* and the program change the bits of PIN, which is read together with     *)
(* PORT.  A register is the set of the bits that are 1.  The interrupts    *)
(* that the same writes request are in Interrupts.                         *)
(***************************************************************************)
EXTENDS Integers

CONSTANT Bits    \* the bits of each port, Bits["B"], Bits["C"] and Bits["D"]

PortNames == {"B", "C", "D"}

BoardPins == 1 .. 28

(* The pin of the board that the writes of register.h print for a bit.     *)
PinNumber ==
    [B |-> [b \in 0 .. 7 |->
               CASE b = 7 -> 10 [] b = 6 -> 9 [] b = 5 -> 19 [] b = 3 -> 18
                 [] b = 2 -> 17 [] b = 4 -> 16 [] b = 1 -> 15 [] OTHER -> 14],
     C |-> [b \in 0 .. 6 |->
               CASE b = 6 -> 1 [] b = 5 -> 28 [] b = 3 -> 27 [] b = 2 -> 26
                 [] b = 4 -> 25 [] b = 1 -> 24 [] OTHER -> 22],
     D |-> [b \in 0 .. 7 |->
               CASE b = 7 -> 13 [] b = 6 -> 12 [] b = 5 -> 11 [] b = 3 -> 6
                 [] b = 2 -> 5 [] b = 4 -> 4 [] b = 1 -> 3 [] OTHER -> 2]]

(* PIND2_PIN_4 and PIND3_PIN_5 *)
INT0_PIN == 2
INT1_PIN == 3

ASSUME BitsAssumption ==
    /\ \A p \in PortNames : Bits[p] \subseteq DOMAIN PinNumber[p]
    /\ {INT0_PIN, INT1_PIN} \subseteq Bits["D"]

VARIABLES
    port,       \* PORTB, PORTC, PORTD
    ddr,        \* DDRB, DDRC, DDRD
    pin,        \* PINB, PINC, PIND
    shown,      \* for each pin of the board, the level printed last
    typed,      \* the bits of PIND that the console has set high
    habits      \* what the program has done that it should not have

vars == <<port, ddr, pin, shown, typed, habits>>

Registers == [p \in PortNames |-> {}]

Init ==
    /\ port = Registers /\ ddr = Registers /\ pin = Registers
    /\ shown = [n \in BoardPins |-> FALSE]
    /\ typed = {}
    /\ habits = {}

(* The bits that drive a pin of the board high. *)
HighPins(p) == port[p] \cap ddr[p]

-----------------------------------------------------------------------------
(* The lines printed for a port that changes its pins from old to new.     *)
Printed(p, old, new) ==
    LET changedPins == (old \ new) \cup (new \ old)
    IN  [n \in BoardPins |->
            IF \E b \in changedPins : PinNumber[p][b] = n
            THEN \E b \in new : PinNumber[p][b] = n
            ELSE shown[n]]

(* A fault the runs must notice: the register is written before its old    *)
(* pins are looked up.                                                     *)
WritePortTooSoon(p, value) ==
    /\ port' = [port EXCEPT ![p] = value]
    /\ shown' = Printed(p, value \cap ddr[p], value \cap ddr[p])
    /\ habits' = habits \cup (IF p = "D" /\ value # {} THEN {"portd"} ELSE {})
    /\ UNCHANGED <<ddr, pin, typed>>

(* _portbWrite0x25, _portcWrite0x28, _portdWrite0x2B. *)
WritePort(p, value) ==
    /\ port' = [port EXCEPT ![p] = value]
    /\ shown' = Printed(p, HighPins(p), value \cap ddr[p])
    /\ habits' = habits \cup (IF p = "D" /\ value # {} THEN {"portd"} ELSE {})
    /\ UNCHANGED <<ddr, pin, typed>>

(* _unconditionalWrite. *)
WriteDdr(p, value) ==
    /\ ddr' = [ddr EXCEPT ![p] = value]
    /\ habits' = habits \cup
          (IF value \cap port[p] # HighPins(p) THEN {"direction"} ELSE {})
    /\ UNCHANGED <<port, pin, shown, typed>>

(* _pinbWrite0x23, _pincWrite0x26, _pindWrite0x29. *)
WritePin(p, value) == pin' = [pin EXCEPT ![p] = value]

(* _pinbRead0x23, _pincRead0x26, _pinbRead0x29. *)
ReadPin(p) == port[p] \cup pin[p]

(* uti_setBit *)
SetBit(byte, bit, isSet) == IF isSet = 1 THEN byte \cup {bit} ELSE byte \ {bit}

(* out and sts, sbi and cbi. *)
OutPin(p, value) ==
    /\ WritePin(p, value)
    /\ habits' = habits \cup (IF p = "D" THEN {"pind"} ELSE {})
    /\ UNCHANGED <<port, ddr, shown, typed>>

ChangePin(p, bit, isSet) ==
    /\ WritePin(p, SetBit(ReadPin(p), bit, isSet))
    /\ habits' = habits \cup (IF p = "D" THEN {"pind"} ELSE {})
    /\ UNCHANGED <<port, ddr, shown, typed>>

(* A fault the runs must notice: both handlers write to the same bit. *)
WriteToPinSamePin(bit, highOrLow) ==
    /\ WritePin("D", SetBit(ReadPin("D"), INT0_PIN, highOrLow))
    /\ typed' = SetBit(typed, bit, highOrLow)
    /\ UNCHANGED <<port, ddr, shown, habits>>

(* eve_writeToInt0Pin and eve_writeToInt1Pin, for the pins typed. *)
WriteToPin(bit, highOrLow) ==
    /\ WritePin("D", SetBit(ReadPin("D"), bit, highOrLow))
    /\ typed' = SetBit(typed, bit, highOrLow)
    /\ UNCHANGED <<port, ddr, shown, habits>>

Program ==
    \E p \in PortNames :
        \/ \E value \in SUBSET Bits[p] :
              WritePort(p, value) \/ WriteDdr(p, value) \/ OutPin(p, value)
        \/ \E bit \in Bits[p], isSet \in {0, 1} : ChangePin(p, bit, isSet)

Event ==
    \E bit \in {INT0_PIN, INT1_PIN}, highOrLow \in {0, 1} : WriteToPin(bit, highOrLow)

Next == Program \/ Event

Spec == Init /\ [][Next]_vars

-----------------------------------------------------------------------------
TypeOK ==
    /\ \A r \in {port, ddr, pin} :
          /\ DOMAIN r = PortNames
          /\ \A p \in PortNames : r[p] \subseteq Bits[p]
    /\ shown \in [BoardPins -> BOOLEAN]
    /\ typed \subseteq {INT0_PIN, INT1_PIN}
    /\ habits \subseteq {"direction", "portd", "pind"}

(* "everytime an output pin changes it's state this function is called":   *)
(* whatever is written to the registers, the last line printed for a pin   *)
(* tells its level, as long as the program sets the direction of a bit     *)
(* only while the bit of PORT is 0.                                        *)
ShownIsDriven ==
    "direction" \notin habits =>
        \A p \in PortNames : \A b \in Bits[p] :
            shown[PinNumber[p][b]] <=> b \in HighPins(p)

(* The program reads on the two pins of the console what was typed last,   *)
(* as long as it leaves PORTD and PIND alone: an event changes its own pin *)
(* and no other.                                                           *)
InputIsTyped ==
    habits \cap {"portd", "pind"} = {} => ReadPin("D") = typed
=============================================================================
