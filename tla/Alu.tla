--------------------------------- MODULE Alu ---------------------------------
(***************************************************************************)
(* The arithmetic of implementation.h: add, adc, subi, sbci, cp, dec,      *)
(* andi, ori, eor and clr, sbiw, and what they do to the flags of SREG.    *)
(*                                                                         *)
(* The program is arbitrary: any instruction may come next, with any bytes *)
(* in its registers, so an action is an instruction with the contents of   *)
(* its operands.  The instructions that touch no flag change nothing here. *)
(* A flag is 0 or 1, as in the casts of the source.                        *)
(*                                                                         *)
(* chain and reference are auxiliary.  chain follows a number of several   *)
(* bytes through add, adc, adc ... or subi, sbci, sbci ... : what integers *)
(* say the sum or the difference is, and what the instructions computed.   *)
(* reference is what integers say of the last such instruction alone.      *)
(***************************************************************************)
EXTENDS Integers

CONSTANTS
    NIBBLE,      \* the number of values of the low half of a byte, 16
    BYTE,        \* the number of values of a byte, 256
    MaxWeight    \* bound: a number is followed while its weight is below this

ASSUME WidthAssumption ==
    /\ NIBBLE \in Nat \ {0} /\ BYTE \in Nat \ {0}
    /\ NIBBLE % 2 = 0 /\ BYTE % 2 = 0 /\ BYTE % NIBBLE = 0
ASSUME WeightAssumption == MaxWeight \in Nat

VARIABLES sreg,        \* reg_sregCarry, Zero, Negative, TwoComplOverflow, SignBit, HalfCarry
          chain,
          reference

vars == <<sreg, chain, reference>>

Byte == 0 .. BYTE - 1
Flags == [C : 0 .. 1, Z : 0 .. 1, N : 0 .. 1, V : 0 .. 1, S : 0 .. 1, H : 0 .. 1]

NoChain == [kind |-> "none", weight |-> 1, exact |-> 0, got |-> 0, whole |-> FALSE]
Unknown == [known |-> FALSE, negative |-> FALSE, half |-> FALSE]

Init ==
    /\ sreg = [C |-> 0, Z |-> 0, N |-> 0, V |-> 0, S |-> 0, H |-> 0]
    /\ chain = NoChain
    /\ reference = Unknown

-----------------------------------------------------------------------------
Flag(p) == IF p THEN 1 ELSE 0

(* The assignment to a uint8_t. *)
Wrap(i) == i % BYTE

Bit7(x) == 2 * x >= BYTE
Low(x)  == x % NIBBLE
Bit3(x) == 2 * Low(x) >= NIBBLE

(* "S = N xor V" is computed before N and V are assigned. *)
SignBit == Flag(sreg.N # sreg.V)

(* The flags of add and adc for the operands x and y and the result r.     *)
CarryOfSum(x, y, r) ==
    \/ Bit7(x) /\ Bit7(y)
    \/ Bit7(y) /\ ~Bit7(r)
    \/ ~Bit7(r) /\ Bit7(x)
HalfOfSum(x, y, r) ==
    \/ Bit3(x) /\ Bit3(y)
    \/ Bit3(y) /\ ~Bit3(r)
    \/ ~Bit3(r) /\ Bit3(x)
OverflowOfSum(x, y, r) ==
    \/ Bit7(x) /\ Bit7(y) /\ ~Bit7(r)
    \/ ~Bit7(x) /\ ~Bit7(y) /\ Bit7(r)

SumFlags(x, y, r) ==
    [C |-> Flag(CarryOfSum(x, y, r)), Z |-> Flag(r = 0), N |-> Flag(Bit7(r)),
     V |-> Flag(OverflowOfSum(x, y, r)), S |-> SignBit, H |-> Flag(HalfOfSum(x, y, r))]

(* Faults the runs must notice: the formulas that cp has for H and V.      *)
HalfOfCompare(x, k, r) ==
    \/ ~Bit3(x) /\ Bit3(k)
    \/ Bit3(k) /\ Bit3(r)
    \/ Bit3(r) /\ Bit3(x)
OverflowOfCompare(x, k, r) ==
    \/ Bit7(x) /\ ~Bit7(k) /\ Bit7(r)
    \/ ~Bit7(x) /\ ~Bit7(k) /\ Bit7(r)

(* The flags of subi and sbci, which subtract k and the carry c.           *)
BorrowOfDifference(x, k, c) == k + c > x
HalfOfDifference(x, k, r) ==
    \/ ~Bit3(x) /\ Bit3(k)
    \/ Bit3(k) /\ Bit3(r)
    \/ Bit3(r) /\ ~Bit3(x)
OverflowOfDifference(x, k, r) ==
    \/ Bit7(x) /\ ~Bit7(k) /\ ~Bit7(r)
    \/ ~Bit7(x) /\ Bit7(k) /\ Bit7(r)

DifferenceFlags(x, k, c, r) ==
    [C |-> Flag(BorrowOfDifference(x, k, c)), Z |-> Flag(r = 0), N |-> Flag(Bit7(r)),
     V |-> Flag(OverflowOfDifference(x, k, r)), S |-> SignBit,
     H |-> Flag(HalfOfDifference(x, k, r))]

-----------------------------------------------------------------------------
(* The auxiliary variables.                                                *)

Begin(kind, exact, r) ==
    chain' = [kind |-> kind, weight |-> BYTE, exact |-> exact, got |-> r, whole |-> TRUE]

Extend(kind, exact, r) ==
    chain' = IF chain.kind = kind /\ chain.weight < MaxWeight
             THEN [chain EXCEPT !.weight = @ * BYTE,
                                !.exact = @ + exact * chain.weight,
                                !.got = @ + r * chain.weight]
             ELSE NoChain

(* Z no longer speaks of the whole number. *)
Disturb == chain' = [chain EXCEPT !.whole = FALSE]

(* A byte as a number in two's complement. *)
Signed(x) == IF Bit7(x) THEN x - BYTE ELSE x

Know(value, half) == reference' = [known |-> TRUE, negative |-> value < 0, half |-> half]
KnowSum(x, y, c) == Know(Signed(x) + Signed(y) + c, Low(x) + Low(y) + c >= NIBBLE)
KnowDifference(x, k, c) == Know(Signed(x) - Signed(k) - c, Low(x) < Low(k) + c)

-----------------------------------------------------------------------------
Add(x, y) ==
    /\ sreg' = SumFlags(x, y, Wrap(x + y))
    /\ Begin("sum", x + y, Wrap(x + y))
    /\ KnowSum(x, y, 0)

Adc(x, y) ==
    LET r == Wrap(x + y + sreg.C)
    IN  /\ sreg' = SumFlags(x, y, r)
        /\ Extend("sum", x + y, r)
        /\ KnowSum(x, y, sreg.C)

Subi(x, k) ==
    /\ sreg' = DifferenceFlags(x, k, 0, Wrap(x - k))
    /\ Begin("difference", x - k, Wrap(x - k))
    /\ KnowDifference(x, k, 0)

(* A fault the runs must notice: Z speaks of the last byte only. *)
SbciSetsZero(x, k) ==
    LET r == Wrap(x - k - sreg.C)
    IN  /\ sreg' = DifferenceFlags(x, k, sreg.C, r)
        /\ Extend("difference", x - k, r)
        /\ KnowDifference(x, k, sreg.C)

(* "Previous value remains unchanged when the result is zero": Z. *)
Sbci(x, k) ==
    LET r == Wrap(x - k - sreg.C)
    IN  /\ sreg' = [DifferenceFlags(x, k, sreg.C, r) EXCEPT !.Z = IF r # 0 THEN 0 ELSE sreg.Z]
        /\ Extend("difference", x - k, r)
        /\ KnowDifference(x, k, sreg.C)

(* cp begins a difference that is stored nowhere; its H and V are not      *)
(* those of a difference.                                                  *)
Cp(x, y) ==
    LET r == Wrap(x - y)
    IN  /\ sreg' = [DifferenceFlags(x, y, 0, r)
                      EXCEPT !.H = Flag(HalfOfCompare(x, y, r)),
                             !.V = Flag(OverflowOfCompare(x, y, r))]
        /\ Begin("difference", x - y, r)
        /\ reference' = Unknown

(* What dec, andi, ori and eor do to the flags for the result r. *)
ResultFlags(r, v) ==
    sreg' = [sreg EXCEPT !.Z = Flag(r = 0), !.N = Flag(Bit7(r)), !.V = Flag(v), !.S = SignBit]

(* A fault the runs must notice: dec counts as a subtraction. *)
DecSetsCarry(x) ==
    /\ sreg' = DifferenceFlags(x, 1, 0, Wrap(x - 1))
    /\ Disturb
    /\ reference' = Unknown

Dec(x) ==
    /\ ResultFlags(Wrap(x - 1), 2 * x = BYTE)
    /\ Disturb
    /\ reference' = Unknown

(* andi, ori, and eor of different bytes: every result can occur. *)
Logic(r) ==
    /\ ResultFlags(r, FALSE)
    /\ Disturb
    /\ reference' = Unknown

(* eor of equal bytes. *)
Clr ==
    /\ sreg' = [sreg EXCEPT !.Z = 1, !.N = 0, !.V = 0, !.S = 0]
    /\ Disturb
    /\ reference' = Unknown

(* A word minus a constant, of which the decoder leaves four bits.         *)
(* rdhBit7 is bit 7 of the word, and what should be C is stored into S.    *)
Sbiw(w, k) ==
    LET r       == (w - k) % (BYTE * BYTE)
        bit15   == 2 * r >= BYTE * BYTE
        rdhBit7 == Bit7(w % BYTE)
    IN  /\ sreg' = [sreg EXCEPT !.Z = Flag(r = 0), !.N = Flag(bit15),
                                !.V = Flag(bit15 /\ ~rdhBit7), !.S = Flag(bit15 /\ rdhBit7)]
        /\ Disturb
        /\ reference' = Unknown

(* out or sts to SREG. *)
OutSreg ==
    /\ sreg' \in Flags
    /\ chain' = NoChain
    /\ reference' = Unknown

Next ==
    \/ \E x, y \in Byte : Add(x, y) \/ Adc(x, y) \/ Subi(x, y) \/ Sbci(x, y) \/ Cp(x, y)
    \/ \E x \in Byte : Dec(x) \/ Logic(x)
    \/ Clr
    \/ \E w \in 0 .. BYTE * BYTE - 1, k \in 0 .. NIBBLE - 1 : Sbiw(w, k)
    \/ OutSreg

Spec == Init /\ [][Next]_vars

-----------------------------------------------------------------------------
TypeOK ==
    /\ sreg \in Flags
    /\ chain \in [kind : {"none", "sum", "difference"}, weight : Nat, exact : Int,
                  got : Nat, whole : BOOLEAN]
    /\ reference \in [known : BOOLEAN, negative : BOOLEAN, half : BOOLEAN]

(* "allowing the DEC instruction to be used on a loop counter in           *)
(* multiple-precision computations": in any program, the bytes that add    *)
(* and the adc after it computed, or subi and the sbci after it, are the   *)
(* sum or the difference of the whole numbers, C being what does not fit.  *)
CarryChainExact ==
    /\ chain.got < chain.weight
    /\ chain.kind = "sum" => chain.exact = chain.got + sreg.C * chain.weight
    /\ chain.kind = "difference" => chain.exact = chain.got - sreg.C * chain.weight

(* Z after a chain of subi and sbci tells whether the whole difference is  *)
(* zero, unless an instruction in between has set Z for a result of its    *)
(* own: brne after it compares the whole numbers.                          *)
ZeroOfWholeDifference ==
    chain.kind = "difference" /\ chain.whole => (sreg.Z = 1 <=> chain.got = 0)

(* "for signed tests": after add, adc, subi and sbci, N xor V is the sign  *)
(* of the sum or difference of the operands in two's complement.           *)
SignedTests == reference.known => (sreg.N # sreg.V <=> reference.negative)

(* "Set if there was a carry from bit 3", "Set if there was a borrow from  *)
(* bit 3": H after add, adc, subi and sbci is that of the low nibbles.     *)
HalfCarryOfNibbles == reference.known => (sreg.H = 1 <=> reference.half)
=============================================================================
