----------------------------- MODULE Alu_proofs -----------------------------
(***************************************************************************)
(* Proofs about Alu for every width of a byte and every length of a chain. *)
(* Each instruction gets one fact about integers (SumCarries, ...) and one *)
(* about the chain (BeginExact, ExtendExact); the invariants put them      *)
(* together, one step per instruction.                                     *)
(***************************************************************************)
EXTENDS Alu, TLAPS

(* A byte has an even number of values. *)
LEMMA ByteFacts == BYTE \in Nat /\ BYTE > 0 /\ NIBBLE \in Nat /\ \E h \in Nat : BYTE = 2 * h
  BY WidthAssumption, SMT

(* The two ways a result leaves the byte: by one carry or by one borrow.   *)
LEMMA WrapUp ==
  ASSUME NEW i \in Nat, i < BYTE + BYTE
  PROVE  /\ Wrap(i) \in Byte
         /\ Wrap(i) = IF i < BYTE THEN i ELSE i - BYTE
  BY ByteFacts, SMT DEF Wrap, Byte

LEMMA WrapDown ==
  ASSUME NEW i \in Int, -BYTE <= i, i < BYTE
  PROVE  /\ Wrap(i) \in Byte
         /\ Wrap(i) = IF i >= 0 THEN i ELSE i + BYTE
  BY ByteFacts, SMT DEF Wrap, Byte

LEMMA FlagIsBit == ASSUME NEW p PROVE Flag(p) \in 0 .. 1
  BY DEF Flag

-----------------------------------------------------------------------------
(* The carry of add and adc is what does not fit into the byte. *)
LEMMA SumCarries ==
  ASSUME NEW x \in Byte, NEW y \in Byte, NEW c \in 0 .. 1
  PROVE  LET r == Wrap(x + y + c)
         IN  /\ r \in Byte
             /\ x + y + c = r + Flag(CarryOfSum(x, y, r)) * BYTE
<1>1. PICK h \in Nat : BYTE = 2 * h
  BY ByteFacts
<1>2. /\ x + y + c \in Nat
      /\ x + y + c < BYTE + BYTE
  BY ByteFacts, SMT DEF Byte
<1>3. /\ Wrap(x + y + c) \in Byte
      /\ Wrap(x + y + c) = IF x + y + c < BYTE THEN x + y + c ELSE (x + y + c) - BYTE
  BY <1>2, WrapUp
<1>4. CarryOfSum(x, y, Wrap(x + y + c)) <=> x + y + c >= BYTE
  <2>1. CASE x + y + c < BYTE
    BY <1>1, <1>3, <2>1, SMT DEF Byte, CarryOfSum, Bit7
  <2>2. CASE x + y + c >= BYTE
    BY <1>1, <1>3, <2>2, SMT DEF Byte, CarryOfSum, Bit7
  <2> QED
    BY <1>1, <2>1, <2>2, SMT DEF Byte
<1>5. CASE x + y + c < BYTE
  <2>1. Flag(CarryOfSum(x, y, Wrap(x + y + c))) = 0
    BY <1>1, <1>4, <1>5, SMT DEF Byte, Flag
  <2> QED
    BY <1>1, <1>3, <1>5, <2>1, SMT DEF Byte
<1>6. CASE x + y + c >= BYTE
  <2>1. Flag(CarryOfSum(x, y, Wrap(x + y + c))) = 1
    BY <1>4, <1>6 DEF Flag
  <2> QED
    BY <1>1, <1>3, <1>6, <2>1, SMT DEF Byte
<1> QED
  BY <1>1, <1>2, <1>3, <1>5, <1>6, SMT DEF Byte

(* The carry of subi and sbci is what had to be borrowed. *)
LEMMA DifferenceBorrows ==
  ASSUME NEW x \in Byte, NEW k \in Byte, NEW c \in 0 .. 1
  PROVE  LET r == Wrap(x - k - c)
         IN  /\ r \in Byte
             /\ x - k - c = r - Flag(BorrowOfDifference(x, k, c)) * BYTE
<1>1. /\ x - k - c \in Int
      /\ -BYTE <= x - k - c
      /\ x - k - c < BYTE
  BY ByteFacts, SMT DEF Byte
<1>2. /\ Wrap(x - k - c) \in Byte
      /\ Wrap(x - k - c) = IF x - k - c >= 0 THEN x - k - c ELSE x - k - c + BYTE
  BY <1>1, WrapDown
<1> QED
  BY <1>2, ByteFacts, SMT DEF Byte, Flag, BorrowOfDifference

(* N xor V is the sign of the sum ... *)
LEMMA SumSign ==
  ASSUME NEW x \in Byte, NEW y \in Byte, NEW c \in 0 .. 1
  PROVE  LET r == Wrap(x + y + c)
         IN  Flag(Bit7(r)) # Flag(OverflowOfSum(x, y, r)) <=> Signed(x) + Signed(y) + c < 0
<1>1. PICK h \in Nat : BYTE = 2 * h
  BY ByteFacts
<1>2. /\ x + y + c \in Nat
      /\ x + y + c < BYTE + BYTE
  BY ByteFacts, SMT DEF Byte
<1>3. Wrap(x + y + c) = IF x + y + c < BYTE THEN x + y + c ELSE (x + y + c) - BYTE
  BY <1>2, WrapUp
<1> QED
  BY <1>1, <1>3, SMT DEF Byte, Flag, OverflowOfSum, Bit7, Signed

(* ... and of the difference. *)
LEMMA DifferenceSign ==
  ASSUME NEW x \in Byte, NEW k \in Byte, NEW c \in 0 .. 1
  PROVE  LET r == Wrap(x - k - c)
         IN  Flag(Bit7(r)) # Flag(OverflowOfDifference(x, k, r)) <=> Signed(x) - Signed(k) - c < 0
<1>1. PICK h \in Nat : BYTE = 2 * h
  BY ByteFacts
<1>2. /\ x - k - c \in Int
      /\ -BYTE <= x - k - c
      /\ x - k - c < BYTE
  BY ByteFacts, SMT DEF Byte
<1>3. Wrap(x - k - c) = IF x - k - c >= 0 THEN x - k - c ELSE x - k - c + BYTE
  BY <1>2, WrapDown
<1> QED
  BY <1>1, <1>3, SMT DEF Byte, Flag, OverflowOfDifference, Bit7, Signed

-----------------------------------------------------------------------------
(* What a chain says when C and Z are c and z. *)
Chain == [kind : {"none", "sum", "difference"}, weight : Nat, exact : Int,
          got : Nat, whole : BOOLEAN]

ExactFor(ch, c) ==
    /\ ch.weight > 0
    /\ ch.got < ch.weight
    /\ ch.kind = "sum" => ch.exact = ch.got + c * ch.weight
    /\ ch.kind = "difference" => ch.exact = ch.got - c * ch.weight

ZeroFor(ch, z) == ch.kind = "difference" /\ ch.whole => (z = 1 <=> ch.got = 0)

AluInv == TypeOK /\ ExactFor(chain, sreg.C) /\ ZeroFor(chain, sreg.Z)

(* The first byte of a number ... *)
LEMMA BeginExact ==
  ASSUME NEW kind \in {"sum", "difference"}, NEW exact \in Int, NEW r \in Byte, NEW c \in 0 .. 1,
         kind = "sum" => exact = r + c * BYTE,
         kind = "difference" => exact = r - c * BYTE,
         Begin(kind, exact, r)
  PROVE  /\ chain' \in Chain
         /\ ExactFor(chain', c)
         /\ \A z : (kind = "difference" => (z = 1 <=> r = 0)) => ZeroFor(chain', z)
  BY ByteFacts, SMT DEF Begin, Chain, ExactFor, ZeroFor, Byte

(* ... and the next one: its carry weighs as much as the whole number.     *)
LEMMA NextWeight ==
  ASSUME NEW w \in Nat, w > 0
  PROVE  w * BYTE \in Nat /\ w * BYTE > 0
  BY ByteFacts, SMT

LEMMA NextBelowWeight ==
  ASSUME NEW w \in Nat, NEW g \in Nat, NEW r \in Byte, g < w
  PROVE  /\ g + r * w \in Nat
         /\ g + r * w < w * BYTE
         /\ g + r * w = 0 <=> g = 0 /\ r = 0
<1>1. BYTE \in Nat /\ r \in Nat /\ r < BYTE
  BY ByteFacts, SMT DEF Byte
<1>2. r * w \in Nat /\ (r * w = 0 <=> r = 0)
  BY <1>1, SMT
<1>3. g + r * w < w * BYTE
  BY <1>1, SMT
<1> QED
  BY <1>2, <1>3, SMT

LEMMA ExtendExact ==
  ASSUME AluInv,
         NEW kind \in {"sum", "difference"}, NEW s \in Int, NEW r \in Byte, NEW d \in 0 .. 1,
         kind = "sum" => s + sreg.C = r + d * BYTE,
         kind = "difference" => s - sreg.C = r - d * BYTE,
         Extend(kind, s, r)
  PROVE  /\ chain' \in Chain
         /\ ExactFor(chain', d)
         /\ ZeroFor(chain', IF r # 0 THEN 0 ELSE sreg.Z)
         /\ kind = "sum" => \A z : ZeroFor(chain', z)
<1> DEFINE w == chain.weight
           g == chain.got
           e == chain.exact
           c == sreg.C
<1>1. /\ w \in Nat /\ w > 0 /\ g \in Nat /\ g < w /\ e \in Int /\ c \in 0 .. 1
      /\ chain \in Chain /\ sreg.Z \in 0 .. 1
  BY DEF AluInv, TypeOK, Chain, Flags, ExactFor
<1>2. CASE chain.kind = kind /\ chain.weight < MaxWeight
  <2>1. chain' = [chain EXCEPT !.weight = w * BYTE, !.exact = e + s * w, !.got = g + r * w]
    BY <1>2 DEF Extend
  <2>2. /\ chain'.weight = w * BYTE /\ chain'.exact = e + s * w /\ chain'.got = g + r * w
        /\ chain'.kind = chain.kind /\ chain'.whole = chain.whole
    BY <1>1, <2>1 DEF Chain
  <2>3. w * BYTE \in Nat /\ w * BYTE > 0
    BY <1>1, NextWeight
  <2>4. /\ g + r * w \in Nat
        /\ g + r * w < w * BYTE
        /\ g + r * w = 0 <=> g = 0 /\ r = 0
    BY <1>1, NextBelowWeight
  <2>5. e + s * w \in Int
    BY <1>1, SMT
  <2>6. chain' \in Chain
    BY <1>1, <2>1, <2>3, <2>4, <2>5 DEF Chain
  <2>7. BYTE \in Int /\ r \in Int /\ d \in Int /\ c \in Int /\ w \in Int /\ g \in Int
    BY <1>1, ByteFacts, SMT DEF Byte
  <2>8. kind = "sum" => chain'.exact = chain'.got + d * chain'.weight
    <3>1. SUFFICES ASSUME kind = "sum"
                   PROVE  e + s * w = (g + r * w) + d * (w * BYTE)
      BY <2>2
    <3>2. e = g + c * w
      BY <1>2, <3>1 DEF AluInv, ExactFor
    <3>3. s + c = r + d * BYTE
      BY <3>1
    <3>4. s = (r + d * BYTE) - c
      BY <1>1, <2>7, <3>3, SMT
    <3> HIDE DEF w, g, e, c
    <3> QED
      BY <1>1, <2>7, <3>2, <3>4, SMT
  <2>9. kind = "difference" => chain'.exact = chain'.got - d * chain'.weight
    <3>1. SUFFICES ASSUME kind = "difference"
                   PROVE  e + s * w = (g + r * w) - d * (w * BYTE)
      BY <2>2
    <3>2. e = g - c * w
      BY <1>2, <3>1 DEF AluInv, ExactFor
    <3>3. s - c = r - d * BYTE
      BY <3>1
    <3>4. s = (r - d * BYTE) + c
      BY <1>1, <2>7, <3>3, SMT
    <3> HIDE DEF w, g, e, c
    <3> QED
      BY <1>1, <2>7, <3>2, <3>4, SMT
  <2>10. ExactFor(chain', d)
    BY <1>2, <2>2, <2>3, <2>4, <2>8, <2>9 DEF ExactFor
  <2>11. ZeroFor(chain', IF r # 0 THEN 0 ELSE sreg.Z)
    BY <1>1, <2>2, <2>4, SMT DEF ZeroFor, AluInv
  <2> QED
    BY <1>2, <2>2, <2>6, <2>10, <2>11 DEF ZeroFor
<1>3. CASE ~(chain.kind = kind /\ chain.weight < MaxWeight)
  <2>1. chain' = NoChain
    BY <1>3 DEF Extend
  <2> QED
    BY <2>1, SMT DEF NoChain, Chain, ExactFor, ZeroFor
<1> QED
  BY <1>2, <1>3

LEMMA DisturbExact ==
  ASSUME AluInv, Disturb
  PROVE  /\ chain' \in Chain
         /\ ExactFor(chain', sreg.C)
         /\ \A z : ZeroFor(chain', z)
<1>1. chain \in Chain
  BY DEF AluInv, TypeOK, Chain
<1>2. /\ chain' \in Chain /\ ~chain'.whole
      /\ chain'.kind = chain.kind /\ chain'.weight = chain.weight
      /\ chain'.exact = chain.exact /\ chain'.got = chain.got
  BY <1>1 DEF Disturb, Chain
<1> QED
  BY <1>2 DEF AluInv, ExactFor, ZeroFor

-----------------------------------------------------------------------------
(* What the flags are after a sum, a difference, and the other results.    *)
LEMMA SumFlagsHold ==
  ASSUME TypeOK, NEW x, NEW y, NEW r
  PROVE  /\ SumFlags(x, y, r) \in Flags
         /\ SumFlags(x, y, r).C = Flag(CarryOfSum(x, y, r))
         /\ SumFlags(x, y, r).N = Flag(Bit7(r))
         /\ SumFlags(x, y, r).V = Flag(OverflowOfSum(x, y, r))
  BY FlagIsBit DEF SumFlags, Flags, SignBit

LEMMA DifferenceFlagsHold ==
  ASSUME TypeOK, NEW x, NEW k, NEW c, NEW r
  PROVE  /\ DifferenceFlags(x, k, c, r) \in Flags
         /\ DifferenceFlags(x, k, c, r).C = Flag(BorrowOfDifference(x, k, c))
         /\ DifferenceFlags(x, k, c, r).Z = Flag(r = 0)
         /\ DifferenceFlags(x, k, c, r).N = Flag(Bit7(r))
         /\ DifferenceFlags(x, k, c, r).V = Flag(OverflowOfDifference(x, k, r))
  BY FlagIsBit DEF DifferenceFlags, Flags, SignBit

LEMMA ResultFlagsHold ==
  ASSUME TypeOK, NEW r, NEW v, ResultFlags(r, v)
  PROVE  sreg' \in Flags /\ sreg'.C = sreg.C
  BY FlagIsBit DEF ResultFlags, Flags, TypeOK, SignBit

LEMMA KnowType ==
  ASSUME NEW v \in Int, NEW h \in BOOLEAN, Know(v, h)
  PROVE  reference' \in [known : BOOLEAN, negative : BOOLEAN, half : BOOLEAN]
<1>1. (v < 0) \in BOOLEAN
  BY SMT
<1> QED
  BY <1>1 DEF Know

LEMMA KnowOfBytes ==
  ASSUME NEW x \in Byte, NEW y \in Byte, NEW c \in 0 .. 1,
         KnowSum(x, y, c) \/ KnowDifference(x, y, c)
  PROVE  reference' \in [known : BOOLEAN, negative : BOOLEAN, half : BOOLEAN]
<1>1. Signed(x) \in Int /\ Signed(y) \in Int
  BY ByteFacts, SMT DEF Signed, Bit7, Byte
<1>2. CASE KnowSum(x, y, c)
  <2>1. Signed(x) + Signed(y) + c \in Int
    BY <1>1, SMT
  <2>2. (Low(x) + Low(y) + c >= NIBBLE) \in BOOLEAN
    BY SMT
  <2> QED
    BY <1>2, <2>1, <2>2, KnowType DEF KnowSum
<1>3. CASE KnowDifference(x, y, c)
  <2>1. Signed(x) - Signed(y) - c \in Int
    BY <1>1, SMT
  <2>2. (Low(x) < Low(y) + c) \in BOOLEAN
    BY SMT
  <2> QED
    BY <1>3, <2>1, <2>2, KnowType DEF KnowDifference
<1> QED
  BY <1>2, <1>3

-----------------------------------------------------------------------------
LEMMA InitHolds == Init => AluInv
  BY SMT DEF Init, AluInv, TypeOK, Flags, NoChain, Unknown, ExactFor, ZeroFor

(* One step for each instruction. *)
LEMMA StepKeeps == AluInv /\ [Next]_vars => AluInv'
<1> SUFFICES ASSUME AluInv, [Next]_vars
             PROVE  AluInv'
  OBVIOUS
<1> DEFINE References == [known : BOOLEAN, negative : BOOLEAN, half : BOOLEAN]
<1>1. TypeOK /\ sreg.C \in 0 .. 1 /\ sreg.Z \in 0 .. 1 /\ Unknown \in References
  BY DEF AluInv, TypeOK, Flags, Unknown
<1>2. ASSUME sreg' \in Flags, chain' \in Chain, reference' \in References,
             ExactFor(chain', sreg'.C), ZeroFor(chain', sreg'.Z)
      PROVE  AluInv'
  BY <1>2 DEF AluInv, TypeOK, Chain, ExactFor, ZeroFor
<1>3. ASSUME NEW x \in Byte, NEW y \in Byte, Add(x, y)
      PROVE  AluInv'
  <2> DEFINE r == Wrap(x + y)
             d == Flag(CarryOfSum(x, y, r))
  <2>1. r \in Byte /\ x + y = r + d * BYTE /\ x + y \in Int /\ d \in 0 .. 1
    <3>1. x + y + 0 = x + y /\ x + y \in Int
      BY ByteFacts, SMT DEF Byte
    <3> QED
      BY <3>1, SumCarries, FlagIsBit
  <2>2. sreg' \in Flags /\ sreg'.C = d
    BY <1>1, <1>3, SumFlagsHold DEF Add
  <2>3. chain' \in Chain /\ ExactFor(chain', d)
    BY <1>3, <2>1, BeginExact DEF Add
  <2>4. ZeroFor(chain', sreg'.Z)
    BY <1>3 DEF Add, Begin, ZeroFor
  <2>5. reference' \in References
    BY <1>3, KnowOfBytes DEF Add
  <2> QED
    BY <1>2, <2>2, <2>3, <2>4, <2>5
<1>4. ASSUME NEW x \in Byte, NEW y \in Byte, Adc(x, y)
      PROVE  AluInv'
  <2> DEFINE r == Wrap(x + y + sreg.C)
             d == Flag(CarryOfSum(x, y, r))
  <2>1. r \in Byte /\ x + y + sreg.C = r + d * BYTE /\ x + y \in Int /\ d \in 0 .. 1
    <3>1. x + y \in Int
      BY ByteFacts, SMT DEF Byte
    <3> QED
      BY <1>1, <3>1, SumCarries, FlagIsBit
  <2>2. sreg' \in Flags /\ sreg'.C = d
    BY <1>1, <1>4, SumFlagsHold DEF Adc
  <2>3. chain' \in Chain /\ ExactFor(chain', d) /\ \A z : ZeroFor(chain', z)
    BY <1>4, <2>1, ExtendExact DEF Adc
  <2>4. reference' \in References
    BY <1>1, <1>4, KnowOfBytes DEF Adc
  <2> QED
    BY <1>2, <2>2, <2>3, <2>4
<1>5. ASSUME NEW x \in Byte, NEW k \in Byte, Subi(x, k)
      PROVE  AluInv'
  <2> DEFINE r == Wrap(x - k)
             d == Flag(BorrowOfDifference(x, k, 0))
  <2>1. r \in Byte /\ x - k = r - d * BYTE /\ x - k \in Int /\ d \in 0 .. 1
    <3>1. x - k - 0 = x - k /\ x - k \in Int
      BY ByteFacts, SMT DEF Byte
    <3> QED
      BY <3>1, DifferenceBorrows, FlagIsBit
  <2>2. sreg' \in Flags /\ sreg'.C = d /\ sreg'.Z = Flag(r = 0)
    BY <1>1, <1>5, DifferenceFlagsHold DEF Subi
  <2>3. sreg'.Z = 1 <=> r = 0
    BY <2>2 DEF Flag
  <2>4. chain' \in Chain /\ ExactFor(chain', d) /\ ZeroFor(chain', sreg'.Z)
    BY <1>5, <2>1, <2>3, BeginExact DEF Subi
  <2>5. reference' \in References
    BY <1>5, KnowOfBytes DEF Subi
  <2> QED
    BY <1>2, <2>2, <2>4, <2>5
<1>6. ASSUME NEW x \in Byte, NEW k \in Byte, Sbci(x, k)
      PROVE  AluInv'
  <2> DEFINE r == Wrap(x - k - sreg.C)
             d == Flag(BorrowOfDifference(x, k, sreg.C))
             f == DifferenceFlags(x, k, sreg.C, r)
  <2>1. r \in Byte /\ x - k - sreg.C = r - d * BYTE /\ x - k \in Int /\ d \in 0 .. 1
    <3>1. x - k \in Int
      BY ByteFacts, SMT DEF Byte
    <3> QED
      BY <1>1, <3>1, DifferenceBorrows, FlagIsBit
  <2>2. f \in Flags /\ f.C = d
    BY <1>1, DifferenceFlagsHold
  <2>3. sreg' = [f EXCEPT !.Z = IF r # 0 THEN 0 ELSE sreg.Z]
    BY <1>6 DEF Sbci
  <2>4. sreg' \in Flags /\ sreg'.C = d /\ sreg'.Z = IF r # 0 THEN 0 ELSE sreg.Z
    <3> HIDE DEF f, d, r
    <3> QED
      BY <1>1, <2>2, <2>3 DEF Flags
  <2>5. chain' \in Chain /\ ExactFor(chain', d) /\ ZeroFor(chain', sreg'.Z)
    BY <1>6, <2>1, <2>4, ExtendExact DEF Sbci
  <2>6. reference' \in References
    BY <1>1, <1>6, KnowOfBytes DEF Sbci
  <2> QED
    BY <1>2, <2>4, <2>5, <2>6
<1>7. ASSUME NEW x \in Byte, NEW y \in Byte, Cp(x, y)
      PROVE  AluInv'
  <2> DEFINE r == Wrap(x - y)
             d == Flag(BorrowOfDifference(x, y, 0))
             f == DifferenceFlags(x, y, 0, r)
  <2>1. r \in Byte /\ x - y = r - d * BYTE /\ x - y \in Int /\ d \in 0 .. 1
    <3>1. x - y - 0 = x - y /\ x - y \in Int
      BY ByteFacts, SMT DEF Byte
    <3> QED
      BY <3>1, DifferenceBorrows, FlagIsBit
  <2>2. f \in Flags /\ f.C = d /\ f.Z = Flag(r = 0)
    BY <1>1, DifferenceFlagsHold
  <2>3. sreg' = [f EXCEPT !.H = Flag(HalfOfCompare(x, y, r)), !.V = Flag(OverflowOfCompare(x, y, r))]
    BY <1>7 DEF Cp
  <2>4. sreg' \in Flags /\ sreg'.C = d /\ sreg'.Z = Flag(r = 0)
    <3>1. Flag(HalfOfCompare(x, y, r)) \in 0 .. 1 /\ Flag(OverflowOfCompare(x, y, r)) \in 0 .. 1
      BY FlagIsBit
    <3> HIDE DEF f, d, r
    <3> QED
      BY <2>2, <2>3, <3>1 DEF Flags
  <2>5. sreg'.Z = 1 <=> r = 0
    BY <2>4 DEF Flag
  <2>6. chain' \in Chain /\ ExactFor(chain', d) /\ ZeroFor(chain', sreg'.Z)
    BY <1>7, <2>1, <2>5, BeginExact DEF Cp
  <2>7. reference' \in References
    BY <1>1, <1>7 DEF Cp
  <2> QED
    BY <1>2, <2>4, <2>6, <2>7
<1>8. ASSUME Disturb, reference' = Unknown, sreg' \in Flags, sreg'.C = sreg.C
      PROVE  AluInv'
  BY <1>1, <1>2, <1>8, DisturbExact
<1>9. ASSUME NEW x \in Byte, Dec(x)
      PROVE  AluInv'
  BY <1>1, <1>8, <1>9, ResultFlagsHold DEF Dec
<1>10. ASSUME NEW r \in Byte, Logic(r)
       PROVE  AluInv'
  BY <1>1, <1>8, <1>10, ResultFlagsHold DEF Logic
<1>11. ASSUME Clr
       PROVE  AluInv'
  <2>1. sreg \in Flags /\ 0 \in 0 .. 1 /\ 1 \in 0 .. 1
    BY <1>1, SMT DEF TypeOK
  <2>2. sreg' = [sreg EXCEPT !.Z = 1, !.N = 0, !.V = 0, !.S = 0]
    BY <1>11 DEF Clr
  <2>3. sreg' \in Flags /\ sreg'.C = sreg.C
    BY <2>1, <2>2, Zenon DEF Flags
  <2> QED
    BY <1>8, <1>11, <2>3 DEF Clr
<1>12. ASSUME NEW w \in 0 .. BYTE * BYTE - 1, NEW k \in 0 .. NIBBLE - 1, Sbiw(w, k)
       PROVE  AluInv'
  <2>1. sreg' \in Flags /\ sreg'.C = sreg.C
    BY <1>1, <1>12, FlagIsBit DEF Sbiw, TypeOK, Flags
  <2> QED
    BY <1>8, <1>12, <2>1 DEF Sbiw
<1>13. ASSUME OutSreg
       PROVE  AluInv'
  <2>1. chain' = NoChain /\ sreg' \in Flags /\ reference' = Unknown
    BY <1>13 DEF OutSreg
  <2>2. NoChain \in Chain /\ ExactFor(NoChain, sreg'.C) /\ ZeroFor(NoChain, sreg'.Z)
    BY SMT DEF NoChain, Chain, ExactFor, ZeroFor
  <2> QED
    BY <1>1, <1>2, <2>1, <2>2
<1>14. CASE UNCHANGED vars
  BY <1>14 DEF vars, AluInv, TypeOK, ExactFor, ZeroFor
<1> QED
  BY <1>3, <1>4, <1>5, <1>6, <1>7, <1>9, <1>10, <1>11, <1>12, <1>13, <1>14 DEF Next

(* For every width of a byte and every program, flags and chain keep their *)
(* types.                                                                  *)
THEOREM TypeCorrect == Spec => []TypeOK
<1>1. AluInv => TypeOK
  BY DEF AluInv
<1> QED
  BY <1>1, InitHolds, StepKeeps, PTL DEF Spec

(* For every width of a byte and every program, add and the adc after it,  *)
(* and subi and the sbci after it, compute the sum and the difference of   *)
(* numbers of any length, whatever runs in between without touching C.     *)
THEOREM ChainsAreExact == Spec => []CarryChainExact
<1>1. AluInv => CarryChainExact
  BY DEF AluInv, ExactFor, CarryChainExact
<1> QED
  BY <1>1, InitHolds, StepKeeps, PTL DEF Spec

(* For every width of a byte, Z after subi or cp and the sbci after it     *)
(* tells whether the whole difference is zero.                             *)
THEOREM ZeroIsWhole == Spec => []ZeroOfWholeDifference
<1>1. AluInv => ZeroOfWholeDifference
  BY DEF AluInv, ZeroFor, ZeroOfWholeDifference
<1> QED
  BY <1>1, InitHolds, StepKeeps, PTL DEF Spec

-----------------------------------------------------------------------------
(* N xor V is settled by the last instruction alone. *)
LEMMA SignInit == Init => SignedTests
  BY DEF Init, SignedTests, Unknown

LEMMA SignStep == AluInv /\ SignedTests /\ [Next]_vars => SignedTests'
<1> SUFFICES ASSUME AluInv, SignedTests, [Next]_vars
             PROVE  SignedTests'
  OBVIOUS
<1>1. TypeOK /\ sreg.C \in 0 .. 1 /\ 0 \in 0 .. 1
  BY SMT DEF AluInv, TypeOK, Flags
<1>2. ASSUME NEW v, NEW h, Know(v, h), sreg'.N # sreg'.V <=> v < 0
      PROVE  SignedTests'
  BY <1>2 DEF Know, SignedTests
<1>3. ASSUME reference' = Unknown
      PROVE  SignedTests'
  BY <1>3 DEF Unknown, SignedTests
<1>4. ASSUME NEW x \in Byte, NEW y \in Byte, Add(x, y)
      PROVE  SignedTests'
  <2>1. x + y + 0 = x + y
    BY ByteFacts, SMT DEF Byte
  <2>2. sreg'.N # sreg'.V <=> Signed(x) + Signed(y) + 0 < 0
    BY <1>1, <1>4, <2>1, SumSign, SumFlagsHold DEF Add
  <2> QED
    BY <1>2, <1>4, <2>2 DEF Add, KnowSum
<1>5. ASSUME NEW x \in Byte, NEW y \in Byte, Adc(x, y)
      PROVE  SignedTests'
  <2>1. sreg'.N # sreg'.V <=> Signed(x) + Signed(y) + sreg.C < 0
    BY <1>1, <1>5, SumSign, SumFlagsHold DEF Adc
  <2> QED
    BY <1>2, <1>5, <2>1 DEF Adc, KnowSum
<1>6. ASSUME NEW x \in Byte, NEW k \in Byte, Subi(x, k)
      PROVE  SignedTests'
  <2>1. x - k - 0 = x - k
    BY ByteFacts, SMT DEF Byte
  <2>2. sreg'.N # sreg'.V <=> Signed(x) - Signed(k) - 0 < 0
    BY <1>1, <1>6, <2>1, DifferenceSign, DifferenceFlagsHold DEF Subi
  <2> QED
    BY <1>2, <1>6, <2>2 DEF Subi, KnowDifference
<1>7. ASSUME NEW x \in Byte, NEW k \in Byte, Sbci(x, k)
      PROVE  SignedTests'
  <2> DEFINE r == Wrap(x - k - sreg.C)
             f == DifferenceFlags(x, k, sreg.C, r)
  <2>1. /\ f \in Flags
        /\ f.N # f.V <=> Signed(x) - Signed(k) - sreg.C < 0
    BY <1>1, DifferenceSign, DifferenceFlagsHold
  <2>2. sreg' = [f EXCEPT !.Z = IF r # 0 THEN 0 ELSE sreg.Z]
    BY <1>7 DEF Sbci
  <2>3. sreg'.N = f.N /\ sreg'.V = f.V
    <3> HIDE DEF f, r
    <3> QED
      BY <2>1, <2>2 DEF Flags
  <2> QED
    BY <1>2, <1>7, <2>1, <2>3 DEF Sbci, KnowDifference
<1>8. ASSUME Clr \/ OutSreg
      PROVE  SignedTests'
  BY <1>3, <1>8 DEF Clr, OutSreg
<1>9. CASE UNCHANGED vars
  BY <1>9 DEF vars, SignedTests
<1> QED
  BY <1>3, <1>4, <1>5, <1>6, <1>7, <1>8, <1>9 DEF Next, Cp, Dec, Logic, Sbiw

(* For every width of a byte, N xor V after add, adc, subi and sbci is the *)
(* sign of the sum or difference in two's complement.                      *)
THEOREM SignedTestsHold == Spec => []SignedTests
  BY InitHolds, StepKeeps, SignInit, SignStep, PTL DEF Spec

-----------------------------------------------------------------------------
(* H is settled by the last instruction alone, too.  A byte is a number of *)
(* nibbles and what is left of it.                                         *)
LEMMA Division ==
  ASSUME NEW n \in Nat \ {0}, NEW x \in Int
  PROVE  x \div n \in Int /\ x % n \in 0 .. n - 1 /\ x = n * (x \div n) + (x % n)
BY SMT

LEMMA Quotient ==
  ASSUME NEW n \in Nat \ {0}, NEW x \in Nat
  PROVE  x % n \in 0 .. n - 1 /\ \E i \in Nat : x = n * i + (x % n)
<1>1. x \div n \in Nat
  BY SMT
<1>2. x \in Int
  BY SMT
<1>3. x % n \in 0 .. n - 1 /\ x = n * (x \div n) + (x % n)
  BY <1>2, Division
<1> DEFINE q == x \div n
<1> HIDE DEF q
<1>4. q \in Nat /\ x = n * q + (x % n)
  BY <1>1, <1>3 DEF q
<1> QED
  BY <1>3, <1>4

LEMMA RemainderIs ==
  ASSUME NEW n \in Nat \ {0}, NEW q \in Int, NEW l \in 0 .. n - 1
  PROVE  (n * q + l) % n = l
<1> DEFINE v == n * q + l
           p == v \div n
           m == v % n
<1>1. v \in Int /\ l \in Int
  BY SMT
<1>2. p \in Int /\ m \in 0 .. n - 1 /\ v = n * p + m
  BY <1>1, Division
<1> HIDE DEF v, p, m
<1>3. m \in Int
  BY <1>2, SMT
<1>4. n * q + l = n * p + m
  BY <1>2 DEF v
<1>5. n * (q - p) = m - l /\ m - l < n /\ l - m < n
  BY <1>1, <1>2, <1>3, <1>4, SMT
<1>6. CASE q - p >= 1
  BY <1>1, <1>2, <1>3, <1>5, <1>6, SMT
<1>7. CASE p - q >= 1
  BY <1>1, <1>2, <1>3, <1>5, <1>7, SMT
<1>8. CASE p = q
  BY <1>1, <1>2, <1>3, <1>4, <1>8, SMT DEF v, m
<1> QED
  BY <1>1, <1>2, <1>6, <1>7, <1>8, SMT

LEMMA NibbleFacts ==
  /\ NIBBLE \in Nat \ {0}
  /\ \E h \in Nat : NIBBLE = 2 * h
  /\ \E m \in Nat : BYTE = NIBBLE * m
<1>1. NIBBLE \in Nat \ {0} /\ BYTE \in Nat /\ NIBBLE % 2 = 0 /\ BYTE % NIBBLE = 0
  BY WidthAssumption
<1>2. NIBBLE \in Nat /\ 2 \in Nat \ {0}
  BY <1>1
<1>3. ASSUME NEW n \in Nat, NEW q \in Nat PROVE n * q + 0 = n * q
  <2>1. n * q \in Int
    BY SMT
  <2> DEFINE t == n * q
  <2> HIDE DEF t
  <2>2. t \in Int
    BY <2>1 DEF t
  <2>3. t + 0 = t
    BY <2>2, SMT
  <2> QED
    BY <2>3 DEF t
<1>4. PICK h \in Nat : NIBBLE = 2 * h + (NIBBLE % 2)
  BY <1>2, Quotient
<1>5. PICK m \in Nat : BYTE = NIBBLE * m + (BYTE % NIBBLE)
  BY <1>1, Quotient
<1>6. NIBBLE = 2 * h /\ BYTE = NIBBLE * m
  BY <1>1, <1>2, <1>3, <1>4, <1>5
<1> QED
  BY <1>1, <1>6

LEMMA NibbleOf ==
  ASSUME NEW x \in Byte
  PROVE  /\ Low(x) \in 0 .. NIBBLE - 1
         /\ \E a \in Nat : x = NIBBLE * a + Low(x)
<1>1. x \in Nat
  BY ByteFacts, SMT DEF Byte
<1> QED
  BY <1>1, NibbleFacts, Quotient DEF Low

(* What the low nibbles of a sum and a difference are. *)
LEMMA LowOf ==
  ASSUME NEW v \in Int, NEW q \in Int, NEW l \in 0 .. NIBBLE - 1, v = NIBBLE * q + l
  PROVE  Low(v) = l
BY NibbleFacts, RemainderIs DEF Low

LEMMA SumLow ==
  ASSUME NEW x \in Byte, NEW y \in Byte, NEW c \in 0 .. 1
  PROVE  LET s == Low(x) + Low(y) + c
         IN  Low(Wrap(x + y + c)) = IF s < NIBBLE THEN s ELSE s - NIBBLE
<1> DEFINE r == Wrap(x + y + c)
           d == Flag(CarryOfSum(x, y, r))
           lx == Low(x)
           ly == Low(y)
           s == lx + ly + c
<1>1. PICK m \in Nat : BYTE = NIBBLE * m
  BY NibbleFacts
<1>2. PICK a \in Nat : x = NIBBLE * a + lx
  BY NibbleOf
<1>3. PICK b \in Nat : y = NIBBLE * b + ly
  BY NibbleOf
<1>4. lx \in 0 .. NIBBLE - 1 /\ ly \in 0 .. NIBBLE - 1 /\ NIBBLE \in Nat \ {0}
  BY NibbleOf, NibbleFacts
<1>5. r \in Byte /\ x + y + c = r + d * BYTE /\ d \in 0 .. 1
  BY SumCarries, FlagIsBit
<1>6. r \in Int /\ x \in Int /\ y \in Int
  BY <1>5, ByteFacts, SMT DEF Byte
<1> DEFINE k == a + b - d * m
<1> HIDE DEF r, d, lx, ly
<1>7. k \in Int /\ s \in Int /\ r = NIBBLE * k + s
  BY <1>1, <1>2, <1>3, <1>4, <1>5, <1>6, SMT
<1>8. CASE s < NIBBLE
  <2>1. s \in 0 .. NIBBLE - 1
    BY <1>4, <1>8, SMT
  <2>2. Low(r) = s
    BY <1>6, <1>7, <2>1, LowOf
  <2> QED
    BY <1>8, <2>2 DEF r, lx, ly
<1>9. CASE ~(s < NIBBLE)
  <2>1. s - NIBBLE \in 0 .. NIBBLE - 1
    BY <1>4, <1>9, SMT
  <2> HIDE DEF k, s
  <2>2. k + 1 \in Int /\ r = NIBBLE * (k + 1) + (s - NIBBLE)
    BY <1>4, <1>6, <1>7, SMT
  <2>3. Low(r) = s - NIBBLE
    BY <1>6, <2>1, <2>2, LowOf
  <2> QED
    BY <1>9, <2>3 DEF r, lx, ly, s
<1> QED
  BY <1>8, <1>9

LEMMA DifferenceLow ==
  ASSUME NEW x \in Byte, NEW y \in Byte, NEW c \in 0 .. 1
  PROVE  LET s == Low(x) - Low(y) - c
         IN  Low(Wrap(x - y - c)) = IF s >= 0 THEN s ELSE s + NIBBLE
<1> DEFINE r == Wrap(x - y - c)
           d == Flag(BorrowOfDifference(x, y, c))
           lx == Low(x)
           ly == Low(y)
           s == lx - ly - c
<1>1. PICK m \in Nat : BYTE = NIBBLE * m
  BY NibbleFacts
<1>2. PICK a \in Nat : x = NIBBLE * a + lx
  BY NibbleOf
<1>3. PICK b \in Nat : y = NIBBLE * b + ly
  BY NibbleOf
<1>4. lx \in 0 .. NIBBLE - 1 /\ ly \in 0 .. NIBBLE - 1 /\ NIBBLE \in Nat \ {0}
  BY NibbleOf, NibbleFacts
<1>5. r \in Byte /\ x - y - c = r - d * BYTE /\ d \in 0 .. 1
  BY DifferenceBorrows, FlagIsBit
<1>6. r \in Int /\ x \in Int /\ y \in Int
  BY <1>5, ByteFacts, SMT DEF Byte
<1> DEFINE k == a - b + (d * m)
<1> HIDE DEF r, d, lx, ly
<1>7. k \in Int /\ s \in Int /\ r = NIBBLE * k + s
  BY <1>1, <1>2, <1>3, <1>4, <1>5, <1>6, SMT
<1>8. CASE s >= 0
  <2>1. s \in 0 .. NIBBLE - 1
    BY <1>4, <1>8, SMT
  <2>2. Low(r) = s
    BY <1>6, <1>7, <2>1, LowOf
  <2> QED
    BY <1>8, <2>2 DEF r, lx, ly
<1>9. CASE ~(s >= 0)
  <2>1. s + NIBBLE \in 0 .. NIBBLE - 1
    BY <1>4, <1>9, SMT
  <2> HIDE DEF k, s
  <2>2. k - 1 \in Int /\ r = NIBBLE * (k - 1) + (s + NIBBLE)
    BY <1>4, <1>6, <1>7, SMT
  <2>3. Low(r) = s + NIBBLE
    BY <1>6, <2>1, <2>2, LowOf
  <2> QED
    BY <1>9, <2>3 DEF r, lx, ly, s
<1> QED
  BY <1>8, <1>9

(* The formula for H of add and adc is the carry of the nibbles ... *)
LEMMA SumHalf ==
  ASSUME NEW x \in Byte, NEW y \in Byte, NEW c \in 0 .. 1
  PROVE  HalfOfSum(x, y, Wrap(x + y + c)) <=> Low(x) + Low(y) + c >= NIBBLE
<1> DEFINE lx == Low(x)
           ly == Low(y)
           lr == Low(Wrap(x + y + c))
<1>1. PICK h \in Nat : NIBBLE = 2 * h
  BY NibbleFacts
<1>2. lx \in 0 .. NIBBLE - 1 /\ ly \in 0 .. NIBBLE - 1
  BY NibbleOf
<1>3. lr = IF lx + ly + c < NIBBLE THEN lx + ly + c ELSE (lx + ly + c) - NIBBLE
  BY SumLow
<1>4. HalfOfSum(x, y, Wrap(x + y + c))
        <=> \/ 2 * lx >= NIBBLE /\ 2 * ly >= NIBBLE
            \/ 2 * ly >= NIBBLE /\ ~(2 * lr >= NIBBLE)
            \/ ~(2 * lr >= NIBBLE) /\ 2 * lx >= NIBBLE
  BY DEF HalfOfSum, Bit3
<1> HIDE DEF lx, ly, lr
<1>5. (\/ 2 * lx >= NIBBLE /\ 2 * ly >= NIBBLE
       \/ 2 * ly >= NIBBLE /\ ~(2 * lr >= NIBBLE)
       \/ ~(2 * lr >= NIBBLE) /\ 2 * lx >= NIBBLE)
        <=> lx + ly + c >= NIBBLE
  BY <1>1, <1>2, <1>3, SMT
<1> QED
  BY <1>4, <1>5 DEF lx, ly

(* ... and that of subi and sbci the borrow.                               *)
LEMMA DifferenceHalf ==
  ASSUME NEW x \in Byte, NEW y \in Byte, NEW c \in 0 .. 1
  PROVE  HalfOfDifference(x, y, Wrap(x - y - c)) <=> Low(x) < Low(y) + c
<1> DEFINE lx == Low(x)
           ly == Low(y)
           lr == Low(Wrap(x - y - c))
<1>1. PICK h \in Nat : NIBBLE = 2 * h
  BY NibbleFacts
<1>2. lx \in 0 .. NIBBLE - 1 /\ ly \in 0 .. NIBBLE - 1
  BY NibbleOf
<1>3. lr = IF lx - ly - c >= 0 THEN lx - ly - c ELSE (lx - ly - c) + NIBBLE
  BY DifferenceLow
<1>4. HalfOfDifference(x, y, Wrap(x - y - c))
        <=> \/ ~(2 * lx >= NIBBLE) /\ 2 * ly >= NIBBLE
            \/ 2 * ly >= NIBBLE /\ 2 * lr >= NIBBLE
            \/ 2 * lr >= NIBBLE /\ ~(2 * lx >= NIBBLE)
  BY DEF HalfOfDifference, Bit3
<1> HIDE DEF lx, ly, lr
<1>5. (\/ ~(2 * lx >= NIBBLE) /\ 2 * ly >= NIBBLE
       \/ 2 * ly >= NIBBLE /\ 2 * lr >= NIBBLE
       \/ 2 * lr >= NIBBLE /\ ~(2 * lx >= NIBBLE))
        <=> lx < ly + c
  BY <1>1, <1>2, <1>3, SMT
<1> QED
  BY <1>4, <1>5 DEF lx, ly

LEMMA HalfInit == Init => HalfCarryOfNibbles
  BY DEF Init, HalfCarryOfNibbles, Unknown

LEMMA HalfStep == AluInv /\ HalfCarryOfNibbles /\ [Next]_vars => HalfCarryOfNibbles'
<1> SUFFICES ASSUME AluInv, HalfCarryOfNibbles, [Next]_vars
             PROVE  HalfCarryOfNibbles'
  OBVIOUS
<1>1. TypeOK /\ sreg.C \in 0 .. 1 /\ 0 \in 0 .. 1
  BY SMT DEF AluInv, TypeOK, Flags
<1>2. ASSUME sreg'.H = 1 <=> reference'.half
      PROVE  HalfCarryOfNibbles'
  BY <1>2 DEF HalfCarryOfNibbles
<1>3. ASSUME reference' = Unknown
      PROVE  HalfCarryOfNibbles'
  BY <1>3 DEF Unknown, HalfCarryOfNibbles
<1>4. ASSUME NEW x \in Byte, NEW y \in Byte, Add(x, y)
      PROVE  HalfCarryOfNibbles'
  <2>1. x + y + 0 = x + y
    BY ByteFacts, SMT DEF Byte
  <2>2. HalfOfSum(x, y, Wrap(x + y)) <=> Low(x) + Low(y) + 0 >= NIBBLE
    BY <1>1, <2>1, SumHalf
  <2>3. sreg'.H = Flag(HalfOfSum(x, y, Wrap(x + y)))
    BY <1>4 DEF Add, SumFlags
  <2>4. sreg'.H = 1 <=> HalfOfSum(x, y, Wrap(x + y))
    BY <2>3 DEF Flag
  <2>5. reference'.half = (Low(x) + Low(y) + 0 >= NIBBLE)
    BY <1>4 DEF Add, KnowSum, Know
  <2> QED
    BY <1>2, <2>2, <2>4, <2>5
<1>5. ASSUME NEW x \in Byte, NEW y \in Byte, Adc(x, y)
      PROVE  HalfCarryOfNibbles'
  <2> DEFINE r == Wrap(x + y + sreg.C)
  <2>1. HalfOfSum(x, y, r) <=> Low(x) + Low(y) + sreg.C >= NIBBLE
    BY <1>1, SumHalf
  <2>2. sreg'.H = Flag(HalfOfSum(x, y, r))
    BY <1>5 DEF Adc, SumFlags
  <2>3. sreg'.H = 1 <=> HalfOfSum(x, y, r)
    BY <2>2 DEF Flag
  <2>4. reference'.half = (Low(x) + Low(y) + sreg.C >= NIBBLE)
    BY <1>5 DEF Adc, KnowSum, Know
  <2> QED
    BY <1>2, <2>1, <2>3, <2>4
<1>6. ASSUME NEW x \in Byte, NEW k \in Byte, Subi(x, k)
      PROVE  HalfCarryOfNibbles'
  <2>1. x - k - 0 = x - k
    BY ByteFacts, SMT DEF Byte
  <2>2. HalfOfDifference(x, k, Wrap(x - k)) <=> Low(x) < Low(k) + 0
    BY <1>1, <2>1, DifferenceHalf
  <2>3. sreg'.H = Flag(HalfOfDifference(x, k, Wrap(x - k)))
    BY <1>6 DEF Subi, DifferenceFlags
  <2>4. sreg'.H = 1 <=> HalfOfDifference(x, k, Wrap(x - k))
    BY <2>3 DEF Flag
  <2>5. reference'.half = (Low(x) < Low(k) + 0)
    BY <1>6 DEF Subi, KnowDifference, Know
  <2> QED
    BY <1>2, <2>2, <2>4, <2>5
<1>7. ASSUME NEW x \in Byte, NEW k \in Byte, Sbci(x, k)
      PROVE  HalfCarryOfNibbles'
  <2> DEFINE r == Wrap(x - k - sreg.C)
             f == DifferenceFlags(x, k, sreg.C, r)
  <2>1. HalfOfDifference(x, k, r) <=> Low(x) < Low(k) + sreg.C
    BY <1>1, DifferenceHalf
  <2>2. f \in Flags /\ f.H = Flag(HalfOfDifference(x, k, r))
    BY <1>1, DifferenceFlagsHold DEF DifferenceFlags
  <2>3. sreg' = [f EXCEPT !.Z = IF r # 0 THEN 0 ELSE sreg.Z]
    BY <1>7 DEF Sbci
  <2>4. sreg'.H = Flag(HalfOfDifference(x, k, r))
    <3> HIDE DEF f, r
    <3> QED
      BY <2>2, <2>3 DEF Flags
  <2>5. sreg'.H = 1 <=> HalfOfDifference(x, k, r)
    BY <2>4 DEF Flag
  <2>6. reference'.half = (Low(x) < Low(k) + sreg.C)
    BY <1>7 DEF Sbci, KnowDifference, Know
  <2> QED
    BY <1>2, <2>1, <2>5, <2>6
<1>8. ASSUME Clr \/ OutSreg
      PROVE  HalfCarryOfNibbles'
  BY <1>3, <1>8 DEF Clr, OutSreg
<1>9. CASE UNCHANGED vars
  BY <1>9 DEF vars, HalfCarryOfNibbles
<1> QED
  BY <1>3, <1>4, <1>5, <1>6, <1>7, <1>8, <1>9 DEF Next, Cp, Dec, Logic, Sbiw

(* For every width of a byte and of the nibble that H is about, H after    *)
(* add, adc, subi and sbci is the carry or borrow of the low nibbles.      *)
THEOREM HalfCarryHolds == Spec => []HalfCarryOfNibbles
  BY InitHolds, StepKeeps, HalfInit, HalfStep, PTL DEF Spec
=============================================================================
