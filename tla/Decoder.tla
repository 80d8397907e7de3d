------------------------------ MODULE Decoder ------------------------------
(***************************************************************************)
(* How a word of the program memory becomes an instruction: the patterns   *)
(* of generator_jump_table.py, which both jump tables are made of, the     *)
(* operands that decoder.h takes out of it, and the words it takes, which  *)
(* the emulator, the skips and the disassembler each know on their own.    *)
(* A pattern is four sets of nibbles, the highest first.                   *)
(***************************************************************************)
EXTENDS Integers, Sequences, FiniteSets

(* Power[i + 1] is 2 to the power of i. *)
Power == <<1, 2, 4, 8, 16, 32, 64, 128, 256, 512, 1024, 2048, 4096, 8192, 16384, 32768, 65536>>

WORD == Power[17]

Words == 0 .. WORD - 1

Any == 0 .. 15

Pattern ==
    [adc    |-> <<{1}, 12 .. 15, Any, Any>>,    add   |-> <<{0}, 12 .. 15, Any, Any>>,
     andi   |-> <<{7}, Any, Any, Any>>,         brne  |-> <<{15}, 4 .. 7, Any, {1, 9}>>,
     call   |-> <<{9}, {4, 5}, Any, {14, 15}>>, cbi   |-> <<{9}, {8}, Any, Any>>,
     cli    |-> <<{9}, {4}, {15}, {8}>>,        cp    |-> <<{1}, 4 .. 7, Any, Any>>,
     dec    |-> <<{9}, {4, 5}, Any, {10}>>,     eorclr |-> <<{2}, 4 .. 7, Any, Any>>,
     in     |-> <<{11}, 0 .. 7, Any, Any>>,     jmp   |-> <<{9}, {4, 5}, Any, {12, 13}>>,
     ldi    |-> <<{14}, Any, Any, Any>>,        lds32 |-> <<{9}, {0, 1}, Any, {0}>>,
     lds16  |-> <<{10}, 0 .. 7, Any, Any>>,     nop   |-> <<{0}, {0}, {0}, {0}>>,
     ori    |-> <<{6}, Any, Any, Any>>,         out   |-> <<{11}, 8 .. 15, Any, Any>>,
     pop    |-> <<{9}, {0, 1}, Any, {15}>>,     push  |-> <<{9}, {2, 3}, Any, {15}>>,
     rcall  |-> <<{13}, Any, Any, Any>>,        ret   |-> <<{9}, {5}, {0}, {8}>>,
     reti   |-> <<{9}, {5}, {1}, {8}>>,         rjmp  |-> <<{12}, Any, Any, Any>>,
     sbci   |-> <<{4}, Any, Any, Any>>,         sbi   |-> <<{9}, {10}, Any, Any>>,
     sbic   |-> <<{9}, {9}, Any, Any>>,         sbis  |-> <<{9}, {11}, Any, Any>>,
     sbiw   |-> <<{9}, {7}, Any, Any>>,         sts   |-> <<{9}, {2, 3}, Any, {0}>>,
     subi   |-> <<{5}, Any, Any, Any>>]

Names == DOMAIN Pattern

(* The bits of w from high to low as a number. *)
Bits(w, high, low) == (w \div Power[low + 1]) % Power[(high - low) + 2]

Bit(w, place) == Bits(w, place, place)

Nibbles(w) == <<Bits(w, 15, 12), Bits(w, 11, 8), Bits(w, 7, 4), Bits(w, 3, 0)>>

(* A fault the runs must notice: only the first half of a word is matched. *)
MatchingFirstByte(w) ==
    LET n == Nibbles(w)
    IN  {name \in Names : \A i \in 1 .. 2 : n[i] \in Pattern[name][i]}

Matching(w) ==
    LET n == Nibbles(w)
    IN  {name \in Names : \A i \in 1 .. 4 : n[i] \in Pattern[name][i]}

(* jti_implementationTable and jtd_disassembleTable *)
Table ==
    [w \in Words |->
        IF Matching(w) = {} THEN "unknown" ELSE CHOOSE name \in Matching(w) : TRUE]

Entry(w) == Table[w]

-----------------------------------------------------------------------------
(* The words that an instruction takes, as the emulator advances, as a     *)
(* skip before it advances and as the disassembler reports.                *)
ExecutedLength(name) == IF name \in {"call", "jmp", "lds32", "sts"} THEN 2 ELSE 1

(* (w & mask) == code *)
Masked(w, mask, code) ==
    \A place \in 0 .. 15 : Bit(code, place) = IF Bit(mask, place) = 1 THEN Bit(w, place) ELSE 0

(* A fault the runs must notice: the mask of jmp keeps a bit of the        *)
(* address.                                                                *)
SkippedLengthOfShortJumps(w) ==
    IF \/ Masked(w, 65038, 37902) \/ Masked(w, 65294, 37900)
       \/ Masked(w, 65039, 36864) \/ Masked(w, 65039, 37376)
    THEN 2 ELSE 1

(* The CODEs and MASKs of sbic and sbis: 1111111000001110, ...1111. *)
SkippedLength(w) ==
    IF \/ Masked(w, 65038, 37902) \/ Masked(w, 65038, 37900)
       \/ Masked(w, 65039, 36864) \/ Masked(w, 65039, 37376)
    THEN 2 ELSE 1

(* A fault the runs must notice: a word that is no instruction has no      *)
(* length.                                                                 *)
ListedLengthsOfKnown(name) ==
    CASE name \in {"lds16", "unknown"} -> {0}
      [] name = "rcall" -> {}
      [] name \in {"call", "jmp", "lds32", "sts"} -> {2}
      [] OTHER -> {1}

(* lds16_disassemble leaves the length 0, rcall_disassemble sets none. *)
ListedLengths(name) ==
    CASE name = "lds16" -> {0}
      [] name = "rcall" -> {}
      [] name \in {"call", "jmp", "lds32", "sts"} -> {2}
      [] OTHER -> {1}

-----------------------------------------------------------------------------
(* The operands, as the instructions and their disassemble functions call  *)
(* decoder.h.  What an instruction does not have is -1.                    *)
FirstRegister(name, w) ==
    CASE name \in {"adc", "add", "cp", "dec", "eorclr", "in", "lds32", "out", "pop",
                   "push", "sts"} -> Bits(w, 8, 4)
      [] name \in {"sbci", "subi"} -> Bits(w, 8, 4) + 16
      [] name \in {"andi", "ldi", "ori"} -> Bits(w, 7, 4) + 16
      [] name = "sbiw" -> Bits(w, 5, 4) * 2 + 24
      [] name = "lds16" -> Bits(w, 7, 4)
      [] OTHER -> -1

(* A fault the runs must notice: bit 9 is not part of the register. *)
SecondRegisterLow(name, w) ==
    IF name \in {"adc", "add", "cp", "eorclr"} THEN Bits(w, 3, 0) ELSE -1

SecondRegister(name, w) ==
    IF name \in {"adc", "add", "cp", "eorclr"} THEN Bit(w, 9) * 16 + Bits(w, 3, 0) ELSE -1

IoAddress(name, w) ==
    CASE name \in {"in", "out"} -> Bits(w, 10, 9) * 16 + Bits(w, 3, 0) + 32
      [] name \in {"cbi", "sbi"} -> Bits(w, 7, 3) + 32
      [] name \in {"sbic", "sbis"} -> Bits(w, 6, 3) + 32
      [] OTHER -> -1

BitNumber(name, w) ==
    IF name \in {"cbi", "sbi", "sbic", "sbis"} THEN Bits(w, 2, 0) ELSE -1

(* Bits(w, 7, 6) | Bits(w, 3, 0): the first two come to lie upon the last. *)
BitsOrBits(w) ==
    LET Either(p, q) == IF Bit(w, p) = 1 THEN 1 ELSE Bit(w, q)
    IN  Bits(w, 3, 2) * 4 + Either(7, 1) * 2 + Either(6, 0)

(* constData, and addressOffset with the sign bit on top. *)
Constant(name, w) ==
    CASE name \in {"andi", "ldi", "ori", "sbci", "subi"} -> Bits(w, 11, 8) * 16 + Bits(w, 3, 0)
      [] name = "sbiw" -> BitsOrBits(w)
      [] name = "brne" -> Bits(w, 9, 3)
      [] name \in {"rjmp", "rcall"} -> Bit(w, 11) * 2048 + Bits(w, 10, 0)
      [] OTHER -> -1

Operands(name, w) ==
    <<FirstRegister(name, w), SecondRegister(name, w), IoAddress(name, w),
      BitNumber(name, w), Constant(name, w)>>

-----------------------------------------------------------------------------
(* The same operands as the comments give them: "0001 11rd dddd rrrr" says *)
(* where the bits d, r, A, b, K or k of a word are, here the lowest first. *)
Letters(name) ==
    CASE name \in {"adc", "add", "cp", "eorclr"} ->
             [d |-> <<4, 5, 6, 7, 8>>, r |-> <<0, 1, 2, 3, 9>>]
      [] name \in {"dec", "lds32", "pop", "push", "sts"} -> [d |-> <<4, 5, 6, 7, 8>>]
      [] name \in {"in", "out"} -> [d |-> <<4, 5, 6, 7, 8>>, a |-> <<0, 1, 2, 3, 9, 10>>]
      [] name \in {"andi", "ldi", "ori", "sbci", "subi"} ->
             [d |-> <<4, 5, 6, 7>>, k |-> <<0, 1, 2, 3, 8, 9, 10, 11>>]
      [] name = "sbiw" -> [d |-> <<4, 5>>, k |-> <<0, 1, 2, 3, 6, 7>>]
      [] name = "lds16" -> [d |-> <<4, 5, 6, 7>>]
      [] name \in {"cbi", "sbi", "sbic", "sbis"} -> [a |-> <<3, 4, 5, 6, 7>>, b |-> <<0, 1, 2>>]
      [] name = "brne" -> [k |-> <<3, 4, 5, 6, 7, 8, 9>>]
      [] name \in {"rjmp", "rcall"} -> [k |-> <<0, 1, 2, 3, 4, 5, 6, 7, 8, 9, 10, 11>>]
      [] OTHER -> [x \in {} |-> <<>>]

(* The bits at the given places, at most twelve, as a number. *)
Gathered(w, places) ==
    LET At(i) == IF i <= Len(places) THEN Bit(w, places[i]) * Power[i] ELSE 0
    IN  At(1) + At(2) + At(3) + At(4) + At(5) + At(6)
            + At(7) + At(8) + At(9) + At(10) + At(11) + At(12)

Meant(name, w, letter) ==
    IF letter \in DOMAIN Letters(name) THEN Gathered(w, Letters(name)[letter]) ELSE -1

(* Four bits are one of the upper sixteen registers, two a pair of them.   *)
MeantRegister(name, w) ==
    LET n == Meant(name, w, "d")
    IN  IF "d" \notin DOMAIN Letters(name) THEN -1
        ELSE CASE Len(Letters(name).d) = 4 -> n + 16
               [] Len(Letters(name).d) = 2 -> n * 2 + 24
               [] OTHER -> n

MeantAddress(name, w) ==
    IF "a" \in DOMAIN Letters(name) THEN Meant(name, w, "a") + 32 ELSE -1

MeantOperands(name, w) ==
    <<MeantRegister(name, w), Meant(name, w, "r"), MeantAddress(name, w),
      Meant(name, w, "b"), Meant(name, w, "k")>>

(* Where the masks of decoder.h are not those of the comments: the fifth   *)
(* bit of an address, a bit of the constant taken for the register, the    *)
(* upper bits of the constant of sbiw, and the registers of lds16.         *)
LosesBits(name, w) ==
    \/ name \in {"sbic", "sbis"} /\ Bit(w, 7) = 1
    \/ name \in {"sbci", "subi"} /\ Bit(w, 8) = 1
    \/ name = "sbiw" /\ Bits(w, 7, 6) # 0
    \/ name = "lds16"
=============================================================================
