--------------------------- MODULE CallStack_proofs ---------------------------
(***************************************************************************)
(* For a byte of any size, a memory of any size and any program that stays *)
(* clear of the two traps, the machine's stack is a stack of bytes: a step *)
(* of CallStack is a step of ByteStack under the mapping of Abstract.      *)
(***************************************************************************)
EXTENDS CallStack, SequenceTheorems, TLAPS

(* The stack pointer stays between the registers and the end of the RAM.   *)
SpInRam == sp \in Nat /\ sp >= PAGE /\ sp <= DATA_MEMORY_END

StackInv == TypeOK /\ SpInRam

(* A short name for the proofs. *)
END == DATA_MEMORY_END

-----------------------------------------------------------------------------
(* Where the stack pointer goes, for the two ways of moving it.            *)

LEMMA SplMoves ==
    ASSUME TypeOK
    PROVE  /\ spl >= 2 /\ SubFromSpl(2) => sp' = sp - 2
           /\ spl + 2 < PAGE /\ AddToSpl(2) => sp' = sp + 2
  BY PageAssumption DEF TypeOK, SubFromSpl, AddToSpl, sp

LEMMA SpMoves ==
    ASSUME TypeOK
    PROVE  /\ IncrementSp => sp' = sp + 1 /\ sph' \in Nat /\ spl' \in 0 .. PAGE - 1
           /\ sp >= PAGE + 1 /\ DecrementSp
                => sp' = sp - 1 /\ sph' \in Nat /\ spl' \in 0 .. PAGE - 1
<1> USE PageAssumption DEF TypeOK
<1>1. ASSUME IncrementSp
      PROVE  sp' = sp + 1 /\ sph' \in Nat /\ spl' \in 0 .. PAGE - 1
  <2>1. CASE spl = PAGE - 1
    <3>1. (sph + 1) * PAGE = sph * PAGE + PAGE
      OBVIOUS
    <3>2. QED
      BY <1>1, <2>1, <3>1 DEF IncrementSp, sp
  <2>2. CASE spl # PAGE - 1
    BY <1>1, <2>2 DEF IncrementSp, sp
  <2>3. QED
    BY <2>1, <2>2
<1>2. ASSUME sp >= PAGE + 1, DecrementSp
      PROVE  sp' = sp - 1 /\ sph' \in Nat /\ spl' \in 0 .. PAGE - 1
  <2>1. CASE spl = 0
    <3>1. sph # 0
      BY <1>2, <2>1 DEF sp
    <3>2. (sph - 1) * PAGE = sph * PAGE - PAGE
      BY <3>1
    <3>3. QED
      BY <1>2, <2>1, <3>1, <3>2 DEF DecrementSp, sp
  <2>2. CASE spl # 0
    BY <1>2, <2>2 DEF DecrementSp, sp
  <2>3. QED
    BY <2>1, <2>2
<1>3. QED
  BY <1>1, <1>2

LEMMA SpIsNat == ASSUME TypeOK PROVE sp \in Nat
  BY PageAssumption DEF TypeOK, sp

-----------------------------------------------------------------------------
(* The bytes on the stack after a step.                                    *)

LEMMA BytesLen ==
    ASSUME StackInv
    PROVE  /\ Bytes \in Seq(Cell)
           /\ Len(Bytes) = END - sp
           /\ \A i \in 1 .. END - sp : Bytes[i] = ram[END + 1 - i]
<1>1. END - sp \in Nat /\ END \in Nat /\ PAGE \in Nat
  BY MemoryAssumption, PageAssumption DEF StackInv, SpInRam, END
<1>2. \A i \in 1 .. END - sp : END + 1 - i \in Ram
  BY <1>1 DEF StackInv, SpInRam, Ram, END
<1>3. Bytes \in [1 .. END - sp -> Cell]
  BY <1>2 DEF Bytes, END, StackInv, TypeOK
<1>4. Bytes \in Seq(Cell) /\ Len(Bytes) = END - sp
  BY <1>1, <1>3
<1>5. \A i \in 1 .. END - sp : Bytes[i] = ram[END + 1 - i]
  BY DEF Bytes, END
<1>6. QED
  BY <1>4, <1>5

(* A push of one byte or of two leaves what was there and adds on top. *)
LEMMA BytesGrow ==
    ASSUME StackInv, StackInv', NEW more \in Seq(Cell),
           sp' = sp - Len(more),
           \A a \in Ram : a > sp => ram'[a] = ram[a],
           \A i \in 1 .. Len(more) : ram'[sp + 1 - i] = more[i]
    PROVE  Bytes' = Bytes \o more
<1> DEFINE n == Len(more)
           k == END - sp
<1>1. n \in Nat /\ k \in Nat /\ END \in Nat /\ sp \in Nat /\ END - sp' = k + n
  BY MemoryAssumption DEF StackInv, SpInRam, END
<1>2. /\ Bytes \in Seq(Cell) /\ Len(Bytes) = k
      /\ \A i \in 1 .. k : Bytes[i] = ram[END + 1 - i]
  BY BytesLen
<1>3. Bytes' = [i \in 1 .. k + n |-> ram'[END + 1 - i]]
  BY <1>1 DEF Bytes, END
<1>4. Bytes \o more = [i \in 1 .. k + n |-> IF i <= k THEN Bytes[i] ELSE more[i - k]]
  <2> DEFINE both == Bytes \o more
  <2>1. /\ both \in Seq(Cell) /\ Len(both) = Len(Bytes) + Len(more)
        /\ \A i \in 1 .. Len(Bytes) + Len(more) :
              both[i] = IF i <= Len(Bytes) THEN Bytes[i] ELSE more[i - Len(Bytes)]
    BY <1>2, ConcatProperties
  <2> HIDE DEF both
  <2>2. Len(both) = k + n /\ both = [i \in 1 .. Len(both) |-> both[i]]
    BY <1>1, <1>2, <2>1
  <2>3. \A i \in 1 .. k + n : both[i] = IF i <= k THEN Bytes[i] ELSE more[i - k]
    BY <1>2, <2>1
  <2>4. both = [i \in 1 .. k + n |-> IF i <= k THEN Bytes[i] ELSE more[i - k]]
    BY <2>2, <2>3
  <2>5. QED
    BY <2>4 DEF both
<1>5. ASSUME NEW i \in 1 .. k + n
      PROVE  ram'[END + 1 - i] = IF i <= k THEN Bytes[i] ELSE more[i - k]
  <2>1. CASE i <= k
    <3>1. END + 1 - i \in Ram /\ END + 1 - i > sp
      BY <1>1, <2>1, PageAssumption DEF StackInv, SpInRam, Ram, END
    <3>2. QED
      BY <1>1, <1>2, <2>1, <3>1
  <2>2. CASE ~(i <= k)
    <3>1. i - k \in 1 .. n /\ sp + 1 - (i - k) = END + 1 - i
      BY <1>1, <2>2
    <3>2. QED
      BY <1>1, <2>2, <3>1
  <2>3. QED
    BY <2>1, <2>2
<1>6. QED
  BY <1>3, <1>4, <1>5

(* A pop of n bytes removes them from the top. *)
LEMMA BytesShrink ==
    ASSUME StackInv, StackInv', NEW n \in 1 .. 2, sp' = sp + n, ram' = ram
    PROVE  /\ Len(Bytes) >= n
           /\ Bytes' = SubSeq(Bytes, 1, Len(Bytes) - n)
           /\ \A i \in 1 .. n : Bytes[Len(Bytes) + 1 - i] = ram[sp + i]
<1> DEFINE k == END - sp
<1>1. /\ k \in Nat /\ k >= n /\ END \in Nat /\ sp \in Nat /\ END - sp' = k - n
  BY MemoryAssumption DEF StackInv, SpInRam, END
<1>2. /\ Bytes \in Seq(Cell) /\ Len(Bytes) = k
      /\ \A i \in 1 .. k : Bytes[i] = ram[END + 1 - i]
  BY BytesLen
<1>3. Bytes' = [i \in 1 .. k - n |-> ram[END + 1 - i]]
  BY <1>1 DEF Bytes, END
<1>4. SubSeq(Bytes, 1, k - n) = [i \in 1 .. k - n |-> Bytes[i]]
  BY <1>1, <1>2
<1>5. \A i \in 1 .. k - n : Bytes[i] = ram[END + 1 - i]
  BY <1>1, <1>2
<1>6. \A i \in 1 .. n : Bytes[k + 1 - i] = ram[sp + i]
  <2> TAKE i \in 1 .. n
  <2>1. k + 1 - i \in 1 .. k /\ END + 1 - (k + 1 - i) = sp + i
    BY <1>1
  <2>2. QED
    BY <1>2, <2>1
<1>7. QED
  BY <1>1, <1>2, <1>3, <1>4, <1>5, <1>6

-----------------------------------------------------------------------------
(* The steps of a program that stays clear of the traps.                   *)

LEMMA CallStep ==
    ASSUME StackInv, NEW w \in Words, spl >= 2, Call(w)
    PROVE  StackInv' /\ Abstract!PushWord(w)
<1> DEFINE more == <<High(w), Low(w)>>
<1>1. sp' = sp - 2 /\ sp \in Nat /\ sp - 1 \in Ram /\ sp \in Ram
  BY SplMoves, PageAssumption, MemoryAssumption DEF Call, Room, StackInv, SpInRam, Ram
<1>2. TypeOK'
  <2>1. Low(w) \in Cell /\ High(w) \in Cell
    BY DEF Cell
  <2>2. ram' \in [Ram -> Cell]
    BY <1>1, <2>1 DEF Call, StackInv, TypeOK
  <2>3. QED
    BY <2>2, PageAssumption DEF Call, SubFromSpl, StackInv, TypeOK
<1>3. StackInv'
  BY <1>1, <1>2, PageAssumption, MemoryAssumption DEF Call, Room, StackInv, SpInRam
<1>4. more \in Seq(Cell) /\ Len(more) = 2 /\ more[1] = High(w) /\ more[2] = Low(w)
  BY DEF Cell
<1>5. /\ \A a \in Ram : a > sp => ram'[a] = ram[a]
      /\ ram'[sp] = High(w) /\ ram'[sp - 1] = Low(w)
  BY <1>1, MemoryAssumption, PageAssumption DEF Call, StackInv, TypeOK, Ram
<1>6. \A i \in 1 .. Len(more) : ram'[sp + 1 - i] = more[i]
  <2> TAKE i \in 1 .. Len(more)
  <2>1. CASE i = 1
    BY <1>1, <1>4, <1>5, <2>1
  <2>2. CASE i = 2
    BY <1>1, <1>4, <1>5, <2>2
  <2>3. QED
    BY <1>4, <2>1, <2>2
<1>7. Bytes' = Bytes \o more
  BY <1>1, <1>3, <1>4, <1>5, <1>6, BytesGrow
<1>8. Len(Bytes) + 2 <= DATA_MEMORY_END - PAGE
  BY BytesLen, PageAssumption, MemoryAssumption DEF Call, Room, StackInv, SpInRam, END
<1>9. fault = 0 /\ UNCHANGED <<got, fault>>
  BY DEF Call
<1>10. QED
  BY <1>3, <1>4, <1>7, <1>8, <1>9
     DEF Abstract!PushWord, Abstract!Grow, Abstract!High, Abstract!Low, High, Low

LEMMA PushStep ==
    ASSUME StackInv, NEW d \in Data, Push(d)
    PROVE  StackInv' /\ Abstract!PushByte(d)
<1> DEFINE more == <<Byte(d)>>
<1>0. sp \in Nat /\ sp >= PAGE + 1 /\ sp \in Ram
  BY PageAssumption, MemoryAssumption DEF Push, Room, StackInv, SpInRam, Ram
<1>1. sp' = sp - 1 /\ sph' \in Nat /\ spl' \in 0 .. PAGE - 1
  BY <1>0, SpMoves DEF Push, StackInv
<1>2. TypeOK'
  BY <1>1 DEF Push, StackInv, TypeOK, Cell
<1>3. StackInv'
  BY <1>0, <1>1, <1>2, PageAssumption, MemoryAssumption DEF StackInv, SpInRam
<1>4. more \in Seq(Cell) /\ Len(more) = 1 /\ more[1] = Byte(d)
  BY DEF Cell
<1>5. (\A a \in Ram : a > sp => ram'[a] = ram[a]) /\ ram'[sp] = Byte(d)
  BY <1>0, MemoryAssumption, PageAssumption DEF Push, StackInv, TypeOK, Ram
<1>6. \A i \in 1 .. Len(more) : ram'[sp + 1 - i] = more[i]
  BY <1>0, <1>4, <1>5
<1>7. Bytes' = Bytes \o more
  BY <1>1, <1>3, <1>4, <1>5, <1>6, BytesGrow
<1>8. Len(Bytes) + 1 <= DATA_MEMORY_END - PAGE
  BY <1>0, BytesLen, PageAssumption, MemoryAssumption DEF StackInv, SpInRam, END
<1>9. fault = 0 /\ UNCHANGED <<got, fault>>
  BY DEF Push
<1>10. QED
  BY <1>3, <1>4, <1>7, <1>8, <1>9
     DEF Abstract!PushByte, Abstract!Grow, Abstract!Byte, Byte

LEMMA RetStep ==
    ASSUME StackInv, spl + 2 < PAGE, Ret
    PROVE  StackInv' /\ Abstract!PopBytes(2)
<1>1. sp' = sp + 2 /\ sp \in Nat /\ ram' = ram
  BY SplMoves DEF Ret, StackInv, SpInRam
<1>2. TypeOK'
  BY PageAssumption DEF Ret, AddToSpl, StackInv, TypeOK
<1>3. StackInv'
  BY <1>1, <1>2, PageAssumption, MemoryAssumption DEF Ret, StackInv, SpInRam
<1>4. /\ Len(Bytes) >= 2 /\ Bytes' = SubSeq(Bytes, 1, Len(Bytes) - 2)
      /\ \A i \in 1 .. 2 : Bytes[Len(Bytes) + 1 - i] = ram[sp + i]
  BY <1>1, <1>3, BytesShrink
<1>5. got' = [i \in 1 .. 2 |-> Bytes[Len(Bytes) + 1 - i]]
  <2>1. got' = <<ram[sp + 1], ram[sp + 2]>>
    BY DEF Ret
  <2>2. <<ram[sp + 1], ram[sp + 2]>> = [i \in 1 .. 2 |-> ram[sp + i]]
    OBVIOUS
  <2>3. QED
    BY <1>4, <2>1, <2>2
<1>6. fault = 0 /\ fault' = fault
  BY DEF Ret
<1>7. QED
  BY <1>3, <1>4, <1>5, <1>6 DEF Abstract!PopBytes

LEMMA PopStep ==
    ASSUME StackInv, Pop
    PROVE  StackInv' /\ Abstract!PopBytes(1)
<1>1. sp' = sp + 1 /\ sph' \in Nat /\ spl' \in 0 .. PAGE - 1 /\ sp \in Nat /\ ram' = ram
  BY SpMoves DEF Pop, StackInv, SpInRam
<1>2. TypeOK'
  BY <1>1 DEF Pop, StackInv, TypeOK
<1>3. StackInv'
  BY <1>1, <1>2, PageAssumption, MemoryAssumption DEF Pop, StackInv, SpInRam
<1>4. /\ Len(Bytes) >= 1 /\ Bytes' = SubSeq(Bytes, 1, Len(Bytes) - 1)
      /\ \A i \in 1 .. 1 : Bytes[Len(Bytes) + 1 - i] = ram[sp + i]
  BY <1>1, <1>3, BytesShrink
<1>5. got' = [i \in 1 .. 1 |-> Bytes[Len(Bytes) + 1 - i]]
  <2>1. got' = <<ram[sp + 1]>>
    BY DEF Pop
  <2>2. <<ram[sp + 1]>> = [i \in 1 .. 1 |-> ram[sp + i]]
    OBVIOUS
  <2>3. QED
    BY <1>4, <2>1, <2>2
<1>6. fault = 0 /\ fault' = fault
  BY DEF Pop
<1>7. QED
  BY <1>3, <1>4, <1>5, <1>6 DEF Abstract!PopBytes

LEMMA FaultStep ==
    ASSUME StackInv, NEW n \in 1 .. 2, Fault(n), n = 1 => sp = DATA_MEMORY_END
    PROVE  StackInv' /\ Abstract!Underflow(n)
<1>1. UNCHANGED <<sph, spl, ram, got, sp, Bytes>> /\ fault = 0 /\ fault' = n
  BY DEF Fault, sp, Bytes
<1>2. StackInv'
  BY <1>1 DEF StackInv, TypeOK, SpInRam
<1>3. Len(Bytes) < n
  BY BytesLen, MemoryAssumption DEF Fault, StackInv, SpInRam, END
<1>4. QED
  BY <1>1, <1>2, <1>3 DEF Abstract!Underflow

LEMMA ClearStep ==
    ASSUME StackInv, [ClearNext]_vars
    PROVE  StackInv' /\ [Abstract!Next]_(Abstract!svars)
<1>1. ASSUME NEW w \in Words, spl >= 2, Call(w)
      PROVE  StackInv' /\ Abstract!Next
  BY <1>1, CallStep DEF Abstract!Next
<1>2. CASE spl + 2 < PAGE /\ Ret
  BY <1>2, RetStep DEF Abstract!Next
<1>3. ASSUME NEW d \in Data, Push(d)
      PROVE  StackInv' /\ Abstract!Next
  BY <1>3, PushStep DEF Abstract!Next
<1>4. CASE Pop
  BY <1>4, PopStep DEF Abstract!Next
<1>5. CASE Fault(2)
  BY <1>5, FaultStep DEF Abstract!Next
<1>6. CASE sp = DATA_MEMORY_END /\ Fault(1)
  BY <1>6, FaultStep DEF Abstract!Next
<1>7. CASE UNCHANGED vars
  BY <1>7 DEF vars, Abstract!svars, Bytes, sp, StackInv, TypeOK, SpInRam
<1>8. QED
  BY <1>1, <1>2, <1>3, <1>4, <1>5, <1>6, <1>7 DEF ClearNext

LEMMA StartsEmpty == Init => StackInv /\ Abstract!Init
<1> SUFFICES ASSUME Init PROVE StackInv /\ Abstract!Init
  OBVIOUS
<1>1. sph \in Nat /\ spl \in 0 .. PAGE - 1 /\ sp = DATA_MEMORY_END
  BY PageAssumption, MemoryAssumption DEF Init, sp
<1>2. StackInv
  BY <1>1, PageAssumption, MemoryAssumption DEF Init, StackInv, TypeOK, SpInRam, Cell
<1>3. Bytes = <<>>
  <2>1. Bytes \in Seq(Cell) /\ Len(Bytes) = 0
    BY <1>1, <1>2, BytesLen, MemoryAssumption DEF END
  <2>2. QED
    BY <2>1
<1>4. QED
  BY <1>2, <1>3 DEF Init, Abstract!Init

(* A program that stays clear of the traps keeps both bytes of the stack   *)
(* pointer and every byte of the RAM within their types.                   *)
THEOREM TypeCorrect == ClearSpec => []TypeOK
<1>1. StackInv /\ [ClearNext]_vars => StackInv'
  BY ClearStep
<1>2. StackInv => TypeOK
  BY DEF StackInv
<1>3. QED
  BY <1>1, <1>2, StartsEmpty, PTL DEF ClearSpec

(* For such a program calls, returns, interrupt entries, pushes and pops   *)
(* in any order are last in, first out.                                    *)
THEOREM StackIsLifo == ClearSpec => ImplementsByteStack
<1>1. StackInv /\ [ClearNext]_vars => StackInv' /\ [Abstract!Next]_(Abstract!svars)
  BY ClearStep
<1>2. QED
  BY <1>1, StartsEmpty, PTL DEF ClearSpec, ImplementsByteStack, Abstract!Spec
=============================================================================
