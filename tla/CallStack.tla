------------------------------ MODULE CallStack ------------------------------
(***************************************************************************)
(* The stack of the machine: the instructions call, rcall, ret, reti, push *)
(* and pop, and the entry of an interrupt routine.  A stack pointer of two *)
(* bytes, SPH and SPL, points at the free byte below the top.  push and    *)
(* pop write both bytes of it; the others go through                       *)
(* cpu_decrementIncrementStackPointer, which adds to SPL alone.            *)
(*                                                                         *)
(* The program is arbitrary, but its stack does not grow into the          *)
(* registers.  A byte in memory is a half of a return address or a         *)
(* register's value; which one is all that matters here.                   *)
(***************************************************************************)
EXTENDS Naturals, Sequences

CONSTANTS
    Words,              \* return addresses
    Data,               \* values of general purpose registers
    PAGE,               \* the number of values of a byte (256 in the source)
    DATA_MEMORY_END     \* the last address of the RAM (0x8FF in the source)

ASSUME PageAssumption == PAGE \in Nat /\ PAGE > 2
ASSUME MemoryAssumption == DATA_MEMORY_END \in Nat /\ DATA_MEMORY_END > PAGE

VARIABLES
    sph, spl,   \* the two bytes of STACKPOINTER
    ram,        \* mem_dataMemory above the registers
    got,        \* the bytes that ret, reti or pop loaded last
    fault       \* 0; once a bad address ended the process, the number of
                \* bytes that the instruction was to pop

vars == <<sph, spl, ram, got, fault>>

Zero == <<>>
Low(w)  == <<w, "low">>
High(w) == <<w, "high">>
Byte(d) == <<d, "data">>

(* What a byte of memory holds. *)
Cell == {Zero} \cup {Low(w) : w \in Words} \cup {High(w) : w \in Words}
               \cup {Byte(d) : d \in Data}

(* The registers are the first page; the internal SRAM follows. *)
Ram == PAGE .. DATA_MEMORY_END

(* The program's first instructions set STACKPOINTER to the end of the RAM. *)
Init ==
    /\ sph = DATA_MEMORY_END \div PAGE
    /\ spl = DATA_MEMORY_END % PAGE
    /\ ram = [a \in Ram |-> Zero]
    /\ got = <<>>
    /\ fault = 0

sp == sph * PAGE + spl

(* The bound: room for n more bytes above the registers. *)
Room(n) == sp >= PAGE + n

-----------------------------------------------------------------------------
(* cpu_decrementIncrementStackPointer: SPL is a byte, SPH is left alone.   *)
AddToSpl(n) == spl' = (IF spl + n >= PAGE THEN spl + n - PAGE ELSE spl + n) /\ UNCHANGED sph
SubFromSpl(n) == spl' = (IF spl >= n THEN spl - n ELSE spl + PAGE - n) /\ UNCHANGED sph

(* A fault the runs must notice: the borrow between the two bytes is lost. *)
DecrementSpl == spl' = (IF spl = 0 THEN PAGE - 1 ELSE spl - 1) /\ UNCHANGED sph

(* mem_dataWrite16bit(STACKPOINTER, ...) writes both bytes. *)
IncrementSp ==
    IF spl = PAGE - 1 THEN spl' = 0 /\ sph' = sph + 1 ELSE spl' = spl + 1 /\ UNCHANGED sph
DecrementSp ==
    IF spl = 0 THEN spl' = PAGE - 1 /\ sph' = sph - 1 ELSE spl' = spl - 1 /\ UNCHANGED sph

(* call, rcall and _storeProgramCounterOnStack. *)
Call(w) ==
    /\ fault = 0 /\ Room(2)
    /\ ram' = [ram EXCEPT ![sp - 1] = Low(w), ![sp] = High(w)]
    /\ SubFromSpl(2)
    /\ UNCHANGED <<got, fault>>

(* ret and reti. *)
Ret ==
    /\ fault = 0 /\ sp + 2 <= DATA_MEMORY_END
    /\ got' = <<ram[sp + 1], ram[sp + 2]>>
    /\ AddToSpl(2)
    /\ UNCHANGED <<ram, fault>>

Push(d) ==
    /\ fault = 0 /\ Room(1)
    /\ ram' = [ram EXCEPT ![sp] = Byte(d)]
    /\ DecrementSp
    /\ UNCHANGED <<got, fault>>

(* pop reads 16 bits and keeps the low ones. *)
Pop ==
    /\ fault = 0 /\ sp + 2 <= DATA_MEMORY_END
    /\ got' = <<ram[sp + 1]>>
    /\ IncrementSp
    /\ UNCHANGED <<ram, fault>>

(* mem_dataRead8bit ends the process when ret, reti (n = 2) or pop (n = 1) *)
(* reads beyond the memory.                                                *)
Fault(n) ==
    /\ fault = 0 /\ sp + 2 > DATA_MEMORY_END
    /\ fault' = n
    /\ UNCHANGED <<sph, spl, ram, got>>

-----------------------------------------------------------------------------
(* Programs that stay clear of the two traps: a return address never makes *)
(* SPL overflow, and nothing is popped when a single byte is left.         *)
ClearNext ==
    \/ spl >= 2 /\ \E w \in Words : Call(w)
    \/ spl + 2 < PAGE /\ Ret
    \/ \E d \in Data : Push(d)
    \/ Pop
    \/ Fault(2)
    \/ sp = DATA_MEMORY_END /\ Fault(1)

ClearSpec == Init /\ [][ClearNext]_vars

-----------------------------------------------------------------------------
TypeOK ==
    /\ sph \in Nat /\ spl \in 0 .. PAGE - 1
    /\ ram \in [Ram -> Cell]
    /\ fault \in 0 .. 2

(* The stack is what lies between the stack pointer and the end of the RAM. *)
Bytes == [i \in 1 .. DATA_MEMORY_END - sp |-> ram[DATA_MEMORY_END + 1 - i]]

Abstract == INSTANCE ByteStack WITH Size <- DATA_MEMORY_END - PAGE, bytes <- Bytes

(* "The return address (to the instruction after the CALL) will be stored  *)
(* onto the Stack", "The return address is loaded from the STACK", "loads  *)
(* register Rd with a byte from the STACK": what is popped is what was     *)
(* pushed, last in, first out, in any order of calls, returns, pushes and  *)
(* pops, and only popping too much ends the process.                       *)
ImplementsByteStack == Abstract!Spec
=============================================================================
