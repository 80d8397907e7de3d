----------------------------- MODULE ControlFlow -----------------------------
(***************************************************************************)
(* Where the instructions of implementation.h take the program counter:    *)
(* which words of the program memory are executed as instructions.  The    *)
(* program is any that is laid out as its assembler means it; flags, I/O   *)
(* bits and interrupt requests come as they may.  The stack is the one     *)
(* that CallStack implements.                                              *)
(*                                                                         *)
(* A program counter that is not at the start of an instruction would      *)
(* execute an operand, or a word that nobody wrote: the model ends there.  *)
(***************************************************************************)
EXTENDS ProgramLayout, Sequences

CONSTANTS
    WORD,       \* the number of values of a 16 bit word
    MaxDepth    \* bound: calls and routines that have not returned

ASSUME WordAssumption == WORD \in Nat /\ WORD > PROGRAM_MEMORY_END + 3
ASSUME DepthAssumption == MaxDepth \in Nat

VARIABLES
    program,    \* mem_programMemory
    pc,         \* reg_programCounter
    stack,      \* the return addresses, the latest last
    between,    \* TRUE after an instruction, before int_handleInterrupts
    alive       \* FALSE once mem_fetchInstruction has ended the process

vars == <<program, pc, stack, between, alive>>

Init ==
    /\ program \in Programs
    /\ pc = 0
    /\ stack = <<>>
    /\ between = FALSE
    /\ alive = TRUE

-----------------------------------------------------------------------------
(* The next instruction is one of these kinds. *)
Executes(kinds) ==
    /\ alive /\ ~between /\ pc \in program.starts
    /\ program.word[pc].op \in kinds
    /\ between' = TRUE
    /\ UNCHANGED <<program, alive>>

Operand == program.word[pc].k
SecondWord == program.word[pc + 1].k

(* reg_programCounter += 1, and += 2 in lds32 and sts. *)
Plain == Executes(PlainKinds) /\ pc' = (pc + 1) % WORD /\ UNCHANGED stack
Load  == Executes({"load"}) /\ pc' = (pc + 2) % WORD /\ UNCHANGED stack

(* brne: adressOffset - 127 is added when Z is cleared. *)
BrneTaken ==
    /\ Executes({"brne"})
    /\ pc' = (pc + Operand - (2 * BRANCH - 1)) % WORD
    /\ UNCHANGED stack
BrneNotTaken == Executes({"brne"}) /\ pc' = (pc + 1) % WORD /\ UNCHANGED stack

(* A fault the runs must notice: sts is not among the codes and masks. *)
MaskedAsLongWithoutSts(op) == op \in {"call", "jmp"}

(* The codes and masks of sbic and sbis. *)
MaskedAsLong(op) == op \in {"call", "jmp", "load"}

SkipTaken ==
    /\ Executes({"skip"})
    /\ pc' = (pc + IF MaskedAsLong(program.word[pc + 1].op) THEN 3 ELSE 2) % WORD
    /\ UNCHANGED stack
SkipNotTaken == Executes({"skip"}) /\ pc' = (pc + 1) % WORD /\ UNCHANGED stack

(* A fault the runs must notice: the sign of the offset is lost. *)
DestinationUnsigned(a, k) == (PROGRAM_MEMORY_END + 2 + a + k) % (PROGRAM_MEMORY_END + 1)

(* jumpDest_addr of rjmp and rcall, signBit and addressOffset apart. *)
Destination(a, k) ==
    LET addressOffset == k % OFFSET
    IN  IF k >= OFFSET
        THEN (PROGRAM_MEMORY_END + 2 + a + addressOffset - OFFSET) % (PROGRAM_MEMORY_END + 1)
        ELSE (PROGRAM_MEMORY_END + 2 + a + addressOffset) % (PROGRAM_MEMORY_END + 1)

Rjmp == Executes({"rjmp"}) /\ pc' = Destination(pc, Operand) /\ UNCHANGED stack
Jmp  == Executes({"jmp"}) /\ pc' = SecondWord /\ UNCHANGED stack

Rcall ==
    /\ Executes({"rcall"}) /\ Len(stack) < MaxDepth
    /\ stack' = Append(stack, (pc + 1) % WORD)
    /\ pc' = Destination(pc, Operand)

Call ==
    /\ Executes({"call"}) /\ Len(stack) < MaxDepth
    /\ stack' = Append(stack, (pc + 2) % WORD)
    /\ pc' = SecondWord

(* ret and reti, of a program that returns only from what it has called. *)
Ret ==
    /\ Executes({"ret"}) /\ stack # <<>>
    /\ pc' = stack[Len(stack)]
    /\ stack' = SubSeq(stack, 1, Len(stack) - 1)

Instruction ==
    \/ Plain \/ Load \/ BrneTaken \/ BrneNotTaken \/ SkipTaken \/ SkipNotTaken
    \/ Rjmp \/ Jmp \/ Rcall \/ Call \/ Ret

(* int_handleInterrupts, after every instruction. *)
NoInterrupt ==
    /\ alive /\ between /\ between' = FALSE
    /\ UNCHANGED <<program, pc, stack, alive>>

EnterRoutine ==
    /\ alive /\ between /\ between' = FALSE
    /\ Len(stack) < MaxDepth
    /\ stack' = Append(stack, pc)
    /\ pc' \in VECTORS
    /\ UNCHANGED <<program, alive>>

(* mem_fetchInstruction ends the process. *)
FetchFault ==
    /\ alive /\ ~between
    /\ pc > PROGRAM_MEMORY_END
    /\ alive' = FALSE
    /\ UNCHANGED <<program, pc, stack, between>>

Next == Instruction \/ NoInterrupt \/ EnterRoutine \/ FetchFault

Spec == Init /\ [][Next]_vars

-----------------------------------------------------------------------------
TypeOK ==
    /\ program \in Programs
    /\ pc \in 0 .. WORD - 1
    /\ stack \in Seq(0 .. WORD - 1) /\ Len(stack) <= MaxDepth
    /\ between \in BOOLEAN /\ alive \in BOOLEAN

(* "the correct return address, the program counter must be incremented    *)
(* before an possible interrupt": whatever calls, returns, skips and       *)
(* interrupts come in whatever order, the program counter and every        *)
(* return address are at the start of an instruction, so that no operand   *)
(* is executed and no fetch leaves the program, unless it branches ahead.  *)
OnInstructions ==
    BackwardOnly(program) =>
        /\ alive
        /\ pc \in program.starts
        /\ \A i \in 1 .. Len(stack) : stack[i] \in program.starts

(* Each instruction goes where its assembler meant it to go: a skip over   *)
(* the whole next instruction, a relative jump around the end of the       *)
(* memory, a return behind its call.  Forward branches do not.             *)
FollowsTheProgram ==
    [][~between /\ alive' /\ ~(BrneTaken /\ Operand < BRANCH)
          => IF program.word[pc].op = "ret"
             THEN pc' = stack[Len(stack)]
             ELSE /\ pc' \in Targets(program, pc)
                  /\ Len(stack') > Len(stack) => stack'[Len(stack')] = Following(program, pc)]_vars
=============================================================================
