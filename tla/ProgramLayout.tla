---------------------------- MODULE ProgramLayout ----------------------------
(***************************************************************************)
(* What an assembler leaves in the program memory, as the comments of      *)
(* implementation.h describe the instructions ("16-bit Opcode", "32-bit    *)
(* Opcode", "PC - 2K + 1"): words, some of which are the second word of    *)
(* an instruction, and the addresses at which instructions start.          *)
(*                                                                         *)
(* An instruction is known here by the way it moves the program counter:   *)
(* "skip" is sbic and sbis, "load" is lds32 and sts, "ret" is ret and      *)
(* reti, "plain" any other, of which pop and lds16 have their own names.   *)
(* k is the operand as the opcode holds it, without a sign.                *)
(***************************************************************************)
EXTENDS Integers

CONSTANTS
    PROGRAM_MEMORY_END,   \* 0x3fff
    BRANCH,               \* the largest offset of brne and one, 64
    OFFSET,               \* the largest offset of rjmp and rcall and one, 0x800
    VECTORS,              \* the addresses of the interrupt routines
    Programs              \* the programs that may be in memory

(* mem_programMemory has PROGRAM_MEMORY_END words. *)
Address == 0 .. PROGRAM_MEMORY_END - 1

PlainKinds == {"plain", "pop", "lds16"}
LongKinds == {"call", "jmp", "load"}
Kinds == PlainKinds \cup LongKinds \cup {"brne", "skip", "rjmp", "rcall", "ret"}

Word == [op : Kinds \cup {"operand"}, k : Nat]

(* The words that an instruction takes. *)
Length(op) == IF op \in LongKinds THEN 2 ELSE 1

(* Two's complement of a number below 2 * half. *)
SignedOffset(k, half) == IF k >= half THEN k - 2 * half ELSE k

BranchTarget(a, k) == a + 1 + SignedOffset(k, BRANCH)
JumpTarget(a, k) == (a + 1 + SignedOffset(k, OFFSET)) % (PROGRAM_MEMORY_END + 1)

Following(p, a) == a + Length(p.word[a].op)

(* Where the program goes on after the instruction at a, returns apart. *)
Targets(p, a) ==
    LET w == p.word[a]
    IN  CASE w.op = "rjmp"            -> {JumpTarget(a, w.k)}
          [] w.op = "rcall"           -> {JumpTarget(a, w.k)}
          [] w.op = "jmp"             -> {p.word[a + 1].k}
          [] w.op = "call"            -> {p.word[a + 1].k}
          [] w.op = "brne"            -> {a + 1, BranchTarget(a, w.k)}
          [] w.op = "skip"            -> {a + 1, Following(p, a + 1)}
          [] w.op = "ret"             -> {}
          [] OTHER                    -> {Following(p, a)}

(* Every way through the program stays on the starts of instructions. *)
LaidOut(p) ==
    /\ p.word \in [Address -> Word]
    /\ p.starts \subseteq Address
    /\ {0} \cup VECTORS \subseteq p.starts
    /\ \A a \in p.starts :
          LET w == p.word[a]
          IN  /\ w.op # "operand"
              /\ w.op \in LongKinds => a + 1 \in Address /\ p.word[a + 1].op = "operand"
              /\ w.op = "brne" => w.k < 2 * BRANCH
              /\ w.op \in {"rjmp", "rcall"} => w.k < 2 * OFFSET
              /\ w.op \in {"call", "rcall"} => Following(p, a) \in p.starts
              /\ w.op = "skip" => a + 1 \in p.starts
              /\ Targets(p, a) \subseteq p.starts

(* The branches of the program go backwards, as those of loops do. *)
BackwardOnly(p) == \A a \in p.starts : p.word[a].op = "brne" => p.word[a].k >= BRANCH

ASSUME SizeAssumption ==
    /\ PROGRAM_MEMORY_END \in Nat /\ BRANCH \in Nat \ {0} /\ OFFSET \in Nat \ {0}
    /\ 2 * BRANCH <= PROGRAM_MEMORY_END /\ OFFSET <= PROGRAM_MEMORY_END
ASSUME ProgramAssumption == \A p \in Programs : LaidOut(p)
=============================================================================
