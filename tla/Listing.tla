------------------------------ MODULE Listing ------------------------------
(***************************************************************************)
(* The commands l and d of the console: loader.h stores an Intel hex file  *)
(* in the program memory, ins_disassembleProgram prints what is there.     *)
(*                                                                         *)
(* A file is a sequence of records.  The parser never looks at its type,   *)
(* checksum or end: it steps over the characters of a record that has an   *)
(* even number of bytes and ends with two characters.  After any other     *)
(* record, and behind the end of the file, it reads characters that mean   *)
(* something else: nothing is stored for them or the memory is no longer   *)
(* known.                                                                  *)
(***************************************************************************)
EXTENDS Decoder

CONSTANTS
    RECORDS,             \* the records that are parsed, 100
    LINES,               \* the addresses that are listed, 100
    PROGRAM_MEMORY_END,  \* the words of the program memory, 0x3fff
    Files,               \* the files that may be loaded
    Updated,             \* bound: of which these may replace each other
    Starts,              \* bound: what an uninitialised programCounter holds
    Undefined            \* bound: the lengths that a missing return may leave

(* words are pairs of bytes as the file writes them, the low byte first.   *)
Records == [address : Nat, bytes : Nat, words : Seq(Words), type : Nat, eol : {1, 2}]

ASSUME SizeAssumption ==
    /\ RECORDS \in Nat /\ LINES \in Nat /\ PROGRAM_MEMORY_END \in Nat
    /\ LINES < PROGRAM_MEMORY_END
    /\ Updated \subseteq Files /\ Undefined \subseteq 0 .. 255
    /\ Starts \subseteq Words
ASSUME FilesAssumption ==
    /\ Files \subseteq Seq(Records)
    /\ \A f \in Files : \A i \in DOMAIN f : Len(f[i].words) = (f[i].bytes + 1) \div 2

VARIABLES
    file,       \* the file of the latest command l
    parsed,     \* the records parsed so far
    memory,     \* mem_programMemory, as the file writes it
    known,      \* FALSE once the parser may have stored anything anywhere
    phase,      \* "console", "load", "list", "exited"
    pc,         \* programCounter of ins_disassembleProgram
    opCode,     \* the word disassembled last
    line        \* the address and the word printed last

loading == <<file, parsed, memory, known>>
listing == <<pc, opCode, line>>
vars == <<loading, phase, listing>>

Address == 0 .. PROGRAM_MEMORY_END - 1
NoLine == [address |-> 0, word |-> 0]

Init ==
    /\ file = <<>> /\ parsed = 0
    /\ memory = [a \in Address |-> 0] /\ known = TRUE
    /\ phase = "console"
    /\ pc = 0 /\ opCode = 0 /\ line = NoLine

-----------------------------------------------------------------------------
(* loa_loadHexFile reads the whole file. *)
Load ==
    /\ phase = "console"
    /\ file' \in (IF file = <<>> THEN Files ELSE IF file \in Updated THEN Updated ELSE {})
    /\ parsed' = 0 /\ phase' = "load"
    /\ UNCHANGED <<memory, known, listing>>

Record == file[parsed + 1]

(* The characters of a record are those the parser steps over. *)
InStep(r) == r.bytes % 2 = 0 /\ r.eol = 2

(* A fault the runs must notice: an address of the file is taken for one   *)
(* of the program memory.                                                  *)
StoredByteAddress(m, r) ==
    [a \in Address |->
        LET i == a - r.address + 1
        IN  IF i \in 1 .. Len(r.words) THEN r.words[i] ELSE m[a]]

(* instruction_ptr from addressOffset/2 on, whatever the type. *)
Stored(m, r) ==
    [a \in Address |->
        LET i == a - r.address \div 2 + 1
        IN  IF i \in 1 .. Len(r.words) THEN r.words[i] ELSE m[a]]

Parsing == phase = "load" /\ parsed < RECORDS

(* A record that is read where it starts; it may reach beyond the memory.  *)
ParseRecord ==
    /\ Parsing /\ parsed < Len(file)
    /\ \A i \in 1 .. parsed : InStep(file[i])
    /\ memory' = Stored(memory, Record)
    /\ known' = (known /\ Record.address \div 2 + Len(Record.words) <= PROGRAM_MEMORY_END)
    /\ parsed' = parsed + 1
    /\ UNCHANGED <<file, phase, listing>>

(* Behind the end of the file, or out of step with its records. *)
ParseElsewhere ==
    /\ Parsing
    /\ parsed < Len(file) => \E i \in 1 .. parsed : ~InStep(file[i])
    /\ known' \in {known, FALSE}
    /\ parsed' = parsed + 1
    /\ UNCHANGED <<file, memory, phase, listing>>

(* The parser has read as many records as it ever does. *)
EndLoad ==
    /\ phase = "load" /\ parsed = RECORDS
    /\ phase' = "console"
    /\ UNCHANGED <<loading, listing>>

-----------------------------------------------------------------------------
ByteSwap(w) == (w % 256) * 256 + w \div 256

(* mem_fetchInstruction; what is behind the array is not known. *)
Fetch(a) == IF a \in Address THEN ByteSwap(memory[a]) ELSE 0

(* rcall_disassemble returns nothing, its caller reads what was there. *)
MissingReturn(name) == IF name = "rcall" THEN Undefined ELSE {}

(* ins_disassembleProgram: programCounter is not initialised. *)
List ==
    /\ phase = "console" /\ file # <<>> /\ known
    /\ phase' = "list"
    /\ pc' \in Starts
    /\ UNCHANGED <<loading, opCode, line>>

Line ==
    /\ phase = "list" /\ pc < LINES
    /\ opCode' = Fetch(pc)
    /\ line' = [address |-> pc, word |-> ByteSwap(Fetch(pc))]
    /\ \E length \in ListedLengths(Entry(opCode')) \cup MissingReturn(Entry(opCode')) :
          pc' = (pc + length) % WORD
    /\ UNCHANGED <<loading, phase>>

EndList ==
    /\ phase = "list" /\ pc >= LINES
    /\ phase' = "console"
    /\ pc' = 0 /\ opCode' = 0 /\ line' = NoLine
    /\ UNCHANGED loading

(* mem_fetchInstruction ends the process when the CPU's program counter is *)
(* beyond the memory, pop_disassemble when the stack has no two bytes.     *)
ProcessEnds ==
    /\ phase = "list" /\ pc < LINES
    /\ phase' = "exited"
    /\ file' = <<>> /\ parsed' = 0 /\ memory' = [a \in Address |-> 0] /\ known' = TRUE
    /\ pc' = 0 /\ opCode' = 0 /\ line' = NoLine

Next ==
    \/ Load \/ ParseRecord \/ ParseElsewhere \/ EndLoad
    \/ List \/ Line \/ EndList \/ ProcessEnds

Spec == Init /\ [][Next]_vars
             /\ WF_vars(Line \/ EndList)

-----------------------------------------------------------------------------
TypeOK ==
    /\ file \in Files \cup {<<>>}
    /\ parsed \in 0 .. RECORDS
    /\ memory \in [Address -> Words] /\ known \in BOOLEAN
    /\ phase \in {"console", "load", "list", "exited"}
    /\ pc \in Words /\ opCode \in Words
    /\ line \in [address : Address, word : Words]

(* The first pattern of generator_jump_table.py that fits a word is the    *)
(* only one, so that the order of its table does not matter and emulator   *)
(* and disassembler see the same instruction in every word.                *)
OnePattern == Cardinality(Matching(opCode)) <= 1

(* The emulator, the skips before it and the disassembler agree on the     *)
(* words that each instruction takes, for all of the words whose listing   *)
(* sets a length.                                                          *)
LengthsAgree ==
    LET name == Entry(opCode)
    IN  /\ SkippedLength(opCode) = ExecutedLength(name)
        /\ name \notin {"lds16", "rcall"} => ListedLengths(name) = {ExecutedLength(name)}

(* "0001 11rd dddd rrrr": the operands that decoder.h takes out of a word  *)
(* are those that the comments of the instructions describe, for every     *)
(* word but those that LosesBits names.                                    *)
OperandsAsDocumented ==
    LET name == Entry(opCode)
    IN  ~LosesBits(name, opCode) => Operands(name, opCode) = MeantOperands(name, opCode)

(* A file that the parser is made for: no more records than it reads, all  *)
(* of them data or the end of the file.                                    *)
Plain(f) ==
    /\ Len(f) <= RECORDS
    /\ \A i \in DOMAIN f : InStep(f[i]) /\ f[i].type \in {0, 1} /\ f[i].address % 2 = 0

(* The records of f with the word at address a, as the format defines it.  *)
Covering(f, a) ==
    {i \in DOMAIN f : 2 * a \in f[i].address .. f[i].address + 2 * Len(f[i].words) - 2}

(* The word that the record r has for the address a. *)
WordAt(r, a) == r.words[(2 * a - r.address) \div 2 + 1]

(* What is listed is what the file says, byte for byte: a word is stored   *)
(* at half its address, fetched and printed in the order of the file, and  *)
(* a later record or a later file replaces an earlier one.                 *)
LinesShowTheFile ==
    [][phase = "list" /\ phase' = "list" /\ Plain(file) =>
          LET a == line'.address
          IN  \A i \in Covering(file, a) :
                (\A j \in Covering(file, a) : j <= i) => line'.word = WordAt(file[i], a)]_vars

(* "make it disassemble more than 100 instructions": the listing comes to  *)
(* its end or the process does, wherever it starts, or it comes to one of  *)
(* the two instructions without a length.                                  *)
ListingEnds ==
    phase = "list" ~> phase # "list" \/ Entry(opCode) \in {"lds16", "rcall"}
=============================================================================
