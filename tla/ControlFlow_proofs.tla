-------------------------- MODULE ControlFlow_proofs --------------------------
(***************************************************************************)
(* For every memory, every program that is laid out, any depth of calls:   *)
(* the program counter stays on instructions and follows the program.      *)
(***************************************************************************)
EXTENDS ControlFlow, SequenceTheorems, TLAPS

M == PROGRAM_MEMORY_END + 1

(* Once around the memory is nothing. *)
LEMMA OnceAround ==
    ASSUME NEW m \in Nat \ {0}, NEW x \in Int, 0 - m <= x, x < m
    PROVE  (x + m) % m = x % m
  <1>1. CASE x >= 0
    <2>1. x % m = x BY <1>1, SMT
    <2>2. (x + m) % m = x BY <1>1, SMT
    <2>3. QED BY <2>1, <2>2
  <1>2. CASE x < 0
    <2>1. (x + m) % m = x + m BY <1>2, SMT
    <2>2. x % m = x + m BY <1>2, SMT
    <2>3. QED BY <2>1, <2>2
  <1>3. QED BY <1>1, <1>2, SMT

(* The offset of the code, without its sign. *)
LEMMA OffsetWithoutSign ==
    ASSUME NEW h \in Nat \ {0}, NEW k \in Nat, k < 2 * h
    PROVE  k % h = IF k >= h THEN k - h ELSE k
  BY SMT

(* rjmp and rcall compute what their assembler meant. *)
LEMMA DestinationIsTarget ==
    ASSUME NEW a \in Address, NEW k \in Nat, k < 2 * OFFSET
    PROVE  Destination(a, k) = JumpTarget(a, k)
  <1> DEFINE x == a + 1 + SignedOffset(k, OFFSET)
  <1>1. M \in Nat \ {0} BY SizeAssumption, SMT DEF M
  <1>2. k % OFFSET = IF k >= OFFSET THEN k - OFFSET ELSE k
    BY SizeAssumption, OffsetWithoutSign
  <1>3. x \in Int /\ 0 - M <= x
    BY SizeAssumption, SMT DEF M, SignedOffset, Address
  <1>4. Destination(a, k) = (x + M) % M
    <2>1. CASE k >= OFFSET
      <3>1. PROGRAM_MEMORY_END + 2 + a + (k - OFFSET) - OFFSET = x + M
        BY <2>1, SizeAssumption, SMT DEF M, SignedOffset, Address
      <3>2. QED BY <2>1, <1>2, <3>1 DEF Destination, M
    <2>2. CASE ~(k >= OFFSET)
      <3>1. PROGRAM_MEMORY_END + 2 + a + k = x + M
        BY <2>2, SizeAssumption, SMT DEF M, SignedOffset, Address
      <3>2. QED BY <2>2, <1>2, <3>1 DEF Destination, M
    <2>3. QED BY <2>1, <2>2
  <1>5. CASE x < M
    <2>1. (x + M) % M = x % M BY <1>1, <1>3, <1>5, OnceAround
    <2>2. QED BY <2>1, <1>4 DEF JumpTarget, M
  <1>6. CASE x >= M
    <2>1. x < 2 * M BY SizeAssumption, SMT DEF M, SignedOffset, Address
    <2>2. x % M = x - M BY <1>1, <1>3, <1>6, <2>1, SMT
    <2>3. (x + M) % M = x - M
      <3>1. x + M < 3 * M /\ 2 * M <= x + M BY <1>1, <1>3, <1>6, <2>1, SMT
      <3>2. QED BY <1>1, <1>3, <3>1, SMT
    <2>4. QED BY <1>4, <2>2, <2>3 DEF JumpTarget, M
  <1>7. QED BY <1>1, <1>3, <1>5, <1>6, SMT DEF M

-----------------------------------------------------------------------------
(* What the layout says of an instruction.                                 *)

LEMMA StartsAreAddresses ==
    ASSUME NEW p \in Programs, NEW a \in p.starts
    PROVE  /\ a \in Address /\ a \in 0 .. WORD - 1 /\ a <= PROGRAM_MEMORY_END
           /\ p.word[a] \in Word
  BY ProgramAssumption, SizeAssumption, WordAssumption, SMT DEF LaidOut, Address

LEMMA Laid ==
    ASSUME NEW p \in Programs, NEW a \in p.starts
    PROVE  /\ p.word[a].op \in Kinds /\ p.word[a].k \in Nat
           /\ p.word[a].op \in {"rjmp", "rcall"} => p.word[a].k < 2 * OFFSET
           /\ p.word[a].op = "brne" => p.word[a].k < 2 * BRANCH
           /\ p.word[a].op \in {"call", "rcall"} => Following(p, a) \in p.starts
           /\ p.word[a].op = "skip" => a + 1 \in p.starts
           /\ Targets(p, a) \subseteq p.starts
           /\ VECTORS \subseteq p.starts /\ 0 \in p.starts
  <1>1. LaidOut(p) BY ProgramAssumption
  <1>2. p.word[a] \in Word BY StartsAreAddresses
  <1>3. p.word[a].op # "operand" BY <1>1 DEF LaidOut
  <1>4. p.word[a].op \in Kinds /\ p.word[a].k \in Nat BY <1>2, <1>3, Zenon DEF Word
  <1>5. QED BY <1>1, <1>4, Zenon DEF LaidOut

(* A sum below the size of a word does not wrap. *)
LEMMA NoWrap ==
    ASSUME NEW a \in Address, NEW n \in 0 .. 3
    PROVE  (a + n) % WORD = a + n
  <1>1. a + n \in 0 .. WORD - 1 BY SizeAssumption, WordAssumption, SMT DEF Address
  <1>2. WORD \in Nat \ {0} BY WordAssumption, SizeAssumption, SMT
  <1>3. QED BY <1>1, <1>2, SMT

LEMMA BackwardBranch ==
    ASSUME NEW a \in Address, NEW k \in Nat, k >= BRANCH, k < 2 * BRANCH,
           BranchTarget(a, k) \in Address
    PROVE  (a + k - (2 * BRANCH - 1)) % WORD = BranchTarget(a, k)
  <1>1. a + k - (2 * BRANCH - 1) = BranchTarget(a, k)
    BY SizeAssumption, SMT DEF BranchTarget, SignedOffset, Address
  <1>2. BranchTarget(a, k) \in 0 .. WORD - 1
    BY SizeAssumption, WordAssumption, SMT DEF Address
  <1>3. WORD \in Nat \ {0} BY WordAssumption, SizeAssumption, SMT
  <1>4. QED BY <1>1, <1>2, <1>3, SMT

-----------------------------------------------------------------------------
(* Each instruction goes to one of its targets, or a branch goes ahead.    *)

Ahead == program.word[pc].op = "brne" /\ Operand < BRANCH

LEMMA InstructionsAim ==
    ASSUME TypeOK, Instruction
    PROVE  /\ pc \in program.starts
           /\ program.word[pc].op # "ret" =>
                 /\ pc' \in Targets(program, pc) \/ (BrneTaken /\ Ahead /\ stack' = stack)
                 /\ \/ stack' = stack
                    \/ /\ program.word[pc].op \in {"call", "rcall"}
                       /\ Len(stack) < MaxDepth
                       /\ stack' = Append(stack, Following(program, pc))
  <1> DEFINE w == program.word[pc]
  <1>1. pc \in program.starts BY DEF Instruction, Plain, Load, BrneTaken, BrneNotTaken,
          SkipTaken, SkipNotTaken, Rjmp, Jmp, Rcall, Call, Ret, Executes
  <1>2. program \in Programs BY DEF TypeOK
  <1>3. /\ pc \in Address /\ w.op \in Kinds /\ w.k \in Nat
        /\ w.op \in {"rjmp", "rcall"} => w.k < 2 * OFFSET
        /\ w.op = "brne" => w.k < 2 * BRANCH
        /\ w.op = "skip" => pc + 1 \in program.starts
        /\ Targets(program, pc) \subseteq program.starts
    BY <1>1, <1>2, StartsAreAddresses, Laid
  <1>4. (pc + 1) % WORD = pc + 1 /\ (pc + 2) % WORD = pc + 2 /\ (pc + 3) % WORD = pc + 3
    BY <1>3, NoWrap
  <1>5. CASE Plain
    BY <1>4, <1>5 DEF Plain, Executes, Targets, Following, Length, PlainKinds, LongKinds
  <1>6. CASE Load
    BY <1>4, <1>6 DEF Load, Executes, Targets, Following, Length, LongKinds
  <1>7. CASE BrneTaken
    <2>1. w.op = "brne" BY <1>7 DEF BrneTaken, Executes
    <2>2. Targets(program, pc) = {pc + 1, BranchTarget(pc, w.k)} BY <2>1 DEF Targets
    <2>3. BranchTarget(pc, w.k) \in Address
      BY <1>2, <1>3, <2>2, StartsAreAddresses
    <2>4. CASE Operand < BRANCH
      BY <1>1, <1>7, <2>1, <2>4 DEF BrneTaken, Ahead
    <2>5. CASE ~(Operand < BRANCH)
      <3>1. w.k >= BRANCH BY <1>3, <2>5, SizeAssumption, SMT DEF Operand
      <3>2. pc' = BranchTarget(pc, w.k)
        BY <1>3, <1>7, <2>1, <2>3, <3>1, BackwardBranch DEF BrneTaken, Operand
      <3>3. QED BY <1>1, <1>7, <2>2, <3>2 DEF BrneTaken
    <2>6. QED BY <1>1, <2>4, <2>5
  <1>8. CASE BrneNotTaken
    BY <1>1, <1>4, <1>8 DEF BrneNotTaken, Executes, Targets
  <1>9. CASE SkipTaken
    <2>1. w.op = "skip" BY <1>9 DEF SkipTaken, Executes
    <2>2. Targets(program, pc) = {pc + 1, Following(program, pc + 1)} BY <2>1 DEF Targets
    <2>3. pc' = Following(program, pc + 1)
      <3>1. CASE program.word[pc + 1].op \in LongKinds
        <4>1. pc' = (pc + 3) % WORD
          BY <1>9, <3>1 DEF SkipTaken, MaskedAsLong, LongKinds
        <4>2. Following(program, pc + 1) = (pc + 1) + 2 BY <3>1 DEF Following, Length
        <4>3. (pc + 1) + 2 = pc + 3 BY <1>3, SizeAssumption, SMT DEF Address
        <4>4. QED BY <1>4, <4>1, <4>2, <4>3
      <3>2. CASE program.word[pc + 1].op \notin LongKinds
        <4>1. pc' = (pc + 2) % WORD
          BY <1>9, <3>2 DEF SkipTaken, MaskedAsLong, LongKinds
        <4>2. Following(program, pc + 1) = (pc + 1) + 1 BY <3>2 DEF Following, Length
        <4>3. (pc + 1) + 1 = pc + 2 BY <1>3, SizeAssumption, SMT DEF Address
        <4>4. QED BY <1>4, <4>1, <4>2, <4>3
      <3>3. QED BY <3>1, <3>2
    <2>4. QED BY <1>1, <1>9, <2>2, <2>3 DEF SkipTaken
  <1>10. CASE SkipNotTaken
    BY <1>1, <1>4, <1>10 DEF SkipNotTaken, Executes, Targets
  <1>11. CASE Rjmp
    <2>1. w.op = "rjmp" BY <1>11 DEF Rjmp, Executes
    <2>2. pc' = JumpTarget(pc, w.k)
      BY <1>3, <1>11, <2>1, DestinationIsTarget DEF Rjmp, Operand
    <2>3. QED BY <1>1, <1>11, <2>1, <2>2 DEF Targets, Rjmp
  <1>12. CASE Jmp
    BY <1>1, <1>12 DEF Jmp, Executes, Targets, SecondWord
  <1>13. CASE Rcall
    <2>1. w.op = "rcall" BY <1>13 DEF Rcall, Executes
    <2>2. pc' = JumpTarget(pc, w.k)
      BY <1>3, <1>13, <2>1, DestinationIsTarget DEF Rcall, Operand
    <2>3. Following(program, pc) = pc + 1 BY <2>1 DEF Following, Length, LongKinds
    <2>4. QED BY <1>1, <1>4, <1>13, <2>1, <2>2, <2>3 DEF Targets, Rcall
  <1>14. CASE Call
    <2>1. w.op = "call" BY <1>14 DEF Call, Executes
    <2>2. Following(program, pc) = pc + 2 BY <2>1 DEF Following, Length, LongKinds
    <2>3. QED BY <1>1, <1>4, <1>14, <2>1, <2>2 DEF Targets, Call, SecondWord
  <1>15. CASE Ret
    BY <1>1, <1>15 DEF Ret, Executes
  <1>16. QED
    BY <1>5, <1>6, <1>7, <1>8, <1>9, <1>10, <1>11, <1>12, <1>13, <1>14, <1>15 DEF Instruction

-----------------------------------------------------------------------------
(* What a stack loses and gains.                                           *)

LEMMA Shorter ==
    ASSUME NEW S, NEW s \in Seq(S), s # <<>>
    PROVE  /\ SubSeq(s, 1, Len(s) - 1) \in Seq(S)
           /\ Len(SubSeq(s, 1, Len(s) - 1)) = Len(s) - 1
           /\ Len(s) \in 1 .. Len(s) /\ s[Len(s)] \in S
           /\ \A i \in 1 .. Len(s) - 1 : SubSeq(s, 1, Len(s) - 1)[i] = s[i]
  <1>1. Len(s) \in Nat /\ Len(s) > 0 BY EmptySeq
  <1>2. \A i \in 1 .. Len(s) : s[i] \in S BY ElementOfSeq
  <1>3. 1 \in Int /\ Len(s) - 1 \in Int /\ \A i \in 1 .. Len(s) - 1 : s[i] \in S
    BY <1>1, <1>2, SMT
  <1>4. /\ SubSeq(s, 1, Len(s) - 1) \in Seq(S)
        /\ Len(SubSeq(s, 1, Len(s) - 1)) = Len(s) - 1
        /\ \A i \in 1 .. Len(s) - 1 : SubSeq(s, 1, Len(s) - 1)[i] = s[i]
    <2>1. /\ SubSeq(s, 1, Len(s) - 1) \in Seq(S)
          /\ Len(SubSeq(s, 1, Len(s) - 1))
                = IF 1 <= Len(s) - 1 THEN (Len(s) - 1) - 1 + 1 ELSE 0
          /\ \A i \in 1 .. (Len(s) - 1) - 1 + 1 : SubSeq(s, 1, Len(s) - 1)[i] = s[1 + i - 1]
      BY <1>3, SubSeqProperties
    <2>2. (Len(s) - 1) - 1 + 1 = Len(s) - 1 BY <1>1, SMT
    <2>3. (IF 1 <= Len(s) - 1 THEN (Len(s) - 1) - 1 + 1 ELSE 0) = Len(s) - 1
      <3>1. CASE 1 <= Len(s) - 1 BY <2>2, <3>1
      <3>2. CASE ~(1 <= Len(s) - 1)
        <4>1. \A n \in Nat : n > 0 /\ ~(1 <= n - 1) => n - 1 = 0 BY SMT
        <4>2. QED BY <1>1, <3>2, <4>1
      <3>3. QED BY <3>1, <3>2
    <2>4. \A i \in 1 .. Len(s) - 1 : 1 + i - 1 = i BY <1>1, SMT
    <2>5. QED BY <2>1, <2>2, <2>3, <2>4
  <1>5. QED BY <1>1, <1>2, <1>3, <1>4

LEMMA Longer ==
    ASSUME NEW S, NEW s \in Seq(S), NEW e \in S
    PROVE  /\ Append(s, e) \in Seq(S)
           /\ Len(Append(s, e)) = Len(s) + 1
           /\ Append(s, e)[Len(s) + 1] = e
           /\ \A i \in 1 .. Len(s) : Append(s, e)[i] = s[i]
  BY AppendProperties

Values == 0 .. WORD - 1

LEMMA RemainderIsValue ==
    ASSUME NEW x \in Int
    PROVE  x % WORD \in Values
  <1>1. WORD \in Nat \ {0} BY WordAssumption, SizeAssumption, SMT
  <1>2. QED BY <1>1, SMT DEF Values

LEMMA StartsAreValues ==
    ASSUME NEW p \in Programs, NEW a \in p.starts
    PROVE  a \in Values
  BY StartsAreAddresses DEF Values

-----------------------------------------------------------------------------
(* TypeOK and OnInstructions are inductive together.                       *)

(* A stack of return addresses, each the start of an instruction.          *)
LEMMA PushKeeps ==
    ASSUME TypeOK, NEW r \in Values, Len(stack) < MaxDepth, stack' = Append(stack, r)
    PROVE  /\ stack' \in Seq(Values) /\ Len(stack') <= MaxDepth
           /\ r \in program.starts /\ (\A i \in 1 .. Len(stack) : stack[i] \in program.starts)
                 => \A i \in 1 .. Len(stack') : stack'[i] \in program.starts
  <1>1. stack \in Seq(Values) BY DEF TypeOK, Values
  <1>2. /\ stack' \in Seq(Values) /\ Len(stack') = Len(stack) + 1
        /\ stack'[Len(stack) + 1] = r
        /\ \A i \in 1 .. Len(stack) : stack'[i] = stack[i]
    BY <1>1, Longer
  <1>3. Len(stack) \in Nat BY <1>1, LenProperties
  <1>4. Len(stack') <= MaxDepth BY <1>2, <1>3, DepthAssumption, SMT
  <1>5. 1 .. Len(stack') = (1 .. Len(stack)) \cup {Len(stack) + 1} BY <1>2, <1>3, SMT
  <1>6. QED BY <1>2, <1>4, <1>5

(* What an instruction does to pc and to the stack.                        *)
LEMMA InstructionKeeps ==
    ASSUME TypeOK, Instruction
    PROVE  TypeOK' /\ (OnInstructions => OnInstructions')
  <1> DEFINE P == program
  <1>1. P \in Programs /\ stack \in Seq(Values) /\ pc \in Values /\ Len(stack) <= MaxDepth
    BY DEF TypeOK, Values
  <1>2. pc \in P.starts BY InstructionsAim
  <1>3. P' = P /\ between' = TRUE /\ alive /\ alive' = alive
    BY DEF Instruction, Plain, Load, BrneTaken, BrneNotTaken, SkipTaken, SkipNotTaken,
           Rjmp, Jmp, Rcall, Call, Ret, Executes
  <1>4. SUFFICES /\ pc' \in Values /\ stack' \in Seq(Values) /\ Len(stack') <= MaxDepth
                 /\ BackwardOnly(P) /\ (\A i \in 1 .. Len(stack) : stack[i] \in P.starts)
                       => /\ pc' \in P.starts
                          /\ \A i \in 1 .. Len(stack') : stack'[i] \in P.starts
    BY <1>1, <1>3 DEF TypeOK, Values, OnInstructions
  <1>5. CASE P.word[pc].op = "ret"
    <2>1. Ret
      BY <1>5 DEF Instruction, Plain, Load, BrneTaken, BrneNotTaken, SkipTaken, SkipNotTaken,
           Rjmp, Jmp, Rcall, Call, Executes, PlainKinds
    <2>2. /\ stack # <<>> /\ pc' = stack[Len(stack)]
          /\ stack' = SubSeq(stack, 1, Len(stack) - 1)
      BY <2>1 DEF Ret
    <2>3. /\ stack' \in Seq(Values) /\ Len(stack') = Len(stack) - 1
          /\ Len(stack) \in 1 .. Len(stack) /\ pc' \in Values
          /\ \A i \in 1 .. Len(stack) - 1 : stack'[i] = stack[i]
      BY <1>1, <2>2, Shorter
    <2>4. Len(stack) \in Nat BY <1>1, LenProperties
    <2>5. Len(stack') <= MaxDepth BY <1>1, <2>3, <2>4, DepthAssumption, SMT
    <2>6. 1 .. Len(stack') \subseteq 1 .. Len(stack) BY <2>3, <2>4, SMT
    <2>7. QED BY <2>2, <2>3, <2>5, <2>6
  <1>6. CASE P.word[pc].op # "ret"
    <2>1. /\ pc' \in Targets(P, pc) \/ (BrneTaken /\ Ahead /\ stack' = stack)
          /\ \/ stack' = stack
             \/ /\ P.word[pc].op \in {"call", "rcall"}
                /\ Len(stack) < MaxDepth
                /\ stack' = Append(stack, Following(P, pc))
      BY <1>6, InstructionsAim
    <2>2. /\ Targets(P, pc) \subseteq P.starts
          /\ P.word[pc].op \in {"call", "rcall"} => Following(P, pc) \in P.starts
      BY <1>1, <1>2, Laid
    <2>3. P.starts \subseteq Values BY <1>1, StartsAreValues
    <2>4. pc' \in Values
      <3>1. CASE BrneTaken
        <4>1. P.word[pc].op = "brne" BY <3>1 DEF BrneTaken, Executes
        <4>2. P.word[pc].k \in Nat BY <1>1, <1>2, Laid
        <4>3. pc + Operand - (2 * BRANCH - 1) \in Int
          BY <1>1, <4>2, SizeAssumption, SMT DEF Operand, Values
        <4>4. QED BY <3>1, <4>3, RemainderIsValue DEF BrneTaken
      <3>2. QED BY <2>1, <2>2, <2>3, <3>1
    <2>5. stack' \in Seq(Values) /\ Len(stack') <= MaxDepth
      BY <1>1, <2>1, <2>2, <2>3, PushKeeps
    <2>6. ASSUME BackwardOnly(P), \A i \in 1 .. Len(stack) : stack[i] \in P.starts
          PROVE  pc' \in P.starts /\ \A i \in 1 .. Len(stack') : stack'[i] \in P.starts
      <3>1. ~Ahead
        <4>1. P.word[pc].k \in Nat BY <1>1, <1>2, Laid
        <4>2. P.word[pc].op = "brne" => P.word[pc].k >= BRANCH
          BY <1>2, <2>6 DEF BackwardOnly
        <4>3. QED BY <4>1, <4>2, SizeAssumption, SMT DEF Ahead, Operand
      <3>2. \A i \in 1 .. Len(stack') : stack'[i] \in P.starts
        BY <1>1, <2>1, <2>2, <2>3, <2>6, PushKeeps
      <3>3. QED BY <2>1, <2>2, <3>1, <3>2
    <2>7. QED BY <2>4, <2>5, <2>6
  <1>7. QED BY <1>5, <1>6

LEMMA EnterKeeps ==
    ASSUME TypeOK, EnterRoutine
    PROVE  TypeOK' /\ (OnInstructions => OnInstructions')
  <1>1. /\ program \in Programs /\ stack \in Seq(Values) /\ pc \in Values
        /\ Len(stack) < MaxDepth /\ stack' = Append(stack, pc) /\ pc' \in VECTORS
        /\ program' = program /\ alive /\ alive' = alive /\ between' = FALSE
    BY DEF TypeOK, Values, EnterRoutine
  <1>2. pc' \in program.starts /\ pc' \in Values
    BY <1>1, ProgramAssumption, StartsAreValues DEF LaidOut
  <1>3. stack' \in Seq(Values) /\ Len(stack') <= MaxDepth BY <1>1, PushKeeps
  <1>4. TypeOK' BY <1>1, <1>2, <1>3 DEF TypeOK, Values
  <1>5. ASSUME OnInstructions PROVE OnInstructions'
    <2>1. SUFFICES ASSUME BackwardOnly(program)
                   PROVE  \A i \in 1 .. Len(stack') : stack'[i] \in program.starts
      BY <1>1, <1>2 DEF OnInstructions
    <2>2. pc \in program.starts /\ \A i \in 1 .. Len(stack) : stack[i] \in program.starts
      BY <1>5, <2>1 DEF OnInstructions
    <2>3. QED BY <1>1, <2>2, PushKeeps
  <1>6. QED BY <1>4, <1>5

LEMMA NextKeeps ==
    ASSUME TypeOK, [Next]_vars
    PROVE  TypeOK' /\ (OnInstructions => OnInstructions')
  <1>1. CASE Instruction BY <1>1, InstructionKeeps
  <1>2. CASE NoInterrupt BY <1>2 DEF NoInterrupt, TypeOK, OnInstructions
  <1>3. CASE EnterRoutine BY <1>3, EnterKeeps
  <1>4. CASE FetchFault
    <2>1. pc > PROGRAM_MEMORY_END /\ program \in Programs
      BY <1>4 DEF FetchFault, TypeOK
    <2>2. pc \notin program.starts
      BY <2>1, StartsAreAddresses, SizeAssumption, SMT DEF Address
    <2>3. OnInstructions => ~BackwardOnly(program) BY <2>2 DEF OnInstructions
    <2>4. QED BY <1>4, <2>3 DEF FetchFault, TypeOK, OnInstructions
  <1>5. CASE UNCHANGED vars BY <1>5 DEF vars, TypeOK, OnInstructions
  <1>6. QED BY <1>1, <1>2, <1>3, <1>4, <1>5 DEF Next

LEMMA StartsWell == Init => TypeOK /\ OnInstructions
  <1> SUFFICES ASSUME Init PROVE TypeOK /\ OnInstructions
    OBVIOUS
  <1>1. program \in Programs /\ 0 \in program.starts
    BY ProgramAssumption DEF Init, LaidOut
  <1>2. 0 \in Values BY <1>1, StartsAreValues
  <1>3. stack \in Seq(0 .. WORD - 1) /\ Len(stack) = 0 BY EmptySeq DEF Init
  <1>4. Len(stack) <= MaxDepth BY <1>3, DepthAssumption, SMT
  <1>5. TypeOK BY <1>1, <1>2, <1>3, <1>4 DEF Init, TypeOK, Values
  <1>6. \A i \in 1 .. Len(stack) : FALSE BY <1>3, SMT
  <1>7. OnInstructions BY <1>1, <1>6 DEF Init, OnInstructions
  <1>8. QED BY <1>5, <1>7

(* For every memory, every program that is laid out and any depth of       *)
(* calls, the program counter and the return addresses are words.          *)
THEOREM TypeCorrect == Spec => []TypeOK
  <1>1. TypeOK /\ [Next]_vars => TypeOK' BY NextKeeps
  <1>2. QED BY <1>1, StartsWell, PTL DEF Spec

(* No operand is executed and no fetch leaves the program, whatever calls, *)
(* skips, jumps and interrupts come, unless the program branches ahead.    *)
THEOREM StaysOnInstructions == Spec => []OnInstructions
  <1>1. TypeOK /\ OnInstructions /\ [Next]_vars => TypeOK' /\ OnInstructions'
    BY NextKeeps
  <1>2. QED BY <1>1, StartsWell, PTL DEF Spec

(* Every instruction goes where the layout of the program says, a return   *)
(* behind its call, unless a branch goes ahead.                            *)
THEOREM EveryStepFollows == Spec => FollowsTheProgram
  <1> DEFINE Follows ==
        ~between /\ alive' /\ ~(BrneTaken /\ Operand < BRANCH)
          => IF program.word[pc].op = "ret"
             THEN pc' = stack[Len(stack)]
             ELSE /\ pc' \in Targets(program, pc)
                  /\ Len(stack') > Len(stack) => stack'[Len(stack')] = Following(program, pc)
  <1>1. TypeOK /\ [Next]_vars => [Follows]_vars
    <2> SUFFICES ASSUME TypeOK, Next, ~between, alive',
                        ~(BrneTaken /\ Operand < BRANCH)
                 PROVE  IF program.word[pc].op = "ret"
                        THEN pc' = stack[Len(stack)]
                        ELSE /\ pc' \in Targets(program, pc)
                             /\ Len(stack') > Len(stack)
                                   => stack'[Len(stack')] = Following(program, pc)
      OBVIOUS
    <2>1. Instruction BY DEF Next, NoInterrupt, EnterRoutine, FetchFault
    <2>2. CASE program.word[pc].op = "ret"
      <3>1. Ret
        BY <2>1, <2>2 DEF Instruction, Plain, Load, BrneTaken, BrneNotTaken, SkipTaken,
             SkipNotTaken, Rjmp, Jmp, Rcall, Call, Executes, PlainKinds
      <3>2. QED BY <2>2, <3>1 DEF Ret
    <2>3. CASE program.word[pc].op # "ret"
      <3>1. /\ pc' \in Targets(program, pc) \/ (BrneTaken /\ Ahead /\ stack' = stack)
            /\ \/ stack' = stack
               \/ /\ program.word[pc].op \in {"call", "rcall"}
                  /\ Len(stack) < MaxDepth
                  /\ stack' = Append(stack, Following(program, pc))
        BY <2>1, <2>3, InstructionsAim
      <3>2. pc' \in Targets(program, pc) BY <3>1 DEF Ahead
      <3>3. stack \in Seq(Values) BY DEF TypeOK, Values
      <3>4. Len(stack) \in Nat BY <3>3, LenProperties
      <3>5. CASE stack' = stack BY <2>3, <3>2, <3>4, <3>5, SMT
      <3>6. CASE /\ program.word[pc].op \in {"call", "rcall"}
                 /\ stack' = Append(stack, Following(program, pc))
        <4>1. Following(program, pc) \in Values
          BY <3>6, InstructionsAim, <2>1, Laid, StartsAreValues DEF TypeOK
        <4>2. stack'[Len(stack')] = Following(program, pc)
          BY <3>3, <3>6, <4>1, Longer
        <4>3. QED BY <2>3, <3>2, <4>2
      <3>7. QED BY <3>1, <3>5, <3>6
    <2>4. QED BY <2>2, <2>3
  <1>2. TypeOK /\ [Next]_vars => TypeOK' BY NextKeeps
  <1>3. QED BY <1>1, <1>2, StartsWell, PTL DEF Spec, FollowsTheProgram
=============================================================================
