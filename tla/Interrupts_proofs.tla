-------------------------- MODULE Interrupts_proofs --------------------------
(***************************************************************************)
(* For every set of register values, every length of a round and every     *)
(* depth of nesting: interrupts keep their order, a flag is neither lost   *)
(* nor invented, and a routine is interrupted only if it allows it.        *)
(***************************************************************************)
EXTENDS Interrupts, SequenceTheorems, TLAPS

(* What every step leaves alone or changes, action by action.              *)

(* The actions that leave stack, context and the I bit alone. *)
LEMMA Ordinary ==
    ASSUME [Next]_vars
    PROVE  \/ UNCHANGED <<stack, context, enable>>
           \/ \E i \in BOOLEAN : OutSreg(i)
           \/ Cli \/ Reti \/ EnterRoutine
  BY DEF Next, Instruction, vars, control, NoEvent, PinEvent, NoInterrupt, Other, OutPin,
         OutPortD, OutEimsk, StsEicra, StsPcicr, StsPcmsk, OutFlags

-----------------------------------------------------------------------------
(* The if chain takes a flag that is up, the one with the lowest vector.   *)

LEMMA FirstIsLowest ==
    ASSUME NEW raised \in SUBSET Flags, raised # {}
    PROVE  /\ First(raised) \in raised
           /\ \A f \in raised : VectorAddress(First(raised)) <= VectorAddress(f)
<1>1. \E f \in raised : \A g \in raised : Rank(f) <= Rank(g)
  BY DEF Flags, ExternalFlags, PinChangeFlags, Rank
<1>2. /\ First(raised) \in raised
      /\ \A g \in raised : Rank(First(raised)) <= Rank(g)
  BY <1>1 DEF First
<1>3. \A f \in Flags : VectorAddress(f) = Rank(f)
  BY DEF Flags, ExternalFlags, PinChangeFlags, Rank, VectorAddress
<1>4. QED
  BY <1>2, <1>3

LEMMA LevelFlagsAreFlags == LevelFlags \subseteq ExternalFlags
  BY DEF LevelFlags, CatchInt, ExternalFlag, ExternalFlags

(* A flag that a change of the pins raises has to do with that change.     *)
LEMMA MatchedIsConcerned ==
    ASSUME NEW p, NEW old, NEW new
    PROVE  Matched(p, old, new) \subseteq Concerned(p, old, new)
<1>1. \A g \in 0 .. 2 : CatchPcint(g, Changed(old, new)) \subseteq
          IF Changed(old, new) # {} THEN {PinChangeFlag(h) : h \in 0 .. 2} ELSE {}
  BY DEF CatchPcint
<1>2. CASE p = "D"
  <2>1. ASSUME NEW n \in 0 .. 1
        PROVE  CatchInt(n, Levels(PinOf(n), old, new)) \subseteq Concerned(p, old, new)
    <3>1. CASE PinOf(n) \in Changed(old, new)
      BY <1>2, <3>1 DEF CatchInt, Concerned
    <3>2. CASE PinOf(n) \notin Changed(old, new)
      BY <3>2 DEF CatchInt, Levels, Changed
    <3>3. QED
      BY <3>1, <3>2
  <2>2. UNION {CatchInt(n, Levels(PinOf(n), old, new)) : n \in 0 .. 1} \subseteq Concerned(p, old, new)
    BY <2>1
  <2>3. CatchPcint(2, Changed(old, new)) \subseteq Concerned(p, old, new)
    BY <1>1 DEF Concerned
  <2>4. QED
    BY <1>2, <2>2, <2>3 DEF Matched
<1>3. CASE p # "D"
  BY <1>1, <1>3 DEF Matched, Concerned
<1>4. QED
  BY <1>2, <1>3

LEMMA ConcernedIsFlags == ASSUME NEW p, NEW old, NEW new PROVE Concerned(p, old, new) \subseteq Flags
  BY DEF Concerned, ExternalFlag, PinChangeFlag, Flags, ExternalFlags, PinChangeFlags

-----------------------------------------------------------------------------
(* A routine is entered in EnterRoutine and nowhere else.                  *)

StackTyped == stack \in Seq(Contexts) /\ context \in Contexts

LEMMA FirstIsRaised ==
    ASSUME flags \subseteq Flags, EnterRoutine
    PROVE  LET raised == flags \cup LevelFlags
           IN  /\ First(raised) \in raised /\ raised \subseteq Flags
               /\ \A f \in raised : VectorAddress(First(raised)) <= VectorAddress(f)
  BY FirstIsLowest, LevelFlagsAreFlags DEF EnterRoutine, Flags

LEMMA EnterRoutineEnters ==
    ASSUME StackTyped, EnterRoutine
    PROVE  /\ Entering /\ enable /\ enable' = FALSE
           /\ stack' = Append(stack, context)
           /\ context' = [of |-> First(flags \cup LevelFlags), opened |-> FALSE]
  BY DEF EnterRoutine, StoreProgramCounterOnStack, Entering, StackTyped

LEMMA ContextOfOut ==
    ASSUME StackTyped, NEW i \in BOOLEAN, OutSreg(i)
    PROVE  /\ context' \in Contexts /\ UNCHANGED stack /\ enable' = i
           /\ enable' => context'.opened
<1>1. (context.opened \/ i) \in BOOLEAN
  BY Zenon DEF StackTyped, Contexts
<1>2. context' = [context EXCEPT !.opened = context.opened \/ i]
  BY DEF OutSreg
<1>3. context' \in Contexts
  BY <1>1, <1>2 DEF StackTyped, Contexts
<1>4. context'.opened = (context.opened \/ i)
  BY <1>2 DEF StackTyped, Contexts
<1>5. enable' = i /\ UNCHANGED stack
  BY DEF OutSreg
<1>6. QED
  BY <1>3, <1>4, <1>5, Zenon

LEMMA RetiReturns ==
    ASSUME StackTyped, Reti
    PROVE  /\ stack' \in Seq(Contexts) /\ Len(stack) > 0 /\ Len(stack') = Len(stack) - 1
           /\ \A i \in 1 .. Len(stack') : stack'[i] = stack[i]
           /\ context' = stack[Len(stack)] /\ context' \in Contexts
<1>1. Len(stack) \in Nat /\ Len(stack) > 0
  BY DEF StackTyped, Reti
<1>2. stack' = SubSeq(stack, 1, Len(stack) - 1) /\ context' = stack[Len(stack)]
  BY DEF Reti
<1>3. PICK n \in Nat : n = Len(stack) - 1
  BY <1>1
<1>4. /\ stack' \in Seq(Contexts) /\ Len(stack') = n
      /\ \A i \in 1 .. n : stack'[i] = stack[i]
  <2>1. \A i \in 1 .. n : stack[i] \in Contexts
    BY <1>1, <1>3 DEF StackTyped
  <2>2. /\ SubSeq(stack, 1, n) \in Seq(Contexts)
        /\ Len(SubSeq(stack, 1, n)) = IF 1 <= n THEN n - 1 + 1 ELSE 0
        /\ \A i \in 1 .. n - 1 + 1 : SubSeq(stack, 1, n)[i] = stack[1 + i - 1]
    BY <2>1, SubSeqProperties
  <2>3. stack' = SubSeq(stack, 1, n)
    BY <1>2, <1>3
  <2>4. QED
    BY <2>2, <2>3
<1>5. \A i \in 1 .. Len(stack') : stack'[i] = stack[i]
  BY <1>4
<1>6. context' \in Contexts
  BY <1>1, <1>2 DEF StackTyped
<1>7. QED
  BY <1>1, <1>2, <1>3, <1>4, <1>5, <1>6

LEMMA OnlyEnterRoutineEnters ==
    ASSUME StackTyped, [Next]_vars, Entering
    PROVE  EnterRoutine
<1>1. CASE Reti
  BY <1>1, RetiReturns DEF Entering
<1>2. ASSUME UNCHANGED stack PROVE FALSE
  BY <1>2 DEF Entering, StackTyped
<1>3. QED
  BY <1>1, <1>2, Ordinary, ContextOfOut DEF Cli, control

-----------------------------------------------------------------------------
(* Types.  The stack is bounded because interrupts are enabled only while  *)
(* it has room for one more context, and a round has instructions left     *)
(* whenever the CPU is not between rounds.                                 *)

TypeInv ==
    /\ TypeOK
    /\ enable => Len(stack) <= MaxNesting
    /\ phase # "events" => left # 0

LEMMA RegistersTyped ==
    ASSUME TypeOK, [Next]_vars
    PROVE  /\ pins' \in [{"B", "C", "D"} -> SUBSET (0 .. 7)] /\ portd' \subseteq 0 .. 7
           /\ eimsk' \subseteq 0 .. 1 /\ sense' \in [0 .. 1 -> Senses]
           /\ pcicr' \subseteq 0 .. 2 /\ pcmsk' \in [0 .. 2 -> SUBSET (0 .. 7)]
<1> USE RegisterAssumption DEF TypeOK
<1>1. ASSUME NEW n \in 0 .. 1, NEW high \in BOOLEAN, PinEvent(n, high)
      PROVE  pins' \in [{"B", "C", "D"} -> SUBSET (0 .. 7)]
  <2>1. PinOf(n) \in 0 .. 7 /\ pins["D"] \cup portd \subseteq 0 .. 7
    <3>1. PinOf(n) \in 0 .. 7
      BY DEF PinOf
    <3>2. pins["D"] \in SUBSET (0 .. 7)
      OBVIOUS
    <3>3. QED
      BY <3>1, <3>2
  <2>2. PICK new \in SUBSET (0 .. 7) : pins' = [pins EXCEPT !["D"] = new]
    BY <1>1, <2>1 DEF PinEvent, WritePins
  <2>3. QED
    BY <2>2
<1>2. ASSUME NEW p \in {"B", "C", "D"}, OutPin(p)
      PROVE  pins' \in [{"B", "C", "D"} -> SUBSET (0 .. 7)]
  <2>1. PICK new \in PinValues[p] : pins' = [pins EXCEPT ![p] = new]
    BY <1>2 DEF OutPin, WritePins
  <2>2. new \in SUBSET (0 .. 7)
    BY PinAssumption
  <2>3. QED
    BY <2>1, <2>2
<1>3. ASSUME NEW g \in 0 .. 2, StsPcmsk(g)
      PROVE  pcmsk' \in [0 .. 2 -> SUBSET (0 .. 7)]
  BY <1>3 DEF StsPcmsk
<1>4. QED
  BY <1>1, <1>2, <1>3 DEF Next, Instruction, vars, config, NoEvent, PinEvent, NoInterrupt,
     EnterRoutine, Other, OutPin, OutPortD, OutEimsk, StsEicra, StsPcicr, StsPcmsk,
     OutFlags, OutSreg, Cli, Reti

LEMMA FlagsTyped ==
    ASSUME TypeOK, [Next]_vars
    PROVE  flags' \subseteq Flags /\ cause' \subseteq Flags
<1> USE DEF TypeOK
<1>1. ASSUME NEW p, NEW new, WritePins(p, new)
      PROVE  flags' \subseteq Flags /\ cause' \subseteq Flags
  BY <1>1, MatchedIsConcerned, ConcernedIsFlags DEF WritePins
<1>2. ASSUME NEW of, OutFlags(of)
      PROVE  flags' \subseteq Flags /\ cause' \subseteq Flags
  BY <1>2, RegisterAssumption DEF OutFlags
<1>3. CASE EnterRoutine
  BY <1>3, LevelFlagsAreFlags DEF EnterRoutine, TakeDown, Flags
<1>4. CASE UNCHANGED <<flags, cause>>
  BY <1>4
<1>5. QED
  BY <1>1, <1>2, <1>3, <1>4 DEF Next, Instruction, vars, NoEvent, PinEvent, NoInterrupt,
     Other, OutPin, OutPortD, OutEimsk, StsEicra, StsPcicr, StsPcmsk, OutSreg, Cli, Reti

LEMMA PhaseTyped ==
    ASSUME TypeInv, [Next]_vars
    PROVE  /\ phase' \in {"events", "execute", "interrupts"}
           /\ left' \in 0 .. InstructionsPerRound
           /\ phase' # "events" => left' # 0
<1> USE RoundAssumption DEF TypeInv, TypeOK
<1>1. CASE StartRound
  BY <1>1 DEF StartRound
<1>2. CASE Execute
  BY <1>2 DEF Execute
<1>3. CASE NextPhase
  BY <1>3 DEF NextPhase
<1>4. CASE UNCHANGED <<phase, left>>
  BY <1>4
<1>5. QED
  BY <1>1, <1>2, <1>3, <1>4 DEF Next, Instruction, vars, NoEvent, PinEvent, NoInterrupt,
     EnterRoutine, Other, OutPin, OutPortD, OutEimsk, StsEicra, StsPcicr, StsPcmsk,
     OutFlags, OutSreg, Cli, Reti

LEMMA ControlTyped ==
    ASSUME TypeInv, [Next]_vars
    PROVE  /\ enable' \in BOOLEAN /\ context' \in Contexts /\ stack' \in Seq(Contexts)
           /\ Len(stack') <= MaxNesting + 1
           /\ enable' => Len(stack') <= MaxNesting
<1>0. StackTyped /\ Len(stack) \in Nat /\ MaxNesting \in Nat
  BY NestingAssumption DEF TypeInv, TypeOK, StackTyped
<1>1. CASE UNCHANGED <<stack, context, enable>>
  BY <1>1 DEF TypeInv, TypeOK
<1>2. ASSUME NEW i \in BOOLEAN, OutSreg(i)
      PROVE  /\ enable' \in BOOLEAN /\ context' \in Contexts /\ stack' \in Seq(Contexts)
             /\ Len(stack') <= MaxNesting + 1
             /\ enable' => Len(stack') <= MaxNesting
  <2>1. (i => Len(stack) <= MaxNesting) /\ enable' = i
    BY <1>2 DEF OutSreg
  <2>2. context' \in Contexts /\ stack' = stack
    BY <1>0, <1>2, ContextOfOut
  <2>3. QED
    BY <1>0, <2>1, <2>2 DEF TypeInv, TypeOK
<1>3. CASE Cli
  BY <1>3 DEF Cli, control, TypeInv, TypeOK
<1>4. CASE Reti
  <2>1. enable' = TRUE
    BY <1>4 DEF Reti
  <2>2. QED
    BY <1>0, <1>4, <2>1, RetiReturns DEF TypeInv, TypeOK
<1>5. CASE EnterRoutine
  <2>1. stack' = Append(stack, context) /\ enable' = FALSE /\ enable
    BY <1>0, <1>5, EnterRoutineEnters
  <2>2. context' \in Contexts
    <3>1. First(flags \cup LevelFlags) \in Flags
      BY <1>5, FirstIsRaised DEF TypeInv, TypeOK
    <3>2. context' = [of |-> First(flags \cup LevelFlags), opened |-> FALSE]
      BY <1>0, <1>5, EnterRoutineEnters
    <3>3. QED
      BY <3>1, <3>2 DEF Contexts
  <2>3. stack' \in Seq(Contexts) /\ Len(stack') = Len(stack) + 1
    BY <1>0, <2>1 DEF StackTyped
  <2>4. Len(stack') <= MaxNesting + 1
    <3>1. Len(stack) <= MaxNesting
      BY <2>1, Zenon DEF TypeInv
    <3>2. QED
      BY <1>0, <2>3, <3>1
  <2>5. QED
    BY <2>1, <2>2, <2>3, <2>4, Zenon
<1>6. QED
  BY <1>1, <1>2, <1>3, <1>4, <1>5, Ordinary

LEMMA InitTyped == Init => TypeInv
<1> SUFFICES ASSUME Init PROVE TypeInv
  OBVIOUS
<1>1. /\ pins \in [{"B", "C", "D"} -> SUBSET (0 .. 7)] /\ portd \subseteq 0 .. 7
      /\ eimsk \subseteq 0 .. 1 /\ sense \in [0 .. 1 -> Senses]
      /\ pcicr \subseteq 0 .. 2 /\ pcmsk \in [0 .. 2 -> SUBSET (0 .. 7)]
      /\ flags \subseteq Flags /\ cause \subseteq Flags
  BY DEF Init, Senses
<1>2. phase = "events" /\ left \in 0 .. InstructionsPerRound
  BY RoundAssumption DEF Init
<1>3. context \in Contexts /\ stack \in Seq(Contexts) /\ Len(stack) = 0
  BY DEF Init, Main, Contexts
<1>4. Len(stack) <= MaxNesting /\ Len(stack) <= MaxNesting + 1
  BY <1>3, NestingAssumption
<1>5. enable \in BOOLEAN
  BY DEF Init
<1>6. QED
  BY <1>1, <1>2, <1>3, <1>4, <1>5 DEF TypeInv, TypeOK

LEMMA StepTyped == TypeInv /\ [Next]_vars => TypeInv'
<1> SUFFICES ASSUME TypeInv, [Next]_vars PROVE TypeInv'
  OBVIOUS
<1>1. QED
  BY RegistersTyped, FlagsTyped, PhaseTyped, ControlTyped DEF TypeInv, TypeOK

(* Registers, flags, the loop and the stack keep their types; a routine    *)
(* never nests deeper than the bound says.                                 *)
THEOREM TypeCorrect == Spec => []TypeOK
<1>1. TypeInv => TypeOK
  BY DEF TypeInv
<1>2. QED
  BY <1>1, InitTyped, StepTyped, PTL DEF Spec

-----------------------------------------------------------------------------
(* A routine is interrupted only if it has set the I bit itself.  The      *)
(* invariant says the same of the routine that executes: while the I bit   *)
(* is set, it is one that has set it.                                      *)

MayBeInterrupted(c) == c.of # "main" => c.opened

AtomicInv ==
    /\ TypeInv
    /\ \A i \in 1 .. Len(stack) : MayBeInterrupted(stack[i])
    /\ enable => MayBeInterrupted(context)

LEMMA TypedIsStackTyped == TypeInv => StackTyped /\ flags \subseteq Flags
  BY DEF TypeInv, TypeOK, StackTyped

LEMMA AtomicStep == AtomicInv /\ [Next]_vars => AtomicInv'
<1> SUFFICES ASSUME AtomicInv, [Next]_vars PROVE AtomicInv'
  OBVIOUS
<1>0. TypeInv /\ TypeInv' /\ StackTyped
  BY StepTyped, TypedIsStackTyped DEF AtomicInv
<1> DEFINE Others == \A i \in 1 .. Len(stack) : MayBeInterrupted(stack[i])
           Current == enable => MayBeInterrupted(context)
<1> SUFFICES Others' /\ Current'
  BY <1>0 DEF AtomicInv
<1>1. CASE UNCHANGED <<stack, context, enable>>
  BY <1>1 DEF AtomicInv
<1>2. ASSUME NEW i \in BOOLEAN, OutSreg(i) PROVE Others' /\ Current'
  BY <1>0, <1>2, ContextOfOut DEF AtomicInv, MayBeInterrupted
<1>3. CASE Cli
  BY <1>3 DEF AtomicInv, Cli, control
<1>4. CASE Reti
  <2>1. \A i \in 1 .. Len(stack') : i \in 1 .. Len(stack) /\ stack'[i] = stack[i]
    BY <1>0, <1>4, RetiReturns DEF StackTyped
  <2>2. Len(stack) \in 1 .. Len(stack) /\ context' = stack[Len(stack)]
    BY <1>0, <1>4, RetiReturns DEF StackTyped
  <2>3. QED
    BY <2>1, <2>2 DEF AtomicInv
<1>5. CASE EnterRoutine
  <2>1. stack' = Append(stack, context) /\ enable' = FALSE /\ enable
    BY <1>0, <1>5, EnterRoutineEnters
  <2>2. MayBeInterrupted(context)
    BY <2>1, Zenon DEF AtomicInv
  <2>3. ASSUME NEW i \in 1 .. Len(stack') PROVE MayBeInterrupted(stack'[i])
    <3>1. stack'[i] = context \/ (i \in 1 .. Len(stack) /\ stack'[i] = stack[i])
      BY <1>0, <2>1 DEF StackTyped
    <3>2. QED
      BY <2>2, <3>1, Zenon DEF AtomicInv
  <2>4. QED
    BY <2>1, <2>3
<1>6. QED
  BY <1>1, <1>2, <1>3, <1>4, <1>5, Ordinary

(* _storeProgramCounterOnStack clears the I bit and only reti or a write   *)
(* to SREG sets it again: every interrupted routine has set it itself.     *)
THEOREM AtomicRoutines == Spec => []RoutinesAreAtomic
<1>1. Init => AtomicInv
  BY InitTyped DEF Init, AtomicInv, MayBeInterrupted
<1>2. AtomicInv => RoutinesAreAtomic
  BY DEF AtomicInv, RoutinesAreAtomic, MayBeInterrupted
<1>3. QED
  BY <1>1, <1>2, AtomicStep, PTL DEF Spec

-----------------------------------------------------------------------------
(* The properties of a single entry.                                       *)

LEMMA TypedAlways == Spec => []TypeInv
  BY InitTyped, StepTyped, PTL DEF Spec

(* A routine is entered only while the I bit is set, and of the pending    *)
(* interrupts it is the one with the lowest vector address.                *)
THEOREM PriorityHolds == Spec => LowestVectorFirst
<1>1. ASSUME TypeInv, [Next]_vars, Entering
      PROVE  enable /\ \A f \in flags : VectorAddress(context'.of) <= VectorAddress(f)
  <2>1. StackTyped /\ EnterRoutine /\ flags \subseteq Flags
    BY <1>1, TypedIsStackTyped, OnlyEnterRoutineEnters
  <2>2. enable /\ context'.of = First(flags \cup LevelFlags)
    BY <2>1, EnterRoutineEnters
  <2>3. QED
    BY <2>1, <2>2, FirstIsRaised
<1>2. TypeInv /\ [Next]_vars
        => [Entering => /\ enable
                        /\ \A f \in flags : VectorAddress(context'.of) <= VectorAddress(f)]_vars
  BY <1>1
<1>3. QED
  BY <1>2, TypedAlways, PTL DEF Spec, LowestVectorFirst

(* A flag goes down only when its own routine is entered or the program    *)
(* writes the flag register.                                               *)
THEOREM FlagsAreKept == Spec => NoLostFlag
<1> DEFINE Written == \E of \in {ExternalFlags, PinChangeFlags} : OutFlags(of)
<1>1. ASSUME TypeInv, [Next]_vars, NEW f \in flags \ flags'
      PROVE  (Entering /\ context'.of = f) \/ Written
  <2>1. CASE EnterRoutine
    <3>1. Entering /\ context'.of = First(flags \cup LevelFlags)
      BY <1>1, <2>1, TypedIsStackTyped, EnterRoutineEnters
    <3>2. flags' = (flags \cup LevelFlags) \ {First(flags \cup LevelFlags)}
      BY <2>1 DEF EnterRoutine, TakeDown
    <3>3. QED
      BY <3>1, <3>2
  <2>2. ASSUME NEW p, NEW new, WritePins(p, new) PROVE FALSE
    BY <2>2 DEF WritePins
  <2>3. ASSUME UNCHANGED flags PROVE FALSE
    BY <2>3
  <2>4. QED
    BY <1>1, <2>1, <2>2, <2>3 DEF Next, Instruction, vars, NoEvent, PinEvent, NoInterrupt,
       Other, OutPin, OutPortD, OutEimsk, StsEicra, StsPcicr, StsPcmsk, OutSreg, Cli, Reti
<1>2. TypeInv /\ [Next]_vars
        => [\A f \in flags \ flags' : (Entering /\ context'.of = f) \/ Written]_vars
  BY <1>1
<1>3. QED
  BY <1>2, TypedAlways, PTL DEF Spec, NoLostFlag

-----------------------------------------------------------------------------
(* A flag that is up has a reason: the invariant behind NoSpuriousEntry.   *)

CausedInv == TypeInv /\ flags \subseteq cause

LEMMA CausedStep == CausedInv /\ [Next]_vars => CausedInv'
<1> SUFFICES ASSUME CausedInv, [Next]_vars PROVE flags' \subseteq cause'
  BY StepTyped DEF CausedInv
<1> USE DEF CausedInv
<1>1. ASSUME NEW p, NEW new, WritePins(p, new) PROVE flags' \subseteq cause'
  BY <1>1, MatchedIsConcerned DEF WritePins
<1>2. ASSUME NEW of, OutFlags(of) PROVE flags' \subseteq cause'
  BY <1>2 DEF OutFlags
<1>3. CASE EnterRoutine
  BY <1>3 DEF EnterRoutine, TakeDown
<1>4. CASE UNCHANGED <<flags, cause>>
  BY <1>4
<1>5. QED
  BY <1>1, <1>2, <1>3, <1>4 DEF Next, Instruction, vars, NoEvent, PinEvent, NoInterrupt,
     Other, OutPin, OutPortD, OutEimsk, StsEicra, StsPcicr, StsPcmsk, OutSreg, Cli, Reti

(* A routine is entered again only if, since it was entered last, a pin it *)
(* can depend on changed, its flag was written, or it is set to the level. *)
THEOREM EntriesHaveACause == Spec => NoSpuriousEntry
<1>1. Init => CausedInv
  BY InitTyped DEF Init, CausedInv
<1>2. ASSUME CausedInv, [Next]_vars, Entering PROVE context'.of \in cause \cup LevelFlags
  <2>1. StackTyped /\ EnterRoutine /\ flags \subseteq Flags
    BY <1>2, TypedIsStackTyped, OnlyEnterRoutineEnters DEF CausedInv
  <2>2. context'.of = First(flags \cup LevelFlags)
    BY <2>1, EnterRoutineEnters
  <2>3. QED
    BY <1>2, <2>1, <2>2, FirstIsRaised DEF CausedInv
<1>3. CausedInv /\ [Next]_vars => [Entering => context'.of \in cause \cup LevelFlags]_vars
  BY <1>2
<1>4. QED
  BY <1>1, <1>3, CausedStep, PTL DEF Spec, NoSpuriousEntry

-----------------------------------------------------------------------------
(* What an event on one pin can request.                                   *)

LEMMA EventOnOtherPin ==
  ASSUME NEW n \in 0 .. 1, NEW high \in BOOLEAN, PinEvent(n, high), portd = {}
  PROVE  ExternalFlag(1 - n) \notin flags' \ flags
<1> DEFINE m == 1 - n
           old == pins["D"]
           new == IF high THEN old \cup {PinOf(n)} ELSE old \ {PinOf(n)}
<1>1. flags' = flags \cup Matched("D", old, new)
  BY DEF PinEvent, WritePins
<1>2. m \in 0 .. 1 /\ n # m /\ PinOf(n) # PinOf(m)
  BY SMT DEF PinOf
<1>3. PinOf(m) \notin new \ old /\ PinOf(m) \notin old \ new
  BY <1>2
<1>4. CatchInt(m, Levels(PinOf(m), old, new)) = {}
  BY <1>3 DEF CatchInt, Levels
<1>5. CatchInt(n, Levels(PinOf(n), old, new)) \subseteq {ExternalFlag(n)}
  BY DEF CatchInt
<1>6. ExternalFlag(m) # ExternalFlag(n)
  BY <1>2 DEF ExternalFlag
<1>7. ExternalFlag(m) \notin CatchPcint(2, Changed(old, new))
  BY DEF CatchPcint, PinChangeFlag, ExternalFlag
<1>8. \A i \in 0 .. 1 : i = n \/ i = m
  BY SMT
<1> HIDE DEF m, old, new
<1>9. ASSUME NEW i \in 0 .. 1
      PROVE  ExternalFlag(m) \notin CatchInt(i, Levels(PinOf(i), old, new))
  <2>1. CASE i = n
    BY <1>5, <1>6, <2>1
  <2>2. CASE i = m
    BY <1>4, <2>2
  <2> QED
    BY <1>8, <2>1, <2>2
<1>10. ExternalFlag(m) \notin Matched("D", old, new)
  BY <1>7, <1>9 DEF Matched
<1>11. QED
  BY <1>1, <1>10 DEF m

(* An event on the pin of INT0 never requests INT1, nor the other way      *)
(* round, whatever else is on the port, unless PORTD drives a pin.         *)
THEOREM EventsStayOnTheirPin == Spec => PinTriggersItsInterrupt
<1>1. \A n \in 0 .. 1 : (\E high \in BOOLEAN : PinEvent(n, high))
         /\ portd = {} => ExternalFlag(1 - n) \notin flags' \ flags
  BY EventOnOtherPin
<1>2. QED
  BY <1>1, PTL DEF PinTriggersItsInterrupt
=============================================================================
