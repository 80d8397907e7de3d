----------------------------- MODULE Interrupts -----------------------------
(***************************************************************************)
(* Interrupts from the pin to the handler routine: the console's pin       *)
(* events and the program's own writes change the pin registers, the write *)
(* functions of register.h match the change against the configuration and  *)
(* raise interrupt flags (int_catch...), and after every instruction       *)
(* int_handleInterrupts lets the program enter the routine of one flag.    *)
(*                                                                         *)
(* One CPU runs the loop of cpu.h: eve_handleEvents, then                  *)
(* InstructionsPerRound instructions, each followed by                     *)
(* int_handleInterrupts.  The program is arbitrary: every instruction that *)
(* touches an interrupt register may come at any time, with the values     *)
(* that the constants offer, and it returns only from routines it entered. *)
(* A register is the set of its one bits.                                  *)
(***************************************************************************)
EXTENDS Naturals, Sequences

CONSTANTS
    PinValues,              \* [{"B", "C", "D"} -> values written to PINB, PINC, PIND]
    PortDValues,            \* values written to PORTD
    EimskValues,            \* values written to EIMSK
    SenseValues,            \* values written to EICRA, decoded: [0 .. 1 -> Senses]
    PcicrValues,            \* values written to PCICR
    PcmskValues,            \* values written to PCMSK0, PCMSK1, PCMSK2
    FlagValues,             \* values written to EIFR and PCIFR, as sets of flags
    InstructionsPerRound,   \* cpu_clockSpeed / 1000000 + 1
    MaxNesting              \* bound: routines that may enable interrupts again

(* The two ISC bits of an external interrupt: 00, 01, 10 and 11.           *)
Senses == {"LOW", "CHANGING", "FALLING", "RISING"}

ExternalFlags == {"INTF0", "INTF1"}
PinChangeFlags == {"PCIF0", "PCIF1", "PCIF2"}
Flags == ExternalFlags \cup PinChangeFlags

ASSUME RoundAssumption == InstructionsPerRound \in Nat \ {0}
ASSUME NestingAssumption == MaxNesting \in Nat
ASSUME PinAssumption == PinValues \in [{"B", "C", "D"} -> SUBSET (SUBSET (0 .. 7))]
ASSUME RegisterAssumption ==
    /\ PortDValues \subseteq SUBSET (0 .. 7) /\ EimskValues \subseteq SUBSET (0 .. 1)
    /\ SenseValues \subseteq [0 .. 1 -> Senses]
    /\ PcicrValues \subseteq SUBSET (0 .. 2) /\ PcmskValues \subseteq SUBSET (0 .. 7)
    /\ FlagValues \subseteq SUBSET Flags

VARIABLES
    pins,       \* the stored bytes of PINB, PINC and PIND
    portd,      \* PORTD
    eimsk,      \* reg_externalInterruptMask1, 0
    sense,      \* reg_externalInterruptControl3 .. 0
    pcicr,      \* reg_pinChangeInterruptControl2 .. 0
    pcmsk,      \* PCMSK0, PCMSK1, PCMSK2
    flags,      \* reg_externalInterruptFlag1, 0 and reg_pinChangeInterruptFlag2 .. 0
    enable,     \* reg_sregGlobalInterruptEnable
    phase,      \* where the CPU thread is in its loop
    left,       \* the instructions left in this round
    context,    \* the routine that executes
    stack,      \* the contexts that were interrupted, the latest last
    cause       \* auxiliary: the flags with a reason since their last entry

config  == <<eimsk, sense, pcicr, pcmsk>>
control == <<context, stack>>
vars    == <<pins, portd, config, flags, enable, phase, left, control, cause>>

(* A context is a routine and whether it has set the I bit itself.         *)
Contexts == [of : Flags \cup {"main"}, opened : BOOLEAN]
Main == [of |-> "main", opened |-> FALSE]

Init ==
    /\ pins = [p \in {"B", "C", "D"} |-> {}]
    /\ portd = {}
    /\ eimsk = {} /\ sense = [n \in 0 .. 1 |-> "LOW"]
    /\ pcicr = {} /\ pcmsk = [g \in 0 .. 2 |-> {}]
    /\ flags = {} /\ enable = FALSE
    /\ phase = "events" /\ left = 0
    /\ context = Main /\ stack = <<>>
    /\ cause = {}

-----------------------------------------------------------------------------
(* Matching a change of the pins (int_catch..., _pin.Write).               *)

ExternalFlag(n) == IF n = 0 THEN "INTF0" ELSE "INTF1"
PinChangeFlag(g) == CASE g = 0 -> "PCIF0" [] g = 1 -> "PCIF1" [] g = 2 -> "PCIF2"

(* PD2 is the pin of INT0, PD3 the pin of INT1. *)
PinOf(n) == n + 2

Changed(old, new) == (old \ new) \cup (new \ old)

(* int_catchInt0Interrupt, int_catchInt1Interrupt *)
CatchInt(n, levels) ==
    IF n \in eimsk /\ sense[n] \in levels THEN {ExternalFlag(n)} ELSE {}

(* int_catchPcint0Interrupt .. 2: all three look at PCMSK0. *)
CatchPcint(g, changed) ==
    IF g \in pcicr /\ changed \cap pcmsk[0] # {} THEN {PinChangeFlag(g)} ELSE {}

(* The logic levels that _pindWrite0x29 reports for a pin. *)
Levels(pin, old, new) ==
    CASE pin \in new \ old -> {"RISING", "CHANGING"}
      [] pin \in old \ new -> {"FALLING", "CHANGING"}
      [] OTHER             -> {}

(* The flags raised by a write to PINB, PINC or PIND; PINC is reported as  *)
(* group 0.                                                                *)
Matched(p, old, new) ==
    IF p = "D"
    THEN (UNION {CatchInt(n, Levels(PinOf(n), old, new)) : n \in 0 .. 1})
           \cup CatchPcint(2, Changed(old, new))
    ELSE CatchPcint(0, Changed(old, new))

(* The flags a change of the pins can have to do with. *)
Concerned(p, old, new) ==
    {ExternalFlag(n) : n \in {m \in 0 .. 1 : p = "D" /\ PinOf(m) \in Changed(old, new)}}
      \cup IF Changed(old, new) # {} THEN {PinChangeFlag(g) : g \in 0 .. 2} ELSE {}

WritePins(p, new) ==
    /\ pins' = [pins EXCEPT ![p] = new]
    /\ flags' = flags \cup Matched(p, pins[p], new)
    /\ cause' = cause \cup Concerned(p, pins[p], new)

-----------------------------------------------------------------------------
(* eve_handleEvents, at the start of a round.                              *)

StartRound == phase = "events" /\ phase' = "execute" /\ left' = InstructionsPerRound

NoEvent ==
    /\ StartRound
    /\ UNCHANGED <<pins, portd, config, flags, enable, control, cause>>

(* A fault the runs must notice: the byte that is written back was read    *)
(* before an earlier event.                                                *)
PinEventForgets(n, high) ==
    /\ StartRound
    /\ WritePins("D", IF high THEN {PinOf(n)} ELSE {})
    /\ UNCHANGED <<portd, config, enable, control>>

(* eve_writeToInt0Pin and eve_writeToInt1Pin: PIND is read together with   *)
(* PORTD, and the whole byte is written back.                              *)
PinEvent(n, high) ==
    /\ StartRound
    /\ LET read == pins["D"] \cup portd
       IN  WritePins("D", IF high THEN read \cup {PinOf(n)} ELSE read \ {PinOf(n)})
    /\ UNCHANGED <<portd, config, enable, control>>

-----------------------------------------------------------------------------
(* The instructions that matter: out and sts to a register, cli, reti, and *)
(* any instruction that touches nothing of this.                           *)

Execute == phase = "execute" /\ phase' = "interrupts" /\ UNCHANGED left

Other ==
    /\ Execute
    /\ UNCHANGED <<pins, portd, config, flags, enable, control, cause>>

OutPin(p) ==
    /\ Execute
    /\ \E new \in PinValues[p] : WritePins(p, new)
    /\ UNCHANGED <<portd, config, enable, control>>

OutPortD ==
    /\ Execute
    /\ portd' \in PortDValues
    /\ UNCHANGED <<pins, config, flags, enable, control, cause>>

OutEimsk ==
    /\ Execute
    /\ eimsk' \in EimskValues
    /\ UNCHANGED <<pins, portd, sense, pcicr, pcmsk, flags, enable, control, cause>>

StsEicra ==
    /\ Execute
    /\ sense' \in SenseValues
    /\ UNCHANGED <<pins, portd, eimsk, pcicr, pcmsk, flags, enable, control, cause>>

StsPcicr ==
    /\ Execute
    /\ pcicr' \in PcicrValues
    /\ UNCHANGED <<pins, portd, eimsk, sense, pcmsk, flags, enable, control, cause>>

StsPcmsk(g) ==
    /\ Execute
    /\ \E m \in PcmskValues : pcmsk' = [pcmsk EXCEPT ![g] = m]
    /\ UNCHANGED <<pins, portd, eimsk, sense, pcicr, flags, enable, control, cause>>

(* A flag register is overwritten: a one bit raises the flag. *)
OutFlags(of) ==
    /\ Execute
    /\ \E new \in FlagValues :
          /\ flags' = (flags \ of) \cup (new \cap of)
          /\ cause' = cause \cup (new \cap of)
    /\ UNCHANGED <<pins, portd, config, enable, control>>

(* out SREG; the bound keeps routines from nesting for ever. *)
OutSreg(i) ==
    /\ Execute
    /\ i => Len(stack) <= MaxNesting
    /\ enable' = i
    /\ context' = [context EXCEPT !.opened = @ \/ i]
    /\ UNCHANGED <<pins, portd, config, flags, stack, cause>>

Cli ==
    /\ Execute
    /\ enable' = FALSE
    /\ UNCHANGED <<pins, portd, config, flags, control, cause>>

Reti ==
    /\ Execute
    /\ stack # <<>>
    /\ context' = stack[Len(stack)]
    /\ stack' = SubSeq(stack, 1, Len(stack) - 1)
    /\ enable' = TRUE
    /\ UNCHANGED <<pins, portd, config, flags, cause>>

Instruction ==
    \/ Other \/ OutPortD \/ OutEimsk \/ StsEicra \/ StsPcicr \/ Cli \/ Reti
    \/ \E p \in {"B", "C", "D"} : OutPin(p)
    \/ \E g \in 0 .. 2 : StsPcmsk(g)
    \/ \E of \in {ExternalFlags, PinChangeFlags} : OutFlags(of)
    \/ \E i \in BOOLEAN : OutSreg(i)

-----------------------------------------------------------------------------
(* int_handleInterrupts, after every instruction.                          *)

(* A fault the runs must notice: the chain is written from the last flag   *)
(* to the first.                                                           *)
RankReversed(f) ==
    CASE f = "INTF0" -> 5 [] f = "INTF1" -> 4
      [] f = "PCIF0" -> 3 [] f = "PCIF1" -> 2 [] f = "PCIF2" -> 1

(* The order of the if chain. *)
Rank(f) ==
    CASE f = "INTF0" -> 1 [] f = "INTF1" -> 2
      [] f = "PCIF0" -> 3 [] f = "PCIF1" -> 4 [] f = "PCIF2" -> 5

First(raised) == CHOOSE f \in raised : \A g \in raised : Rank(f) <= Rank(g)

(* Level interrupts are looked for, whatever the level of the pin is. *)
LevelFlags == UNION {CatchInt(n, {"LOW"}) : n \in 0 .. 1}

(* A fault the runs must notice: a round has one instruction too many. *)
NextPhaseTooLate ==
    /\ phase = "interrupts"
    /\ left' = left - 1
    /\ phase' = IF left = 0 THEN "events" ELSE "execute"

NextPhase ==
    /\ phase = "interrupts"
    /\ left' = left - 1
    /\ phase' = IF left = 1 THEN "events" ELSE "execute"

(* A fault the runs must notice: pin change flags may be overlooked. *)
NoInterruptOverlooks ==
    /\ NextPhase
    /\ ~enable \/ (flags \cup LevelFlags) \cap ExternalFlags = {}
    /\ UNCHANGED <<pins, portd, config, flags, enable, control, cause>>

NoInterrupt ==
    /\ NextPhase
    /\ ~enable \/ flags \cup LevelFlags = {}
    /\ UNCHANGED <<pins, portd, config, flags, enable, control, cause>>

(* Faults the runs must notice: the flag stays up, every flag goes down,   *)
(* or interrupts stay enabled.                                             *)
LeaveUp(raised, f) == raised
TakeAllDown(raised, f) == {}
StoreAndStayEnabled == stack' = Append(stack, context) /\ UNCHANGED enable

TakeDown(raised, f) == raised \ {f}

(* _storeProgramCounterOnStack *)
StoreProgramCounterOnStack == stack' = Append(stack, context) /\ enable' = FALSE

EnterRoutine ==
    /\ NextPhase
    /\ enable
    /\ flags \cup LevelFlags # {}
    /\ LET raised == flags \cup LevelFlags
           f      == First(raised)
       IN  /\ context' = [of |-> f, opened |-> FALSE]
           /\ flags' = TakeDown(raised, f)
           /\ cause' = (cause \cup LevelFlags) \ {f}
    /\ StoreProgramCounterOnStack
    /\ UNCHANGED <<pins, portd, config>>

-----------------------------------------------------------------------------
Next ==
    \/ NoEvent
    \/ \E n \in 0 .. 1, high \in BOOLEAN : PinEvent(n, high)
    \/ Instruction
    \/ NoInterrupt
    \/ EnterRoutine

(* The loop of the CPU thread goes on for ever. *)
Spec == Init /\ [][Next]_vars /\ WF_vars(Next)

-----------------------------------------------------------------------------
TypeOK ==
    /\ pins \in [{"B", "C", "D"} -> SUBSET (0 .. 7)] /\ portd \subseteq 0 .. 7
    /\ eimsk \subseteq 0 .. 1 /\ sense \in [0 .. 1 -> Senses]
    /\ pcicr \subseteq 0 .. 2 /\ pcmsk \in [0 .. 2 -> SUBSET (0 .. 7)]
    /\ flags \subseteq Flags /\ cause \subseteq Flags /\ enable \in BOOLEAN
    /\ phase \in {"events", "execute", "interrupts"} /\ left \in 0 .. InstructionsPerRound
    /\ context \in Contexts /\ stack \in Seq(Contexts) /\ Len(stack) <= MaxNesting + 1

Entering == Len(stack') > Len(stack)

(* The vector addresses of map.h, in words. *)
VectorAddress(f) ==
    CASE f = "INTF0" -> 1 [] f = "INTF1" -> 2
      [] f = "PCIF0" -> 3 [] f = "PCIF1" -> 4 [] f = "PCIF2" -> 5

(* A routine is entered only while the I bit is set ("No interrupt will be *)
(* executed after the CLI instruction"), and of all pending interrupts it  *)
(* is the one with the lowest vector address.                              *)
LowestVectorFirst ==
    [][Entering => /\ enable
                   /\ \A f \in flags : VectorAddress(context'.of) <= VectorAddress(f)]_vars

(* One cause, one call: a routine is entered again only when, since it was *)
(* entered last, a pin it can depend on changed or its flag was written,   *)
(* or when it is set to trigger on the level.                              *)
NoSpuriousEntry == [][Entering => context'.of \in cause \cup LevelFlags]_vars

(* A pending interrupt is not forgotten: a flag goes down only when its    *)
(* own routine is entered or the program writes the flag register.         *)
NoLostFlag ==
    [][\A f \in flags \ flags' :
          (Entering /\ context'.of = f) \/ \E of \in {ExternalFlags, PinChangeFlags} : OutFlags(of)]_vars

(* A routine is interrupted only if it has set the I bit itself: entering  *)
(* a routine disables interrupts until it returns.                         *)
RoutinesAreAtomic == \A i \in 1 .. Len(stack) : stack[i].of # "main" => stack[i].opened

(* A flag that stays up while the program leaves interrupts enabled again  *)
(* and again can only be waiting for routines of higher priority.          *)
PendingIsServed ==
    \A f \in Flags :
        <>[](f \in flags) /\ []<>(phase = "interrupts" /\ enable)
            => []<>(context.of # "main" /\ VectorAddress(context.of) < VectorAddress(f))

(* "triggers INT0 interrupt", "triggers INT1 interrupt": an event on the   *)
(* pin of one external interrupt does not request the other one, as long   *)
(* as the program drives no bit of PORTD, which a read of PIND returns.    *)
PinTriggersItsInterrupt ==
    [][\A n \in 0 .. 1 : (\E high \in BOOLEAN : PinEvent(n, high))
          /\ portd = {} => ExternalFlag(1 - n) \notin flags' \ flags]_vars
=============================================================================
