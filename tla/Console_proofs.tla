---------------------------- MODULE Console_proofs ----------------------------
(***************************************************************************)
(* Theorems about the commands of the console.                             *)
(*                                                                         *)
(* s and h, CpuControl, for every set of threads: the types, and that a    *)
(* user who reads the screen never gets two CPUs at work and never loses a *)
(* run to a stop that was meant for an earlier one.                        *)
(*                                                                         *)
(* 1 to 4, Emulator, for every program and size of the ring: to a patient  *)
(* user the CPUs that come and go are one, and what was typed last gets to *)
(* its pin, whatever overlaps the ring is used in, unless its flag was     *)
(* raced against.                                                          *)
(*                                                                         *)
(* l and d, Listing, for all files and sizes: in each of the 65536 words   *)
(* at most one instruction is seen, its length is the same wherever it is  *)
(* looked up and its operands are those of the comments; and the listing   *)
(* shows what is in the file.                                              *)
(***************************************************************************)
EXTENDS Emulator, Listing, FiniteSetTheorems, TLAPS

-----------------------------------------------------------------------------
(* Starting and stopping the CPU.                                          *)

(* The commands that start and stop a CPU, and the steps of one thread.    *)
LEMMA CpuStepTyped ==
    ASSUME CpuTypeOK, [CpuNext]_cpuVars PROVE CpuTypeOK'
<1>1. CASE Boot
  BY <1>1 DEF CpuTypeOK, Boot, CpuStart, Live
<1>2. CASE MayStart /\ CommandStart
  BY <1>2 DEF CpuTypeOK, CommandStart, CpuStart, Live
<1>3. CASE MayStop /\ CommandStop
  BY <1>3 DEF CpuTypeOK, CommandStop
<1>4. CASE CommandExit
  BY <1>4 DEF CpuTypeOK, CommandExit
<1>5. ASSUME NEW t \in Threads, Thread(t) PROVE CpuTypeOK'
  <2>1. CASE Reset(t)
    BY <2>1 DEF CpuTypeOK, Reset, Goto
  <2>2. CASE Test(t)
    BY <2>2 DEF CpuTypeOK, Test, Goto
  <2>3. CASE Round(t)
    BY <2>3 DEF CpuTypeOK, Round, Goto
  <2>4. CASE Clear(t)
    BY <2>4 DEF CpuTypeOK, Clear, Goto
  <2>5. CASE PrintStopped(t)
    BY <2>5 DEF CpuTypeOK, PrintStopped, Goto
  <2>6. QED
    BY <1>5, <2>1, <2>2, <2>3, <2>4, <2>5 DEF Thread
<1>6. ASSUME NEW t \in Threads, Fault(t) PROVE CpuTypeOK'
  BY <1>6 DEF CpuTypeOK, Fault
<1>7. CASE UNCHANGED cpuVars
  BY <1>7 DEF CpuTypeOK, cpuVars
<1>8. QED
  BY <1>1, <1>2, <1>3, <1>4, <1>5, <1>6, <1>7 DEF CpuNext, Cpu

(* Whatever the user types, every variable of the threads and of the       *)
(* console keeps its type.                                                 *)
THEOREM CpuTypeCorrect == CpuSpec => []CpuTypeOK
<1>1. CpuInit => CpuTypeOK
  BY DEF CpuInit, CpuTypeOK
<1>2. CpuTypeOK /\ [CpuNext]_cpuVars => CpuTypeOK'
  BY CpuStepTyped
<1>3. QED
  BY <1>1, <1>2, PTL DEF CpuSpec

(* What a patient user relies on: at most one thread exists, "cpu stopped" *)
(* on the screen or no boot yet means that none does, and a raised signal  *)
(* that a loop can see was raised after the latest start.                  *)
OneThread == \A s, t \in Threads : threadPc[s] # "none" /\ threadPc[t] # "none" => s = t
ScreenTells ==
    "stopped" \in screen \/ console = "boot" => \A t \in Threads : threadPc[t] = "none"
SignalIsFresh ==
    \A t \in Threads : threadPc[t] \in {"test", "round"} /\ stopSignal => last = "stop"

PatientInv == CpuTypeOK /\ OneThread /\ ScreenTells /\ SignalIsFresh

(* Nobody is there when a patient user starts the CPU.                     *)
LEMMA StartKeepsInv ==
    ASSUME PatientInv, NEW v \in BOOLEAN, CpuStart(v), CpuTypeOK',
           \A t \in Threads : threadPc[t] = "none"
    PROVE  OneThread' /\ (\A t \in Threads : threadPc'[t] \in {"none", "created"})
<1>1. CASE UNCHANGED threadPc
  BY <1>1 DEF OneThread
<1>2. ASSUME NEW t \in Threads, threadPc' = [threadPc EXCEPT ![t] = "created"]
      PROVE  OneThread' /\ (\A s \in Threads : threadPc'[s] \in {"none", "created"})
  BY <1>2 DEF OneThread, PatientInv, CpuTypeOK
<1>3. QED
  BY <1>1, <1>2 DEF CpuStart

LEMMA PatientStep ==
    ASSUME PatientInv, [CpuNext]_cpuVars, user = "patient"
    PROVE  PatientInv'
<1> USE DEF PatientInv
<1>0. CpuTypeOK'
  BY CpuStepTyped
<1>1. CASE Boot
  <2>1. \A t \in Threads : threadPc[t] = "none"
    BY <1>1 DEF Boot, ScreenTells
  <2>2. PICK v \in BOOLEAN : CpuStart(v)
    BY <1>1 DEF Boot
  <2>3. OneThread' /\ \A t \in Threads : threadPc'[t] \in {"none", "created"}
    BY <1>0, <2>1, <2>2, StartKeepsInv
  <2>4. screen' = {} /\ console' = "loop"
    BY <1>1, <2>2 DEF CpuStart, Boot
  <2>5. ScreenTells' /\ SignalIsFresh'
    BY <2>3, <2>4 DEF ScreenTells, SignalIsFresh
  <2>6. QED
    BY <1>0, <2>3, <2>5
<1>2. CASE MayStart /\ CommandStart
  <2>1. \A t \in Threads : threadPc[t] = "none"
    BY <1>2 DEF ScreenTells, MayStart
  <2>2. CpuStart(TRUE) /\ screen' = {} /\ console' = "loop"
    BY <1>2 DEF CommandStart, CpuStart
  <2>3. OneThread' /\ \A t \in Threads : threadPc'[t] \in {"none", "created"}
    BY <1>0, <2>1, <2>2, StartKeepsInv
  <2>4. ScreenTells' /\ SignalIsFresh'
    BY <2>2, <2>3 DEF ScreenTells, SignalIsFresh
  <2>5. QED
    BY <1>0, <2>3, <2>4
<1>3. CASE MayStop /\ CommandStop
  BY <1>0, <1>3 DEF CommandStop, MayStop, OneThread, ScreenTells, SignalIsFresh
<1>4. CASE CommandExit
  BY <1>0, <1>4 DEF CommandExit, OneThread, ScreenTells, SignalIsFresh
<1>5. ASSUME NEW t \in Threads, Thread(t) PROVE PatientInv'
  <2>1. CASE Reset(t)
    BY <1>0, <2>1 DEF Reset, Goto, CpuTypeOK, OneThread, ScreenTells, SignalIsFresh
  <2>2. CASE Test(t)
    BY <1>0, <2>2 DEF Test, Goto, CpuTypeOK, OneThread, ScreenTells, SignalIsFresh
  <2>3. CASE Round(t)
    <3>1. OneThread' /\ SignalIsFresh'
      BY <2>3 DEF Round, Goto, CpuTypeOK, OneThread, SignalIsFresh
    <3>2. ScreenTells'
      BY <2>3 DEF Round, Goto, CpuTypeOK, ScreenTells
    <3>3. QED
      BY <1>0, <3>1, <3>2
  <2>4. CASE Clear(t)
    BY <1>0, <2>4 DEF Clear, Goto, CpuTypeOK, OneThread, ScreenTells, SignalIsFresh
  <2>5. CASE PrintStopped(t)
    <3>1. \A s \in Threads : threadPc'[s] = "none"
      BY <2>5 DEF PrintStopped, Goto, CpuTypeOK, OneThread
    <3>2. QED
      BY <1>0, <3>1 DEF OneThread, ScreenTells, SignalIsFresh
  <2>6. QED
    BY <1>5, <2>1, <2>2, <2>3, <2>4, <2>5 DEF Thread
<1>6. ASSUME NEW t \in Threads, Fault(t) PROVE PatientInv'
  BY <1>0, <1>6 DEF Fault, OneThread, ScreenTells, SignalIsFresh
<1>7. CASE UNCHANGED cpuVars
  BY <1>0, <1>7 DEF cpuVars, OneThread, ScreenTells, SignalIsFresh
<1>8. QED
  BY <1>1, <1>2, <1>3, <1>4, <1>5, <1>6, <1>7 DEF CpuNext, Cpu

PatientsInv == CpuTypeOK /\ (user = "patient" => PatientInv)

LEMMA PatientInvariant == CpuSpec => []PatientsInv
<1>1. CpuInit => PatientsInv
  BY DEF CpuInit, PatientsInv, PatientInv, CpuTypeOK, OneThread, ScreenTells,
     SignalIsFresh
<1>2. PatientsInv /\ [CpuNext]_cpuVars => PatientsInv'
  <2>1. ASSUME [CpuNext]_cpuVars PROVE user' = user
    BY <2>1 DEF CpuNext, cpuVars, Boot, CommandStart, CommandStop, CommandExit, Cpu,
       Thread, Reset, Test, Round, Clear, PrintStopped, Fault
  <2>2. QED
    BY <2>1, PatientStep, CpuStepTyped DEF PatientsInv
<1>3. QED
  BY <1>1, <1>2, PTL DEF CpuSpec

(* A user who starts the CPU again only after "cpu stopped" was printed    *)
(* never has two threads executing the machine's program at one time.      *)
THEOREM PatientAtMostOne == CpuSpec => []PatientAtMostOneCpu
<1>1. PatientsInv => PatientAtMostOneCpu
  BY DEF PatientsInv, PatientInv, OneThread, AtMostOneCpu, PatientAtMostOneCpu
<1>2. QED
  BY <1>1, PatientInvariant, PTL

(* For that user the loop never ends because of a signal that was left     *)
(* raised from before the latest start.                                    *)
THEOREM PatientOnlyStopEnds == CpuSpec => OnlyStopEndsTheLoop
<1> DEFINE Leaves == user = "patient" =>
                         \A t \in Threads :
                           threadPc[t] = "test" /\ threadPc'[t] = "clear" => last = "stop"
<1>1. PatientsInv /\ [CpuNext]_cpuVars => [Leaves]_cpuVars
  <2> SUFFICES ASSUME PatientInv, CpuNext, user = "patient",
                      NEW t \in Threads, threadPc[t] = "test", threadPc'[t] = "clear"
               PROVE  last = "stop"
    BY DEF PatientsInv
  <2>1. stopSignal
    BY DEF CpuNext, Boot, CommandStart, CpuStart, CommandStop, CommandExit, Cpu,
       Thread, Reset, Test, Round, Clear, PrintStopped, Fault, Goto, PatientInv,
       CpuTypeOK, Live
  <2>2. QED
    BY <2>1 DEF PatientInv, SignalIsFresh
<1>2. QED
  BY <1>1, PatientInvariant, PTL DEF CpuSpec, OnlyStopEndsTheLoop

-----------------------------------------------------------------------------
(* The CPUs at work: Emulator.                                             *)

(* What is proved of the ring holds of the ring here.                      *)
RingFacts == INSTANCE EventQueue_proofs WITH Cpus <- Threads, last <- handled

LEMMA SameSteps ==
    /\ Ring!Enqueue => RingFacts!Enqueue
    /\ \A e : Ring!EnqueueRear(e) => RingFacts!EnqueueRear(e)
    /\ \A t : Ring!HandleEvents(t) => RingFacts!HandleEvents(t)
    /\ \A t : Ring!Dequeue(t) => RingFacts!Dequeue(t)
  BY DEF
      Ring!Index, RingFacts!Index, Ring!Slot, RingFacts!Slot, Ring!NullEvent,
      RingFacts!NullEvent, Ring!MainGoto, RingFacts!MainGoto, Ring!CpuGoto, RingFacts!CpuGoto,
      Ring!Succ, RingFacts!Succ, Ring!ring, RingFacts!ring, Ring!main, RingFacts!main, Ring!cpu,
      RingFacts!cpu, Ring!InWindow, RingFacts!InWindow, Ring!OneCpu, RingFacts!OneCpu,
      Ring!InHandleEvents, RingFacts!InHandleEvents, Ring!EnqueueRear, RingFacts!EnqueueRear,
      Ring!EnqueueFun, RingFacts!EnqueueFun, Ring!EnqueueArg, RingFacts!EnqueueArg,
      Ring!EnqueueTest, RingFacts!EnqueueTest, Ring!EnqueueLoadFront,
      RingFacts!EnqueueLoadFront, Ring!EnqueueStoreFront, RingFacts!EnqueueStoreFront,
      Ring!EnqueueFlag, RingFacts!EnqueueFlag, Ring!Enqueue, RingFacts!Enqueue,
      Ring!HandleEvents, RingFacts!HandleEvents, Ring!DequeueLoadFront,
      RingFacts!DequeueLoadFront, Ring!DequeueStoreFront, RingFacts!DequeueStoreFront,
      Ring!DequeueIndex, RingFacts!DequeueIndex, Ring!DequeueFun, RingFacts!DequeueFun,
      Ring!DequeueArg, RingFacts!DequeueArg, Ring!DequeueFront, RingFacts!DequeueFront,
      Ring!DequeueTest, RingFacts!DequeueTest, Ring!DequeueClear, RingFacts!DequeueClear,
      Ring!CallHandler, RingFacts!CallHandler, Ring!Dequeue, RingFacts!Dequeue

LEMMA SameStates ==
    /\ Ring!TypeOK <=> RingFacts!TypeOK
    /\ Ring!TypeOK' <=> RingFacts!TypeOK'
    /\ RingFacts!NothingWaits => Ring!NothingWaits
  BY DEF Ring!TypeOK, RingFacts!TypeOK, Ring!NothingWaits, RingFacts!NothingWaits,
      Ring!Quiet, RingFacts!Quiet,
      Ring!Index, RingFacts!Index, Ring!Slot, RingFacts!Slot, Ring!NullEvent,
      RingFacts!NullEvent, Ring!InHandleEvents, RingFacts!InHandleEvents

LEMMA RingAssumptions ==
    QUEUE_SIZE \in Nat /\ QUEUE_SIZE > 1 /\ Events \subseteq RingFacts!PinEvents
  BY CommandsAssumption DEF RingFacts!PinEvents

(* The steps that are accesses of the ring.                                *)
Accesses ==
    \/ Ring!Enqueue \/ \E e \in Events : Ring!EnqueueRear(e)
    \/ \E t \in Threads : Ring!HandleEvents(t) \/ Ring!Dequeue(t)

LEMMA RingTyped == ASSUME Ring!TypeOK, Accesses PROVE Ring!TypeOK'
<1>1. RingFacts!TypeOK
  BY SameStates
<1>2. CASE Ring!Enqueue \/ \E e \in Events : Ring!EnqueueRear(e)
  <2>1. RingFacts!Enqueue \/ \E e \in Events : RingFacts!EnqueueRear(e)
    BY <1>2, SameSteps
  <2>2. QED
    BY <1>1, <2>1, RingAssumptions, SameStates, RingFacts!EnqueueTyped
<1>3. ASSUME NEW t \in Threads, Ring!HandleEvents(t) \/ Ring!Dequeue(t) PROVE Ring!TypeOK'
  <2>1. RingFacts!HandleEvents(t) \/ RingFacts!Dequeue(t)
    BY <1>3, SameSteps
  <2>2. QED
    BY <1>1, <2>1, RingAssumptions, SameStates, RingFacts!DequeueTyped
<1>4. QED
  BY <1>2, <1>3 DEF Accesses

(* What happens outside the bodies of the loops is a step of CpuControl    *)
(* that ends no body, or of the console thread in eve_enqueueEvent.        *)
Around ==
    /\ CpuNext /\ UNCHANGED <<ring, machine, locals, history>>
    /\ \A t \in Threads : threadPc[t] = "round" => threadPc'[t] = "round"

LEMMA ControlStep ==
    ASSUME EmuTypeOK, EmuNext
    PROVE  \/ Around
           \/ Enqueue \/ \E e \in Events : CommandPin(e)
           \/ \E t \in Threads : Body(t)
<1> DEFINE Kept == \A t \in Threads : threadPc[t] = "round" => threadPc'[t] = "round"
<1>1. threadPc \in [Threads -> {"none", "created", "test", "round", "clear", "print"}]
  BY DEF EmuTypeOK, CpuTypeOK
<1>2. \A v : CpuStart(v) => Kept
  BY <1>1 DEF CpuStart, Live
<1>3. Boot \/ CommandStart \/ CommandStop \/ CommandExit => Kept
  BY <1>2 DEF Boot, CommandStart, CommandStop, CommandExit
<1>4. ASSUME NEW t \in Threads, NextThreadStep(t) \/ FaultOf(t) PROVE Kept
  BY <1>1, <1>4 DEF NextThreadStep, FaultOf, Fault, Reset, Test, Clear, PrintStopped, Goto
<1>5. QED
  BY <1>3, <1>4 DEF EmuNext, BootCpu, Command, NextThreadStep, FaultOf, CpuNext, Cpu, Thread,
     Around

(* The console thread in eve_enqueueEvent.                                 *)
LEMMA ConsoleMoves ==
    ASSUME Enqueue \/ \E e \in Events : CommandPin(e)
    PROVE  Accesses /\ UNCHANGED <<cpuVars, machine, locals, untouched>>
<1>1. CASE Enqueue
  BY <1>1 DEF Enqueue, Accesses, Ring!Enqueue, Ring!EnqueueFun, Ring!EnqueueArg,
     Ring!EnqueueTest,
     Ring!EnqueueLoadFront, Ring!EnqueueStoreFront, Ring!EnqueueFlag, control, cpuVars, history
<1>2. ASSUME NEW e \in Events, CommandPin(e)
      PROVE  Accesses /\ UNCHANGED <<cpuVars, machine, locals, untouched>>
  BY <1>2 DEF CommandPin, Accesses, Ring!EnqueueRear, control, cpuVars
<1>3. QED
  BY <1>1, <1>2

(* Within a body the ring is accessed, or let alone.                       *)
LEMMA BodyAccesses ==
    ASSUME NEW t \in Threads, Body(t)
    PROVE  Accesses \/ UNCHANGED <<ring, alive>>
<1>1. CASE HandleEvents(t)
  BY <1>1 DEF HandleEvents, Accesses
<1>2. CASE Dequeue(t) \/ CallHandler(t)
  BY <1>2 DEF Dequeue, CallHandler, Ring!Dequeue, Accesses
<1>3. CASE Instruction(t)
  BY <1>3 DEF Instruction, cpuVars
<1>4. CASE HandleInterrupts(t)
  BY <1>4 DEF HandleInterrupts
<1>5. QED
  BY <1>1, <1>2, <1>3, <1>4 DEF Body

(* The steps that move no thread in its body.                              *)
Still(t) ==
    \/ Dequeue(t)
    \/ HandleEvents(t) /\ pending
    \/ CallHandler(t) /\ cev[t].fun = "NULL"

(* A body moves its own thread, prints, and touches nothing else of        *)
(* CpuControl, but that a null event ends the process.                     *)
LEMMA BodyMoves ==
    ASSUME EmuTypeOK, NEW t \in Threads, Body(t)
    PROVE  /\ threadPc[t] = "round" /\ threadPc' \in {threadPc, [threadPc EXCEPT ![t] = "test"]}
           /\ threadPc' # threadPc => at'[t] = "events"
           /\ screen' \in {screen, screen \cup {"trace"}}
           /\ UNCHANGED <<verbose, stopSignal, console, last, user>>
           /\ Still(t) => UNCHANGED <<machine, locals>>
           /\ \E p \in Places, n \in 0 .. InstructionsPerRound :
                 at' = [at EXCEPT ![t] = p] /\ counter' = [counter EXCEPT ![t] = n]
<1>1. /\ at[t] \in Places /\ counter[t] \in 0 .. InstructionsPerRound
      /\ at = [at EXCEPT ![t] = at[t]] /\ counter = [counter EXCEPT ![t] = counter[t]]
  BY DEF EmuTypeOK
<1>2. CASE HandleEvents(t)
  <2>1. /\ UNCHANGED <<machine, locals>> \/ Moves(t)
        /\ Still(t) => UNCHANGED <<machine, locals>>
    BY <1>2 DEF HandleEvents, Still, Dequeue, CallHandler
  <2>2. QED
    BY <1>1, <1>2, <2>1 DEF HandleEvents, InBody, Moves, Trace, locals
<1>3. CASE Dequeue(t)
  BY <1>1, <1>3 DEF Dequeue, InBody, control, locals, Still
<1>4. CASE CallHandler(t)
  <2>1. CASE cev[t].fun = "NULL"
    BY <1>1, <1>4, <2>1 DEF CallHandler, InBody, control, locals, Still
  <2>2. CASE cev[t].fun # "NULL"
    <3>1. Moves(t) /\ UNCHANGED control
      BY <1>4, <2>2 DEF CallHandler
    <3>2. ~Still(t)
      <4>1. Ring!CallHandler(t)
        BY <1>4 DEF CallHandler
      <4>2. cpc[t] = "call"
        BY <4>1 DEF Ring!CallHandler, Ring!CpuGoto
      <4>3. QED
        BY <2>2, <4>2 DEF Still, Dequeue, HandleEvents
    <3>3. QED
      BY <3>1, <3>2 DEF Moves, InBody, control
  <2>3. QED
    BY <2>1, <2>2
<1>5. ASSUME Instruction(t) \/ HandleInterrupts(t) PROVE ~Still(t)
  <2>1. at[t] # "events" /\ UNCHANGED ring
    BY <1>5 DEF Instruction, HandleInterrupts, Loop!Instruction, Loop!Other, Loop!OutPortD,
       Loop!OutPin, Loop!OutEimsk, Loop!StsEicra, Loop!StsPcicr, Loop!StsPcmsk, Loop!OutFlags,
       Loop!OutSreg, Loop!Cli, Loop!Reti, Loop!Execute, Loop!NoInterrupt, Loop!EnterRoutine,
       Loop!NextPhase
  <2>2. Ring!Dequeue(t) => cpc' # cpc
    BY DEF EmuTypeOK, Ring!TypeOK, Ring!CpuGoto, Ring!Dequeue, Ring!DequeueLoadFront,
       Ring!DequeueStoreFront, Ring!DequeueIndex, Ring!DequeueFun, Ring!DequeueArg,
       Ring!DequeueFront, Ring!DequeueTest, Ring!DequeueClear, Ring!CallHandler
  <2>3. CallHandler(t) => Ring!Dequeue(t)
    BY DEF CallHandler, Ring!Dequeue
  <2>4. QED
    BY <2>1, <2>2, <2>3 DEF Still, Dequeue, HandleEvents, ring
<1>6. CASE Instruction(t)
  BY <1>5, <1>6 DEF Instruction, Moves, InBody, cpuVars
<1>7. CASE HandleInterrupts(t)
  <2>1. Moves(t) /\ EndRound(t) /\ UNCHANGED <<verbose, stopSignal, console, last, screen, user>>
    BY <1>7 DEF HandleInterrupts
  <2>2. InBody(t)
    BY <2>1 DEF Moves
  <2>3. QED
    BY <1>5, <1>7, <2>1, <2>2 DEF Moves, InBody, EndRound
<1>8. QED
  BY <1>2, <1>3, <1>4, <1>6, <1>7 DEF Body

(* Of the ring a body changes what belongs to the CPU threads.             *)
LEMMA BodyOnRing ==
    ASSUME NEW t \in Threads, Body(t)
    PROVE  UNCHANGED <<rear, slots, mpc, mev, typed>>
<1>1. CASE HandleEvents(t)
  BY <1>1 DEF HandleEvents, Ring!HandleEvents, Ring!ring, Ring!main, ring, history
<1>2. CASE Dequeue(t) \/ CallHandler(t)
  BY <1>2 DEF Dequeue, CallHandler, Ring!Dequeue, Ring!DequeueLoadFront, Ring!DequeueStoreFront,
     Ring!DequeueIndex, Ring!DequeueFun, Ring!DequeueArg, Ring!DequeueFront, Ring!DequeueTest,
     Ring!DequeueClear, Ring!CallHandler, Ring!ring, Ring!main, history
<1>3. CASE Instruction(t) \/ HandleInterrupts(t)
  BY <1>3 DEF Instruction, HandleInterrupts, ring, history
<1>4. QED
  BY <1>1, <1>2, <1>3 DEF Body

LEMMA RingKept == ASSUME Ring!TypeOK, UNCHANGED <<ring, alive>> PROVE Ring!TypeOK'
  BY DEF Ring!TypeOK, Ring!Index, Ring!Slot, Ring!NullEvent, ring

LEMMA BodyKeepsTypes ==
    ASSUME EmuTypeOK, NEW t \in Threads, Body(t)
    PROVE  /\ CpuTypeOK' /\ Ring!TypeOK'
           /\ at' \in [Threads -> Places] /\ counter' \in [Threads -> 0 .. InstructionsPerRound]
<1>1. Ring!TypeOK'
  BY BodyAccesses, RingTyped, RingKept DEF EmuTypeOK
<1>2. alive' \in BOOLEAN
  BY <1>1 DEF Ring!TypeOK
<1>3. CpuTypeOK'
  BY <1>2, BodyMoves DEF EmuTypeOK, CpuTypeOK
<1>4. PICK p \in Places, n \in 0 .. InstructionsPerRound :
             at' = [at EXCEPT ![t] = p] /\ counter' = [counter EXCEPT ![t] = n]
  BY BodyMoves
<1>5. at \in [Threads -> Places] /\ counter \in [Threads -> 0 .. InstructionsPerRound]
  BY DEF EmuTypeOK
<1>6. QED
  BY <1>1, <1>3, <1>4, <1>5

(* What an event does to the pins.                                         *)
Driven(e) ==
    LET read == pins["D"] \cup portd
        n == IntOf(e) + 2
    IN  pins' = [pins EXCEPT !["D"] = IF High(e) THEN read \cup {n} ELSE read \ {n}]

LEMMA EventsOnPins ==
    ASSUME EmuTypeOK, NEW t \in Threads, HandleEvents(t) \/ Dequeue(t) \/ CallHandler(t)
    PROVE  /\ UNCHANGED <<portd, history>>
           /\ \/ UNCHANGED <<pins, handled>>
              \/ UNCHANGED pins /\ handled'.fun = "NULL"
              \/ handled' = cev[t] /\ Driven(cev[t])
<1>1. CASE HandleEvents(t)
  BY <1>1 DEF HandleEvents, Ring!HandleEvents, Loop!NoEvent, machine, ring
<1>2. CASE Dequeue(t)
  <2>1. handled' = handled
    BY <1>2 DEF Dequeue, Ring!Dequeue, Ring!DequeueLoadFront, Ring!DequeueStoreFront,
       Ring!DequeueIndex, Ring!DequeueFun, Ring!DequeueArg, Ring!DequeueFront, Ring!DequeueTest,
       Ring!DequeueClear, Ring!CallHandler, Ring!CpuGoto
  <2>2. QED
    BY <1>2, <2>1 DEF Dequeue, machine
<1>3. CASE CallHandler(t)
  <2>1. handled' = cev[t]
    BY <1>3 DEF CallHandler, Ring!CallHandler
  <2>2. CASE cev[t].fun = "NULL"
    BY <1>3, <2>1, <2>2 DEF CallHandler, machine
  <2>3. CASE cev[t].fun # "NULL"
    BY <1>3, <2>1, <2>3 DEF CallHandler, Driven, Loop!PinEvent, Loop!WritePins, Loop!PinOf
  <2>4. QED
    BY <2>2, <2>3
<1>4. QED
  BY <1>1, <1>2, <1>3

LEMMA InstructionOnPins ==
    ASSUME EmuTypeOK, NEW t \in Threads, Instruction(t)
    PROVE  /\ UNCHANGED <<ring, typed>>
           /\ untouched' = (untouched /\ pins'["D"] = pins["D"] /\ portd' = {})
           /\ portd' = portd \/ portd' \in PortDValues
           /\ \/ pins' = pins
              \/ \E p \in {"B", "C", "D"} :
                    \E new \in PinValues[p] : pins' = [pins EXCEPT ![p] = new]
<1>1. Loop(t)!Instruction
  BY DEF Instruction
<1>2. CASE Loop(t)!OutPortD
  BY <1>2 DEF Loop!OutPortD, Instruction
<1>3. CASE \E p \in {"B", "C", "D"} : Loop(t)!OutPin(p)
  BY <1>3 DEF Loop!OutPin, Loop!WritePins, Instruction
<1>4. CASE UNCHANGED <<pins, portd>>
  BY <1>4 DEF Instruction
<1>5. QED
  BY <1>1, <1>2, <1>3, <1>4
  DEF Loop!Instruction, Loop!Other, Loop!OutEimsk, Loop!StsEicra, Loop!StsPcicr, Loop!StsPcmsk,
     Loop!OutFlags, Loop!OutSreg, Loop!Cli, Loop!Reti

LEMMA InterruptsOnPins ==
    ASSUME NEW t \in Threads, HandleInterrupts(t)
    PROVE  UNCHANGED <<pins, portd, ring, history>>
  BY DEF HandleInterrupts, Loop!NoInterrupt, Loop!EnterRoutine

LEMMA PinsTyped ==
    ASSUME EmuTypeOK, NEW p \in {"B", "C", "D"}, NEW new \in SUBSET (0 .. 7)
    PROVE  [pins EXCEPT ![p] = new] \in [{"B", "C", "D"} -> SUBSET (0 .. 7)]
  BY DEF EmuTypeOK

LEMMA EmuStepTyped ==
    ASSUME EmuTypeOK, [EmuNext]_emuVars
    PROVE  EmuTypeOK'
<1>1. CASE [CpuNext]_cpuVars /\ UNCHANGED <<ring, machine, locals, history>>
  <2>1. CpuTypeOK'
    BY <1>1, CpuStepTyped DEF EmuTypeOK
  <2>2. alive' \in BOOLEAN
    BY <2>1 DEF CpuTypeOK
  <2>3. Ring!TypeOK'
    BY <1>1, <2>2 DEF EmuTypeOK, Ring!TypeOK, Ring!Index, Ring!Slot, Ring!NullEvent, ring
  <2>4. QED
    BY <1>1, <2>1, <2>3 DEF EmuTypeOK, machine, locals, history
<1>2. CASE Enqueue \/ \E e \in Events : CommandPin(e)
  <2>1. Ring!TypeOK' /\ UNCHANGED <<cpuVars, machine, locals, untouched>>
    BY <1>2, ConsoleMoves, RingTyped DEF EmuTypeOK
  <2>2. typed' \in Events \cup {NullEvent}
    BY <1>2 DEF EmuTypeOK, Enqueue, CommandPin, history
  <2>3. QED
    BY <2>1, <2>2 DEF EmuTypeOK, CpuTypeOK, cpuVars, machine, locals
<1>3. ASSUME NEW t \in Threads, Body(t) PROVE EmuTypeOK'
  <2> DEFINE PinsOK == pins \in [{"B", "C", "D"} -> SUBSET (0 .. 7)] /\ portd \subseteq 0 .. 7
             HistoryOK == typed \in Events \cup {NullEvent} /\ untouched \in BOOLEAN
  <2>1. CASE HandleEvents(t) \/ Dequeue(t) \/ CallHandler(t)
    <3>1. PinsOK'
      <4>1. portd' = portd
        BY <2>1, EventsOnPins
      <4>2. CASE pins' = pins
        BY <4>1, <4>2 DEF EmuTypeOK
      <4>3. CASE Driven(cev[t])
        <5> DEFINE read == pins["D"] \cup portd
                   new == IF High(cev[t]) THEN read \cup {IntOf(cev[t]) + 2}
                          ELSE read \ {IntOf(cev[t]) + 2}
        <5>1. new \in SUBSET (0 .. 7)
          <6>1. pins["D"] \subseteq 0 .. 7 /\ portd \subseteq 0 .. 7
            BY DEF EmuTypeOK
          <6>2. IntOf(cev[t]) + 2 \in 0 .. 7
            BY DEF IntOf
          <6>3. QED
            BY <6>1, <6>2
        <5>2. pins' = [pins EXCEPT !["D"] = new]
          BY <4>3 DEF Driven
        <5>3. QED
          BY <4>1, <5>1, <5>2, PinsTyped DEF EmuTypeOK
      <4>4. QED
        BY <2>1, <4>2, <4>3, EventsOnPins
    <3>2. HistoryOK'
      BY <2>1, EventsOnPins DEF EmuTypeOK, history
    <3>3. QED
      BY <1>3, <3>1, <3>2, BodyKeepsTypes DEF EmuTypeOK
  <2>2. CASE Instruction(t)
    <3>1. pins' \in [{"B", "C", "D"} -> SUBSET (0 .. 7)]
      <4>1. CASE pins' = pins
        BY <4>1 DEF EmuTypeOK
      <4>2. ASSUME NEW p \in {"B", "C", "D"}, NEW new \in PinValues[p],
                   pins' = [pins EXCEPT ![p] = new]
            PROVE  pins' \in [{"B", "C", "D"} -> SUBSET (0 .. 7)]
        <5>1. new \in SUBSET (0 .. 7)
          BY ValuesAssumption
        <5>2. QED
          BY <4>2, <5>1, PinsTyped
      <4>3. QED
        BY <2>2, <4>1, <4>2, InstructionOnPins
    <3>2. portd' \subseteq 0 .. 7
      BY <2>2, InstructionOnPins, ValuesAssumption DEF EmuTypeOK
    <3>3. HistoryOK'
      BY <2>2, InstructionOnPins DEF EmuTypeOK
    <3>4. QED
      BY <1>3, <3>1, <3>2, <3>3, BodyKeepsTypes DEF EmuTypeOK
  <2>3. CASE HandleInterrupts(t)
    BY <1>3, <2>3, InterruptsOnPins, BodyKeepsTypes DEF EmuTypeOK, history
  <2>4. QED
    BY <1>3, <2>1, <2>2, <2>3 DEF Body
<1>4. QED
  BY <1>1, <1>2, <1>3, ControlStep DEF emuVars, Around

(* Outside its body a thread is at its beginning, and so is its counter.   *)
AtRest ==
    \A t \in Threads :
        /\ threadPc[t] # "round" => at[t] = "events"
        /\ at[t] = "events" => counter[t] = 0

EmuInv == EmuTypeOK /\ AtRest /\ (user = "patient" => PatientInv)

LEMMA CounterAtEnd ==
    ASSUME EmuTypeOK, AtRest, NEW t \in Threads, Body(t)
    PROVE  at'[t] = "events" => counter'[t] = 0
<1>1. CASE UNCHANGED locals
  BY <1>1 DEF AtRest, locals
<1>2. CASE HandleEvents(t) \/ CallHandler(t)
  <2>1. UNCHANGED locals \/ at'[t] = "execute"
    BY <1>2 DEF HandleEvents, CallHandler, Loop!NoEvent, Loop!PinEvent, Loop!StartRound
  <2>2. QED
    BY <1>1, <2>1
<1>3. CASE Instruction(t)
  <2>1. at'[t] = "interrupts"
    BY <1>3 DEF Instruction, Loop!Instruction, Loop!Other, Loop!OutPortD, Loop!OutPin,
       Loop!OutEimsk, Loop!StsEicra, Loop!StsPcicr, Loop!StsPcmsk, Loop!OutFlags, Loop!OutSreg,
          Loop!Cli,
       Loop!Reti, Loop!Execute
  <2>2. QED
    BY <2>1
<1>4. CASE HandleInterrupts(t)
  <2>1. Loop(t)!NextPhase
    BY <1>4 DEF HandleInterrupts, Loop!NoInterrupt, Loop!EnterRoutine
  <2>2. at'[t] = "events" => counter[t] = 1 /\ counter'[t] = counter[t] - 1
    BY <2>1 DEF Loop!NextPhase
  <2>3. QED
    BY <2>2
<1>5. QED
  BY <1>1, <1>2, <1>3, <1>4 DEF Body, Dequeue

LEMMA AtRestStep ==
    ASSUME EmuTypeOK, AtRest, [EmuNext]_emuVars
    PROVE  AtRest'
<1>1. CASE Around
  BY <1>1 DEF Around, AtRest, locals
<1>2. ASSUME NEW t \in Threads, Body(t) PROVE AtRest'
  <2> SUFFICES ASSUME NEW s \in Threads
               PROVE  /\ threadPc'[s] # "round" => at'[s] = "events"
                      /\ at'[s] = "events" => counter'[s] = 0
    BY DEF AtRest
  <2>1. CASE s = t
    BY <1>2, <2>1, CounterAtEnd, BodyMoves DEF EmuTypeOK, CpuTypeOK
  <2>2. CASE s # t
    BY <1>2, <2>2, BodyMoves DEF AtRest, EmuTypeOK, CpuTypeOK
  <2>3. QED
    BY <2>1, <2>2
<1>3. CASE Enqueue \/ \E e \in Events : CommandPin(e)
  BY <1>3, ConsoleMoves DEF AtRest, locals, cpuVars
<1>4. QED
  BY <1>1, <1>2, <1>3, ControlStep DEF AtRest, emuVars, locals, cpuVars

(* The body of a patient user's CPU prints, and goes to the test at last.  *)
LEMMA PatientBody ==
    ASSUME EmuTypeOK, PatientInv, NEW t \in Threads, Body(t)
    PROVE  PatientInv'
<1>1. CpuTypeOK'
  BY BodyKeepsTypes
<1>2. /\ threadPc[t] = "round" /\ console' = console /\ stopSignal' = stopSignal /\ last' = last
      /\ threadPc' \in {threadPc, [threadPc EXCEPT ![t] = "test"]}
      /\ "stopped" \in screen' => "stopped" \in screen
  BY BodyMoves
<1>3. threadPc \in [Threads -> {"none", "created", "test", "round", "clear", "print"}]
  BY DEF EmuTypeOK, CpuTypeOK
<1>4. \A s \in Threads :
          /\ threadPc'[s] = "none" <=> threadPc[s] = "none"
          /\ threadPc'[s] \in {"test", "round"} => threadPc[s] \in {"test", "round"}
  <2>1. CASE threadPc' = threadPc
    BY <2>1
  <2>2. CASE threadPc' = [threadPc EXCEPT ![t] = "test"]
    BY <1>2, <1>3, <2>2
  <2>3. QED
    BY <1>2, <2>1, <2>2
<1>5. OneThread' /\ ScreenTells' /\ SignalIsFresh'
  <2>1. OneThread'
    BY <1>4 DEF PatientInv, OneThread
  <2>2. ScreenTells'
    BY <1>2, <1>4 DEF PatientInv, ScreenTells
  <2>3. SignalIsFresh'
    BY <1>2, <1>4 DEF PatientInv, SignalIsFresh
  <2>4. QED
    BY <2>1, <2>2, <2>3
<1>6. QED
  BY <1>1, <1>5 DEF PatientInv

LEMMA EmuInvariant == EmuSpec => []EmuInv
<1>1. EmuInit => EmuInv
  <2> SUFFICES ASSUME EmuInit PROVE EmuInv
    OBVIOUS
  <2>1. CpuTypeOK /\ (user = "patient" => PatientInv) /\ \A t \in Threads : threadPc[t] = "none"
    BY DEF EmuInit, CpuInit, CpuTypeOK, PatientInv, OneThread, ScreenTells, SignalIsFresh
  <2>2. Ring!TypeOK
    <3>1. RingFacts!Init
      BY DEF EmuInit, Ring!Init, RingFacts!Init, Ring!Index, RingFacts!Index,
         Ring!NullEvent, RingFacts!NullEvent
    <3>2. QED
      BY <3>1, RingAssumptions, RingFacts!InitTyped, SameStates
  <2>3. EmuTypeOK
    BY <2>1, <2>2, CommandsAssumption, RoundsAssumption DEF EmuInit, EmuTypeOK, Places
  <2>4. QED
    BY <2>1, <2>3 DEF EmuInv, AtRest, EmuInit
<1>2. EmuInv /\ [EmuNext]_emuVars => EmuInv'
  <2> SUFFICES ASSUME EmuInv, [EmuNext]_emuVars PROVE EmuInv'
    OBVIOUS
  <2>1. EmuTypeOK' /\ AtRest'
    BY EmuStepTyped, AtRestStep DEF EmuInv
  <2>2. CASE [CpuNext]_cpuVars
    <3>1. user' = user
      BY <2>2 DEF CpuNext, cpuVars, Boot, CommandStart, CommandStop, CommandExit, Cpu,
         Thread, Reset, Test, Round, Clear, PrintStopped, Fault
    <3>2. QED
      BY <2>1, <2>2, <3>1, PatientStep DEF EmuInv
  <2>3. CASE \E t \in Threads : Body(t)
    BY <2>1, <2>3, PatientBody, BodyMoves DEF EmuInv
  <2>4. QED
    BY <2>2, <2>3, ControlStep, ConsoleMoves DEF EmuInv, Around, emuVars, cpuVars
<1>3. QED
  BY <1>1, <1>2, PTL DEF EmuSpec

(* The ring, the pins and the threads keep their types, whoever types.     *)
THEOREM EmulatorTypeCorrect == EmuSpec => []EmuTypeOK
<1>1. EmuInv => EmuTypeOK
  BY DEF EmuInv
<1>2. QED
  BY <1>1, EmuInvariant, PTL

(* With one CPU the place of the loop is its place.                        *)
LEMMA OnePlace ==
    ASSUME NEW a, NEW c, NEW t \in Threads, \A s \in Threads : s # t => a[s] = "events",
           a[t] = "events" => c[t] = 0
    PROVE  LET mid == {s \in Threads : a[s] # "events"}
           IN  /\ (IF mid = {} THEN "events" ELSE a[CHOOSE s \in mid : TRUE]) = a[t]
               /\ (IF mid = {} THEN 0 ELSE c[CHOOSE s \in mid : TRUE]) = c[t]
<1>1. CASE a[t] = "events"
  BY <1>1
<1>2. CASE a[t] # "events"
  <2>1. {s \in Threads : a[s] # "events"} = {t}
    BY <1>2
  <2>2. QED
    BY <2>1
<1>3. QED
  BY <1>1, <1>2

(* Matching a change of the pins and the chain of the interrupts look at   *)
(* the registers alone.                                                    *)
LEMMA SameMatching ==
    ASSUME NEW t \in Threads
    PROVE  /\ \A p, new : Loop(t)!WritePins(p, new) <=> OneLoop!WritePins(p, new)
           /\ Loop(t)!LevelFlags = OneLoop!LevelFlags
           /\ \A raised : Loop(t)!First(raised) = OneLoop!First(raised)
<1>1. \A n, levels : Loop(t)!CatchInt(n, levels) = OneLoop!CatchInt(n, levels)
  BY DEF Loop!CatchInt, OneLoop!CatchInt, Loop!ExternalFlag, OneLoop!ExternalFlag
<1>2. \A g, changed : Loop(t)!CatchPcint(g, changed) = OneLoop!CatchPcint(g, changed)
  BY DEF Loop!CatchPcint, OneLoop!CatchPcint, Loop!PinChangeFlag, OneLoop!PinChangeFlag
<1>3. \A pin, old, new : Loop(t)!Levels(pin, old, new) = OneLoop!Levels(pin, old, new)
  BY DEF Loop!Levels, OneLoop!Levels
<1>4. \A old, new : Loop(t)!Changed(old, new) = OneLoop!Changed(old, new)
  BY DEF Loop!Changed, OneLoop!Changed
<1>5. \A p, old, new : Loop(t)!Matched(p, old, new) = OneLoop!Matched(p, old, new)
  BY <1>1, <1>2, <1>3, <1>4 DEF Loop!Matched, OneLoop!Matched, Loop!PinOf, OneLoop!PinOf
<1>6. \A p, old, new : Loop(t)!Concerned(p, old, new) = OneLoop!Concerned(p, old, new)
  BY <1>4 DEF Loop!Concerned, OneLoop!Concerned, Loop!PinOf, OneLoop!PinOf, Loop!ExternalFlag,
     OneLoop!ExternalFlag, Loop!PinChangeFlag, OneLoop!PinChangeFlag
<1>7. \A p, new : Loop(t)!WritePins(p, new) <=> OneLoop!WritePins(p, new)
  BY <1>5, <1>6 DEF Loop!WritePins, OneLoop!WritePins
<1>8. Loop(t)!LevelFlags = OneLoop!LevelFlags
  BY <1>1 DEF Loop!LevelFlags, OneLoop!LevelFlags
<1>9. \A raised : Loop(t)!First(raised) = OneLoop!First(raised)
  BY DEF Loop!First, OneLoop!First, Loop!Rank, OneLoop!Rank
<1>10. QED
  BY <1>7, <1>8, <1>9

(* An instruction that one body executes is executed in the one loop.      *)
LEMMA SameInstruction ==
    ASSUME NEW t \in Threads, Loop(t)!Instruction,
           Place = at[t], Counter = counter[t], Place' = at'[t], Counter' = counter'[t]
    PROVE  OneLoop!Instruction
<1>1. Loop(t)!Execute <=> OneLoop!Execute
  BY DEF Loop!Execute, OneLoop!Execute
<1>2. Loop(t)!Other => OneLoop!Other
  BY <1>1 DEF Loop!Other, OneLoop!Other, Loop!config, OneLoop!config, Loop!control,
     OneLoop!control
<1>3. Loop(t)!OutPortD => OneLoop!OutPortD
  BY <1>1 DEF Loop!OutPortD, OneLoop!OutPortD, Loop!config, OneLoop!config, Loop!control,
     OneLoop!control
<1>4. Loop(t)!OutEimsk => OneLoop!OutEimsk
  BY <1>1 DEF Loop!OutEimsk, OneLoop!OutEimsk, Loop!config, OneLoop!config, Loop!control,
     OneLoop!control
<1>5. Loop(t)!StsEicra => OneLoop!StsEicra
  BY <1>1 DEF Loop!StsEicra, OneLoop!StsEicra, Loop!config, OneLoop!config, Loop!control,
     OneLoop!control
<1>6. Loop(t)!StsPcicr => OneLoop!StsPcicr
  BY <1>1 DEF Loop!StsPcicr, OneLoop!StsPcicr, Loop!config, OneLoop!config, Loop!control,
     OneLoop!control
<1>7. Loop(t)!Cli => OneLoop!Cli
  BY <1>1 DEF Loop!Cli, OneLoop!Cli, Loop!config, OneLoop!config, Loop!control,
     OneLoop!control
<1>8. Loop(t)!Reti => OneLoop!Reti
  BY <1>1 DEF Loop!Reti, OneLoop!Reti, Loop!config, OneLoop!config, Loop!control,
     OneLoop!control
<1>9. \A p : Loop(t)!OutPin(p) => OneLoop!OutPin(p)
  BY <1>1, SameMatching DEF Loop!OutPin, OneLoop!OutPin, Loop!config, OneLoop!config,
     Loop!control,
     OneLoop!control
<1>10. \A g : Loop(t)!StsPcmsk(g) => OneLoop!StsPcmsk(g)
  BY <1>1 DEF Loop!StsPcmsk, OneLoop!StsPcmsk, Loop!config, OneLoop!config, Loop!control,
     OneLoop!control
<1>11. \A of : Loop(t)!OutFlags(of) => OneLoop!OutFlags(of)
  BY <1>1 DEF Loop!OutFlags, OneLoop!OutFlags, Loop!config, OneLoop!config, Loop!control,
     OneLoop!control
<1>12. \A i : Loop(t)!OutSreg(i) => OneLoop!OutSreg(i)
  BY <1>1 DEF Loop!OutSreg, OneLoop!OutSreg, Loop!config, OneLoop!config
<1>13. /\ Loop(t)!ExternalFlags = OneLoop!ExternalFlags
       /\ Loop(t)!PinChangeFlags = OneLoop!PinChangeFlags
  BY DEF Loop!ExternalFlags, OneLoop!ExternalFlags, Loop!PinChangeFlags, OneLoop!PinChangeFlags
<1>14. QED
  BY <1>2, <1>3, <1>4, <1>5, <1>6, <1>7, <1>8, <1>9, <1>10, <1>11, <1>12, <1>13
  DEF Loop!Instruction, OneLoop!Instruction

LEMMA SameHandling ==
    ASSUME NEW t \in Threads, Loop(t)!NoInterrupt \/ Loop(t)!EnterRoutine,
           Place = at[t], Counter = counter[t], Place' = at'[t], Counter' = counter'[t]
    PROVE  OneLoop!NoInterrupt \/ OneLoop!EnterRoutine
<1>1. Loop(t)!NextPhase => OneLoop!NextPhase
  BY DEF Loop!NextPhase, OneLoop!NextPhase
<1>2. Loop(t)!NoInterrupt => OneLoop!NoInterrupt
  BY <1>1, SameMatching DEF Loop!NoInterrupt, OneLoop!NoInterrupt, Loop!config, OneLoop!config,
     Loop!control, OneLoop!control
<1>3. Loop(t)!EnterRoutine => OneLoop!EnterRoutine
  BY <1>1, SameMatching DEF Loop!EnterRoutine, OneLoop!EnterRoutine, Loop!config, OneLoop!config,
     Loop!TakeDown, OneLoop!TakeDown, Loop!StoreProgramCounterOnStack,
     OneLoop!StoreProgramCounterOnStack
<1>4. QED
  BY <1>2, <1>3

(* A step that moves one body is the same step of the one loop.            *)
LEMMA OneLoopSteps ==
    ASSUME NEW t \in Threads, Body(t), ~UNCHANGED <<machine, locals>>,
           Place = at[t], Counter = counter[t], Place' = at'[t], Counter' = counter'[t]
    PROVE  OneLoop!Next
<1>1. CASE HandleEvents(t)
  <2>1. Loop(t)!NoEvent
    BY <1>1 DEF HandleEvents
  <2>2. OneLoop!NoEvent
    BY <2>1 DEF Loop!NoEvent, OneLoop!NoEvent, Loop!StartRound, OneLoop!StartRound,
       Loop!config, OneLoop!config, Loop!control, OneLoop!control
  <2>3. QED
    BY <2>2 DEF OneLoop!Next
<1>2. CASE CallHandler(t)
  <2>1. IntOf(cev[t]) \in 0 .. 1 /\ High(cev[t]) \in BOOLEAN
    BY DEF IntOf, High
  <2>2. Loop(t)!PinEvent(IntOf(cev[t]), High(cev[t]))
    BY <1>2 DEF CallHandler
  <2>3. OneLoop!PinEvent(IntOf(cev[t]), High(cev[t]))
    BY <2>2, SameMatching DEF Loop!PinEvent, OneLoop!PinEvent, Loop!StartRound,
       OneLoop!StartRound, Loop!config, OneLoop!config, Loop!control, OneLoop!control,
       Loop!PinOf, OneLoop!PinOf
  <2>4. QED
    BY <2>1, <2>3 DEF OneLoop!Next
<1>3. CASE Instruction(t)
  <2>1. Loop(t)!Instruction
    BY <1>3 DEF Instruction
  <2>2. OneLoop!Instruction
    BY <2>1, SameInstruction
  <2>3. QED
    BY <2>2 DEF OneLoop!Next
<1>4. CASE HandleInterrupts(t)
  <2>1. Loop(t)!NoInterrupt \/ Loop(t)!EnterRoutine
    BY <1>4 DEF HandleInterrupts
  <2>2. QED
    BY <2>1, SameHandling DEF OneLoop!Next
<1>5. QED
  BY <1>1, <1>2, <1>3, <1>4 DEF Body, Dequeue

(* The CPU "will continue execution where it has been stopped last time"   *)
(* (cpu.h): for a patient user the threads that come and go take the steps *)
(* of one loop that is never stopped, for any program, any number of       *)
(* threads, any ring and whatever overlaps the ring is used in.            *)
THEOREM OneMachine == EmuSpec => StopsAreInvisible
<1> DEFINE Taken == user = "patient" => OneLoop!Next
<1>1. EmuInit => OneLoop!Init
  <2> SUFFICES ASSUME EmuInit PROVE OneLoop!Init
    OBVIOUS
  <2>1. Place = "events" /\ Counter = 0
    BY DEF EmuInit, Place, Counter, InMidRound
  <2>2. QED
    BY <2>1 DEF EmuInit, OneLoop!Init, OneLoop!Main
<1>2. EmuInv /\ EmuInv' /\ [EmuNext]_emuVars => [Taken]_(OneLoop!vars)
  <2> SUFFICES ASSUME EmuInv, EmuInv', [EmuNext]_emuVars, user = "patient"
               PROVE  OneLoop!Next \/ UNCHANGED OneLoop!vars
    OBVIOUS
  <2>1. CASE UNCHANGED <<machine, locals>>
    <3>1. Place' = Place /\ Counter' = Counter
      BY <2>1 DEF Place, Counter, InMidRound, locals
    <3>2. QED
      BY <2>1, <3>1 DEF OneLoop!vars, OneLoop!config, OneLoop!control, machine
  <2>2. ASSUME NEW t \in Threads, Body(t), ~UNCHANGED <<machine, locals>> PROVE OneLoop!Next
    <3>1. threadPc[t] # "none" /\ threadPc'[t] # "none" /\ user' = "patient"
      BY <2>2, BodyMoves DEF EmuInv, EmuTypeOK, CpuTypeOK
    <3>2. Place = at[t] /\ Counter = counter[t]
      <4>1. \A s \in Threads : s # t => at[s] = "events"
        BY <3>1 DEF EmuInv, PatientInv, OneThread, AtRest
      <4>2. at[t] = "events" => counter[t] = 0
        BY DEF EmuInv, AtRest
      <4>3. QED
        BY <4>1, <4>2, OnePlace DEF Place, Counter, InMidRound
    <3>3. Place' = at'[t] /\ Counter' = counter'[t]
      <4>1. \A s \in Threads : s # t => at'[s] = "events"
        BY <3>1 DEF EmuInv, PatientInv, OneThread, AtRest
      <4>2. at'[t] = "events" => counter'[t] = 0
        BY DEF EmuInv, AtRest
      <4>3. QED
        BY <4>1, <4>2, OnePlace DEF Place, Counter, InMidRound
    <3>4. QED
      BY <2>2, <3>2, <3>3, OneLoopSteps
  <2>3. QED
    BY <2>1, <2>2, ControlStep, ConsoleMoves DEF EmuInv, Around, emuVars
<1>3. QED
  BY <1>1, <1>2, EmuInvariant, PTL DEF EmuSpec, StopsAreInvisible

(* How the event that was typed last gets into the newest slot.            *)
Written ==
    /\ mpc # "idle" => mev = typed
    /\ mpc \in {"arg", "test", "load", "store", "flag"} => slots[rear].fun = typed.fun
    /\ mpc \notin {"fun", "arg"} => slots[rear] = typed

(* How the event that was handled last gets to its pin.                    *)
Reached ==
    untouched => /\ portd = {}
                 /\ handled.fun # "NULL" => (IntOf(handled) + 2 \in pins["D"] <=> High(handled))

LEMMA SlotsTyped ==
    ASSUME EmuTypeOK
    PROVE  /\ rear \in Ring!Index /\ slots \in [Ring!Index -> Ring!Slot]
           /\ typed \in Ring!Slot
  BY CommandsAssumption DEF EmuTypeOK, Ring!TypeOK, Ring!Slot, NullEvent

LEMMA WrittenStep == ASSUME EmuTypeOK, EmuTypeOK', Written, [EmuNext]_emuVars PROVE Written'
<1>1. CASE UNCHANGED <<rear, slots, mpc, mev, typed>>
  BY <1>1 DEF Written
<1>2. ASSUME NEW e \in Events, CommandPin(e) PROVE Written'
  BY <1>2 DEF CommandPin, Ring!EnqueueRear, Ring!MainGoto, Written
<1>3. CASE Enqueue
  <2>1. typed' = typed
    BY <1>3 DEF Enqueue, history
  <2>2. CASE Ring!EnqueueFun
    <3>1. mpc = "fun" /\ mpc' = "arg" /\ mev' = mev /\ rear' = rear
          /\ slots' = [slots EXCEPT ![rear].fun = mev.fun]
      BY <2>2 DEF Ring!EnqueueFun, Ring!MainGoto
    <3>2. slots'[rear].fun = mev.fun
      BY <3>1, SlotsTyped DEF Ring!Slot
    <3>3. QED
      BY <2>1, <3>1, <3>2 DEF Written
  <2>3. CASE Ring!EnqueueArg
    <3>1. mpc = "arg" /\ mpc' = "test" /\ mev' = mev /\ rear' = rear
          /\ slots' = [slots EXCEPT ![rear].arg = mev.arg]
      BY <2>3 DEF Ring!EnqueueArg, Ring!MainGoto
    <3>2. slots'[rear].fun = typed.fun /\ slots'[rear].arg = typed.arg
      BY <3>1, SlotsTyped DEF Ring!Slot, Written
    <3>3. slots'[rear] \in Ring!Slot
      BY <3>1, SlotsTyped DEF EmuTypeOK, Ring!TypeOK, Ring!Index, Ring!Slot
    <3>4. slots'[rear] = typed
      BY <3>2, <3>3, SlotsTyped DEF Ring!Slot
    <3>5. QED
      BY <2>1, <3>1, <3>2, <3>4 DEF Written
  <2>4. CASE Ring!EnqueueTest \/ Ring!EnqueueLoadFront \/ Ring!EnqueueStoreFront
    BY <2>1, <2>4 DEF Ring!EnqueueTest, Ring!EnqueueLoadFront, Ring!EnqueueStoreFront,
       Ring!MainGoto, Ring!ring, Written
  <2>5. CASE Ring!EnqueueFlag
    BY <2>1, <2>5 DEF Ring!EnqueueFlag, Ring!MainGoto, Written
  <2>6. QED
    BY <1>3, <2>2, <2>3, <2>4, <2>5 DEF Enqueue, Ring!Enqueue
<1>4. QED
  BY <1>1, <1>2, <1>3, BodyOnRing, ControlStep DEF Around, emuVars, ring, history

LEMMA ReachedStep == ASSUME EmuTypeOK, Reached, [EmuNext]_emuVars PROVE Reached'
<1>1. CASE UNCHANGED <<pins, portd, handled, untouched>>
  BY <1>1 DEF Reached, IntOf, High
<1>2. CASE Enqueue \/ \E e \in Events : CommandPin(e)
  <2>1. handled' = handled
    BY <1>2 DEF Enqueue, CommandPin, Ring!EnqueueRear, Ring!Enqueue, Ring!EnqueueFun,
       Ring!EnqueueArg, Ring!EnqueueTest, Ring!EnqueueLoadFront, Ring!EnqueueStoreFront,
       Ring!EnqueueFlag
  <2>2. QED
    BY <1>1, <1>2, <2>1, ConsoleMoves DEF machine
<1>3. ASSUME NEW t \in Threads, HandleEvents(t) \/ Dequeue(t) \/ CallHandler(t) PROVE Reached'
  <2>1. UNCHANGED <<portd, untouched>>
    BY <1>3, EventsOnPins DEF history
  <2>2. CASE handled' = cev[t] /\ Driven(cev[t])
    <3>1. SUFFICES ASSUME untouched
                   PROVE  IntOf(cev[t]) + 2 \in pins'["D"] <=> High(cev[t])
      BY <2>1, <2>2 DEF Reached, IntOf, High
    <3>2. pins'["D"] = IF High(cev[t]) THEN (pins["D"] \cup portd) \cup {IntOf(cev[t]) + 2}
                       ELSE (pins["D"] \cup portd) \ {IntOf(cev[t]) + 2}
      BY <2>2 DEF Driven, EmuTypeOK
    <3>3. QED
      BY <3>2
  <2>3. QED
    BY <1>1, <1>3, <2>1, <2>2, EventsOnPins DEF Reached
<1>4. ASSUME NEW t \in Threads, Instruction(t) PROVE Reached'
  <2>1. /\ handled' = handled
        /\ untouched' => untouched /\ pins'["D"] = pins["D"] /\ portd' = {}
    BY <1>4, InstructionOnPins DEF ring
  <2>2. QED
    BY <2>1 DEF Reached, IntOf, High
<1>5. ASSUME NEW t \in Threads, HandleInterrupts(t) PROVE Reached'
  BY <1>1, <1>5, InterruptsOnPins DEF ring, history
<1>6. QED
  BY <1>1, <1>2, <1>3, <1>4, <1>5, ControlStep
  DEF Body, Around, emuVars, ring, machine, history

(* What is known of the ring when it is at rest, in the ring here.         *)
LEMMA LatestStep ==
    ASSUME RingFacts!LatestInv, EmuTypeOK, EmuTypeOK', [EmuNext]_emuVars
    PROVE  RingFacts!LatestInv'
<1>1. RingFacts!TypeOK'
  BY SameStates DEF EmuTypeOK
<1>2. CASE UNCHANGED ring
  BY <1>1, <1>2 DEF ring, RingFacts!LatestInv, RingFacts!Settled, RingFacts!OneCpu,
     RingFacts!InHandleEvents, RingFacts!Copies, RingFacts!NothingWaits, RingFacts!Quiet
<1>3. CASE Ring!Enqueue \/ \E e \in Events : Ring!EnqueueRear(e)
  <2>1. RingFacts!Enqueue \/ \E e \in Events : RingFacts!EnqueueRear(e)
    BY <1>3, SameSteps
  <2>2. QED
    BY <1>1, <2>1, RingAssumptions, RingFacts!LatestOfConsole
<1>4. ASSUME NEW t \in Threads, Ring!HandleEvents(t) \/ Ring!Dequeue(t)
      PROVE  RingFacts!LatestInv'
  <2>1. RingFacts!HandleEvents(t) \/ RingFacts!Dequeue(t)
    BY <1>4, SameSteps
  <2>2. QED
    BY <1>1, <2>1, RingAssumptions, RingFacts!LatestOfCpu
<1>5. CASE Accesses
  BY <1>3, <1>4, <1>5 DEF Accesses
<1>6. QED
  BY <1>2, <1>5, ControlStep, ConsoleMoves, BodyAccesses DEF Around, emuVars

(* The level that was typed last gets to its pin, for every program that   *)
(* leaves port D alone, every set of events, size of the ring and number   *)
(* of threads, however the CPU is started and stopped and under every      *)
(* overlap of eve_enqueueEvent with eve_handleEvents and of two of the     *)
(* latter, unless the flag of that event was raced against.                *)
THEOREM LatestLevelReachesPin == EmuSpec => []LatestLevelArrives
<1> DEFINE Inv == RingFacts!LatestInv /\ Written /\ Reached
<1>1. EmuInit => Inv
  <2> SUFFICES ASSUME EmuInit PROVE Inv
    OBVIOUS
  <2>1. RingFacts!Init
    BY DEF EmuInit, Ring!Init, RingFacts!Init, Ring!Index, RingFacts!Index,
       Ring!NullEvent, RingFacts!NullEvent
  <2>2. RingFacts!LatestInv
    BY <2>1, RingAssumptions, RingFacts!LatestInit
  <2>3. Written /\ Reached
    BY CommandsAssumption DEF EmuInit, Ring!Init, Ring!Index, Ring!NullEvent, NullEvent,
       Written, Reached
  <2>4. QED
    BY <2>2, <2>3
<1>2. EmuInv /\ EmuInv' /\ Inv /\ [EmuNext]_emuVars => Inv'
  BY LatestStep, WrittenStep, ReachedStep DEF EmuInv
<1>3. EmuInv /\ Inv => LatestLevelArrives
  <2> SUFFICES ASSUME EmuInv, Inv, Ring!Quiet, ~raced, untouched, typed # NullEvent
               PROVE  IntOf(typed) + 2 \in pins["D"] <=> High(typed)
    BY DEF LatestLevelArrives
  <2>1. Ring!NothingWaits
    BY SameStates
       DEF RingFacts!LatestInv, RingFacts!Settled, RingFacts!NothingWaits, RingFacts!Quiet
  <2>2. handled = slots[rear] /\ slots[rear] = typed
    BY <2>1 DEF Ring!NothingWaits, Ring!Quiet, Written
  <2>3. typed.fun # "NULL"
    BY CommandsAssumption DEF EmuInv, EmuTypeOK
  <2>4. QED
    BY <2>2, <2>3 DEF Reached
<1>4. QED
  BY <1>1, <1>2, <1>3, EmuInvariant, PTL DEF EmuSpec

-----------------------------------------------------------------------------
(* Words and their bits: what decoder.h takes out of a word is the number  *)
(* that the bits of the comments spell.                                    *)
LEMMA Powers ==
    /\ Power[1] = 1 /\ Power[2] = 2 /\ Power[3] = 4 /\ Power[4] = 8
    /\ Power[5] = 16 /\ Power[6] = 32 /\ Power[7] = 64 /\ Power[8] = 128
    /\ Power[9] = 256 /\ Power[10] = 512 /\ Power[11] = 1024 /\ Power[12] = 2048
    /\ Power[13] = 4096 /\ Power[14] = 8192 /\ Power[15] = 16384 /\ Power[16] = 32768
    /\ Power[17] = 65536
  BY DEF Power

LEMMA WordsAre ==
    /\ \A w \in Words : w \in Nat /\ w <= 65535
    /\ \A w \in Nat : w <= 65535 => w \in Words
<1>1. WORD \in Nat /\ 65535 < WORD /\ WORD <= 65536
  <2>1. WORD = 65536
    BY Powers DEF WORD
  <2>2. QED
    BY <2>1
<1>2. QED
  BY <1>1 DEF Words

(* The bits of a word from a place on.                                     *)
Left(w, place) == w \div Power[place + 1]

LEMMA Halving ==
    ASSUME NEW x \in Nat
    PROVE  /\ x \div 1 = x
           /\ x \div 1 = 2 * (x \div 2) + ((x \div 1) % 2)
           /\ x \div 2 = 2 * (x \div 4) + ((x \div 2) % 2)
           /\ x \div 4 = 2 * (x \div 8) + ((x \div 4) % 2)
           /\ x \div 8 = 2 * (x \div 16) + ((x \div 8) % 2)
           /\ x \div 16 = 2 * (x \div 32) + ((x \div 16) % 2)
           /\ x \div 32 = 2 * (x \div 64) + ((x \div 32) % 2)
           /\ x \div 64 = 2 * (x \div 128) + ((x \div 64) % 2)
           /\ x \div 128 = 2 * (x \div 256) + ((x \div 128) % 2)
           /\ x \div 256 = 2 * (x \div 512) + ((x \div 256) % 2)
           /\ x \div 512 = 2 * (x \div 1024) + ((x \div 512) % 2)
           /\ x \div 1024 = 2 * (x \div 2048) + ((x \div 1024) % 2)
           /\ x \div 2048 = 2 * (x \div 4096) + ((x \div 2048) % 2)
           /\ x \div 4096 = 2 * (x \div 8192) + ((x \div 4096) % 2)
           /\ x \div 8192 = 2 * (x \div 16384) + ((x \div 8192) % 2)
           /\ x \div 16384 = 2 * (x \div 32768) + ((x \div 16384) % 2)
           /\ x \div 32768 = 2 * (x \div 65536) + ((x \div 32768) % 2)
  BY SMT

LEMMA BitTyped ==
    ASSUME NEW w \in Words, NEW place \in 0 .. 15
    PROVE  Bit(w, place) \in {0, 1} /\ Left(w, place) \in Nat
<1>1. w \in Nat
  BY WordsAre, SMT
<1>2. Power[place + 1] \in Nat \ {0} /\ Power[2] = 2 /\ (place - place) + 2 = 2
  BY Powers, SMT
<1>3. w \div Power[place + 1] \in Nat
  BY <1>1, <1>2, SMT
<1>4. Bit(w, place) = (w \div Power[place + 1]) % 2
  BY <1>2 DEF Bit, Bits
<1>5. QED
  BY <1>3, <1>4, SMT DEF Left

(* Each place has its bit and what is left of it.                          *)
LEMMA Halves ==
    ASSUME NEW w \in Words
    PROVE  /\ Left(w, 0) = w /\ Left(w, 16) = 0
           /\ Left(w, 0) = 2 * Left(w, 1) + Bit(w, 0)
           /\ Left(w, 1) = 2 * Left(w, 2) + Bit(w, 1)
           /\ Left(w, 2) = 2 * Left(w, 3) + Bit(w, 2)
           /\ Left(w, 3) = 2 * Left(w, 4) + Bit(w, 3)
           /\ Left(w, 4) = 2 * Left(w, 5) + Bit(w, 4)
           /\ Left(w, 5) = 2 * Left(w, 6) + Bit(w, 5)
           /\ Left(w, 6) = 2 * Left(w, 7) + Bit(w, 6)
           /\ Left(w, 7) = 2 * Left(w, 8) + Bit(w, 7)
           /\ Left(w, 8) = 2 * Left(w, 9) + Bit(w, 8)
           /\ Left(w, 9) = 2 * Left(w, 10) + Bit(w, 9)
           /\ Left(w, 10) = 2 * Left(w, 11) + Bit(w, 10)
           /\ Left(w, 11) = 2 * Left(w, 12) + Bit(w, 11)
           /\ Left(w, 12) = 2 * Left(w, 13) + Bit(w, 12)
           /\ Left(w, 13) = 2 * Left(w, 14) + Bit(w, 13)
           /\ Left(w, 14) = 2 * Left(w, 15) + Bit(w, 14)
           /\ Left(w, 15) = 2 * Left(w, 16) + Bit(w, 15)
<1>1. w \in Nat /\ w <= 65535
  BY WordsAre, SMT
<1>2. w \div 65536 = 0
  BY <1>1, SMT
<1>3. /\ Left(w, 0) = w \div 1
      /\ Left(w, 1) = w \div 2
      /\ Left(w, 2) = w \div 4
      /\ Left(w, 3) = w \div 8
      /\ Left(w, 4) = w \div 16
      /\ Left(w, 5) = w \div 32
      /\ Left(w, 6) = w \div 64
      /\ Left(w, 7) = w \div 128
      /\ Left(w, 8) = w \div 256
      /\ Left(w, 9) = w \div 512
      /\ Left(w, 10) = w \div 1024
      /\ Left(w, 11) = w \div 2048
      /\ Left(w, 12) = w \div 4096
      /\ Left(w, 13) = w \div 8192
      /\ Left(w, 14) = w \div 16384
      /\ Left(w, 15) = w \div 32768
      /\ Left(w, 16) = w \div 65536
  BY Powers DEF Left
<1>6. /\ w \div 1 = 2 * (w \div 2) + ((w \div 1) % 2)
      /\ w \div 2 = 2 * (w \div 4) + ((w \div 2) % 2)
      /\ w \div 4 = 2 * (w \div 8) + ((w \div 4) % 2)
      /\ w \div 8 = 2 * (w \div 16) + ((w \div 8) % 2)
      /\ w \div 16 = 2 * (w \div 32) + ((w \div 16) % 2)
      /\ w \div 32 = 2 * (w \div 64) + ((w \div 32) % 2)
      /\ w \div 64 = 2 * (w \div 128) + ((w \div 64) % 2)
      /\ w \div 128 = 2 * (w \div 256) + ((w \div 128) % 2)
      /\ w \div 256 = 2 * (w \div 512) + ((w \div 256) % 2)
      /\ w \div 512 = 2 * (w \div 1024) + ((w \div 512) % 2)
      /\ w \div 1024 = 2 * (w \div 2048) + ((w \div 1024) % 2)
      /\ w \div 2048 = 2 * (w \div 4096) + ((w \div 2048) % 2)
      /\ w \div 4096 = 2 * (w \div 8192) + ((w \div 4096) % 2)
      /\ w \div 8192 = 2 * (w \div 16384) + ((w \div 8192) % 2)
      /\ w \div 16384 = 2 * (w \div 32768) + ((w \div 16384) % 2)
      /\ w \div 32768 = 2 * (w \div 65536) + ((w \div 32768) % 2)
  BY <1>1, Halving
<1>4. /\ Bit(w, 0) = (w \div 1) % 2
      /\ Bit(w, 1) = (w \div 2) % 2
      /\ Bit(w, 2) = (w \div 4) % 2
      /\ Bit(w, 3) = (w \div 8) % 2
      /\ Bit(w, 4) = (w \div 16) % 2
      /\ Bit(w, 5) = (w \div 32) % 2
      /\ Bit(w, 6) = (w \div 64) % 2
      /\ Bit(w, 7) = (w \div 128) % 2
      /\ Bit(w, 8) = (w \div 256) % 2
      /\ Bit(w, 9) = (w \div 512) % 2
      /\ Bit(w, 10) = (w \div 1024) % 2
      /\ Bit(w, 11) = (w \div 2048) % 2
      /\ Bit(w, 12) = (w \div 4096) % 2
      /\ Bit(w, 13) = (w \div 8192) % 2
      /\ Bit(w, 14) = (w \div 16384) % 2
      /\ Bit(w, 15) = (w \div 32768) % 2
  BY Powers DEF Bit, Bits
<1>5. QED
  BY <1>1, <1>2, <1>3, <1>4, <1>6

LEMMA FieldsAreBits ==
    ASSUME NEW w \in Words
    PROVE  /\ Bits(w, 15, 12) = Bit(w, 12) + 2 * Bit(w, 13) + 4 * Bit(w, 14) + 8 * Bit(w, 15)
           /\ Bits(w, 11, 8) = Bit(w, 8) + 2 * Bit(w, 9) + 4 * Bit(w, 10) + 8 * Bit(w, 11)
           /\ Bits(w, 7, 4) = Bit(w, 4) + 2 * Bit(w, 5) + 4 * Bit(w, 6) + 8 * Bit(w, 7)
           /\ Bits(w, 3, 0) = Bit(w, 0) + 2 * Bit(w, 1) + 4 * Bit(w, 2) + 8 * Bit(w, 3)
           /\ Bits(w, 8, 4) = Bit(w, 4) + 2 * Bit(w, 5) + 4 * Bit(w, 6) + 8 * Bit(w, 7)
                + 16 * Bit(w, 8)
           /\ Bits(w, 5, 4) = Bit(w, 4) + 2 * Bit(w, 5)
           /\ Bits(w, 10, 9) = Bit(w, 9) + 2 * Bit(w, 10)
           /\ Bits(w, 7, 3) = Bit(w, 3) + 2 * Bit(w, 4) + 4 * Bit(w, 5) + 8 * Bit(w, 6)
                + 16 * Bit(w, 7)
           /\ Bits(w, 6, 3) = Bit(w, 3) + 2 * Bit(w, 4) + 4 * Bit(w, 5) + 8 * Bit(w, 6)
           /\ Bits(w, 2, 0) = Bit(w, 0) + 2 * Bit(w, 1) + 4 * Bit(w, 2)
           /\ Bits(w, 3, 2) = Bit(w, 2) + 2 * Bit(w, 3)
           /\ Bits(w, 9, 3) = Bit(w, 3) + 2 * Bit(w, 4) + 4 * Bit(w, 5) + 8 * Bit(w, 6)
                + 16 * Bit(w, 7) + 32 * Bit(w, 8) + 64 * Bit(w, 9)
           /\ Bits(w, 10, 0) = Bit(w, 0) + 2 * Bit(w, 1) + 4 * Bit(w, 2) + 8 * Bit(w, 3)
                + 16 * Bit(w, 4) + 32 * Bit(w, 5) + 64 * Bit(w, 6)
                + 128 * Bit(w, 7) + 256 * Bit(w, 8) + 512 * Bit(w, 9)
                + 1024 * Bit(w, 10)
           /\ Bits(w, 7, 6) = Bit(w, 6) + 2 * Bit(w, 7)
<1>1. w \in Nat
  BY WordsAre, SMT
<1>2. /\ Bits(w, 15, 12) = (w \div 4096) % 16
      /\ Bits(w, 11, 8) = (w \div 256) % 16
      /\ Bits(w, 7, 4) = (w \div 16) % 16
      /\ Bits(w, 3, 0) = (w \div 1) % 16
      /\ Bits(w, 8, 4) = (w \div 16) % 32
      /\ Bits(w, 5, 4) = (w \div 16) % 4
      /\ Bits(w, 10, 9) = (w \div 512) % 4
      /\ Bits(w, 7, 3) = (w \div 8) % 32
      /\ Bits(w, 6, 3) = (w \div 8) % 16
      /\ Bits(w, 2, 0) = (w \div 1) % 8
      /\ Bits(w, 3, 2) = (w \div 4) % 4
      /\ Bits(w, 9, 3) = (w \div 8) % 128
      /\ Bits(w, 10, 0) = (w \div 1) % 2048
      /\ Bits(w, 7, 6) = (w \div 64) % 4
  BY Powers DEF Bits
<1>3. /\ (w \div 4096) % 16 = (w \div 4096) - 16 * (w \div 65536)
      /\ (w \div 256) % 16 = (w \div 256) - 16 * (w \div 4096)
      /\ (w \div 16) % 16 = (w \div 16) - 16 * (w \div 256)
      /\ (w \div 1) % 16 = (w \div 1) - 16 * (w \div 16)
      /\ (w \div 16) % 32 = (w \div 16) - 32 * (w \div 512)
      /\ (w \div 16) % 4 = (w \div 16) - 4 * (w \div 64)
      /\ (w \div 512) % 4 = (w \div 512) - 4 * (w \div 2048)
      /\ (w \div 8) % 32 = (w \div 8) - 32 * (w \div 256)
      /\ (w \div 8) % 16 = (w \div 8) - 16 * (w \div 128)
      /\ (w \div 1) % 8 = (w \div 1) - 8 * (w \div 8)
      /\ (w \div 4) % 4 = (w \div 4) - 4 * (w \div 16)
      /\ (w \div 8) % 128 = (w \div 8) - 128 * (w \div 1024)
      /\ (w \div 1) % 2048 = (w \div 1) - 2048 * (w \div 2048)
      /\ (w \div 64) % 4 = (w \div 64) - 4 * (w \div 256)
  BY <1>1, SMT
<1>4. /\ Left(w, 0) = w \div 1
      /\ Left(w, 1) = w \div 2
      /\ Left(w, 2) = w \div 4
      /\ Left(w, 3) = w \div 8
      /\ Left(w, 4) = w \div 16
      /\ Left(w, 5) = w \div 32
      /\ Left(w, 6) = w \div 64
      /\ Left(w, 7) = w \div 128
      /\ Left(w, 8) = w \div 256
      /\ Left(w, 9) = w \div 512
      /\ Left(w, 10) = w \div 1024
      /\ Left(w, 11) = w \div 2048
      /\ Left(w, 12) = w \div 4096
      /\ Left(w, 13) = w \div 8192
      /\ Left(w, 14) = w \div 16384
      /\ Left(w, 15) = w \div 32768
      /\ Left(w, 16) = w \div 65536
  BY Powers DEF Left
<1>5. /\ Bits(w, 15, 12) = Left(w, 12) - 16 * Left(w, 16)
      /\ Bits(w, 11, 8) = Left(w, 8) - 16 * Left(w, 12)
      /\ Bits(w, 7, 4) = Left(w, 4) - 16 * Left(w, 8)
      /\ Bits(w, 3, 0) = Left(w, 0) - 16 * Left(w, 4)
      /\ Bits(w, 8, 4) = Left(w, 4) - 32 * Left(w, 9)
      /\ Bits(w, 5, 4) = Left(w, 4) - 4 * Left(w, 6)
      /\ Bits(w, 10, 9) = Left(w, 9) - 4 * Left(w, 11)
      /\ Bits(w, 7, 3) = Left(w, 3) - 32 * Left(w, 8)
      /\ Bits(w, 6, 3) = Left(w, 3) - 16 * Left(w, 7)
      /\ Bits(w, 2, 0) = Left(w, 0) - 8 * Left(w, 3)
      /\ Bits(w, 3, 2) = Left(w, 2) - 4 * Left(w, 4)
      /\ Bits(w, 9, 3) = Left(w, 3) - 128 * Left(w, 10)
      /\ Bits(w, 10, 0) = Left(w, 0) - 2048 * Left(w, 11)
      /\ Bits(w, 7, 6) = Left(w, 6) - 4 * Left(w, 8)
  BY <1>2, <1>3, <1>4
<1>6. /\ \A i \in 0 .. 15 : Bit(w, i) \in Int /\ Left(w, i) \in Int
      /\ Left(w, 16) \in Int
  BY BitTyped, Halves, SMT

<1>10. Bits(w, 15, 12) = Bit(w, 12) + 2 * Bit(w, 13) + 4 * Bit(w, 14) + 8 * Bit(w, 15)
  <2>1. Bits(w, 15, 12) = Left(w, 12) - 16 * Left(w, 16)
    BY <1>5
  <2>2. /\ Left(w, 12) = 2 * Left(w, 13) + Bit(w, 12)
        /\ Left(w, 13) = 2 * Left(w, 14) + Bit(w, 13)
        /\ Left(w, 14) = 2 * Left(w, 15) + Bit(w, 14)
        /\ Left(w, 15) = 2 * Left(w, 16) + Bit(w, 15)
    BY Halves
  <2>3. QED
    BY <1>6, <2>1, <2>2, SMT
<1>11. Bits(w, 11, 8) = Bit(w, 8) + 2 * Bit(w, 9) + 4 * Bit(w, 10) + 8 * Bit(w, 11)
  <2>1. Bits(w, 11, 8) = Left(w, 8) - 16 * Left(w, 12)
    BY <1>5
  <2>2. /\ Left(w, 8) = 2 * Left(w, 9) + Bit(w, 8)
        /\ Left(w, 9) = 2 * Left(w, 10) + Bit(w, 9)
        /\ Left(w, 10) = 2 * Left(w, 11) + Bit(w, 10)
        /\ Left(w, 11) = 2 * Left(w, 12) + Bit(w, 11)
    BY Halves
  <2>3. QED
    BY <1>6, <2>1, <2>2, SMT
<1>12. Bits(w, 7, 4) = Bit(w, 4) + 2 * Bit(w, 5) + 4 * Bit(w, 6) + 8 * Bit(w, 7)
  <2>1. Bits(w, 7, 4) = Left(w, 4) - 16 * Left(w, 8)
    BY <1>5
  <2>2. /\ Left(w, 4) = 2 * Left(w, 5) + Bit(w, 4)
        /\ Left(w, 5) = 2 * Left(w, 6) + Bit(w, 5)
        /\ Left(w, 6) = 2 * Left(w, 7) + Bit(w, 6)
        /\ Left(w, 7) = 2 * Left(w, 8) + Bit(w, 7)
    BY Halves
  <2>3. QED
    BY <1>6, <2>1, <2>2, SMT
<1>13. Bits(w, 3, 0) = Bit(w, 0) + 2 * Bit(w, 1) + 4 * Bit(w, 2) + 8 * Bit(w, 3)
  <2>1. Bits(w, 3, 0) = Left(w, 0) - 16 * Left(w, 4)
    BY <1>5
  <2>2. /\ Left(w, 0) = 2 * Left(w, 1) + Bit(w, 0)
        /\ Left(w, 1) = 2 * Left(w, 2) + Bit(w, 1)
        /\ Left(w, 2) = 2 * Left(w, 3) + Bit(w, 2)
        /\ Left(w, 3) = 2 * Left(w, 4) + Bit(w, 3)
    BY Halves
  <2>3. QED
    BY <1>6, <2>1, <2>2, SMT
<1>14. Bits(w, 8, 4) = Bit(w, 4) + 2 * Bit(w, 5) + 4 * Bit(w, 6) + 8 * Bit(w, 7)
                + 16 * Bit(w, 8)
  <2>1. Bits(w, 8, 4) = Left(w, 4) - 32 * Left(w, 9)
    BY <1>5
  <2>2. /\ Left(w, 4) = 2 * Left(w, 5) + Bit(w, 4)
        /\ Left(w, 5) = 2 * Left(w, 6) + Bit(w, 5)
        /\ Left(w, 6) = 2 * Left(w, 7) + Bit(w, 6)
        /\ Left(w, 7) = 2 * Left(w, 8) + Bit(w, 7)
        /\ Left(w, 8) = 2 * Left(w, 9) + Bit(w, 8)
    BY Halves
  <2>3. QED
    BY <1>6, <2>1, <2>2, SMT
<1>15. Bits(w, 5, 4) = Bit(w, 4) + 2 * Bit(w, 5)
  <2>1. Bits(w, 5, 4) = Left(w, 4) - 4 * Left(w, 6)
    BY <1>5
  <2>2. /\ Left(w, 4) = 2 * Left(w, 5) + Bit(w, 4)
        /\ Left(w, 5) = 2 * Left(w, 6) + Bit(w, 5)
    BY Halves
  <2>3. QED
    BY <1>6, <2>1, <2>2, SMT
<1>16. Bits(w, 10, 9) = Bit(w, 9) + 2 * Bit(w, 10)
  <2>1. Bits(w, 10, 9) = Left(w, 9) - 4 * Left(w, 11)
    BY <1>5
  <2>2. /\ Left(w, 9) = 2 * Left(w, 10) + Bit(w, 9)
        /\ Left(w, 10) = 2 * Left(w, 11) + Bit(w, 10)
    BY Halves
  <2>3. QED
    BY <1>6, <2>1, <2>2, SMT
<1>17. Bits(w, 7, 3) = Bit(w, 3) + 2 * Bit(w, 4) + 4 * Bit(w, 5) + 8 * Bit(w, 6)
                + 16 * Bit(w, 7)
  <2>1. Bits(w, 7, 3) = Left(w, 3) - 32 * Left(w, 8)
    BY <1>5
  <2>2. /\ Left(w, 3) = 2 * Left(w, 4) + Bit(w, 3)
        /\ Left(w, 4) = 2 * Left(w, 5) + Bit(w, 4)
        /\ Left(w, 5) = 2 * Left(w, 6) + Bit(w, 5)
        /\ Left(w, 6) = 2 * Left(w, 7) + Bit(w, 6)
        /\ Left(w, 7) = 2 * Left(w, 8) + Bit(w, 7)
    BY Halves
  <2>3. QED
    BY <1>6, <2>1, <2>2, SMT
<1>18. Bits(w, 6, 3) = Bit(w, 3) + 2 * Bit(w, 4) + 4 * Bit(w, 5) + 8 * Bit(w, 6)
  <2>1. Bits(w, 6, 3) = Left(w, 3) - 16 * Left(w, 7)
    BY <1>5
  <2>2. /\ Left(w, 3) = 2 * Left(w, 4) + Bit(w, 3)
        /\ Left(w, 4) = 2 * Left(w, 5) + Bit(w, 4)
        /\ Left(w, 5) = 2 * Left(w, 6) + Bit(w, 5)
        /\ Left(w, 6) = 2 * Left(w, 7) + Bit(w, 6)
    BY Halves
  <2>3. QED
    BY <1>6, <2>1, <2>2, SMT
<1>19. Bits(w, 2, 0) = Bit(w, 0) + 2 * Bit(w, 1) + 4 * Bit(w, 2)
  <2>1. Bits(w, 2, 0) = Left(w, 0) - 8 * Left(w, 3)
    BY <1>5
  <2>2. /\ Left(w, 0) = 2 * Left(w, 1) + Bit(w, 0)
        /\ Left(w, 1) = 2 * Left(w, 2) + Bit(w, 1)
        /\ Left(w, 2) = 2 * Left(w, 3) + Bit(w, 2)
    BY Halves
  <2>3. QED
    BY <1>6, <2>1, <2>2, SMT
<1>20. Bits(w, 3, 2) = Bit(w, 2) + 2 * Bit(w, 3)
  <2>1. Bits(w, 3, 2) = Left(w, 2) - 4 * Left(w, 4)
    BY <1>5
  <2>2. /\ Left(w, 2) = 2 * Left(w, 3) + Bit(w, 2)
        /\ Left(w, 3) = 2 * Left(w, 4) + Bit(w, 3)
    BY Halves
  <2>3. QED
    BY <1>6, <2>1, <2>2, SMT
<1>21. Bits(w, 9, 3) = Bit(w, 3) + 2 * Bit(w, 4) + 4 * Bit(w, 5) + 8 * Bit(w, 6)
                + 16 * Bit(w, 7) + 32 * Bit(w, 8) + 64 * Bit(w, 9)
  <2>1. Bits(w, 9, 3) = Left(w, 3) - 128 * Left(w, 10)
    BY <1>5
  <2>2. /\ Left(w, 3) = 2 * Left(w, 4) + Bit(w, 3)
        /\ Left(w, 4) = 2 * Left(w, 5) + Bit(w, 4)
        /\ Left(w, 5) = 2 * Left(w, 6) + Bit(w, 5)
        /\ Left(w, 6) = 2 * Left(w, 7) + Bit(w, 6)
        /\ Left(w, 7) = 2 * Left(w, 8) + Bit(w, 7)
        /\ Left(w, 8) = 2 * Left(w, 9) + Bit(w, 8)
        /\ Left(w, 9) = 2 * Left(w, 10) + Bit(w, 9)
    BY Halves
  <2>3. QED
    BY <1>6, <2>1, <2>2, SMT
<1>22. Bits(w, 10, 0) = Bit(w, 0) + 2 * Bit(w, 1) + 4 * Bit(w, 2) + 8 * Bit(w, 3)
                + 16 * Bit(w, 4) + 32 * Bit(w, 5) + 64 * Bit(w, 6)
                + 128 * Bit(w, 7) + 256 * Bit(w, 8) + 512 * Bit(w, 9)
                + 1024 * Bit(w, 10)
  <2>1. Bits(w, 10, 0) = Left(w, 0) - 2048 * Left(w, 11)
    BY <1>5
  <2>2. /\ Left(w, 0) = 2 * Left(w, 1) + Bit(w, 0)
        /\ Left(w, 1) = 2 * Left(w, 2) + Bit(w, 1)
        /\ Left(w, 2) = 2 * Left(w, 3) + Bit(w, 2)
        /\ Left(w, 3) = 2 * Left(w, 4) + Bit(w, 3)
        /\ Left(w, 4) = 2 * Left(w, 5) + Bit(w, 4)
        /\ Left(w, 5) = 2 * Left(w, 6) + Bit(w, 5)
    BY Halves
  <2>8. /\ Left(w, 6) = 2 * Left(w, 7) + Bit(w, 6)
        /\ Left(w, 7) = 2 * Left(w, 8) + Bit(w, 7)
        /\ Left(w, 8) = 2 * Left(w, 9) + Bit(w, 8)
        /\ Left(w, 9) = 2 * Left(w, 10) + Bit(w, 9)
        /\ Left(w, 10) = 2 * Left(w, 11) + Bit(w, 10)
    BY Halves
  <2>5. Left(w, 6) = Bit(w, 6) + 2 * Bit(w, 7) + 4 * Bit(w, 8) + 8 * Bit(w, 9)
                + 16 * Bit(w, 10) + 32 * Left(w, 11)
    BY <1>6, <2>8, SMT
  <2>6. Left(w, 0) = Bit(w, 0) + 2 * Bit(w, 1) + 4 * Bit(w, 2) + 8 * Bit(w, 3)
                + 16 * Bit(w, 4) + 32 * Bit(w, 5) + 64 * Left(w, 6)
    BY <1>6, <2>2, SMT
  <2>7. QED
    BY <1>6, <2>1, <2>5, <2>6, SMT
<1>23. Bits(w, 7, 6) = Bit(w, 6) + 2 * Bit(w, 7)
  <2>1. Bits(w, 7, 6) = Left(w, 6) - 4 * Left(w, 8)
    BY <1>5
  <2>2. /\ Left(w, 6) = 2 * Left(w, 7) + Bit(w, 6)
        /\ Left(w, 7) = 2 * Left(w, 8) + Bit(w, 7)
    BY Halves
  <2>3. QED
    BY <1>6, <2>1, <2>2, SMT
<1>40. QED
  BY <1>10, <1>11, <1>12, <1>13, <1>14, <1>15, <1>16, <1>17, <1>18, <1>19, <1>20, <1>21,
     <1>22, <1>23

(* The places of each letter of the comments.                              *)
LEMMA GatheredAre ==
    ASSUME NEW w \in Words
    PROVE  /\ Gathered(w, <<4, 5, 6, 7, 8>>)
             = Bit(w, 4) + 2 * Bit(w, 5) + 4 * Bit(w, 6) + 8 * Bit(w, 7)
                + 16 * Bit(w, 8)
           /\ Gathered(w, <<0, 1, 2, 3, 9>>)
             = Bit(w, 0) + 2 * Bit(w, 1) + 4 * Bit(w, 2) + 8 * Bit(w, 3)
                + 16 * Bit(w, 9)
           /\ Gathered(w, <<0, 1, 2, 3, 9, 10>>)
             = Bit(w, 0) + 2 * Bit(w, 1) + 4 * Bit(w, 2) + 8 * Bit(w, 3)
                + 16 * Bit(w, 9) + 32 * Bit(w, 10)
           /\ Gathered(w, <<4, 5, 6, 7>>)
             = Bit(w, 4) + 2 * Bit(w, 5) + 4 * Bit(w, 6) + 8 * Bit(w, 7)
           /\ Gathered(w, <<0, 1, 2, 3, 8, 9, 10, 11>>)
             = Bit(w, 0) + 2 * Bit(w, 1) + 4 * Bit(w, 2) + 8 * Bit(w, 3)
                + 16 * Bit(w, 8) + 32 * Bit(w, 9) + 64 * Bit(w, 10)
                + 128 * Bit(w, 11)
           /\ Gathered(w, <<4, 5>>)
             = Bit(w, 4) + 2 * Bit(w, 5)
           /\ Gathered(w, <<0, 1, 2, 3, 6, 7>>)
             = Bit(w, 0) + 2 * Bit(w, 1) + 4 * Bit(w, 2) + 8 * Bit(w, 3)
                + 16 * Bit(w, 6) + 32 * Bit(w, 7)
           /\ Gathered(w, <<3, 4, 5, 6, 7>>)
             = Bit(w, 3) + 2 * Bit(w, 4) + 4 * Bit(w, 5) + 8 * Bit(w, 6)
                + 16 * Bit(w, 7)
           /\ Gathered(w, <<0, 1, 2>>)
             = Bit(w, 0) + 2 * Bit(w, 1) + 4 * Bit(w, 2)
           /\ Gathered(w, <<3, 4, 5, 6, 7, 8, 9>>)
             = Bit(w, 3) + 2 * Bit(w, 4) + 4 * Bit(w, 5) + 8 * Bit(w, 6)
                + 16 * Bit(w, 7) + 32 * Bit(w, 8) + 64 * Bit(w, 9)
           /\ Gathered(w, <<0, 1, 2, 3, 4, 5, 6, 7, 8, 9, 10, 11>>)
             = Bit(w, 0) + 2 * Bit(w, 1) + 4 * Bit(w, 2) + 8 * Bit(w, 3)
                + 16 * Bit(w, 4) + 32 * Bit(w, 5) + 64 * Bit(w, 6)
                + 128 * Bit(w, 7) + 256 * Bit(w, 8) + 512 * Bit(w, 9)
                + 1024 * Bit(w, 10) + 2048 * Bit(w, 11)
<1>1. \A i \in 0 .. 15 : Bit(w, i) \in Int
  BY BitTyped, SMT
<1>2. Gathered(w, <<4, 5, 6, 7, 8>>)
        = Bit(w, 4) + 2 * Bit(w, 5) + 4 * Bit(w, 6) + 8 * Bit(w, 7)
                + 16 * Bit(w, 8)
  BY <1>1, Powers, SMT DEF Gathered
<1>3. Gathered(w, <<0, 1, 2, 3, 9>>)
        = Bit(w, 0) + 2 * Bit(w, 1) + 4 * Bit(w, 2) + 8 * Bit(w, 3)
                + 16 * Bit(w, 9)
  BY <1>1, Powers, SMT DEF Gathered
<1>4. Gathered(w, <<0, 1, 2, 3, 9, 10>>)
        = Bit(w, 0) + 2 * Bit(w, 1) + 4 * Bit(w, 2) + 8 * Bit(w, 3)
                + 16 * Bit(w, 9) + 32 * Bit(w, 10)
  BY <1>1, Powers, SMT DEF Gathered
<1>5. Gathered(w, <<4, 5, 6, 7>>)
        = Bit(w, 4) + 2 * Bit(w, 5) + 4 * Bit(w, 6) + 8 * Bit(w, 7)
  BY <1>1, Powers, SMT DEF Gathered
<1>6. Gathered(w, <<0, 1, 2, 3, 8, 9, 10, 11>>)
        = Bit(w, 0) + 2 * Bit(w, 1) + 4 * Bit(w, 2) + 8 * Bit(w, 3)
                + 16 * Bit(w, 8) + 32 * Bit(w, 9) + 64 * Bit(w, 10)
                + 128 * Bit(w, 11)
  BY <1>1, Powers, SMT DEF Gathered
<1>7. Gathered(w, <<4, 5>>)
        = Bit(w, 4) + 2 * Bit(w, 5)
  BY <1>1, Powers, SMT DEF Gathered
<1>8. Gathered(w, <<0, 1, 2, 3, 6, 7>>)
        = Bit(w, 0) + 2 * Bit(w, 1) + 4 * Bit(w, 2) + 8 * Bit(w, 3)
                + 16 * Bit(w, 6) + 32 * Bit(w, 7)
  BY <1>1, Powers, SMT DEF Gathered
<1>9. Gathered(w, <<3, 4, 5, 6, 7>>)
        = Bit(w, 3) + 2 * Bit(w, 4) + 4 * Bit(w, 5) + 8 * Bit(w, 6)
                + 16 * Bit(w, 7)
  BY <1>1, Powers, SMT DEF Gathered
<1>10. Gathered(w, <<0, 1, 2>>)
        = Bit(w, 0) + 2 * Bit(w, 1) + 4 * Bit(w, 2)
  BY <1>1, Powers, SMT DEF Gathered
<1>11. Gathered(w, <<3, 4, 5, 6, 7, 8, 9>>)
        = Bit(w, 3) + 2 * Bit(w, 4) + 4 * Bit(w, 5) + 8 * Bit(w, 6)
                + 16 * Bit(w, 7) + 32 * Bit(w, 8) + 64 * Bit(w, 9)
  BY <1>1, Powers, SMT DEF Gathered
<1>12. Gathered(w, <<0, 1, 2, 3, 4, 5, 6, 7, 8, 9, 10, 11>>)
        = Bit(w, 0) + 2 * Bit(w, 1) + 4 * Bit(w, 2) + 8 * Bit(w, 3)
                + 16 * Bit(w, 4) + 32 * Bit(w, 5) + 64 * Bit(w, 6)
                + 128 * Bit(w, 7) + 256 * Bit(w, 8) + 512 * Bit(w, 9)
                + 1024 * Bit(w, 10) + 2048 * Bit(w, 11)
  BY <1>1, Powers, SMT DEF Gathered
<1>20. QED
  BY <1>2, <1>3, <1>4, <1>5, <1>6, <1>7, <1>8, <1>9, <1>10, <1>11, <1>12

-----------------------------------------------------------------------------
(* The patterns of generator_jump_table.py.                                *)
LEMMA NamesAre ==
    Names = {"adc", "add", "andi", "brne", "call", "cbi", "cli", "cp",
             "dec", "eorclr", "in", "jmp", "ldi", "lds32", "lds16", "nop",
             "ori", "out", "pop", "push", "rcall", "ret", "reti", "rjmp",
             "sbci", "sbi", "sbic", "sbis", "sbiw", "sts", "subi"}
  BY DEF Names, Pattern

(* What a pattern asks of the nibbles n of a word.                         *)
Asks(name, n) ==
    \/ name = "adc" /\ n[1] = 1 /\ n[2] \in 12 .. 15
    \/ name = "add" /\ n[1] = 0 /\ n[2] \in 12 .. 15
    \/ name = "andi" /\ n[1] = 7
    \/ name = "brne" /\ n[1] = 15 /\ n[2] \in 4 .. 7 /\ n[4] \in {1, 9}
    \/ name = "call" /\ n[1] = 9 /\ n[2] \in {4, 5} /\ n[4] \in {14, 15}
    \/ name = "cbi" /\ n[1] = 9 /\ n[2] = 8
    \/ name = "cli" /\ n[1] = 9 /\ n[2] = 4 /\ n[3] = 15 /\ n[4] = 8
    \/ name = "cp" /\ n[1] = 1 /\ n[2] \in 4 .. 7
    \/ name = "dec" /\ n[1] = 9 /\ n[2] \in {4, 5} /\ n[4] = 10
    \/ name = "eorclr" /\ n[1] = 2 /\ n[2] \in 4 .. 7
    \/ name = "in" /\ n[1] = 11 /\ n[2] \in 0 .. 7
    \/ name = "jmp" /\ n[1] = 9 /\ n[2] \in {4, 5} /\ n[4] \in {12, 13}
    \/ name = "ldi" /\ n[1] = 14
    \/ name = "lds32" /\ n[1] = 9 /\ n[2] \in {0, 1} /\ n[4] = 0
    \/ name = "lds16" /\ n[1] = 10 /\ n[2] \in 0 .. 7
    \/ name = "nop" /\ n[1] = 0 /\ n[2] = 0 /\ n[3] = 0 /\ n[4] = 0
    \/ name = "ori" /\ n[1] = 6
    \/ name = "out" /\ n[1] = 11 /\ n[2] \in 8 .. 15
    \/ name = "pop" /\ n[1] = 9 /\ n[2] \in {0, 1} /\ n[4] = 15
    \/ name = "push" /\ n[1] = 9 /\ n[2] \in {2, 3} /\ n[4] = 15
    \/ name = "rcall" /\ n[1] = 13
    \/ name = "ret" /\ n[1] = 9 /\ n[2] = 5 /\ n[3] = 0 /\ n[4] = 8
    \/ name = "reti" /\ n[1] = 9 /\ n[2] = 5 /\ n[3] = 1 /\ n[4] = 8
    \/ name = "rjmp" /\ n[1] = 12
    \/ name = "sbci" /\ n[1] = 4
    \/ name = "sbi" /\ n[1] = 9 /\ n[2] = 10
    \/ name = "sbic" /\ n[1] = 9 /\ n[2] = 9
    \/ name = "sbis" /\ n[1] = 9 /\ n[2] = 11
    \/ name = "sbiw" /\ n[1] = 9 /\ n[2] = 7
    \/ name = "sts" /\ n[1] = 9 /\ n[2] \in {2, 3} /\ n[4] = 0
    \/ name = "subi" /\ n[1] = 5

LEMMA NibblesTyped ==
    ASSUME NEW w \in Words
    PROVE  Nibbles(w) \in [1 .. 4 -> 0 .. 15]
<1>1. \A x \in Nat : x % 16 \in 0 .. 15
  BY SMT
<1>2. w \in Nat
  BY WordsAre
<1>3. /\ w \div 4096 \in Nat /\ w \div 256 \in Nat /\ w \div 16 \in Nat /\ w \div 1 \in Nat
  BY <1>2, SMT
<1>4. Nibbles(w) =
          <<(w \div 4096) % 16, (w \div 256) % 16, (w \div 16) % 16, (w \div 1) % 16>>
  BY Powers DEF Nibbles, Bits
<1>5. QED
  BY <1>1, <1>3, <1>4

LEMMA MatchingAsks ==
    ASSUME NEW w \in Words, NEW name
    PROVE  name \in Matching(w) <=> Asks(name, Nibbles(w))
<1> DEFINE n == Nibbles(w)
           Fits(x) == \A i \in 1 .. 4 : n[i] \in Pattern[x][i]
<1>1. name \in Matching(w) <=> name \in Names /\ Fits(name)
  BY DEF Matching
<1>2. \A i \in 1 .. 4 : n[i] \in 0 .. 15
  BY NibblesTyped
<1> HIDE DEF n
<1>3. /\ Fits("adc") <=> Asks("adc", n)
      /\ Fits("add") <=> Asks("add", n)
      /\ Fits("andi") <=> Asks("andi", n)
      /\ Fits("brne") <=> Asks("brne", n)
  BY <1>2 DEF Pattern, Any, Asks
<1>4. /\ Fits("call") <=> Asks("call", n)
      /\ Fits("cbi") <=> Asks("cbi", n)
      /\ Fits("cli") <=> Asks("cli", n)
      /\ Fits("cp") <=> Asks("cp", n)
  BY <1>2 DEF Pattern, Any, Asks
<1>5. /\ Fits("dec") <=> Asks("dec", n)
      /\ Fits("eorclr") <=> Asks("eorclr", n)
      /\ Fits("in") <=> Asks("in", n)
      /\ Fits("jmp") <=> Asks("jmp", n)
  BY <1>2 DEF Pattern, Any, Asks
<1>6. /\ Fits("ldi") <=> Asks("ldi", n)
      /\ Fits("lds32") <=> Asks("lds32", n)
      /\ Fits("lds16") <=> Asks("lds16", n)
      /\ Fits("nop") <=> Asks("nop", n)
  BY <1>2 DEF Pattern, Any, Asks
<1>7. /\ Fits("ori") <=> Asks("ori", n)
      /\ Fits("out") <=> Asks("out", n)
      /\ Fits("pop") <=> Asks("pop", n)
      /\ Fits("push") <=> Asks("push", n)
  BY <1>2 DEF Pattern, Any, Asks
<1>8. /\ Fits("rcall") <=> Asks("rcall", n)
      /\ Fits("ret") <=> Asks("ret", n)
      /\ Fits("reti") <=> Asks("reti", n)
      /\ Fits("rjmp") <=> Asks("rjmp", n)
  BY <1>2 DEF Pattern, Any, Asks
<1>9. /\ Fits("sbci") <=> Asks("sbci", n)
      /\ Fits("sbi") <=> Asks("sbi", n)
      /\ Fits("sbic") <=> Asks("sbic", n)
      /\ Fits("sbis") <=> Asks("sbis", n)
  BY <1>2 DEF Pattern, Any, Asks
<1>10. /\ Fits("sbiw") <=> Asks("sbiw", n)
       /\ Fits("sts") <=> Asks("sts", n)
       /\ Fits("subi") <=> Asks("subi", n)
  BY <1>2 DEF Pattern, Any, Asks
<1> HIDE DEF Fits
<1>11. name \in Names => (Fits(name) <=> Asks(name, n))
  BY NamesAre, <1>3, <1>4, <1>5, <1>6, <1>7, <1>8, <1>9, <1>10
<1>12. Asks(name, n) => name \in Names
  BY NamesAre DEF Asks
<1>13. QED
  BY <1>1, <1>11, <1>12 DEF n

(* No two patterns ask the same.                                           *)
LEMMA AsksApart ==
    ASSUME NEW n \in [1 .. 4 -> 0 .. 15], NEW a, NEW b, Asks(a, n), Asks(b, n)
    PROVE  a = b
  BY SMTT(60) DEF Asks

(* The entry of the jump tables is the one pattern that fits.              *)
LEMMA EntryIs ==
    ASSUME NEW w \in Words
    PROVE  /\ Asks(Entry(w), Nibbles(w)) \/ Entry(w) = "unknown"
           /\ \A name : Asks(name, Nibbles(w)) => Entry(w) = name
<1>1. Entry(w) = IF Matching(w) = {} THEN "unknown" ELSE CHOOSE name \in Matching(w) : TRUE
  BY DEF Entry, Table
<1>2. Matching(w) # {} => Asks(Entry(w), Nibbles(w))
  <2>1. ASSUME Matching(w) # {} PROVE Entry(w) \in Matching(w)
    BY <1>1, <2>1
  <2>2. QED
    BY <2>1, MatchingAsks
<1>3. ASSUME NEW name, Asks(name, Nibbles(w)) PROVE Entry(w) = name
  <2>1. name \in Matching(w)
    BY <1>3, MatchingAsks
  <2>2. QED
    BY <1>2, <1>3, <2>1, AsksApart, NibblesTyped
<1>4. QED
  BY <1>1, <1>2, <1>3

(* The order of the patterns does not matter.                              *)
LEMMA AtMostOneMatches ==
    ASSUME NEW w \in Words
    PROVE  Cardinality(Matching(w)) <= 1
<1>1. \A a, b \in Matching(w) : a = b
  BY MatchingAsks, AsksApart, NibblesTyped
<1>2. CASE Matching(w) = {}
  BY <1>2, FS_EmptySet
<1>3. ASSUME NEW a \in Matching(w) PROVE Cardinality(Matching(w)) <= 1
  <2>1. Matching(w) = {a}
    BY <1>1, <1>3
  <2>2. Cardinality({a}) = 1
    BY FS_Singleton
  <2>3. QED
    BY <2>1, <2>2
<1>4. QED
  BY <1>2, <1>3

(* The bits of a number of sixteen bits that is given.                     *)
LEMMA MaskBits ==
    /\ \A p \in 0 .. 15 : Bit(65038, p) =
              IF p \in {1, 2, 3, 9, 10, 11, 12, 13, 14, 15} THEN 1 ELSE 0
    /\ \A p \in 0 .. 15 : Bit(65039, p) =
              IF p \in {0, 1, 2, 3, 9, 10, 11, 12, 13, 14, 15} THEN 1 ELSE 0
    /\ \A p \in 0 .. 15 : Bit(37902, p) = IF p \in {1, 2, 3, 10, 12, 15} THEN 1 ELSE 0
    /\ \A p \in 0 .. 15 : Bit(37900, p) = IF p \in {2, 3, 10, 12, 15} THEN 1 ELSE 0
    /\ \A p \in 0 .. 15 : Bit(36864, p) = IF p \in {12, 15} THEN 1 ELSE 0
    /\ \A p \in 0 .. 15 : Bit(37376, p) = IF p \in {9, 12, 15} THEN 1 ELSE 0
<1>1. \A x : Bit(x, 0) = (x \div 1) % 2 /\ Bit(x, 1) = (x \div 2) % 2
        /\ Bit(x, 2) = (x \div 4) % 2 /\ Bit(x, 3) = (x \div 8) % 2
        /\ Bit(x, 4) = (x \div 16) % 2 /\ Bit(x, 5) = (x \div 32) % 2
        /\ Bit(x, 6) = (x \div 64) % 2 /\ Bit(x, 7) = (x \div 128) % 2
        /\ Bit(x, 8) = (x \div 256) % 2 /\ Bit(x, 9) = (x \div 512) % 2
        /\ Bit(x, 10) = (x \div 1024) % 2 /\ Bit(x, 11) = (x \div 2048) % 2
        /\ Bit(x, 12) = (x \div 4096) % 2 /\ Bit(x, 13) = (x \div 8192) % 2
        /\ Bit(x, 14) = (x \div 16384) % 2 /\ Bit(x, 15) = (x \div 32768) % 2
  BY Powers DEF Bit, Bits
<1>2. \A p \in 0 .. 15 : Bit(65038, p) =
              IF p \in {1, 2, 3, 9, 10, 11, 12, 13, 14, 15} THEN 1 ELSE 0
  BY <1>1
<1>3. \A p \in 0 .. 15 : Bit(65039, p) =
              IF p \in {0, 1, 2, 3, 9, 10, 11, 12, 13, 14, 15} THEN 1 ELSE 0
  BY <1>1
<1>4. \A p \in 0 .. 15 : Bit(37902, p) = IF p \in {1, 2, 3, 10, 12, 15} THEN 1 ELSE 0
  BY <1>1
<1>5. \A p \in 0 .. 15 : Bit(37900, p) = IF p \in {2, 3, 10, 12, 15} THEN 1 ELSE 0
  BY <1>1
<1>6. \A p \in 0 .. 15 : Bit(36864, p) = IF p \in {12, 15} THEN 1 ELSE 0
  BY <1>1
<1>7. \A p \in 0 .. 15 : Bit(37376, p) = IF p \in {9, 12, 15} THEN 1 ELSE 0
  BY <1>1
<1>8. QED
  BY <1>2, <1>3, <1>4, <1>5, <1>6, <1>7

(* What the masks of sbic and sbis ask of the nibbles of a word.           *)
LEMMA MasksAre ==
    ASSUME NEW w \in Words
    PROVE  LET n == Nibbles(w)
           IN  /\ Masked(w, 65038, 37902) <=> n[1] = 9 /\ n[2] \in {4, 5} /\ n[4] \in {14, 15}
               /\ Masked(w, 65038, 37900) <=> n[1] = 9 /\ n[2] \in {4, 5} /\ n[4] \in {12, 13}
               /\ Masked(w, 65039, 36864) <=> n[1] = 9 /\ n[2] \in {0, 1} /\ n[4] = 0
               /\ Masked(w, 65039, 37376) <=> n[1] = 9 /\ n[2] \in {2, 3} /\ n[4] = 0
<1> DEFINE b(p) == Bit(w, p)
           n == Nibbles(w)
<1>1. \A p \in 0 .. 15 : b(p) \in {0, 1}
  BY BitTyped
<1>2. /\ n[1] = b(12) + 2 * b(13) + 4 * b(14) + 8 * b(15)
      /\ n[2] = b(8) + 2 * b(9) + 4 * b(10) + 8 * b(11)
      /\ n[4] = b(0) + 2 * b(1) + 4 * b(2) + 8 * b(3)
  BY FieldsAreBits DEF Nibbles
<1>3. /\ Masked(w, 65038, 37902) <=>
            /\ b(1) = 1 /\ b(2) = 1 /\ b(3) = 1 /\ b(9) = 0 /\ b(10) = 1 /\ b(11) = 0
            /\ b(12) = 1 /\ b(13) = 0 /\ b(14) = 0 /\ b(15) = 1
      /\ Masked(w, 65038, 37900) <=>
            /\ b(1) = 0 /\ b(2) = 1 /\ b(3) = 1 /\ b(9) = 0 /\ b(10) = 1 /\ b(11) = 0
            /\ b(12) = 1 /\ b(13) = 0 /\ b(14) = 0 /\ b(15) = 1
      /\ Masked(w, 65039, 36864) <=>
            /\ b(0) = 0 /\ b(1) = 0 /\ b(2) = 0 /\ b(3) = 0 /\ b(9) = 0 /\ b(10) = 0 /\ b(11) = 0
            /\ b(12) = 1 /\ b(13) = 0 /\ b(14) = 0 /\ b(15) = 1
      /\ Masked(w, 65039, 37376) <=>
            /\ b(0) = 0 /\ b(1) = 0 /\ b(2) = 0 /\ b(3) = 0 /\ b(9) = 1 /\ b(10) = 0 /\ b(11) = 0
            /\ b(12) = 1 /\ b(13) = 0 /\ b(14) = 0 /\ b(15) = 1
  BY MaskBits DEF Masked
<1> HIDE DEF b, n
<1>4. n[1] = 9 <=> b(12) = 1 /\ b(13) = 0 /\ b(14) = 0 /\ b(15) = 1
  BY <1>1, <1>2
<1>5. /\ n[2] \in {4, 5} <=> b(9) = 0 /\ b(10) = 1 /\ b(11) = 0
      /\ n[2] \in {0, 1} <=> b(9) = 0 /\ b(10) = 0 /\ b(11) = 0
      /\ n[2] \in {2, 3} <=> b(9) = 1 /\ b(10) = 0 /\ b(11) = 0
  BY <1>1, <1>2
<1>6. /\ n[4] \in {14, 15} <=> b(1) = 1 /\ b(2) = 1 /\ b(3) = 1
      /\ n[4] \in {12, 13} <=> b(1) = 0 /\ b(2) = 1 /\ b(3) = 1
      /\ n[4] = 0 <=> b(0) = 0 /\ b(1) = 0 /\ b(2) = 0 /\ b(3) = 0
  BY <1>1, <1>2
<1>7. QED
  BY <1>3, <1>4, <1>5, <1>6 DEF n

(* call, jmp, lds32 and sts are the words that the masks know.             *)
LEMMA LengthsOfWord ==
    ASSUME NEW w \in Words
    PROVE  /\ SkippedLength(w) = ExecutedLength(Entry(w))
           /\ Entry(w) \notin {"lds16", "rcall"} =>
                ListedLengths(Entry(w)) = {ExecutedLength(Entry(w))}
<1>1. /\ Entry(w) = "call" <=> Masked(w, 65038, 37902)
      /\ Entry(w) = "jmp" <=> Masked(w, 65038, 37900)
      /\ Entry(w) = "lds32" <=> Masked(w, 65039, 36864)
      /\ Entry(w) = "sts" <=> Masked(w, 65039, 37376)
  <2>1. \A name \in {"call", "jmp", "lds32", "sts"} : Entry(w) = name <=> Asks(name, Nibbles(w))
    BY EntryIs
  <2>2. QED
    BY <2>1, MasksAre DEF Asks
<1>2. SkippedLength(w) = ExecutedLength(Entry(w))
  BY <1>1 DEF SkippedLength, ExecutedLength
<1>3. QED
  BY <1>2 DEF ListedLengths, ExecutedLength

(* The fields that decoder.h puts together are the letters of the comments. *)
LEMMA FieldsAreLetters ==
    ASSUME NEW w \in Words
    PROVE  /\ Bits(w, 8, 4) = Gathered(w, <<4, 5, 6, 7, 8>>)
           /\ Bit(w, 9) * 16 + Bits(w, 3, 0) = Gathered(w, <<0, 1, 2, 3, 9>>)
           /\ Bits(w, 10, 9) * 16 + Bits(w, 3, 0) = Gathered(w, <<0, 1, 2, 3, 9, 10>>)
           /\ Bits(w, 7, 4) = Gathered(w, <<4, 5, 6, 7>>)
           /\ Bits(w, 11, 8) * 16 + Bits(w, 3, 0)
                = Gathered(w, <<0, 1, 2, 3, 8, 9, 10, 11>>)
           /\ Bits(w, 5, 4) = Gathered(w, <<4, 5>>)
           /\ Bits(w, 7, 3) = Gathered(w, <<3, 4, 5, 6, 7>>)
           /\ Bits(w, 2, 0) = Gathered(w, <<0, 1, 2>>)
           /\ Bits(w, 9, 3) = Gathered(w, <<3, 4, 5, 6, 7, 8, 9>>)
           /\ Bit(w, 11) * 2048 + Bits(w, 10, 0)
                = Gathered(w, <<0, 1, 2, 3, 4, 5, 6, 7, 8, 9, 10, 11>>)
           /\ Bits(w, 7, 6) = 0 => BitsOrBits(w) = Gathered(w, <<0, 1, 2, 3, 6, 7>>)
           /\ Bit(w, 7) # 1 => Bits(w, 6, 3) = Gathered(w, <<3, 4, 5, 6, 7>>)
           /\ Bit(w, 8) # 1 => Bits(w, 8, 4) = Gathered(w, <<4, 5, 6, 7>>)
<1>1. \A i \in 0 .. 15 : Bit(w, i) \in Nat /\ Bit(w, i) \in {0, 1}
  BY BitTyped
<1>2. /\ Bits(w, 8, 4) = Gathered(w, <<4, 5, 6, 7, 8>>)
      /\ Bits(w, 7, 4) = Gathered(w, <<4, 5, 6, 7>>)
      /\ Bits(w, 5, 4) = Gathered(w, <<4, 5>>)
      /\ Bits(w, 7, 3) = Gathered(w, <<3, 4, 5, 6, 7>>)
      /\ Bits(w, 2, 0) = Gathered(w, <<0, 1, 2>>)
      /\ Bits(w, 9, 3) = Gathered(w, <<3, 4, 5, 6, 7, 8, 9>>)
  BY FieldsAreBits, GatheredAre
<1>3. Bit(w, 9) * 16 + Bits(w, 3, 0) = Gathered(w, <<0, 1, 2, 3, 9>>)
  <2>1. Bits(w, 3, 0) = Bit(w, 0) + 2 * Bit(w, 1) + 4 * Bit(w, 2) + 8 * Bit(w, 3)
    BY FieldsAreBits
  <2>2. QED
    BY <1>1, <2>1, GatheredAre
<1>4. Bits(w, 10, 9) * 16 + Bits(w, 3, 0) = Gathered(w, <<0, 1, 2, 3, 9, 10>>)
  <2>1. /\ Bits(w, 3, 0) = Bit(w, 0) + 2 * Bit(w, 1) + 4 * Bit(w, 2) + 8 * Bit(w, 3)
        /\ Bits(w, 10, 9) = Bit(w, 9) + 2 * Bit(w, 10)
    BY FieldsAreBits
  <2>2. QED
    BY <1>1, <2>1, GatheredAre
<1>5. Bits(w, 11, 8) * 16 + Bits(w, 3, 0) = Gathered(w, <<0, 1, 2, 3, 8, 9, 10, 11>>)
  <2>1. /\ Bits(w, 3, 0) = Bit(w, 0) + 2 * Bit(w, 1) + 4 * Bit(w, 2) + 8 * Bit(w, 3)
        /\ Bits(w, 11, 8) = Bit(w, 8) + 2 * Bit(w, 9) + 4 * Bit(w, 10) + 8 * Bit(w, 11)
    BY FieldsAreBits
  <2>2. QED
    BY <1>1, <2>1, GatheredAre
<1>6. Bit(w, 11) * 2048 + Bits(w, 10, 0)
                = Gathered(w, <<0, 1, 2, 3, 4, 5, 6, 7, 8, 9, 10, 11>>)
  <2>1. Bits(w, 10, 0) = Bit(w, 0) + 2 * Bit(w, 1) + 4 * Bit(w, 2) + 8 * Bit(w, 3)
                + 16 * Bit(w, 4) + 32 * Bit(w, 5) + 64 * Bit(w, 6)
                + 128 * Bit(w, 7) + 256 * Bit(w, 8) + 512 * Bit(w, 9)
                + 1024 * Bit(w, 10)
    BY FieldsAreBits
  <2>2. Gathered(w, <<0, 1, 2, 3, 4, 5, 6, 7, 8, 9, 10, 11>>)
              = Bit(w, 0) + 2 * Bit(w, 1) + 4 * Bit(w, 2) + 8 * Bit(w, 3)
                + 16 * Bit(w, 4) + 32 * Bit(w, 5) + 64 * Bit(w, 6)
                + 128 * Bit(w, 7) + 256 * Bit(w, 8) + 512 * Bit(w, 9)
                + 1024 * Bit(w, 10) + 2048 * Bit(w, 11)
    BY GatheredAre
  <2>3. Gathered(w, <<0, 1, 2, 3, 4, 5, 6, 7, 8, 9, 10, 11>>)
                = Bits(w, 10, 0) + 2048 * Bit(w, 11)
    BY <2>1, <2>2, SMT
  <2>4. Bit(w, 11) \in Nat /\ Bits(w, 10, 0) \in Nat
    <3>1. \A i \in 0 .. 11 : Bit(w, i) \in Nat
      BY <1>1
    <3>2. QED
      BY <2>1, <3>1
  <2>5. QED
    BY <2>3, <2>4
<1>7. ASSUME Bits(w, 7, 6) = 0 PROVE BitsOrBits(w) = Gathered(w, <<0, 1, 2, 3, 6, 7>>)
  <2>1. Bits(w, 7, 6) = Bit(w, 6) + 2 * Bit(w, 7)
    BY FieldsAreBits
  <2>2. Bit(w, 6) = 0 /\ Bit(w, 7) = 0
    BY <1>1, <1>7, <2>1
  <2>3. Bits(w, 3, 2) = Bit(w, 2) + 2 * Bit(w, 3)
    BY FieldsAreBits
  <2>4. BitsOrBits(w) = (Bits(w, 3, 2) * 4) + (Bit(w, 1) * 2) + Bit(w, 0)
    BY <2>2 DEF BitsOrBits
  <2>5. Gathered(w, <<0, 1, 2, 3, 6, 7>>)
                = Bit(w, 0) + 2 * Bit(w, 1) + 4 * Bit(w, 2) + 8 * Bit(w, 3)
    BY <1>1, <2>2, GatheredAre
  <2>6. QED
    BY <1>1, <2>3, <2>4, <2>5
<1>8. ASSUME Bit(w, 7) # 1 PROVE Bits(w, 6, 3) = Gathered(w, <<3, 4, 5, 6, 7>>)
  <2>1. Bits(w, 6, 3) = Bit(w, 3) + 2 * Bit(w, 4) + 4 * Bit(w, 5) + 8 * Bit(w, 6)
    BY FieldsAreBits
  <2>2. Bit(w, 7) = 0
    BY <1>1, <1>8
  <2>3. Gathered(w, <<3, 4, 5, 6, 7>>)
          = Bit(w, 3) + 2 * Bit(w, 4) + 4 * Bit(w, 5) + 8 * Bit(w, 6) + 16 * Bit(w, 7)
    BY GatheredAre
  <2>4. QED
    BY <1>1, <2>1, <2>2, <2>3
<1>9. ASSUME Bit(w, 8) # 1 PROVE Bits(w, 8, 4) = Gathered(w, <<4, 5, 6, 7>>)
  <2>1. Bits(w, 8, 4)
          = Bit(w, 4) + 2 * Bit(w, 5) + 4 * Bit(w, 6) + 8 * Bit(w, 7) + 16 * Bit(w, 8)
    BY FieldsAreBits
  <2>2. Bit(w, 8) = 0
    BY <1>1, <1>9
  <2>3. Gathered(w, <<4, 5, 6, 7>>)
          = Bit(w, 4) + 2 * Bit(w, 5) + 4 * Bit(w, 6) + 8 * Bit(w, 7)
    BY GatheredAre
  <2>4. QED
    BY <1>1, <2>1, <2>2, <2>3
<1>10. QED
  BY <1>2, <1>3, <1>4, <1>5, <1>6, <1>7, <1>8, <1>9

(* One case for each set of letters.                                       *)
LEMMA OperandsOfWord ==
    ASSUME NEW w \in Words, NEW name \in Names \cup {"unknown"}, ~LosesBits(name, w)
    PROVE  Operands(name, w) = MeantOperands(name, w)
<1>1. CASE name \in {"adc", "add", "cp", "eorclr"}
  <2>1. Letters(name) = [d |-> <<4, 5, 6, 7, 8>>, r |-> <<0, 1, 2, 3, 9>>]
    BY <1>1 DEF Letters
  <2>2. /\ Meant(name, w, "d") = Gathered(w, <<4, 5, 6, 7, 8>>)
        /\ Meant(name, w, "r") = Gathered(w, <<0, 1, 2, 3, 9>>)
        /\ Meant(name, w, "a") = -1
        /\ Meant(name, w, "b") = -1
        /\ Meant(name, w, "k") = -1
    BY <2>1 DEF Meant
  <2>4. FirstRegister(name, w) = MeantRegister(name, w)
    BY <1>1, <2>1, <2>2, FieldsAreLetters DEF FirstRegister, MeantRegister
  <2>5. SecondRegister(name, w) = Meant(name, w, "r")
    BY <1>1, <2>1, <2>2, FieldsAreLetters DEF SecondRegister
  <2>6. IoAddress(name, w) = MeantAddress(name, w)
    BY <1>1, <2>1, <2>2, FieldsAreLetters DEF IoAddress, MeantAddress
  <2>7. BitNumber(name, w) = Meant(name, w, "b")
    BY <1>1, <2>1, <2>2, FieldsAreLetters DEF BitNumber
  <2>8. Constant(name, w) = Meant(name, w, "k")
    BY <1>1, <2>1, <2>2, FieldsAreLetters DEF Constant
  <2>9. QED
    BY <2>4, <2>5, <2>6, <2>7, <2>8 DEF Operands, MeantOperands
<1>2. CASE name \in {"dec", "lds32", "pop", "push", "sts"}
  <2>1. Letters(name) = [d |-> <<4, 5, 6, 7, 8>>]
    BY <1>2 DEF Letters
  <2>2. /\ Meant(name, w, "d") = Gathered(w, <<4, 5, 6, 7, 8>>)
        /\ Meant(name, w, "r") = -1
        /\ Meant(name, w, "a") = -1
        /\ Meant(name, w, "b") = -1
        /\ Meant(name, w, "k") = -1
    BY <2>1 DEF Meant
  <2>4. FirstRegister(name, w) = MeantRegister(name, w)
    BY <1>2, <2>1, <2>2, FieldsAreLetters DEF FirstRegister, MeantRegister
  <2>5. SecondRegister(name, w) = Meant(name, w, "r")
    BY <1>2, <2>1, <2>2, FieldsAreLetters DEF SecondRegister
  <2>6. IoAddress(name, w) = MeantAddress(name, w)
    BY <1>2, <2>1, <2>2, FieldsAreLetters DEF IoAddress, MeantAddress
  <2>7. BitNumber(name, w) = Meant(name, w, "b")
    BY <1>2, <2>1, <2>2, FieldsAreLetters DEF BitNumber
  <2>8. Constant(name, w) = Meant(name, w, "k")
    BY <1>2, <2>1, <2>2, FieldsAreLetters DEF Constant
  <2>9. QED
    BY <2>4, <2>5, <2>6, <2>7, <2>8 DEF Operands, MeantOperands
<1>3. CASE name \in {"in", "out"}
  <2>1. Letters(name) = [d |-> <<4, 5, 6, 7, 8>>, a |-> <<0, 1, 2, 3, 9, 10>>]
    BY <1>3 DEF Letters
  <2>2. /\ Meant(name, w, "d") = Gathered(w, <<4, 5, 6, 7, 8>>)
        /\ Meant(name, w, "r") = -1
        /\ Meant(name, w, "a") = Gathered(w, <<0, 1, 2, 3, 9, 10>>)
        /\ Meant(name, w, "b") = -1
        /\ Meant(name, w, "k") = -1
    BY <2>1 DEF Meant
  <2>4. FirstRegister(name, w) = MeantRegister(name, w)
    BY <1>3, <2>1, <2>2, FieldsAreLetters DEF FirstRegister, MeantRegister
  <2>5. SecondRegister(name, w) = Meant(name, w, "r")
    BY <1>3, <2>1, <2>2, FieldsAreLetters DEF SecondRegister
  <2>6. IoAddress(name, w) = MeantAddress(name, w)
    BY <1>3, <2>1, <2>2, FieldsAreLetters DEF IoAddress, MeantAddress
  <2>7. BitNumber(name, w) = Meant(name, w, "b")
    BY <1>3, <2>1, <2>2, FieldsAreLetters DEF BitNumber
  <2>8. Constant(name, w) = Meant(name, w, "k")
    BY <1>3, <2>1, <2>2, FieldsAreLetters DEF Constant
  <2>9. QED
    BY <2>4, <2>5, <2>6, <2>7, <2>8 DEF Operands, MeantOperands
<1>4. CASE name \in {"andi", "ldi", "ori", "sbci", "subi"}
  <2>1. Letters(name) = [d |-> <<4, 5, 6, 7>>, k |-> <<0, 1, 2, 3, 8, 9, 10, 11>>]
    BY <1>4 DEF Letters
  <2>2. /\ Meant(name, w, "d") = Gathered(w, <<4, 5, 6, 7>>)
        /\ Meant(name, w, "r") = -1
        /\ Meant(name, w, "a") = -1
        /\ Meant(name, w, "b") = -1
        /\ Meant(name, w, "k") = Gathered(w, <<0, 1, 2, 3, 8, 9, 10, 11>>)
    BY <2>1 DEF Meant
  <2>3. name \in {"sbci", "subi"} => Bits(w, 8, 4) = Gathered(w, <<4, 5, 6, 7>>)
    BY <1>4, FieldsAreLetters DEF LosesBits
  <2>4. FirstRegister(name, w) = MeantRegister(name, w)
    BY <1>4, <2>1, <2>2, <2>3, FieldsAreLetters DEF FirstRegister, MeantRegister
  <2>5. SecondRegister(name, w) = Meant(name, w, "r")
    BY <1>4, <2>1, <2>2, <2>3, FieldsAreLetters DEF SecondRegister
  <2>6. IoAddress(name, w) = MeantAddress(name, w)
    BY <1>4, <2>1, <2>2, <2>3, FieldsAreLetters DEF IoAddress, MeantAddress
  <2>7. BitNumber(name, w) = Meant(name, w, "b")
    BY <1>4, <2>1, <2>2, <2>3, FieldsAreLetters DEF BitNumber
  <2>8. Constant(name, w) = Meant(name, w, "k")
    BY <1>4, <2>1, <2>2, <2>3, FieldsAreLetters DEF Constant
  <2>9. QED
    BY <2>4, <2>5, <2>6, <2>7, <2>8 DEF Operands, MeantOperands
<1>5. CASE name = "sbiw"
  <2>1. Letters(name) = [d |-> <<4, 5>>, k |-> <<0, 1, 2, 3, 6, 7>>]
    BY <1>5 DEF Letters
  <2>2. /\ Meant(name, w, "d") = Gathered(w, <<4, 5>>)
        /\ Meant(name, w, "r") = -1
        /\ Meant(name, w, "a") = -1
        /\ Meant(name, w, "b") = -1
        /\ Meant(name, w, "k") = Gathered(w, <<0, 1, 2, 3, 6, 7>>)
    BY <2>1 DEF Meant
  <2>3. BitsOrBits(w) = Gathered(w, <<0, 1, 2, 3, 6, 7>>)
    BY <1>5, FieldsAreLetters DEF LosesBits
  <2>4. FirstRegister(name, w) = MeantRegister(name, w)
    BY <1>5, <2>1, <2>2, <2>3, FieldsAreLetters DEF FirstRegister, MeantRegister
  <2>5. SecondRegister(name, w) = Meant(name, w, "r")
    BY <1>5, <2>1, <2>2, <2>3, FieldsAreLetters DEF SecondRegister
  <2>6. IoAddress(name, w) = MeantAddress(name, w)
    BY <1>5, <2>1, <2>2, <2>3, FieldsAreLetters DEF IoAddress, MeantAddress
  <2>7. BitNumber(name, w) = Meant(name, w, "b")
    BY <1>5, <2>1, <2>2, <2>3, FieldsAreLetters DEF BitNumber
  <2>8. Constant(name, w) = Meant(name, w, "k")
    BY <1>5, <2>1, <2>2, <2>3, FieldsAreLetters DEF Constant
  <2>9. QED
    BY <2>4, <2>5, <2>6, <2>7, <2>8 DEF Operands, MeantOperands
<1>6. CASE name \in {"cbi", "sbi", "sbic", "sbis"}
  <2>1. Letters(name) = [a |-> <<3, 4, 5, 6, 7>>, b |-> <<0, 1, 2>>]
    BY <1>6 DEF Letters
  <2>2. /\ Meant(name, w, "d") = -1
        /\ Meant(name, w, "r") = -1
        /\ Meant(name, w, "a") = Gathered(w, <<3, 4, 5, 6, 7>>)
        /\ Meant(name, w, "b") = Gathered(w, <<0, 1, 2>>)
        /\ Meant(name, w, "k") = -1
    BY <2>1 DEF Meant
  <2>3. name \in {"sbic", "sbis"} => Bits(w, 6, 3) = Gathered(w, <<3, 4, 5, 6, 7>>)
    BY <1>6, FieldsAreLetters DEF LosesBits
  <2>4. FirstRegister(name, w) = MeantRegister(name, w)
    BY <1>6, <2>1 DEF FirstRegister, MeantRegister
  <2>5. SecondRegister(name, w) = Meant(name, w, "r")
    BY <1>6, <2>1, <2>2, <2>3, FieldsAreLetters DEF SecondRegister
  <2>6. IoAddress(name, w) = MeantAddress(name, w)
    BY <1>6, <2>1, <2>2, <2>3, FieldsAreLetters DEF IoAddress, MeantAddress
  <2>7. BitNumber(name, w) = Meant(name, w, "b")
    BY <1>6, <2>1, <2>2, <2>3, FieldsAreLetters DEF BitNumber
  <2>8. Constant(name, w) = Meant(name, w, "k")
    BY <1>6, <2>1, <2>2, <2>3, FieldsAreLetters DEF Constant
  <2>9. QED
    BY <2>4, <2>5, <2>6, <2>7, <2>8 DEF Operands, MeantOperands
<1>7. CASE name = "brne"
  <2>1. Letters(name) = [k |-> <<3, 4, 5, 6, 7, 8, 9>>]
    BY <1>7 DEF Letters
  <2>2. /\ Meant(name, w, "d") = -1
        /\ Meant(name, w, "r") = -1
        /\ Meant(name, w, "a") = -1
        /\ Meant(name, w, "b") = -1
        /\ Meant(name, w, "k") = Gathered(w, <<3, 4, 5, 6, 7, 8, 9>>)
    BY <2>1 DEF Meant
  <2>4. FirstRegister(name, w) = MeantRegister(name, w)
    BY <1>7, <2>1 DEF FirstRegister, MeantRegister
  <2>5. SecondRegister(name, w) = Meant(name, w, "r")
    BY <1>7, <2>1, <2>2, FieldsAreLetters DEF SecondRegister
  <2>6. IoAddress(name, w) = MeantAddress(name, w)
    BY <1>7, <2>1, <2>2, FieldsAreLetters DEF IoAddress, MeantAddress
  <2>7. BitNumber(name, w) = Meant(name, w, "b")
    BY <1>7, <2>1, <2>2, FieldsAreLetters DEF BitNumber
  <2>8. Constant(name, w) = Meant(name, w, "k")
    BY <1>7, <2>1, <2>2, FieldsAreLetters DEF Constant
  <2>9. QED
    BY <2>4, <2>5, <2>6, <2>7, <2>8 DEF Operands, MeantOperands
<1>8. CASE name \in {"rjmp", "rcall"}
  <2>1. Letters(name) = [k |-> <<0, 1, 2, 3, 4, 5, 6, 7, 8, 9, 10, 11>>]
    BY <1>8 DEF Letters
  <2>2. /\ Meant(name, w, "d") = -1
        /\ Meant(name, w, "r") = -1
        /\ Meant(name, w, "a") = -1
        /\ Meant(name, w, "b") = -1
        /\ Meant(name, w, "k") = Gathered(w, <<0, 1, 2, 3, 4, 5, 6, 7, 8, 9, 10, 11>>)
    BY <2>1 DEF Meant
  <2>4. FirstRegister(name, w) = MeantRegister(name, w)
    BY <1>8, <2>1 DEF FirstRegister, MeantRegister
  <2>5. SecondRegister(name, w) = Meant(name, w, "r")
    BY <1>8, <2>1, <2>2, FieldsAreLetters DEF SecondRegister
  <2>6. IoAddress(name, w) = MeantAddress(name, w)
    BY <1>8, <2>1, <2>2, FieldsAreLetters DEF IoAddress, MeantAddress
  <2>7. BitNumber(name, w) = Meant(name, w, "b")
    BY <1>8, <2>1, <2>2, FieldsAreLetters DEF BitNumber
  <2>8. Constant(name, w) = Meant(name, w, "k")
    BY <1>8, <2>1, <2>2, FieldsAreLetters DEF Constant
  <2>9. QED
    BY <2>4, <2>5, <2>6, <2>7, <2>8 DEF Operands, MeantOperands
<1>9. CASE name \in {"call", "cli", "jmp", "nop", "ret", "reti", "unknown"}
  <2>1. Letters(name) = [x \in {} |-> <<>>]
    BY <1>9 DEF Letters
  <2>2. /\ Meant(name, w, "d") = -1
        /\ Meant(name, w, "r") = -1
        /\ Meant(name, w, "a") = -1
        /\ Meant(name, w, "b") = -1
        /\ Meant(name, w, "k") = -1
    BY <2>1 DEF Meant
  <2>4. FirstRegister(name, w) = MeantRegister(name, w)
    BY <1>9, <2>1 DEF FirstRegister, MeantRegister
  <2>5. SecondRegister(name, w) = Meant(name, w, "r")
    BY <1>9, <2>1, <2>2, FieldsAreLetters DEF SecondRegister
  <2>6. IoAddress(name, w) = MeantAddress(name, w)
    BY <1>9, <2>1, <2>2, FieldsAreLetters DEF IoAddress, MeantAddress
  <2>7. BitNumber(name, w) = Meant(name, w, "b")
    BY <1>9, <2>1, <2>2, FieldsAreLetters DEF BitNumber
  <2>8. Constant(name, w) = Meant(name, w, "k")
    BY <1>9, <2>1, <2>2, FieldsAreLetters DEF Constant
  <2>9. QED
    BY <2>4, <2>5, <2>6, <2>7, <2>8 DEF Operands, MeantOperands
<1>10. name # "lds16"
  BY DEF LosesBits
<1>11. QED
  BY <1>1, <1>2, <1>3, <1>4, <1>5, <1>6, <1>7, <1>8, <1>9, <1>10, NamesAre

-----------------------------------------------------------------------------
(* The states of the commands l and d.                                     *)
(* Words wrap, and swapping the bytes of a word twice gives it back.       *)
LEMMA WordFacts ==
    /\ 0 \in Words
    /\ \A x \in Nat : x % WORD \in Words
    /\ \A w \in Words : ByteSwap(w) \in Words /\ ByteSwap(ByteSwap(w)) = w
<1>1. 0 \in Words
  BY WordsAre
<1>2. ASSUME NEW x \in Nat PROVE x % WORD \in Words
  <2>1. WORD = 65536
    BY Powers DEF WORD
  <2>2. x % 65536 \in Nat /\ x % 65536 <= 65535
    OBVIOUS
  <2>3. QED
    BY <2>1, <2>2, WordsAre
<1>3. ASSUME NEW w \in Words PROVE ByteSwap(w) \in Words /\ ByteSwap(ByteSwap(w)) = w
  <2>1. w \in Nat /\ w <= 65535
    BY WordsAre
  <2> DEFINE low == w % 256
             high == w \div 256
  <2>2. low \in 0 .. 255 /\ high \in 0 .. 255 /\ w = (high * 256) + low
    BY <2>1
  <2>3. ByteSwap(w) = (low * 256) + high
    BY DEF ByteSwap
  <2> HIDE DEF low, high
  <2>4. ByteSwap(w) \in Nat /\ ByteSwap(w) <= 65535
    BY <2>2, <2>3
  <2>5. ByteSwap(w) % 256 = high /\ ByteSwap(w) \div 256 = low
    BY <2>2, <2>3
  <2>6. ByteSwap(ByteSwap(w)) = (high * 256) + low
    BY <2>5 DEF ByteSwap
  <2>7. QED
    BY <2>2, <2>4, <2>6, WordsAre
<1>4. QED
  BY <1>1, <1>2, <1>3

LEMMA FileTyped ==
    ASSUME TypeOK, parsed < Len(file)
    PROVE  Record \in Records /\ Record.words \in Seq(Words)
<1>1. file \in Seq(Records) /\ file # <<>>
  BY FilesAssumption DEF TypeOK
<1>2. parsed + 1 \in 1 .. Len(file)
  BY <1>1 DEF TypeOK
<1>3. Record \in Records
  BY <1>1, <1>2 DEF Record
<1>4. QED
  BY <1>3 DEF Records

LEMMA StoredTyped ==
    ASSUME NEW m \in [Address -> Words], NEW r \in Records
    PROVE  Stored(m, r) \in [Address -> Words]
<1>1. r.words \in Seq(Words)
  BY DEF Records
<1>2. \A i \in 1 .. Len(r.words) : r.words[i] \in Words
  BY <1>1
<1>3. QED
  BY <1>2 DEF Stored

LEMMA FetchTyped == ASSUME TypeOK, NEW a \in Words PROVE Fetch(a) \in Words
  BY WordFacts DEF TypeOK, Fetch

LEMMA AddressIs == 0 \in Address /\ \A a \in Nat : a < LINES => a \in Address
  BY SizeAssumption DEF Address

LEMMA StepTyped == ASSUME TypeOK, [Next]_vars PROVE TypeOK'
<1>1. CASE Load
  BY <1>1, SizeAssumption DEF Load, TypeOK, listing
<1>2. CASE ParseRecord
  <2>1. memory' \in [Address -> Words]
    BY <1>2, FileTyped, StoredTyped DEF ParseRecord, TypeOK
  <2>2. parsed' \in 0 .. RECORDS /\ known' \in BOOLEAN
    BY <1>2, SizeAssumption DEF ParseRecord, Parsing, TypeOK
  <2>3. QED
    BY <1>2, <2>1, <2>2 DEF ParseRecord, TypeOK, listing
<1>3. CASE ParseElsewhere
  <2>1. parsed' \in 0 .. RECORDS
    BY <1>3, SizeAssumption DEF ParseElsewhere, Parsing, TypeOK
  <2>2. known' \in BOOLEAN
    BY <1>3, Zenon DEF ParseElsewhere, TypeOK
  <2>3. QED
    BY <1>3, <2>1, <2>2 DEF ParseElsewhere, TypeOK, listing
<1>4. CASE EndLoad
  BY <1>4 DEF EndLoad, TypeOK, loading, listing
<1>5. CASE List
  BY <1>5, SizeAssumption DEF List, TypeOK, loading
<1>6. CASE Line
  <2>1. pc \in Nat /\ pc \in Address
    BY <1>6, AddressIs, WordsAre DEF Line, TypeOK
  <2>2. Fetch(pc) \in Words /\ ByteSwap(Fetch(pc)) \in Words
    BY FetchTyped, WordFacts DEF TypeOK
  <2>3. \A name : ListedLengths(name) \cup MissingReturn(name) \subseteq Nat
    BY SizeAssumption DEF ListedLengths, MissingReturn
  <2>4. PICK length \in ListedLengths(Entry(opCode')) \cup MissingReturn(Entry(opCode')) :
            pc' = (pc + length) % WORD
    BY <1>6 DEF Line
  <2>5. pc + length \in Nat
    BY <2>1, <2>3
  <2>6. pc' \in Words
    BY <2>4, <2>5, WordFacts
  <2>7. QED
    BY <1>6, <2>1, <2>2, <2>6 DEF Line, TypeOK, loading
<1>7. CASE EndList
  BY <1>7, AddressIs, WordFacts DEF EndList, TypeOK, loading, NoLine
<1>8. CASE ProcessEnds
  BY <1>8, AddressIs, WordFacts, SizeAssumption DEF ProcessEnds, TypeOK, NoLine
<1>9. CASE UNCHANGED vars
  BY <1>9 DEF vars, loading, listing, TypeOK
<1>10. QED
  BY <1>1, <1>2, <1>3, <1>4, <1>5, <1>6, <1>7, <1>8, <1>9 DEF Next

(* Whatever the file holds, parsing it, within the memory or not, and      *)
(* listing the memory leave words in the memory and in the program counter *)
(* of ins_disassembleProgram.                                              *)
THEOREM TypeCorrect == Spec => []TypeOK
<1>1. Init => TypeOK
  BY AddressIs, WordFacts, SizeAssumption DEF Init, TypeOK, NoLine
<1>2. TypeOK /\ [Next]_vars => TypeOK'
  BY StepTyped
<1>3. QED
  BY <1>1, <1>2, PTL DEF Spec

(* Every word that is ever listed fits at most one pattern of the          *)
(* generator: both jump tables are the same in whatever order it tries.    *)
THEOREM OneInstructionPerWord == Spec => []OnePattern
<1>1. TypeOK => OnePattern
  BY AtMostOneMatches DEF TypeOK, OnePattern
<1>2. QED
  BY <1>1, TypeCorrect, PTL

(* The masks by which sbic and sbis know what they skip, the jump tables   *)
(* and the lengths that the disassemble functions report agree.            *)
THEOREM LengthsAreOne == Spec => []LengthsAgree
<1>1. TypeOK => LengthsAgree
  BY LengthsOfWord DEF TypeOK, LengthsAgree
<1>2. QED
  BY <1>1, TypeCorrect, PTL

(* The operands decoder.h takes out of any listed word are those that the  *)
(* comments of the instructions draw, but where its masks lose a bit.      *)
THEOREM OperandsAreTheComments == Spec => []OperandsAsDocumented
<1>1. \A w \in Words : Entry(w) \in Names \cup {"unknown"}
  BY EntryIs, MatchingAsks DEF Matching
<1>2. TypeOK => OperandsAsDocumented
  BY <1>1, OperandsOfWord DEF TypeOK, OperandsAsDocumented
<1>3. QED
  BY <1>2, TypeCorrect, PTL

(* What the listing relies on: a listing is of a file that was parsed to   *)
(* the end, and of the records parsed so far each address of the memory    *)
(* shows the latest that covers it.                                        *)
Loaded == phase # "load" /\ file # <<>> => parsed = RECORDS
Listed == phase = "list" => file # <<>>

Latest(a, i) ==
    /\ i \in Covering(file, a) /\ i <= parsed
    /\ \A j \in Covering(file, a) : j <= parsed => j <= i

Shows ==
    Plain(file) =>
        \A a \in Address : \A i \in DOMAIN file :
            Latest(a, i) => memory[a] = WordAt(file[i], a)

ListingInv == TypeOK /\ Loaded /\ Listed /\ Shows

LEMMA FilesAreSequences == \A f \in Files \cup {<<>>} : f \in Seq(Records)
<1>1. <<>> \in Seq(Records)
  OBVIOUS
<1>2. QED
  BY <1>1, FilesAssumption

(* Where a record is stored is what it covers.                             *)
LEMMA StoredIsCovered ==
    ASSUME NEW r \in Records, NEW a \in Address, NEW m, r.address % 2 = 0
    PROVE  /\ 2 * a \in r.address .. r.address + 2 * Len(r.words) - 2
                => Stored(m, r)[a] = WordAt(r, a)
           /\ 2 * a \notin r.address .. r.address + 2 * Len(r.words) - 2
                => Stored(m, r)[a] = m[a]
<1>1. r.address \in Nat /\ Len(r.words) \in Nat
  BY DEF Records
<1>2. a \in Nat
  BY SizeAssumption DEF Address
<1> DEFINE half == r.address \div 2
           length == Len(r.words)
<1>3. half \in Nat /\ r.address = 2 * half
  BY <1>1
<1>4. Stored(m, r)[a] =
          IF (a - half) + 1 \in 1 .. length THEN r.words[(a - half) + 1] ELSE m[a]
  BY DEF Stored
<1>5. (2 * a - r.address) \div 2 = a - half
  BY <1>2, <1>3
<1>8. length \in Nat
  BY <1>1
<1> HIDE DEF half, length
<1>6. (2 * a \in r.address .. r.address + 2 * length - 2) <=> ((a - half) + 1 \in 1 .. length)
  <2>1. (2 * a \in 2 * half .. 2 * half + 2 * length - 2) <=> ((a - half) + 1 \in 1 .. length)
    BY <1>2, <1>3, <1>8
  <2>2. QED
    BY <1>3, <2>1
<1>7. QED
  BY <1>4, <1>5, <1>6 DEF WordAt, length

(* The record that is stored last is the latest one of what it covers, and *)
(* leaves the rest of the memory to the earlier ones.                      *)
LEMMA ParsingShows == ASSUME ListingInv, ParseRecord PROVE Shows'
<1> SUFFICES ASSUME Plain(file), NEW a \in Address, NEW i \in DOMAIN file, Latest(a, i)'
             PROVE  memory'[a] = WordAt(file[i], a)
  BY DEF Shows, ParseRecord
<1> DEFINE next == parsed + 1
<1>1. file' = file /\ parsed' = next /\ parsed \in Nat /\ memory' = Stored(memory, file[next])
  BY DEF ParseRecord, ListingInv, TypeOK, Record
<1>2. file \in Seq(Records) /\ parsed < Len(file)
  BY FilesAssumption DEF ListingInv, TypeOK, ParseRecord
<1>3. next \in DOMAIN file /\ file[next] \in Records /\ file[next].address % 2 = 0
  BY <1>1, <1>2 DEF Plain
<1>4. /\ next \in Covering(file, a) => memory'[a] = WordAt(file[next], a)
      /\ next \notin Covering(file, a) => memory'[a] = memory[a]
  BY <1>1, <1>3, StoredIsCovered DEF Covering
<1>5. /\ i \in Covering(file, a) /\ i <= next
      /\ \A j \in Covering(file, a) : j <= next => j <= i
  BY <1>1 DEF Latest, Covering
<1>6. i \in Nat /\ \A j \in Covering(file, a) : j \in Nat
  BY <1>2 DEF Covering
<1>7. CASE i = next
  BY <1>4, <1>5, <1>7
<1>8. CASE i # next
  <2>1. i <= parsed /\ next \notin Covering(file, a)
    BY <1>1, <1>5, <1>6, <1>8
  <2>2. Latest(a, i)
    BY <1>1, <1>5, <1>6, <2>1 DEF Latest
  <2>3. QED
    BY <1>4, <2>1, <2>2 DEF ListingInv, Shows
<1>9. QED
  BY <1>7, <1>8

(* In a plain file only what is behind its end is read elsewhere.          *)
LEMMA ParsingElsewhereShows == ASSUME ListingInv, ParseElsewhere PROVE Shows'
<1> SUFFICES ASSUME Plain(file), NEW a \in Address, NEW i \in DOMAIN file, Latest(a, i)'
             PROVE  memory[a] = WordAt(file[i], a)
  BY DEF Shows, ParseElsewhere
<1>1. file' = file /\ parsed' = parsed + 1 /\ parsed \in Nat /\ file \in Seq(Records)
  BY FilesAssumption DEF ParseElsewhere, ListingInv, TypeOK
<1>2. Len(file) <= parsed
  BY <1>1 DEF ParseElsewhere, Plain
<1>3. Latest(a, i)
  BY <1>1, <1>2 DEF Latest, Covering
<1>4. QED
  BY <1>3 DEF ListingInv, Shows

LEMMA ListingInvStep == ASSUME ListingInv, [Next]_vars PROVE ListingInv'
<1>0. TypeOK'
  BY StepTyped DEF ListingInv
<1>1. CASE Load
  <2>1. Loaded' /\ Listed'
    BY <1>1 DEF Load, Loaded, Listed
  <2>2. \A a, i : ~Latest(a, i)'
    <3>1. file' \in Seq(Records) /\ parsed' = 0
      BY <1>0, <1>1, FilesAreSequences DEF TypeOK, Load
    <3>2. QED
      BY <3>1 DEF Latest, Covering
  <2>3. QED
    BY <1>0, <2>1, <2>2 DEF ListingInv, Shows
<1>2. CASE ParseRecord
  BY <1>0, <1>2, ParsingShows DEF ParseRecord, Parsing, ListingInv, Loaded, Listed
<1>3. CASE ParseElsewhere
  BY <1>0, <1>3, ParsingElsewhereShows DEF ParseElsewhere, Parsing, ListingInv, Loaded,
     Listed
<1> DEFINE Same == file' = file /\ parsed' = parsed /\ memory' = memory
<1>4. Same => Shows'
  BY DEF Shows, Latest, ListingInv
<1>5. CASE EndLoad
  BY <1>0, <1>4, <1>5 DEF EndLoad, loading, ListingInv, Loaded, Listed
<1>6. CASE List
  BY <1>0, <1>4, <1>6 DEF List, loading, ListingInv, Loaded, Listed
<1>7. CASE Line
  BY <1>0, <1>4, <1>7 DEF Line, loading, ListingInv, Loaded, Listed
<1>8. CASE EndList
  BY <1>0, <1>4, <1>8 DEF EndList, loading, ListingInv, Loaded, Listed
<1>9. CASE ProcessEnds
  BY <1>0, <1>9 DEF ProcessEnds, ListingInv, Loaded, Listed, Shows
<1>10. CASE UNCHANGED vars
  BY <1>0, <1>4, <1>10 DEF vars, loading, ListingInv, Loaded, Listed
<1>11. QED
  BY <1>1, <1>2, <1>3, <1>5, <1>6, <1>7, <1>8, <1>9, <1>10 DEF Next

LEMMA ListingInvariant == Spec => []ListingInv
<1>1. Init => ListingInv
  <2>1. Init => TypeOK
    BY AddressIs, WordFacts, SizeAssumption DEF Init, TypeOK, NoLine
  <2>2. QED
    BY <2>1 DEF Init, ListingInv, Loaded, Listed, Shows
<1>2. ListingInv /\ [Next]_vars => ListingInv'
  BY ListingInvStep
<1>3. QED
  BY <1>1, <1>2, PTL DEF Spec

(* The listing of a file that the parser is made for prints at each        *)
(* address the word that the file has there, whatever was loaded before.   *)
THEOREM ListingShowsTheFile == Spec => LinesShowTheFile
<1> DEFINE a == line'.address
           Shown == phase = "list" /\ phase' = "list" /\ Plain(file) =>
                      \A i \in Covering(file, a) :
                        (\A j \in Covering(file, a) : j <= i)
                            => line'.word = WordAt(file[i], a)
<1>1. ListingInv /\ [Next]_vars => [Shown]_vars
  <2> SUFFICES ASSUME ListingInv, Next, phase = "list", phase' = "list", Plain(file),
                      NEW i \in Covering(file, a), \A j \in Covering(file, a) : j <= i
               PROVE  line'.word = WordAt(file[i], a)
    OBVIOUS
  <2>1. Line
    BY DEF Next, Load, ParseRecord, ParseElsewhere, Parsing, EndLoad, List, EndList, ProcessEnds
  <2>2. pc \in Address /\ a = pc /\ line'.word = memory[pc]
    <3>1. pc \in Address
      BY <2>1, AddressIs, WordsAre DEF Line, ListingInv, TypeOK
    <3>2. Fetch(pc) = ByteSwap(memory[pc]) /\ memory[pc] \in Words
      BY <3>1 DEF Fetch, ListingInv, TypeOK
    <3>3. QED
      BY <2>1, <3>1, <3>2, WordFacts DEF Line
  <2>3. parsed = RECORDS /\ Len(file) <= parsed
    BY DEF ListingInv, Loaded, Listed, Plain
  <2>4. file \in Seq(Records)
    BY FilesAreSequences DEF ListingInv, TypeOK
  <2>5. i \in DOMAIN file /\ Latest(pc, i)
    BY <2>2, <2>3, <2>4 DEF Latest, Covering, ListingInv, TypeOK
  <2>6. QED
    BY <2>2, <2>5 DEF ListingInv, Shows
<1>2. QED
  BY <1>1, ListingInvariant, PTL DEF Spec, LinesShowTheFile
=============================================================================
