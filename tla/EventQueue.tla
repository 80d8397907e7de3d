----------------------------- MODULE EventQueue -----------------------------
(***************************************************************************)
(* The event queue of eventhandler.h: a ring of QUEUE_SIZE slots that the  *)
(* console thread fills (atm_setPin..., eve_enqueueEvent) and the CPU      *)
(* threads empty (eve_handleEvents, _dequeueEvent).  The two sides share   *)
(* _queueFront, _queueRear, _eventPending and the slots and use no lock,   *)
(* so each action below is ONE load or store of a shared variable, in the  *)
(* order of the source (the build passes no optimisation flags).  A slot   *)
(* is two machine words, fun_ptr and argument, copied one after the other. *)
(* The console thread is the only one that writes _queueRear, so its read  *)
(* and its write of _queueRear are one action.                             *)
(*                                                                         *)
(* raced is a history variable: no guard reads it.  It records two things  *)
(* that the code does nothing against, from one enqueue to the next: that  *)
(* _eventPending was raised while a CPU thread was on its way from its     *)
(* slot to the line that lowers _eventPending, and that two CPU threads    *)
(* were in eve_handleEvents at one time.                                   *)
(***************************************************************************)
EXTENDS Naturals, Sequences

CONSTANTS QUEUE_SIZE,   \* the number of slots (100 in the source)
          Events,       \* the events the console thread enqueues
          Cpus          \* the CPU threads that are running

(* The four events of the console commands '1' to '4'. *)
PinEvents == [fun : {"eve_writeToInt0Pin", "eve_writeToInt1Pin"}, arg : {0, 1}]

(* A slot of the zero-initialised array. *)
NullEvent == [fun |-> "NULL", arg |-> 0]

(* What a slot can hold, half written ones included. *)
Slot == [fun : {"NULL", "eve_writeToInt0Pin", "eve_writeToInt1Pin"}, arg : {0, 1}]

ASSUME QueueAssumption == QUEUE_SIZE \in Nat /\ QUEUE_SIZE > 1
ASSUME EventsAssumption == Events \subseteq PinEvents

VARIABLES
    front,      \* _queueFront: the slot before the oldest event
    rear,       \* _queueRear: the slot of the newest event
    pending,    \* _eventPending
    slots,      \* eventQueue
    mpc,        \* where the console thread is in eve_enqueueEvent
    mev,        \* ... its argument
    mfront,     \* ... the value of _queueFront it loaded
    cpc,        \* where each CPU thread is in eve_handleEvents
    cfront,     \* ... the value of _queueFront it loaded
    cev,        \* ... the event it copied
    last,       \* the event whose handler was called last
    alive,      \* FALSE once a call through a null fun_ptr killed the process
    raced       \* auxiliary: a race since the last enqueue may have lost its flag

ring == <<front, rear, pending, slots>>
main == <<mpc, mev, mfront>>
cpu  == <<cpc, cfront, cev>>
vars == <<ring, main, cpu, last, alive, raced>>

Index == 0 .. QUEUE_SIZE - 1

Init ==
    /\ front = 0 /\ rear = 0 /\ pending = FALSE
    /\ slots = [i \in Index |-> NullEvent]
    /\ mpc = "idle" /\ mev = NullEvent /\ mfront = 0
    /\ cpc = [c \in Cpus |-> "loop"]
    /\ cfront = [c \in Cpus |-> 0]
    /\ cev = [c \in Cpus |-> NullEvent]
    /\ last = NullEvent
    /\ alive = TRUE /\ raced = FALSE

(* A fault the runs must notice: the remainder is forgotten. *)
SuccWithoutRemainder(i) == i + 1

(* The index expression of both index increments. *)
Succ(i) == (i + 1 + QUEUE_SIZE) % QUEUE_SIZE

InHandleEvents(c) == cpc[c] # "loop"

(* At most one CPU thread is in eve_handleEvents. *)
OneCpu == \A c, d \in Cpus : InHandleEvents(c) /\ InHandleEvents(d) => c = d

(* The thread has chosen its slot and may yet lower _eventPending. *)
InWindow(c) == cpc[c] \in {"fun", "arg", "front", "rear", "clear"}

-----------------------------------------------------------------------------
(* eve_enqueueEvent, called by the console thread.                         *)

MainGoto(from, to) == alive /\ mpc = from /\ mpc' = to

EnqueueRear(e) ==
    /\ MainGoto("idle", "fun")
    /\ rear' = Succ(rear)
    /\ mev' = e
    /\ UNCHANGED <<front, pending, slots, mfront, cpu, last, alive, raced>>

EnqueueFun ==
    /\ MainGoto("fun", "arg")
    /\ slots' = [slots EXCEPT ![rear].fun = mev.fun]
    /\ UNCHANGED <<front, rear, pending, mev, mfront, cpu, last, alive, raced>>

(* A fault the runs must notice: the slot keeps the argument of an earlier *)
(* event.                                                                  *)
EnqueueWithoutArg ==
    /\ MainGoto("arg", "test")
    /\ UNCHANGED <<ring, mev, mfront, cpu, last, alive, raced>>

EnqueueArg ==
    /\ MainGoto("arg", "test")
    /\ slots' = [slots EXCEPT ![rear].arg = mev.arg]
    /\ UNCHANGED <<front, rear, pending, mev, mfront, cpu, last, alive, raced>>

(* A fault the runs must notice: a full ring is not recognised. *)
EnqueueWithoutTest ==
    /\ MainGoto("test", "flag")
    /\ UNCHANGED <<ring, mev, mfront, cpu, last, alive, raced>>

(* The ring is full when the new rear has caught up with the front. *)
EnqueueTest ==
    /\ MainGoto("test", IF front = rear THEN "load" ELSE "flag")
    /\ UNCHANGED <<ring, mev, mfront, cpu, last, alive, raced>>

EnqueueLoadFront ==
    /\ MainGoto("load", "store")
    /\ mfront' = front
    /\ UNCHANGED <<ring, mev, cpu, last, alive, raced>>

EnqueueStoreFront ==
    /\ MainGoto("store", "flag")
    /\ front' = Succ(mfront)
    /\ mfront' = 0
    /\ UNCHANGED <<rear, pending, slots, mev, cpu, last, alive, raced>>

(* A fault the runs must notice: the event is not announced. *)
EnqueueWithoutFlag ==
    /\ MainGoto("flag", "idle")
    /\ mev' = NullEvent
    /\ UNCHANGED <<front, rear, pending, slots, mfront, cpu, last, alive, raced>>

EnqueueFlag ==
    /\ MainGoto("flag", "idle")
    /\ pending' = TRUE
    /\ raced' = ((\E c \in Cpus : InWindow(c)) \/ ~OneCpu)
    /\ mev' = NullEvent
    /\ UNCHANGED <<front, rear, slots, mfront, cpu, last, alive>>

-----------------------------------------------------------------------------
(* eve_handleEvents with _dequeueEvent, called by a CPU thread once in     *)
(* every round of its loop.  While _eventPending is FALSE a call changes   *)
(* nothing, which is a stuttering step.                                    *)

CpuGoto(c, from, to) ==
    alive /\ cpc[c] = from /\ cpc' = [cpc EXCEPT ![c] = to]

HandleEvents(c) ==
    /\ pending
    /\ CpuGoto(c, "loop", "load")
    /\ raced' = (raced \/ \E d \in Cpus \ {c} : InHandleEvents(d))
    /\ UNCHANGED <<ring, main, cfront, cev, last, alive>>

DequeueLoadFront(c) ==
    /\ CpuGoto(c, "load", "store")
    /\ cfront' = [cfront EXCEPT ![c] = front]
    /\ UNCHANGED <<ring, main, cev, last, alive, raced>>

DequeueStoreFront(c) ==
    /\ CpuGoto(c, "store", "index")
    /\ front' = Succ(cfront[c])
    /\ UNCHANGED <<rear, pending, slots, main, cfront, cev, last, alive, raced>>

(* _queueFront is loaded again to index the slot. *)
DequeueIndex(c) ==
    /\ CpuGoto(c, "index", "fun")
    /\ cfront' = [cfront EXCEPT ![c] = front]
    /\ UNCHANGED <<ring, main, cev, last, alive, raced>>

DequeueFun(c) ==
    /\ CpuGoto(c, "fun", "arg")
    /\ cev' = [cev EXCEPT ![c].fun = slots[cfront[c]].fun]
    /\ UNCHANGED <<ring, main, cfront, last, alive, raced>>

DequeueArg(c) ==
    /\ CpuGoto(c, "arg", "front")
    /\ cev' = [cev EXCEPT ![c].arg = slots[cfront[c]].arg]
    /\ UNCHANGED <<ring, main, cfront, last, alive, raced>>

(* _queueFront is loaded a third time for the comparison with _queueRear. *)
DequeueFront(c) ==
    /\ CpuGoto(c, "front", "rear")
    /\ cfront' = [cfront EXCEPT ![c] = front]
    /\ UNCHANGED <<ring, main, cev, last, alive, raced>>

(* Faults the runs must notice: the flag is never taken back, or after     *)
(* every event.                                                            *)
DequeueNeverClears(c) ==
    /\ CpuGoto(c, "rear", "call")
    /\ cfront' = [cfront EXCEPT ![c] = 0]
    /\ UNCHANGED <<ring, main, cev, last, alive, raced>>

DequeueAlwaysClears(c) ==
    /\ CpuGoto(c, "rear", "clear")
    /\ cfront' = [cfront EXCEPT ![c] = 0]
    /\ UNCHANGED <<ring, main, cev, last, alive, raced>>

DequeueTest(c) ==
    /\ CpuGoto(c, "rear", IF cfront[c] = rear THEN "clear" ELSE "call")
    /\ cfront' = [cfront EXCEPT ![c] = 0]
    /\ UNCHANGED <<ring, main, cev, last, alive, raced>>

DequeueClear(c) ==
    /\ CpuGoto(c, "clear", "call")
    /\ pending' = FALSE
    /\ UNCHANGED <<front, rear, slots, main, cfront, cev, last, alive, raced>>

(* event.fun_ptr(event.argument); a null pointer ends the process. *)
CallHandler(c) ==
    /\ CpuGoto(c, "call", "loop")
    /\ last' = cev[c]
    /\ alive' = (cev[c].fun # "NULL")
    /\ cev' = [cev EXCEPT ![c] = NullEvent]
    /\ UNCHANGED <<ring, main, cfront, raced>>

-----------------------------------------------------------------------------
Enqueue ==
    \/ EnqueueFun \/ EnqueueArg \/ EnqueueTest
    \/ EnqueueLoadFront \/ EnqueueStoreFront \/ EnqueueFlag

Dequeue(c) ==
    \/ DequeueLoadFront(c) \/ DequeueStoreFront(c) \/ DequeueIndex(c)
    \/ DequeueFun(c) \/ DequeueArg(c) \/ DequeueFront(c)
    \/ DequeueTest(c) \/ DequeueClear(c) \/ CallHandler(c)

Next ==
    \/ \E e \in Events : EnqueueRear(e)
    \/ Enqueue
    \/ \E c \in Cpus : HandleEvents(c) \/ Dequeue(c)

(* The operating system runs every thread that can run; the console user   *)
(* need not type anything.                                                 *)
Fairness ==
    /\ WF_vars(Enqueue)
    /\ \A c \in Cpus : WF_vars(HandleEvents(c) \/ Dequeue(c))

Spec == Init /\ [][Next]_vars /\ Fairness

-----------------------------------------------------------------------------
(* The queue the ring stands for.  An event is in it from the moment its   *)
(* enqueue has settled front and rear, until its handler is called.        *)

Pred(i) == (i + QUEUE_SIZE - 1) % QUEUE_SIZE
Dist(i, j) == (j + QUEUE_SIZE - i) % QUEUE_SIZE

headFront ==
    IF \E c \in Cpus : cpc[c] \notin {"loop", "load", "store"}
    THEN Pred(front) ELSE front

tailRear == IF mpc \in {"idle", "flag"} THEN rear ELSE Pred(rear)

items ==
    [i \in 1 .. Dist(headFront, tailRear) |-> slots[(headFront + i) % QUEUE_SIZE]]

Abstract == INSTANCE BoundedQueue
    WITH Event <- Events, NoEvent <- NullEvent, Capacity <- QUEUE_SIZE - 1

-----------------------------------------------------------------------------
(* Nothing in the code keeps the two sides apart.  Safe names the overlaps *)
(* that do no harm: at most one CPU thread is in eve_handleEvents, and     *)
(* while the console thread is in eve_enqueueEvent at the same time the    *)
(* ring holds at least two events and has room for two more.               *)

Safe ==
    /\ OneCpu
    /\ mpc # "idle" /\ (\E c \in Cpus : InHandleEvents(c))
          => Len(items) \in 2 .. QUEUE_SIZE - 2

SafeSpec ==
    /\ Init /\ [][Next /\ Safe']_vars
    /\ WF_vars(Enqueue /\ Safe')
    /\ \A c \in Cpus : WF_vars((HandleEvents(c) \/ Dequeue(c)) /\ Safe')

-----------------------------------------------------------------------------
(* Every variable keeps its type, whatever overlaps: the indices of        *)
(* eve_enqueueEvent and _dequeueEvent never leave the array.               *)
TypeOK ==
    /\ front \in Index /\ rear \in Index /\ pending \in BOOLEAN
    /\ slots \in [Index -> Slot]
    /\ mpc \in {"idle", "fun", "arg", "test", "load", "store", "flag"}
    /\ mev \in Events \cup {NullEvent} /\ mfront \in Index
    /\ cpc \in [Cpus -> {"loop", "load", "store", "index", "fun", "arg",
                         "front", "rear", "clear", "call"}]
    /\ cfront \in [Cpus -> Index] /\ cev \in [Cpus -> Slot]
    /\ last \in Slot /\ alive \in BOOLEAN /\ raced \in BOOLEAN

(* Under the harmless overlaps the ring is the abstract queue: events are  *)
(* handed over whole, once and in the order they were put, and the only    *)
(* events lost are the oldest ones of a full ring.                         *)
ImplementsBoundedQueue == Abstract!Spec

(* No call of eve_enqueueEvent or eve_handleEvents is under way, and no     *)
(* event is announced.                                                     *)
Quiet == mpc = "idle" /\ ~pending /\ \A c \in Cpus : ~InHandleEvents(c)

(* Under every overlap, those that hand over stale, half written or whole  *)
(* rings of events included, the event that was typed last gets through:   *)
(* unless the flag of the latest enqueue was raced against, when all is    *)
(* quiet no event is left in the ring and the handler called last was the  *)
(* one of the newest slot.                                                 *)
NothingWaits == Quiet /\ ~raced => front = rear /\ last = slots[rear]

(* Under every overlap, once the console thread stops enqueuing and its    *)
(* last flag was not raced against, the CPU threads take every announced   *)
(* event and come to rest, unless a null handler ended the process.        *)
EventsAreTaken == <>[](mpc = "idle" /\ ~raced) => <>[](Quiet \/ ~alive)

(* Under every overlap an enqueue that is about to raise _eventPending is  *)
(* followed by some call of a handler, unless a null handler ended the     *)
(* process (which event is handed over is another matter).                 *)
FlagIsServed == mpc = "flag" ~> (\E c \in Cpus : cpc[c] = "call") \/ ~alive
=============================================================================
