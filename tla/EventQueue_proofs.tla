-------------------------- MODULE EventQueue_proofs --------------------------
(***************************************************************************)
(* For a ring of any size, any events and any number of CPU threads: no    *)
(* interleaving of the two sides takes an index out of the ring; unless    *)
(* its flag is raced against, the event typed last is handled last; and    *)
(* under the overlaps that do no harm the ring is the abstract queue.      *)
(***************************************************************************)
EXTENDS EventQueue, SequenceTheorems, TLAPS

LEMMA SuccInIndex == ASSUME NEW i \in Index PROVE Succ(i) \in Index
<1>1. QUEUE_SIZE \in Nat /\ QUEUE_SIZE > 0 /\ i + 1 + QUEUE_SIZE \in Nat
  BY QueueAssumption DEF Index
<1>2. (i + 1 + QUEUE_SIZE) % QUEUE_SIZE \in 0 .. QUEUE_SIZE - 1
  BY <1>1
<1>3. QED
  BY <1>2 DEF Succ, Index

(* An event, and what is put together from the words of two slots. *)
LEMMA SlotParts ==
    /\ NullEvent \in Slot /\ Events \subseteq Slot
    /\ \A s, t \in Slot : /\ [s EXCEPT !.fun = t.fun] \in Slot
                          /\ [s EXCEPT !.arg = t.arg] \in Slot
  BY EventsAssumption DEF NullEvent, Slot, PinEvents

LEMMA EnqueueTyped ==
    ASSUME TypeOK, Enqueue \/ \E e \in Events : EnqueueRear(e)
    PROVE  TypeOK'
<1> USE DEF TypeOK, MainGoto, ring, cpu
<1>0. rear \in Index /\ mev \in Slot /\ slots[rear] \in Slot
  BY SlotParts
<1>1. ASSUME NEW e \in Events, EnqueueRear(e) PROVE TypeOK'
  BY <1>1, SuccInIndex DEF EnqueueRear
<1>2. CASE EnqueueFun
  <2>1. slots' \in [Index -> Slot]
    <3>1. [slots[rear] EXCEPT !.fun = mev.fun] \in Slot
      BY <1>0, SlotParts
    <3>2. slots' = [slots EXCEPT ![rear] = [slots[rear] EXCEPT !.fun = mev.fun]]
      BY <1>2 DEF EnqueueFun
    <3>3. QED
      BY <1>0, <3>1, <3>2
  <2>2. QED
    BY <1>2, <2>1 DEF EnqueueFun
<1>3. CASE EnqueueArg
  <2>1. slots' \in [Index -> Slot]
    <3>1. [slots[rear] EXCEPT !.arg = mev.arg] \in Slot
      BY <1>0, SlotParts
    <3>2. slots' = [slots EXCEPT ![rear] = [slots[rear] EXCEPT !.arg = mev.arg]]
      BY <1>3 DEF EnqueueArg
    <3>3. QED
      BY <1>0, <3>1, <3>2
  <2>2. QED
    BY <1>3, <2>1 DEF EnqueueArg
<1>4. CASE EnqueueTest
  BY <1>4 DEF EnqueueTest
<1>5. CASE EnqueueLoadFront
  BY <1>5 DEF EnqueueLoadFront
<1>6. CASE EnqueueStoreFront
  <2>1. 0 \in Index
    BY QueueAssumption DEF Index
  <2>2. QED
    BY <1>6, <2>1, SuccInIndex DEF EnqueueStoreFront
<1>7. CASE EnqueueFlag
  <2>1. raced' \in BOOLEAN
    <3>1. raced' = ((\E c \in Cpus : InWindow(c)) \/ ~OneCpu)
      BY <1>7 DEF EnqueueFlag
    <3>2. QED
      BY <3>1, Zenon
  <2>2. QED
    BY <1>7, <2>1 DEF EnqueueFlag
<1>8. QED
  BY <1>1, <1>2, <1>3, <1>4, <1>5, <1>6, <1>7 DEF Enqueue

LEMMA DequeueTyped ==
    ASSUME TypeOK, NEW c \in Cpus, HandleEvents(c) \/ Dequeue(c)
    PROVE  TypeOK'
<1> USE DEF TypeOK, CpuGoto, ring, main
<1>0. cfront[c] \in Index /\ cev[c] \in Slot /\ slots[cfront[c]] \in Slot /\ 0 \in Index
  BY QueueAssumption DEF Index
<1>1. CASE HandleEvents(c)
  BY <1>1 DEF HandleEvents
<1>2. CASE DequeueLoadFront(c)
  BY <1>2 DEF DequeueLoadFront
<1>3. CASE DequeueStoreFront(c)
  BY <1>0, <1>3, SuccInIndex DEF DequeueStoreFront
<1>4. CASE DequeueIndex(c)
  BY <1>4 DEF DequeueIndex
<1>5. CASE DequeueFun(c)
  <2>1. cev' \in [Cpus -> Slot]
    <3>1. [cev[c] EXCEPT !.fun = slots[cfront[c]].fun] \in Slot
      BY <1>0, SlotParts
    <3>2. cev' = [cev EXCEPT ![c] = [cev[c] EXCEPT !.fun = slots[cfront[c]].fun]]
      BY <1>5 DEF DequeueFun
    <3>3. QED
      BY <3>1, <3>2
  <2>2. QED
    BY <1>5, <2>1 DEF DequeueFun
<1>6. CASE DequeueArg(c)
  <2>1. cev' \in [Cpus -> Slot]
    <3>1. [cev[c] EXCEPT !.arg = slots[cfront[c]].arg] \in Slot
      BY <1>0, SlotParts
    <3>2. cev' = [cev EXCEPT ![c] = [cev[c] EXCEPT !.arg = slots[cfront[c]].arg]]
      BY <1>6 DEF DequeueArg
    <3>3. QED
      BY <3>1, <3>2
  <2>2. QED
    BY <1>6, <2>1 DEF DequeueArg
<1>7. CASE DequeueFront(c)
  BY <1>7 DEF DequeueFront
<1>8. CASE DequeueTest(c)
  BY <1>0, <1>8 DEF DequeueTest
<1>9. CASE DequeueClear(c)
  BY <1>9 DEF DequeueClear
<1>10. CASE CallHandler(c)
  <2>1. alive' \in BOOLEAN
    <3>1. alive' = (cev[c].fun # "NULL")
      BY <1>10 DEF CallHandler
    <3>2. QED
      BY <3>1, Zenon
  <2>2. /\ cpc' \in [Cpus -> {"loop", "load", "store", "index", "fun", "arg",
                              "front", "rear", "clear", "call"}]
        /\ cev' \in [Cpus -> Slot] /\ last' \in Slot
    BY <1>0, <1>10, SlotParts DEF CallHandler
  <2>3. QED
    BY <1>10, <2>1, <2>2 DEF CallHandler
<1>11. QED
  BY <1>1, <1>2, <1>3, <1>4, <1>5, <1>6, <1>7, <1>8, <1>9, <1>10 DEF Dequeue

LEMMA NextTyped == TypeOK /\ [Next]_vars => TypeOK'
<1> SUFFICES ASSUME TypeOK, [Next]_vars PROVE TypeOK'
  OBVIOUS
<1>1. CASE UNCHANGED vars
  BY <1>1 DEF TypeOK, vars, ring, main, cpu
<1>2. QED
  BY <1>1, EnqueueTyped, DequeueTyped DEF Next

LEMMA InitTyped == Init => TypeOK
<1> SUFFICES ASSUME Init PROVE TypeOK
  OBVIOUS
<1>1. 0 \in Index /\ NullEvent \in Slot
  BY QueueAssumption, SlotParts DEF Index
<1>2. alive \in BOOLEAN /\ pending \in BOOLEAN
  BY DEF Init
<1>3. QED
  BY <1>1, <1>2 DEF Init, TypeOK

(* Whatever overlaps, front and rear stay in the ring, so every access of  *)
(* eventQueue is within the array, and a slot holds words of enqueued      *)
(* events or the zeros it began with.                                      *)
THEOREM TypeCorrect == Spec => []TypeOK
  BY InitTyped, NextTyped, PTL DEF Spec

-----------------------------------------------------------------------------
(* The arithmetic of the ring, without remainders.                         *)

LEMMA Size == QUEUE_SIZE \in Nat /\ QUEUE_SIZE > 1
  BY QueueAssumption

LEMMA Remainder ==
    ASSUME NEW x \in Nat, x < 2 * QUEUE_SIZE
    PROVE  x % QUEUE_SIZE = IF x < QUEUE_SIZE THEN x ELSE x - QUEUE_SIZE
  BY Size, SMT

LEMMA Indices ==
    ASSUME NEW i \in Index, NEW j \in Index
    PROVE  /\ Succ(i) = IF i = QUEUE_SIZE - 1 THEN 0 ELSE i + 1
           /\ Pred(i) = IF i = 0 THEN QUEUE_SIZE - 1 ELSE i - 1
           /\ Dist(i, j) = IF i <= j THEN j - i ELSE (j - i) + QUEUE_SIZE
           /\ Succ(i) \in Index /\ Pred(i) \in Index /\ Dist(i, j) \in Index
<1>1. i \in Nat /\ j \in Nat /\ i <= QUEUE_SIZE - 1 /\ j <= QUEUE_SIZE - 1
  BY Size, SMT DEF Index
<1>2. Succ(i) = IF i = QUEUE_SIZE - 1 THEN 0 ELSE i + 1
  <2>1. i + 1 + QUEUE_SIZE \in Nat /\ i + 1 + QUEUE_SIZE <= 2 * QUEUE_SIZE
    BY <1>1, Size, SMT
  <2>2. CASE i = QUEUE_SIZE - 1
    <3>1. i + 1 + QUEUE_SIZE = 2 * QUEUE_SIZE
      BY <2>2, Size, SMT
    <3>2. (2 * QUEUE_SIZE) % QUEUE_SIZE = 0
      BY Size, SMT
    <3>3. QED
      BY <2>2, <3>1, <3>2 DEF Succ
  <2>3. CASE i # QUEUE_SIZE - 1
    <3>1. i + 1 + QUEUE_SIZE < 2 * QUEUE_SIZE /\ ~(i + 1 + QUEUE_SIZE < QUEUE_SIZE)
      BY <1>1, <2>3, Size, SMT
    <3>2. (i + 1 + QUEUE_SIZE) - QUEUE_SIZE = i + 1
      BY <1>1, Size, SMT
    <3>3. QED
      BY <2>1, <2>3, <3>1, <3>2, Remainder DEF Succ
  <2>4. QED
    BY <2>2, <2>3
<1>3. Pred(i) = IF i = 0 THEN QUEUE_SIZE - 1 ELSE i - 1
  <2>1. /\ i + QUEUE_SIZE - 1 \in Nat /\ i + QUEUE_SIZE - 1 < 2 * QUEUE_SIZE
        /\ i + QUEUE_SIZE - 1 < QUEUE_SIZE <=> i = 0
        /\ i = 0 => i + QUEUE_SIZE - 1 = QUEUE_SIZE - 1
        /\ (i + QUEUE_SIZE - 1) - QUEUE_SIZE = i - 1
    BY <1>1, Size, SMT
  <2>2. QED
    BY <2>1, Remainder DEF Pred
<1>4. Dist(i, j) = IF i <= j THEN j - i ELSE (j - i) + QUEUE_SIZE
  <2>1. /\ j + QUEUE_SIZE - i \in Nat /\ j + QUEUE_SIZE - i < 2 * QUEUE_SIZE
        /\ j + QUEUE_SIZE - i < QUEUE_SIZE <=> ~(i <= j)
        /\ (j + QUEUE_SIZE - i) - QUEUE_SIZE = j - i
        /\ j + QUEUE_SIZE - i = (j - i) + QUEUE_SIZE
    BY <1>1, Size, SMT
  <2>2. QED
    BY <2>1, Remainder DEF Dist
<1>5. QED
  BY <1>1, <1>2, <1>3, <1>4, Size, SMT DEF Index

(* Succ and Pred undo each other, and what they do to distances.           *)
LEMMA Neighbours ==
    ASSUME NEW i \in Index, NEW j \in Index
    PROVE  /\ Pred(Succ(i)) = i /\ Succ(Pred(i)) = i
           /\ Succ(j) # i => Dist(i, Succ(j)) = Dist(i, j) + 1
           /\ Succ(j) = i <=> Dist(i, j) = QUEUE_SIZE - 1
           /\ i # j <=> Dist(i, j) >= 1
           /\ i # j => Dist(Succ(i), j) = Dist(i, j) - 1
           /\ Succ(i) = j <=> Dist(i, j) = 1
           /\ Succ(i) = Succ(j) => i = j
<1>0. Succ(i) \in Index /\ Pred(i) \in Index /\ Succ(j) \in Index
  BY Indices
<1>1. /\ i \in Int /\ j \in Int
      /\ 0 <= i /\ i <= QUEUE_SIZE - 1 /\ 0 <= j /\ j <= QUEUE_SIZE - 1
  BY Size, SMT DEF Index
<1>2. /\ Succ(i) = IF i = QUEUE_SIZE - 1 THEN 0 ELSE i + 1
      /\ Succ(j) = IF j = QUEUE_SIZE - 1 THEN 0 ELSE j + 1
      /\ Pred(i) = IF i = 0 THEN QUEUE_SIZE - 1 ELSE i - 1
      /\ Dist(i, j) = IF i <= j THEN j - i ELSE (j - i) + QUEUE_SIZE
  BY Indices
<1>3. /\ Pred(Succ(i)) = IF Succ(i) = 0 THEN QUEUE_SIZE - 1 ELSE Succ(i) - 1
      /\ Succ(Pred(i)) = IF Pred(i) = QUEUE_SIZE - 1 THEN 0 ELSE Pred(i) + 1
      /\ Dist(i, Succ(j)) = IF i <= Succ(j) THEN Succ(j) - i ELSE (Succ(j) - i) + QUEUE_SIZE
      /\ Dist(Succ(i), j) = IF Succ(i) <= j THEN j - Succ(i) ELSE (j - Succ(i)) + QUEUE_SIZE
  BY <1>0, Indices
<1>4. Pred(Succ(i)) = i /\ Succ(Pred(i)) = i
  BY <1>1, <1>2, <1>3, Size, SMT
<1>5. Succ(j) # i => Dist(i, Succ(j)) = Dist(i, j) + 1
  BY <1>1, <1>2, <1>3, Size, SMT
<1>6. Succ(j) = i <=> Dist(i, j) = QUEUE_SIZE - 1
  BY <1>1, <1>2, Size, SMT
<1>7. i # j <=> Dist(i, j) >= 1
  BY <1>1, <1>2, Size, SMT
<1>8. i # j => Dist(Succ(i), j) = Dist(i, j) - 1
  BY <1>1, <1>2, <1>3, Size, SMT
<1>9. Succ(i) = j <=> Dist(i, j) = 1
  BY <1>1, <1>2, Size, SMT
<1>10. Succ(i) = Succ(j) => i = j
  BY <1>1, <1>2, Size, SMT
<1>11. QED
  BY <1>4, <1>5, <1>6, <1>7, <1>8, <1>9, <1>10

-----------------------------------------------------------------------------
(* The event typed last, whatever overlaps.  From the moment the flag is   *)
(* up the console thread is at rest, so the only thread in eve_handleEvents *)
(* copies the slot it has chosen and compares the front it has left.       *)

Settled == mpc = "idle" /\ ~raced

(* What a CPU thread that is in eve_handleEvents then knows. *)
Copies(c) ==
    /\ cpc[c] \notin {"loop", "call"} => pending
    /\ cpc[c] \in {"fun", "arg", "rear"} => cfront[c] = front
    /\ cpc[c] = "arg" => cev[c].fun = slots[front].fun
    /\ cpc[c] \in {"front", "rear"} => cev[c] = slots[front]
    /\ cpc[c] = "clear" \/ (cpc[c] = "call" /\ ~pending)
          => front = rear /\ cev[c] = slots[rear]

LatestInv ==
    /\ TypeOK
    /\ ~raced => OneCpu
    /\ Settled => (\A c \in Cpus : Copies(c)) /\ NothingWaits

LEMMA LatestInit == Init => LatestInv
<1> SUFFICES ASSUME Init PROVE LatestInv
  OBVIOUS
<1>1. \A c \in Cpus : cpc[c] = "loop"
  BY DEF Init
<1>2. front = rear /\ last = slots[rear]
  BY Size, SMT DEF Init, Index
<1>3. QED
  BY <1>1, <1>2, InitTyped DEF LatestInv, OneCpu, InHandleEvents, Copies, NothingWaits

(* The console thread: only the raising of the flag ends at rest, and it   *)
(* counts when no CPU thread is between its slot and the flag.             *)
LEMMA LatestOfConsole ==
    ASSUME LatestInv, TypeOK', Enqueue \/ \E e \in Events : EnqueueRear(e)
    PROVE  LatestInv'
<1>1. cpc' = cpc
  BY DEF Enqueue, EnqueueRear, EnqueueFun, EnqueueArg, EnqueueTest, EnqueueLoadFront,
         EnqueueStoreFront, EnqueueFlag, cpu
<1>2. CASE EnqueueFlag
  <2>1. pending' /\ (~raced' => OneCpu /\ \A c \in Cpus : ~InWindow(c))
    BY <1>2 DEF EnqueueFlag
  <2>2. ~raced' => OneCpu'
    BY <1>1, <2>1 DEF OneCpu, InHandleEvents
  <2>3. ~raced' => \A c \in Cpus : Copies(c)'
    BY <1>1, <2>1 DEF InWindow, Copies
  <2>4. NothingWaits'
    BY <2>1 DEF NothingWaits, Quiet
  <2>5. QED
    BY <2>2, <2>3, <2>4 DEF LatestInv, Settled
<1>3. CASE ~EnqueueFlag
  <2>1. raced' = raced /\ mpc' # "idle"
    BY <1>3 DEF Enqueue, EnqueueRear, EnqueueFun, EnqueueArg, EnqueueTest,
                EnqueueLoadFront, EnqueueStoreFront, MainGoto
  <2>2. ~raced' => OneCpu'
    BY <1>1, <2>1 DEF LatestInv, OneCpu, InHandleEvents
  <2>3. QED
    BY <2>1, <2>2 DEF LatestInv, Settled
<1>4. QED
  BY <1>2, <1>3

(* A step of the one thread in eve_handleEvents touches nobody else.       *)
LEMMA LatestOfOne ==
    ASSUME LatestInv, TypeOK', NEW c \in Cpus, InHandleEvents(c) \/ InHandleEvents(c)',
           ~raced' => ~raced /\ \A d \in Cpus \ {c} : ~InHandleEvents(d),
           \A d \in Cpus \ {c} : cpc'[d] = cpc[d],
           Settled' => Copies(c)' /\ (InHandleEvents(c)' \/ NothingWaits')
    PROVE  LatestInv'
<1>1. ~raced' => \A d \in Cpus \ {c} : cpc'[d] = "loop"
  BY DEF InHandleEvents
<1>2. ~raced' => OneCpu'
  BY <1>1 DEF OneCpu, InHandleEvents
<1>3. Settled' => \A d \in Cpus : Copies(d)'
  BY <1>1 DEF Settled, Copies
<1>4. InHandleEvents(c)' => NothingWaits'
  BY DEF NothingWaits, Quiet, InHandleEvents
<1>5. QED
  BY <1>2, <1>3, <1>4 DEF LatestInv

LEMMA LatestOfCpu ==
    ASSUME LatestInv, TypeOK', NEW c \in Cpus, HandleEvents(c) \/ Dequeue(c)
    PROVE  LatestInv'
<1>1. /\ front \in Index /\ DOMAIN cpc = Cpus /\ cpc = [d \in Cpus |-> cpc[d]]
      /\ cfront \in [Cpus -> Index] /\ cev \in [Cpus -> Slot] /\ slots \in [Index -> Slot]
  BY DEF LatestInv, TypeOK
<1>2. /\ mpc' = mpc /\ \A d \in Cpus \ {c} : cpc'[d] = cpc[d]
  BY <1>1 DEF HandleEvents, Dequeue, DequeueLoadFront, DequeueStoreFront, DequeueIndex,
              DequeueFun, DequeueArg, DequeueFront, DequeueTest, DequeueClear, CallHandler,
              CpuGoto, main
<1>3. CASE HandleEvents(c)
  <2>1. /\ cpc'[c] = "load" /\ pending'
        /\ ~raced' => ~raced /\ \A d \in Cpus \ {c} : ~InHandleEvents(d)
    BY <1>1, <1>3 DEF HandleEvents, CpuGoto, ring
  <2>2. Copies(c)' /\ InHandleEvents(c)'
    BY <2>1 DEF Copies, InHandleEvents
  <2>3. QED
    BY <1>2, <2>1, <2>2, LatestOfOne
<1>4. ASSUME Dequeue(c) PROVE InHandleEvents(c) /\ raced' = raced
  BY <1>4 DEF Dequeue, DequeueLoadFront, DequeueStoreFront, DequeueIndex, DequeueFun,
              DequeueArg, DequeueFront, DequeueTest, DequeueClear, CallHandler, CpuGoto,
              InHandleEvents
<1>5. ASSUME Dequeue(c), ~raced' PROVE \A d \in Cpus \ {c} : ~InHandleEvents(d)
  BY <1>4, <1>5 DEF LatestInv, OneCpu
<1>6. ASSUME Dequeue(c), Settled' PROVE Copies(c)
  BY <1>2, <1>4, <1>6 DEF LatestInv, Settled
<1>7. SUFFICES ASSUME Dequeue(c), Settled'
               PROVE  Copies(c)' /\ (InHandleEvents(c)' \/ NothingWaits')
  BY <1>2, <1>3, <1>4, <1>5, LatestOfOne
<1>8. Copies(c)
  BY <1>6, <1>7
<1>9. CASE DequeueLoadFront(c) \/ DequeueStoreFront(c) \/ DequeueIndex(c)
  <2>1. /\ cpc[c] \in {"load", "store", "index"} /\ cpc'[c] \in {"store", "index", "fun"}
        /\ pending' = pending
        /\ cpc'[c] = "fun" => cfront'[c] = front'
    BY <1>1, <1>9 DEF DequeueLoadFront, DequeueStoreFront, DequeueIndex, CpuGoto, ring
  <2>2. QED
    BY <1>8, <2>1 DEF Copies, InHandleEvents
<1>10. CASE DequeueFun(c)
  <2>1. /\ cpc[c] = "fun" /\ cpc'[c] = "arg"
        /\ cev' = [cev EXCEPT ![c] = [cev[c] EXCEPT !.fun = slots[cfront[c]].fun]]
        /\ UNCHANGED <<front, rear, pending, slots, cfront>>
    BY <1>1, <1>10 DEF DequeueFun, CpuGoto, ring
  <2>2. cev'[c].fun = slots[front].fun
    BY <1>1, <1>8, <2>1 DEF Copies, Slot
  <2>3. QED
    BY <1>8, <2>1, <2>2 DEF Copies, InHandleEvents
<1>11. CASE DequeueArg(c)
  <2>1. /\ cpc[c] = "arg" /\ cpc'[c] = "front"
        /\ cev' = [cev EXCEPT ![c] = [cev[c] EXCEPT !.arg = slots[cfront[c]].arg]]
        /\ UNCHANGED <<front, rear, pending, slots, cfront>>
    BY <1>1, <1>11 DEF DequeueArg, CpuGoto, ring
  <2>2. cfront[c] = front /\ cev[c].fun = slots[front].fun
    BY <1>8, <2>1 DEF Copies
  <2>3. cev'[c] = [cev[c] EXCEPT !.arg = slots[front].arg]
    BY <1>1, <2>1, <2>2
  <2>4. slots[front] \in Slot /\ cev[c] \in Slot
    BY <1>1
  <2>5. cev'[c] = slots[front]
    BY <2>2, <2>3, <2>4 DEF Slot
  <2>6. QED
    BY <1>8, <2>1, <2>5 DEF Copies, InHandleEvents
<1>12. CASE DequeueFront(c)
  <2>1. /\ cpc[c] = "front" /\ cpc'[c] = "rear" /\ cfront'[c] = front
        /\ UNCHANGED <<front, rear, pending, slots, cev>>
    BY <1>1, <1>12 DEF DequeueFront, CpuGoto, ring
  <2>2. QED
    BY <1>8, <2>1 DEF Copies, InHandleEvents
<1>13. CASE DequeueTest(c)
  <2>1. /\ cpc[c] = "rear" /\ cpc'[c] = (IF cfront[c] = rear THEN "clear" ELSE "call")
        /\ UNCHANGED <<front, rear, pending, slots, cev>>
    BY <1>1, <1>13 DEF DequeueTest, CpuGoto, ring
  <2>2. QED
    BY <1>8, <2>1 DEF Copies, InHandleEvents
<1>14. CASE DequeueClear(c)
  <2>1. /\ cpc[c] = "clear" /\ cpc'[c] = "call"
        /\ UNCHANGED <<front, rear, slots, cev>>
    BY <1>1, <1>14 DEF DequeueClear, CpuGoto
  <2>2. QED
    BY <1>8, <2>1 DEF Copies, InHandleEvents
<1>15. CASE CallHandler(c)
  <2>1. /\ cpc[c] = "call" /\ cpc'[c] = "loop" /\ last' = cev[c]
        /\ UNCHANGED <<front, rear, pending, slots>>
    BY <1>1, <1>15 DEF CallHandler, CpuGoto, ring
  <2>2. ~pending => front = rear /\ cev[c] = slots[rear]
    BY <1>8, <2>1 DEF Copies
  <2>3. QED
    BY <2>1, <2>2 DEF Copies, NothingWaits, Quiet
<1>16. QED
  BY <1>7, <1>9, <1>10, <1>11, <1>12, <1>13, <1>14, <1>15 DEF Dequeue

(* Whatever overlaps, for a ring of any size, any events and any number of *)
(* CPU threads: unless the flag of the latest eve_enqueueEvent was raised  *)
(* while a CPU thread was between its slot and the line that lowers the    *)
(* flag, or two of them took events at one time, once all is quiet no      *)
(* event is left and the handler called last was that of the newest slot.  *)
THEOREM LatestGetsThrough == Spec => []NothingWaits
<1>1. LatestInv /\ [Next]_vars => LatestInv'
  <2> SUFFICES ASSUME LatestInv, [Next]_vars PROVE LatestInv'
    OBVIOUS
  <2>1. TypeOK'
    BY NextTyped DEF LatestInv
  <2>2. CASE UNCHANGED vars
    <3>1. UNCHANGED <<front, rear, pending, slots, mpc, cpc, cfront, cev, last, raced>>
      BY <2>2 DEF vars, ring, main, cpu
    <3>2. QED
      BY <2>1, <3>1 DEF LatestInv, Settled, OneCpu, InHandleEvents, Copies, NothingWaits, Quiet
  <2>3. QED
    BY <2>1, <2>2, LatestOfConsole, LatestOfCpu DEF Next
<1>2. LatestInv => NothingWaits
  BY DEF LatestInv, Settled, NothingWaits, Quiet
<1>3. QED
  BY <1>1, <1>2, LatestInit, PTL DEF Spec

-----------------------------------------------------------------------------
(* The queue between the places h and t of an array of slots.              *)

ItemsOf(h, t, a) == [i \in 1 .. Dist(h, t) |-> a[(h + i) % QUEUE_SIZE]]

Slots == [Index -> Slot]

LEMMA Places ==
    ASSUME NEW h \in Index, NEW i \in Nat, i <= QUEUE_SIZE
    PROVE  /\ (h + i) % QUEUE_SIZE \in Index
           /\ (h + i) % QUEUE_SIZE = IF h + i < QUEUE_SIZE THEN h + i ELSE (h + i) - QUEUE_SIZE
<1>1. h \in Nat /\ h <= QUEUE_SIZE - 1
  BY Size, SMT DEF Index
<1>2. h + i \in Nat /\ h + i < 2 * QUEUE_SIZE
  BY <1>1, Size, SMT
<1>3. (h + i) % QUEUE_SIZE = IF h + i < QUEUE_SIZE THEN h + i ELSE (h + i) - QUEUE_SIZE
  BY <1>2, Remainder
<1>4. (IF h + i < QUEUE_SIZE THEN h + i ELSE (h + i) - QUEUE_SIZE) \in Index
  BY <1>2, Size, SMT DEF Index
<1>5. QED
  BY <1>3, <1>4

LEMMA ItemsAre ==
    ASSUME NEW h \in Index, NEW t \in Index, NEW a \in Slots
    PROVE  /\ Dist(h, t) \in Nat /\ Dist(h, t) < QUEUE_SIZE
           /\ ItemsOf(h, t, a) \in Seq(Slot)
           /\ Len(ItemsOf(h, t, a)) = Dist(h, t)
           /\ \A i \in 1 .. Dist(h, t) : ItemsOf(h, t, a)[i] = a[(h + i) % QUEUE_SIZE]
<1>1. Dist(h, t) \in Nat /\ Dist(h, t) < QUEUE_SIZE
  <2>1. Dist(h, t) \in Index
    BY Indices
  <2>2. QED
    BY <2>1, Size, SMT DEF Index
<1>2. \A i \in 1 .. Dist(h, t) : a[(h + i) % QUEUE_SIZE] \in Slot
  <2>1. ASSUME NEW i \in 1 .. Dist(h, t) PROVE (h + i) % QUEUE_SIZE \in Index
    <3>1. i \in Nat /\ i <= QUEUE_SIZE
      BY <1>1, Size, SMT
    <3>2. QED
      BY <3>1, Places
  <2>2. QED
    BY <2>1 DEF Slots
<1>3. ItemsOf(h, t, a) \in [1 .. Dist(h, t) -> Slot]
  BY <1>2 DEF ItemsOf
<1>4. QED
  BY <1>1, <1>3 DEF ItemsOf

(* Two queues of equal length whose places agree are equal.                *)
LEMMA SameItems ==
    ASSUME NEW h \in Index, NEW t \in Index, NEW a \in Slots, NEW b \in Slots,
           \A i \in 1 .. Dist(h, t) : a[(h + i) % QUEUE_SIZE] = b[(h + i) % QUEUE_SIZE]
    PROVE  ItemsOf(h, t, a) = ItemsOf(h, t, b)
  BY DEF ItemsOf

(* The slot after the last item is none of the items.                      *)
LEMMA BeyondItems ==
    ASSUME NEW h \in Index, NEW t \in Index, NEW i \in 1 .. Dist(h, t)
    PROVE  (h + i) % QUEUE_SIZE # Succ(t)
<1>1. /\ Dist(h, t) = IF h <= t THEN t - h ELSE (t - h) + QUEUE_SIZE
      /\ Succ(t) = IF t = QUEUE_SIZE - 1 THEN 0 ELSE t + 1
      /\ Dist(h, t) \in Index
  BY Indices
<1>2. h \in Int /\ t \in Int /\ 0 <= h /\ h <= QUEUE_SIZE - 1 /\ 0 <= t /\ t <= QUEUE_SIZE - 1
  BY Size, SMT DEF Index
<1>3. i \in Nat /\ i <= QUEUE_SIZE /\ 1 <= i /\ i <= Dist(h, t)
  BY <1>1, Size, SMT DEF Index
<1>4. (h + i) % QUEUE_SIZE = IF h + i < QUEUE_SIZE THEN h + i ELSE (h + i) - QUEUE_SIZE
  BY <1>3, Places
<1>5. QED
  BY <1>1, <1>2, <1>3, <1>4, Size, SMT

LEMMA WriteBeyond ==
    ASSUME NEW h \in Index, NEW t \in Index, NEW a \in Slots, NEW e \in Slot
    PROVE  ItemsOf(h, t, [a EXCEPT ![Succ(t)] = e]) = ItemsOf(h, t, a)
<1>1. Succ(t) \in Index /\ [a EXCEPT ![Succ(t)] = e] \in Slots
  BY Indices DEF Slots
<1>2. ASSUME NEW i \in 1 .. Dist(h, t)
      PROVE  [a EXCEPT ![Succ(t)] = e][(h + i) % QUEUE_SIZE] = a[(h + i) % QUEUE_SIZE]
  <2>1. (h + i) % QUEUE_SIZE # Succ(t)
    BY BeyondItems
  <2>2. (h + i) % QUEUE_SIZE \in Index
    <3>1. i \in Nat /\ i <= QUEUE_SIZE
      BY ItemsAre, Size, SMT
    <3>2. QED
      BY <3>1, Places
  <2>3. QED
    BY <2>1, <2>2 DEF Slots
<1>3. QED
  BY <1>1, <1>2, SameItems

LEMMA LastPlace ==
    ASSUME NEW h \in Index, NEW t \in Index
    PROVE  (h + Dist(h, t)) % QUEUE_SIZE = t
<1>1. /\ Dist(h, t) = IF h <= t THEN t - h ELSE (t - h) + QUEUE_SIZE
      /\ Dist(h, t) \in Nat /\ Dist(h, t) <= QUEUE_SIZE
  BY Indices, Size, SMT DEF Index
<1>2. h \in Int /\ t \in Int /\ 0 <= h /\ h <= QUEUE_SIZE - 1 /\ 0 <= t /\ t <= QUEUE_SIZE - 1
  BY Size, SMT DEF Index
<1>3. (h + Dist(h, t)) % QUEUE_SIZE
         = IF h + Dist(h, t) < QUEUE_SIZE THEN h + Dist(h, t) ELSE (h + Dist(h, t)) - QUEUE_SIZE
  BY <1>1, Places
<1>4. QED
  BY <1>1, <1>2, <1>3, Size, SMT

LEMMA ShiftedPlace ==
    ASSUME NEW h \in Index, NEW i \in Nat, i < QUEUE_SIZE
    PROVE  (Succ(h) + i) % QUEUE_SIZE = (h + (i + 1)) % QUEUE_SIZE
<1>1. Succ(h) \in Index /\ Succ(h) = IF h = QUEUE_SIZE - 1 THEN 0 ELSE h + 1
  BY Indices
<1>2. i + 1 \in Nat /\ i + 1 <= QUEUE_SIZE /\ i <= QUEUE_SIZE
  BY Size, SMT
<1>3. /\ (Succ(h) + i) % QUEUE_SIZE
            = IF Succ(h) + i < QUEUE_SIZE THEN Succ(h) + i ELSE (Succ(h) + i) - QUEUE_SIZE
      /\ (h + (i + 1)) % QUEUE_SIZE
            = IF h + (i + 1) < QUEUE_SIZE THEN h + (i + 1) ELSE (h + (i + 1)) - QUEUE_SIZE
  BY <1>1, <1>2, Places
<1>4. h \in Int /\ 0 <= h /\ h <= QUEUE_SIZE - 1
  BY Size, SMT DEF Index
<1>5. QED
  BY <1>1, <1>2, <1>3, <1>4, Size, SMT

(* The slot after the last item becomes an item.                           *)
LEMMA PutItem ==
    ASSUME NEW h \in Index, NEW t \in Index, NEW a \in Slots, Succ(t) # h
    PROVE  /\ ItemsOf(h, Succ(t), a) = Append(ItemsOf(h, t, a), a[Succ(t)])
           /\ Len(ItemsOf(h, t, a)) # QUEUE_SIZE - 1
<1> DEFINE n == Dist(h, t)
           p == ItemsOf(h, t, a)
           q == ItemsOf(h, Succ(t), a)
           e == a[Succ(t)]
<1>1. Succ(t) \in Index /\ e \in Slot
  BY Indices DEF Slots
<1>2. Dist(h, Succ(t)) = n + 1 /\ n # QUEUE_SIZE - 1
  BY Neighbours
<1>3. /\ n \in Nat /\ n < QUEUE_SIZE /\ p \in Seq(Slot) /\ Len(p) = n
      /\ \A i \in 1 .. n : p[i] = a[(h + i) % QUEUE_SIZE]
  BY ItemsAre
<1>4. /\ q \in Seq(Slot) /\ Len(q) = n + 1
      /\ \A i \in 1 .. n + 1 : q[i] = a[(h + i) % QUEUE_SIZE]
  BY <1>1, <1>2, ItemsAre
<1>5. (h + (n + 1)) % QUEUE_SIZE = Succ(t)
  BY <1>1, <1>2, LastPlace
<1> HIDE DEF n, p, q, e
<1>6. /\ Append(p, e) \in Seq(Slot) /\ Len(Append(p, e)) = n + 1
      /\ \A i \in 1 .. n : Append(p, e)[i] = p[i]
      /\ Append(p, e)[n + 1] = e
  BY <1>1, <1>3, AppendProperties
<1>7. q[n + 1] = e
  BY <1>3, <1>4, <1>5 DEF e
<1>8. ASSUME NEW i \in 1 .. n + 1 PROVE q[i] = Append(p, e)[i]
  <2>1. i \in 1 .. n \/ i = n + 1
    BY <1>3
  <2>2. QED
    BY <1>3, <1>4, <1>6, <1>7, <2>1
<1>9. q = Append(p, e)
  BY <1>4, <1>6, <1>8, SeqEqual
<1>10. QED
  BY <1>2, <1>3, <1>9 DEF p, q, e

(* The first item is taken.                                                *)
LEMMA TakeItem ==
    ASSUME NEW h \in Index, NEW t \in Index, NEW a \in Slots, h # t
    PROVE  /\ ItemsOf(h, t, a) # <<>>
           /\ Head(ItemsOf(h, t, a)) = a[Succ(h)]
           /\ Tail(ItemsOf(h, t, a)) = ItemsOf(Succ(h), t, a)
<1> DEFINE n == Dist(h, t)
           p == ItemsOf(h, t, a)
           q == ItemsOf(Succ(h), t, a)
<1>1. Succ(h) \in Index
  BY Indices
<1>2. Dist(Succ(h), t) = n - 1 /\ n >= 1
  BY Neighbours
<1>3. /\ n \in Nat /\ n < QUEUE_SIZE /\ p \in Seq(Slot) /\ Len(p) = n
      /\ \A i \in 1 .. n : p[i] = a[(h + i) % QUEUE_SIZE]
  BY ItemsAre
<1>4. /\ q \in Seq(Slot) /\ Len(q) = n - 1
      /\ \A i \in 1 .. n - 1 : q[i] = a[(Succ(h) + i) % QUEUE_SIZE]
  BY <1>1, <1>2, ItemsAre
<1>5. \A i \in Nat : i < QUEUE_SIZE => (Succ(h) + i) % QUEUE_SIZE = (h + (i + 1)) % QUEUE_SIZE
  BY ShiftedPlace
<1> HIDE DEF n, p, q
<1>6. p # <<>>
  BY <1>2, <1>3
<1>7. /\ Tail(p) \in Seq(Slot) /\ Len(Tail(p)) = n - 1
      /\ \A i \in 1 .. n - 1 : Tail(p)[i] = p[i + 1]
  BY <1>3, <1>6, HeadTailProperties
<1>8. ASSUME NEW i \in 1 .. n - 1 PROVE Tail(p)[i] = q[i]
  <2>1. i \in Nat /\ i < QUEUE_SIZE /\ i + 1 \in 1 .. n
    BY <1>2, <1>3, Size, SMT
  <2>2. QED
    BY <1>3, <1>4, <1>5, <1>7, <2>1
<1>9. Tail(p) = q
  BY <1>4, <1>7, <1>8, SeqEqual
<1>10. Head(p) = a[Succ(h)]
  <2>1. Head(p) = p[1] /\ 1 \in 1 .. n
    BY <1>2, <1>3, <1>6
  <2>2. (h + 1) % QUEUE_SIZE = Succ(h)
    <3>1. 1 \in Nat /\ 1 <= QUEUE_SIZE /\ h \in Int
      BY Size, SMT DEF Index
    <3>2. /\ (h + 1) % QUEUE_SIZE = IF h + 1 < QUEUE_SIZE THEN h + 1 ELSE (h + 1) - QUEUE_SIZE
          /\ Succ(h) = IF h = QUEUE_SIZE - 1 THEN 0 ELSE h + 1
      BY <3>1, Places, Indices
    <3>3. h <= QUEUE_SIZE - 1
      BY Size, SMT DEF Index
    <3>4. QED
      BY <3>1, <3>2, <3>3, Size, SMT
  <2>3. QED
    BY <1>3, <2>1, <2>2
<1>11. QED
  BY <1>6, <1>9, <1>10 DEF p, q

(* A full ring gives up its first item for the new one.                    *)
LEMMA PutIntoFull ==
    ASSUME NEW h \in Index, NEW t \in Index, NEW a \in Slots, Succ(t) = h
    PROVE  /\ ItemsOf(Succ(h), Succ(t), a) = Append(Tail(ItemsOf(h, t, a)), a[Succ(t)])
           /\ Len(ItemsOf(h, t, a)) = QUEUE_SIZE - 1
           /\ Dist(Succ(h), Succ(t)) = QUEUE_SIZE - 1
<1>1. Dist(h, t) = QUEUE_SIZE - 1 /\ Dist(h, h) = 0 /\ Dist(h, t) >= 1 /\ h # t
  <2>1. Dist(h, t) = QUEUE_SIZE - 1
    BY Neighbours
  <2>2. Dist(h, h) = 0
    <3>1. h \in Int
      BY Size, SMT DEF Index
    <3>2. h <= h /\ h - h = 0
      BY <3>1, SMT
    <3>3. QED
      BY <3>2, Indices
  <2>3. Dist(h, t) >= 1
    BY <2>1, Size, SMT
  <2>4. QED
    BY <2>1, <2>2, <2>3, Neighbours
<1>2. Tail(ItemsOf(h, t, a)) = ItemsOf(Succ(h), t, a) /\ Succ(h) \in Index /\ Succ(t) \in Index
  BY <1>1, TakeItem, Indices
<1>3. Succ(t) # Succ(h)
  BY <1>1, Neighbours
<1>4. ItemsOf(Succ(h), Succ(t), a) = Append(ItemsOf(Succ(h), t, a), a[Succ(t)])
  BY <1>2, <1>3, PutItem
<1>5. Len(ItemsOf(h, t, a)) = QUEUE_SIZE - 1
  BY <1>1, ItemsAre
<1>6. Dist(Succ(h), Succ(t)) = QUEUE_SIZE - 1
  <2>1. Dist(Succ(h), t) = Dist(h, t) - 1
    BY <1>1, Neighbours
  <2>2. Dist(Succ(h), Succ(t)) = Dist(Succ(h), t) + 1
    BY <1>2, <1>3, Neighbours
  <2>3. QED
    BY <1>1, <2>1, <2>2, Size, SMT
<1>7. QED
  BY <1>2, <1>4, <1>5, <1>6

-----------------------------------------------------------------------------
(* The ring in a state: where its queue begins and ends.                   *)

HeadOf(pc, f) ==
    IF \E c \in Cpus : pc[c] \notin {"loop", "load", "store"} THEN Pred(f) ELSE f

TailOf(pc, r) == IF pc \in {"idle", "flag"} THEN r ELSE Pred(r)

Held == Dist(headFront, tailRear)

Busy == \E c \in Cpus : InHandleEvents(c)

(* What holds of the console thread: where it is about to raise            *)
(* _eventPending there is an event, and elsewhere the flag tells the truth *)
(* unless a CPU thread is about to settle it.                              *)
ConsoleInv ==
    /\ mpc # "idle" => mev \in Events
    /\ mpc = "arg" => slots[rear].fun = mev.fun
    /\ mpc \in {"test", "load", "store"} => slots[rear] = mev
    /\ mpc \in {"load", "store"} => front = rear /\ ~Busy
    /\ mpc = "store" => mfront = front
    /\ mpc = "flag" => Held >= 1 /\ (Held >= 2 => pending)
    /\ mpc # "flag" /\ ~Busy => (pending <=> Held >= 1)

(* What holds of a CPU thread in eve_handleEvents: its copies are those of *)
(* the oldest event, and the flag tells whether there is another one, once *)
(* it is settled.                                                          *)
CpuInv(c) ==
    InHandleEvents(c) =>
        /\ Held >= 1
        /\ cpc[c] \in {"store", "fun", "arg", "rear"} => cfront[c] = front
        /\ cpc[c] = "arg" => cev[c].fun = slots[front].fun
        /\ cpc[c] \in {"front", "rear", "clear", "call"} => cev[c] = slots[front]
        /\ cpc[c] = "clear" => Held = 1
        /\ cpc[c] # "call" => pending
        /\ cpc[c] = "call" => (pending <=> Held >= 2)

RingInv == TypeOK /\ Safe /\ ConsoleInv /\ \A c \in Cpus : CpuInv(c)

(* A step that the abstract queue does not see.                            *)
Unseen == UNCHANGED <<items, last>>

LEMMA HeadAndTail ==
    /\ headFront = HeadOf(cpc, front) /\ tailRear = TailOf(mpc, rear)
    /\ headFront' = HeadOf(cpc', front') /\ tailRear' = TailOf(mpc', rear')
    /\ items = ItemsOf(headFront, tailRear, slots)
    /\ items' = ItemsOf(headFront', tailRear', slots')
    /\ Held = Dist(headFront, tailRear) /\ Held' = Dist(headFront', tailRear')
  BY DEF headFront, tailRear, HeadOf, TailOf, items, ItemsOf, Held, Dist

LEMMA HeadTyped ==
    ASSUME NEW f \in Index, NEW pc
    PROVE  HeadOf(pc, f) \in Index
  BY Indices DEF HeadOf

LEMMA TailTyped ==
    ASSUME NEW r \in Index, NEW pc
    PROVE  TailOf(pc, r) \in Index
  BY Indices DEF TailOf

LEMMA StateFacts ==
    ASSUME TypeOK
    PROVE  /\ headFront \in Index /\ tailRear \in Index /\ slots \in Slots
           /\ Held \in Nat /\ Held < QUEUE_SIZE /\ Len(items) = Held /\ items \in Seq(Slot)
<1>1. headFront \in Index /\ tailRear \in Index /\ slots \in Slots
  BY HeadAndTail, HeadTyped, TailTyped DEF TypeOK, Slots
<1>2. QED
  BY <1>1, HeadAndTail, ItemsAre

LEMMA NextStateFacts ==
    ASSUME TypeOK'
    PROVE  /\ headFront' \in Index /\ tailRear' \in Index /\ slots' \in Slots
           /\ Held' \in Nat /\ Held' < QUEUE_SIZE /\ Len(items') = Held'
<1>1. front' \in Index /\ rear' \in Index /\ slots' \in Slots
  BY DEF TypeOK, Slots, Index, Slot
<1>2. headFront' \in Index /\ tailRear' \in Index
  BY <1>1, HeadAndTail, HeadTyped, TailTyped
<1>3. QED
  BY <1>1, <1>2, HeadAndTail, ItemsAre

(* Where the queue begins, when no CPU thread or one handles an event.     *)
LEMMA HeadOfIdle ==
    ASSUME NEW pc, NEW f, \A c \in Cpus : pc[c] = "loop"
    PROVE  HeadOf(pc, f) = f
  BY DEF HeadOf

LEMMA HeadOfOne ==
    ASSUME NEW pc, NEW f, NEW c \in Cpus, \A d \in Cpus : d # c => pc[d] = "loop"
    PROVE  HeadOf(pc, f) = IF pc[c] \in {"loop", "load", "store"} THEN f ELSE Pred(f)
<1>1. CASE pc[c] \in {"loop", "load", "store"}
  BY <1>1 DEF HeadOf
<1>2. CASE pc[c] \notin {"loop", "load", "store"}
  BY <1>2 DEF HeadOf
<1>3. QED
  BY <1>1, <1>2

LEMMA OthersLoop ==
    ASSUME Safe, NEW c \in Cpus, InHandleEvents(c)
    PROVE  \A d \in Cpus : d # c => cpc[d] = "loop"
  BY DEF Safe, OneCpu, InHandleEvents

(* While both sides are under way, there are events, and room for two.     *)
LEMMA Overlap ==
    ASSUME RingInv, NEW c \in Cpus, InHandleEvents(c), mpc # "idle"
    PROVE  Held >= 2 /\ Held <= QUEUE_SIZE - 2 /\ pending
<1>1. Len(items) \in 2 .. QUEUE_SIZE - 2
  BY DEF RingInv, Safe
<1>2. Held >= 2 /\ Held <= QUEUE_SIZE - 2
  BY <1>1, StateFacts, Size, SMT DEF RingInv
<1>3. pending
  BY <1>2 DEF RingInv, CpuInv
<1>4. QED
  BY <1>2, <1>3

(* The slot that the console thread writes is not the one that a CPU       *)
(* thread reads.                                                           *)
LEMMA SlotsApart ==
    ASSUME RingInv, NEW c \in Cpus, InHandleEvents(c), mpc \notin {"idle", "flag"}
    PROVE  front # rear
<1> SUFFICES ASSUME front = rear PROVE FALSE
  OBVIOUS
<1>1. /\ front \in Index /\ rear \in Index /\ headFront \in Index /\ tailRear \in Index
      /\ Held = Dist(headFront, tailRear) /\ Held \in Nat
  BY StateFacts, HeadAndTail DEF RingInv, TypeOK
<1>2. Held >= 2 /\ Held <= QUEUE_SIZE - 2
  BY Overlap
<1>3. headFront = front \/ headFront = Pred(front)
  BY HeadAndTail DEF HeadOf
<1>4. tailRear = Pred(rear) /\ Succ(tailRear) = rear
  BY <1>1, HeadAndTail, Neighbours DEF TailOf
<1>5. CASE headFront = front
  <2>1. Held = QUEUE_SIZE - 1
    BY <1>1, <1>4, <1>5, Neighbours
  <2>2. QED
    BY <1>2, <2>1, Size, SMT
<1>6. CASE headFront = Pred(front)
  <2>1. ~(Held >= 1)
    BY <1>1, <1>4, <1>6, Neighbours
  <2>2. QED
    BY <1>1, <1>2, <2>1, SMT
<1>7. QED
  BY <1>3, <1>5, <1>6

(* Where the console thread has found the ring full, it is.                *)
LEMMA FullWhenFound ==
    ASSUME RingInv, front = rear, ~Busy, mpc \notin {"idle", "flag"}
    PROVE  /\ headFront = front /\ Succ(tailRear) = front /\ Held = QUEUE_SIZE - 1
<1>1. /\ front \in Index /\ rear \in Index /\ tailRear \in Index
      /\ Held = Dist(headFront, tailRear)
  BY StateFacts, HeadAndTail DEF RingInv, TypeOK
<1>2. headFront = front
  BY HeadAndTail, HeadOfIdle DEF Busy, InHandleEvents
<1>3. Succ(tailRear) = front
  BY <1>1, HeadAndTail, Neighbours DEF TailOf
<1>4. QED
  BY <1>1, <1>2, <1>3, Neighbours

-----------------------------------------------------------------------------
(* The steps of the console thread.  What a CPU thread relies on does not  *)
(* change under its hands, or there are several events.                    *)
LEMMA CpuUndisturbed ==
    ASSUME RingInv, TypeOK', UNCHANGED cpu,
           Busy => /\ front' = front /\ slots'[front] = slots[front]
                   /\ \/ Held' = Held /\ pending' = pending
                      \/ Held >= 2 /\ Held' >= 2 /\ pending'
    PROVE  \A c \in Cpus : CpuInv(c)'
<1> SUFFICES ASSUME NEW c \in Cpus, InHandleEvents(c)'
             PROVE  CpuInv(c)'
  BY DEF CpuInv
<1>1. /\ InHandleEvents(c) /\ Busy /\ CpuInv(c)
      /\ cpc' = cpc /\ cfront' = cfront /\ cev' = cev
  BY DEF cpu, InHandleEvents, Busy, RingInv
<1>2. front' = front /\ slots'[front'] = slots[front]
  BY <1>1
<1>3. CASE Held' = Held /\ pending' = pending
  BY <1>1, <1>2, <1>3 DEF CpuInv
<1>4. CASE Held >= 2 /\ Held' >= 2 /\ pending'
  <2>1. Held \in Nat /\ Held' \in Nat => Held # 1 /\ Held' >= 1
    BY <1>4, SMT
  <2>2. Held \in Nat /\ Held' \in Nat
    BY StateFacts, NextStateFacts DEF RingInv
  <2>3. QED
    BY <1>1, <1>2, <1>4, <2>1, <2>2 DEF CpuInv
<1>5. QED
  BY <1>1, <1>3, <1>4

LEMMA SameBusy == UNCHANGED cpu => Busy' = Busy
  BY DEF cpu, Busy, InHandleEvents

(* A step of the console thread that leaves the queue as it is.            *)
LEMMA ConsoleUnseen ==
    ASSUME RingInv, UNCHANGED <<cpu, front, last>>, TailOf(mpc', rear') = TailOf(mpc, rear),
           ItemsOf(headFront, tailRear, slots') = ItemsOf(headFront, tailRear, slots)
    PROVE  /\ headFront' = headFront /\ tailRear' = tailRear /\ Held' = Held /\ Unseen
           /\ Busy' = Busy
<1>1. headFront' = headFront /\ tailRear' = tailRear
  BY HeadAndTail DEF cpu
<1>2. QED
  BY <1>1, HeadAndTail, SameBusy DEF Unseen

LEMMA RearStep ==
    ASSUME RingInv, TypeOK', Safe', NEW e \in Events, EnqueueRear(e)
    PROVE  RingInv' /\ Unseen
<1>1. /\ mpc = "idle" /\ mpc' = "fun" /\ rear' = Succ(rear) /\ mev' = e
      /\ UNCHANGED <<front, pending, slots, mfront, cpu, last, alive>>
  BY DEF EnqueueRear, MainGoto
<1>2. rear \in Index
  BY DEF RingInv, TypeOK
<1>3. TailOf(mpc', rear') = TailOf(mpc, rear)
  BY <1>1, <1>2, Neighbours DEF TailOf
<1>4. Held' = Held /\ Unseen /\ Busy' = Busy
  BY <1>1, <1>3, ConsoleUnseen
<1>5. \A c \in Cpus : CpuInv(c)'
  BY <1>1, <1>4, CpuUndisturbed
<1>6. ConsoleInv'
  BY <1>1, <1>4 DEF RingInv, ConsoleInv
<1>7. QED
  BY <1>4, <1>5, <1>6 DEF RingInv

(* The two words of the event are written into the slot beyond the queue.  *)
LEMMA WordStep ==
    ASSUME RingInv, TypeOK', Safe', EnqueueFun \/ EnqueueArg
    PROVE  RingInv' /\ Unseen
<1>1. /\ mpc \in {"fun", "arg"} /\ mpc' \in {"arg", "test"}
      /\ UNCHANGED <<front, rear, pending, mev, mfront, cpu, last, alive>>
  BY DEF EnqueueFun, EnqueueArg, MainGoto
<1>2. /\ rear \in Index /\ slots \in Slots /\ slots[rear] \in Slot /\ mev \in Slot
      /\ headFront \in Index /\ tailRear \in Index
  BY SlotParts, StateFacts DEF RingInv, TypeOK
<1>3. PICK s \in Slot : slots' = [slots EXCEPT ![rear] = s]
  <2>1. CASE EnqueueFun
    <3>1. [slots[rear] EXCEPT !.fun = mev.fun] \in Slot
      BY <1>2, SlotParts
    <3>2. slots' = [slots EXCEPT ![rear] = [slots[rear] EXCEPT !.fun = mev.fun]]
      BY <2>1 DEF EnqueueFun
    <3>3. QED
      BY <3>1, <3>2
  <2>2. CASE EnqueueArg
    <3>1. [slots[rear] EXCEPT !.arg = mev.arg] \in Slot
      BY <1>2, SlotParts
    <3>2. slots' = [slots EXCEPT ![rear] = [slots[rear] EXCEPT !.arg = mev.arg]]
      BY <2>2 DEF EnqueueArg
    <3>3. QED
      BY <3>1, <3>2
  <2>3. QED
    BY <2>1, <2>2
<1>4. rear = Succ(tailRear)
  BY <1>1, <1>2, HeadAndTail, Neighbours DEF TailOf
<1>5. ItemsOf(headFront, tailRear, slots') = ItemsOf(headFront, tailRear, slots)
  BY <1>2, <1>3, <1>4, WriteBeyond
<1>6. TailOf(mpc', rear') = TailOf(mpc, rear)
  BY <1>1 DEF TailOf
<1>7. Held' = Held /\ Unseen /\ Busy' = Busy
  BY <1>1, <1>5, <1>6, ConsoleUnseen
<1>8. ASSUME Busy PROVE slots'[front] = slots[front]
  <2>1. PICK c \in Cpus : InHandleEvents(c)
    BY <1>8 DEF Busy
  <2>2. front # rear /\ front \in Index
    BY <1>1, <2>1, SlotsApart DEF RingInv, TypeOK
  <2>3. QED
    BY <1>2, <1>3, <2>2 DEF Slots
<1>9. \A c \in Cpus : CpuInv(c)'
  BY <1>1, <1>7, <1>8, CpuUndisturbed
<1>10. ConsoleInv'
  <2>1. CASE EnqueueFun
    <3>1. slots'[rear].fun = mev.fun /\ mpc' = "arg"
      BY <1>2, <2>1 DEF EnqueueFun, MainGoto, Slots, Slot
    <3>2. QED
      BY <1>1, <1>7, <3>1 DEF RingInv, ConsoleInv
  <2>2. CASE EnqueueArg
    <3>1. slots[rear].fun = mev.fun /\ mpc' = "test"
      BY <2>2 DEF EnqueueArg, MainGoto, RingInv, ConsoleInv
    <3>2. slots'[rear] = [slots[rear] EXCEPT !.arg = mev.arg]
      BY <1>2, <2>2 DEF EnqueueArg, Slots
    <3>3. slots'[rear] = mev
      BY <1>2, <3>1, <3>2 DEF Slot
    <3>4. QED
      BY <1>1, <1>7, <3>1, <3>3 DEF RingInv, ConsoleInv
  <2>3. QED
    BY <2>1, <2>2
<1>11. QED
  BY <1>7, <1>9, <1>10 DEF RingInv

(* The ring has room, and the event is put, or it is full.                 *)
LEMMA TestStep ==
    ASSUME RingInv, TypeOK', Safe', EnqueueTest
    PROVE  RingInv' /\ (Unseen \/ Abstract!Next)
<1>1. /\ mpc = "test" /\ mpc' = IF front = rear THEN "load" ELSE "flag"
      /\ UNCHANGED <<front, rear, pending, slots, mev, mfront, cpu, last, alive>>
  BY DEF EnqueueTest, MainGoto, ring
<1>2. /\ rear \in Index /\ front \in Index /\ headFront \in Index /\ tailRear \in Index
      /\ slots \in Slots /\ Held \in Nat /\ Held' \in Nat
      /\ mev \in Events /\ slots[rear] = mev
  BY <1>1, StateFacts, NextStateFacts DEF RingInv, TypeOK, ConsoleInv
<1>3. tailRear = Pred(rear) /\ Succ(tailRear) = rear
  BY <1>1, <1>2, HeadAndTail, Neighbours DEF TailOf
<1>4. Busy' = Busy /\ headFront' = headFront
  BY <1>1, SameBusy, HeadAndTail DEF cpu
<1>5. Busy => front # rear
  BY <1>1, SlotsApart DEF Busy
<1>6. CASE front = rear
  <2>1. TailOf(mpc', rear') = TailOf(mpc, rear)
    BY <1>1, <1>6 DEF TailOf
  <2>2. Held' = Held /\ Unseen
    BY <1>1, <2>1, ConsoleUnseen
  <2>3. \A c \in Cpus : CpuInv(c)'
    BY <1>1, <2>2, CpuUndisturbed
  <2>4. ConsoleInv'
    BY <1>1, <1>4, <1>5, <1>6, <2>2 DEF RingInv, ConsoleInv
  <2>5. QED
    BY <2>2, <2>3, <2>4 DEF RingInv
<1>7. CASE front # rear
  <2>1. tailRear' = rear
    BY <1>1, <1>7, HeadAndTail DEF TailOf
  <2>2. Succ(tailRear) # headFront
    <3>1. CASE Busy
      <4>1. PICK c \in Cpus : InHandleEvents(c)
        BY <3>1 DEF Busy
      <4>2. Held <= QUEUE_SIZE - 2
        BY <1>1, <4>1, Overlap
      <4>3. Held # QUEUE_SIZE - 1
        BY <1>2, <4>2, Size, SMT
      <4>4. QED
        BY <1>2, <4>3, Neighbours, HeadAndTail
    <3>2. CASE ~Busy
      <4>1. headFront = front
        BY <3>2, HeadAndTail, HeadOfIdle DEF Busy, InHandleEvents
      <4>2. QED
        BY <1>3, <1>7, <4>1
    <3>3. QED
      BY <3>1, <3>2
  <2>3. Held' = Held + 1
    <3>1. Held' = Dist(headFront, Succ(tailRear))
      BY <1>3, <1>4, <2>1, HeadAndTail
    <3>2. Dist(headFront, Succ(tailRear)) = Dist(headFront, tailRear) + 1
      BY <1>2, <2>2, Neighbours
    <3>3. QED
      BY <3>1, <3>2, HeadAndTail
  <2>4. /\ items' = Append(items, slots[rear]) /\ Len(items) # QUEUE_SIZE - 1
    <3>1. /\ items' = ItemsOf(headFront, Succ(tailRear), slots)
          /\ items = ItemsOf(headFront, tailRear, slots)
      BY <1>1, <1>3, <1>4, <2>1, HeadAndTail
    <3>2. QED
      BY <1>2, <1>3, <2>2, <3>1, PutItem
  <2>5. Abstract!Put(mev)
    BY <1>1, <1>2, <2>4 DEF Abstract!Put
  <2>6. Abstract!Next
    BY <1>2, <2>5 DEF Abstract!Next
  <2>7. Busy => Held >= 2 /\ Held' >= 2 /\ pending'
    <3>1. Busy => Held >= 2 /\ pending
      BY <1>1, Overlap DEF Busy
    <3>2. Held >= 2 => Held' >= 2
      BY <1>2, <2>3, SMT
    <3>3. QED
      BY <1>1, <3>1, <3>2
  <2>8. \A c \in Cpus : CpuInv(c)'
    BY <1>1, <2>7, CpuUndisturbed
  <2>9. ConsoleInv'
    <3>1. Held' >= 1 /\ (Held' >= 2 => Held >= 1)
      BY <1>2, <2>3, SMT
    <3>2. Held' >= 2 => pending'
      BY <1>1, <2>7, <3>1 DEF RingInv, ConsoleInv
    <3>3. mpc' = "flag" /\ mev' \in Events
      BY <1>1, <1>2, <1>7
    <3>4. QED
      BY <3>1, <3>2, <3>3 DEF ConsoleInv
  <2>10. QED
    BY <2>6, <2>8, <2>9 DEF RingInv
<1>8. QED
  BY <1>6, <1>7

LEMMA LoadStep ==
    ASSUME RingInv, TypeOK', Safe', EnqueueLoadFront
    PROVE  RingInv' /\ Unseen
<1>1. /\ mpc = "load" /\ mpc' = "store" /\ mfront' = front
      /\ UNCHANGED <<front, rear, pending, slots, mev, cpu, last, alive>>
  BY DEF EnqueueLoadFront, MainGoto, ring
<1>2. TailOf(mpc', rear') = TailOf(mpc, rear)
  BY <1>1 DEF TailOf
<1>3. Held' = Held /\ Unseen /\ Busy' = Busy
  BY <1>1, <1>2, ConsoleUnseen
<1>4. \A c \in Cpus : CpuInv(c)'
  BY <1>1, <1>3, CpuUndisturbed
<1>5. ConsoleInv'
  BY <1>1, <1>3 DEF RingInv, ConsoleInv
<1>6. QED
  BY <1>3, <1>4, <1>5 DEF RingInv

(* The oldest event is given up for the new one.                           *)
LEMMA StoreStep ==
    ASSUME RingInv, TypeOK', Safe', EnqueueStoreFront
    PROVE  RingInv' /\ Abstract!Next
<1>1. /\ mpc = "store" /\ mpc' = "flag" /\ front' = Succ(mfront)
      /\ UNCHANGED <<rear, pending, slots, mev, cpu, last, alive>>
  BY DEF EnqueueStoreFront, MainGoto
<1>2. /\ rear \in Index /\ front \in Index /\ headFront \in Index /\ tailRear \in Index
      /\ slots \in Slots /\ Held \in Nat /\ Held' \in Nat
      /\ mev \in Events /\ slots[rear] = mev /\ front = rear /\ ~Busy /\ mfront = front
  BY <1>1, StateFacts, NextStateFacts DEF RingInv, TypeOK, ConsoleInv
<1>3. headFront = front /\ Succ(tailRear) = front /\ Held = QUEUE_SIZE - 1
  BY <1>1, <1>2, FullWhenFound
<1>4. Busy' = Busy /\ headFront' = Succ(headFront) /\ tailRear' = Succ(tailRear)
  <2>1. Busy' = Busy /\ cpc' = cpc
    BY <1>1, SameBusy DEF cpu
  <2>2. headFront' = Succ(front)
    BY <1>1, <1>2, <2>1, HeadAndTail, HeadOfIdle DEF Busy, InHandleEvents
  <2>3. tailRear' = rear
    BY <1>1, HeadAndTail DEF TailOf
  <2>4. QED
    BY <1>2, <1>3, <2>1, <2>2, <2>3
<1>5. /\ items' = Append(Tail(items), slots[rear]) /\ Len(items) = QUEUE_SIZE - 1
      /\ Held' = QUEUE_SIZE - 1
  <2>1. /\ items' = ItemsOf(Succ(headFront), Succ(tailRear), slots)
        /\ items = ItemsOf(headFront, tailRear, slots)
        /\ Held' = Dist(Succ(headFront), Succ(tailRear))
    BY <1>1, <1>4, HeadAndTail
  <2>2. Succ(tailRear) = headFront /\ slots[Succ(tailRear)] = slots[rear]
    BY <1>2, <1>3
  <2>3. QED
    BY <1>2, <2>1, <2>2, PutIntoFull
<1>6. Abstract!Put(mev)
  BY <1>1, <1>2, <1>5 DEF Abstract!Put
<1>7. Abstract!Next
  BY <1>2, <1>6 DEF Abstract!Next
<1>8. \A c \in Cpus : CpuInv(c)'
  BY <1>1, <1>2, CpuUndisturbed
<1>9. ConsoleInv'
  <2>1. Held >= 1 /\ Held' >= 1
    BY <1>3, <1>5, Size, SMT
  <2>2. pending'
    BY <1>1, <1>2, <2>1 DEF RingInv, ConsoleInv
  <2>3. QED
    BY <1>1, <1>2, <2>1, <2>2 DEF ConsoleInv
<1>10. QED
  BY <1>7, <1>8, <1>9 DEF RingInv

LEMMA FlagStep ==
    ASSUME RingInv, TypeOK', Safe', EnqueueFlag
    PROVE  RingInv' /\ Unseen
<1>1. /\ mpc = "flag" /\ mpc' = "idle" /\ pending' = TRUE
      /\ UNCHANGED <<front, rear, slots, mfront, cpu, last, alive>>
  BY DEF EnqueueFlag, MainGoto
<1>2. TailOf(mpc', rear') = TailOf(mpc, rear)
  BY <1>1 DEF TailOf
<1>3. Held' = Held /\ Unseen /\ Busy' = Busy
  BY <1>1, <1>2, ConsoleUnseen
<1>4. Busy => Held >= 2 /\ Held' >= 2 /\ pending'
  BY <1>1, <1>3, Overlap DEF Busy
<1>5. \A c \in Cpus : CpuInv(c)'
  BY <1>1, <1>4, CpuUndisturbed
<1>6. ConsoleInv'
  BY <1>1, <1>3 DEF RingInv, ConsoleInv
<1>7. QED
  BY <1>3, <1>5, <1>6 DEF RingInv

-----------------------------------------------------------------------------
(* The steps of a CPU thread.  Another one is not in eve_handleEvents.     *)
LEMMA OnlyOne ==
    ASSUME RingInv, NEW c \in Cpus, InHandleEvents(c), NEW to, cpc' = [cpc EXCEPT ![c] = to]
    PROVE  /\ cpc'[c] = to
           /\ \A d \in Cpus : d # c => cpc[d] = "loop" /\ cpc'[d] = "loop"
           /\ \A d \in Cpus : d # c => CpuInv(d)'
<1>1. /\ cpc'[c] = to
      /\ \A d \in Cpus : d # c => cpc'[d] = cpc[d]
  BY DEF RingInv, TypeOK
<1>2. \A d \in Cpus : d # c => cpc[d] = "loop"
  BY OthersLoop DEF RingInv
<1>3. QED
  BY <1>1, <1>2 DEF CpuInv, InHandleEvents

(* Where the queue begins before and after such a step.                     *)
LEMMA HeadsInHandle ==
    ASSUME RingInv, NEW c \in Cpus, InHandleEvents(c), NEW to, cpc' = [cpc EXCEPT ![c] = to]
    PROVE  /\ HeadOf(cpc, front)
                = IF cpc[c] \in {"loop", "load", "store"} THEN front ELSE Pred(front)
           /\ HeadOf(cpc', front')
                = IF to \in {"loop", "load", "store"} THEN front' ELSE Pred(front')
<1>1. \A d \in Cpus : d # c => cpc[d] = "loop"
  BY OnlyOne
<1>2. cpc'[c] = to /\ \A d \in Cpus : d # c => cpc'[d] = "loop"
  BY OnlyOne
<1>3. HeadOf(cpc, front) = IF cpc[c] \in {"loop", "load", "store"} THEN front ELSE Pred(front)
  BY <1>1, HeadOfOne
<1>4. HeadOf(cpc', front') = IF cpc'[c] \in {"loop", "load", "store"} THEN front' ELSE Pred(front')
  BY <1>2, HeadOfOne
<1>5. QED
  BY <1>2, <1>3, <1>4

(* A step within eve_handleEvents before the call of the handler.          *)
LEMMA WithinHandle ==
    ASSUME RingInv, NEW c \in Cpus, InHandleEvents(c), NEW to, to # "loop",
           cpc' = [cpc EXCEPT ![c] = to], UNCHANGED <<rear, slots, main, last>>,
           HeadOf(cpc', front') = HeadOf(cpc, front),
           pending' = pending \/ mpc = "idle"
    PROVE  /\ Held' = Held /\ Unseen /\ ConsoleInv'
           /\ CpuInv(c)' => \A d \in Cpus : CpuInv(d)'
<1>1. headFront' = headFront /\ tailRear' = tailRear
  BY HeadAndTail DEF main
<1>2. Held' = Held /\ Unseen
  BY <1>1, HeadAndTail DEF Unseen
<1>3. Busy /\ Busy'
  BY OnlyOne DEF Busy, InHandleEvents
<1>4. ConsoleInv'
  BY <1>2, <1>3 DEF main, RingInv, ConsoleInv
<1>5. QED
  BY <1>2, <1>4, OnlyOne

LEMMA HandleStep ==
    ASSUME RingInv, TypeOK', Safe', NEW c \in Cpus, HandleEvents(c)
    PROVE  RingInv' /\ Unseen
<1>1. /\ pending /\ cpc[c] = "loop" /\ cpc' = [cpc EXCEPT ![c] = "load"]
      /\ UNCHANGED <<front, rear, pending, slots, mpc, mev, mfront, cfront, cev, last, alive>>
  BY DEF HandleEvents, CpuGoto, ring, main
<1>2. /\ cpc'[c] = "load"
      /\ \A d \in Cpus : d # c => cpc'[d] = cpc[d]
  BY <1>1 DEF RingInv, TypeOK
<1>3. \A d \in Cpus : d # c => cpc'[d] = "loop"
  <2>1. \A d \in Cpus : cpc'[d] # "loop" /\ cpc'[c] # "loop" => d = c
    BY DEF Safe, OneCpu, InHandleEvents
  <2>2. QED
    BY <1>2, <2>1
<1>4. ~Busy /\ \A d \in Cpus : cpc[d] = "loop"
  BY <1>1, <1>2, <1>3 DEF Busy, InHandleEvents
<1>5. HeadOf(cpc', front') = front /\ HeadOf(cpc, front) = front
  <2>1. HeadOf(cpc, front) = front
    BY <1>4, HeadOfIdle
  <2>2. HeadOf(cpc', front') = front'
    BY <1>2, <1>3, HeadOfOne
  <2>3. QED
    BY <1>1, <2>1, <2>2
<1>6. headFront' = headFront /\ tailRear' = tailRear
  BY <1>1, <1>5, HeadAndTail
<1>7. Held' = Held /\ Unseen
  BY <1>1, <1>6, HeadAndTail DEF Unseen
<1>8. Busy' /\ InHandleEvents(c)'
  BY <1>2 DEF Busy, InHandleEvents
<1>9. mpc \notin {"load", "store"}
  <2> SUFFICES ASSUME mpc \in {"load", "store"} PROVE FALSE
    OBVIOUS
  <2>1. Held = QUEUE_SIZE - 1
    BY <1>4, FullWhenFound DEF RingInv, ConsoleInv
  <2>2. mpc' # "idle" /\ \E d \in Cpus : InHandleEvents(d)'
    BY <1>1, <1>8
  <2>3. Len(items') \in 2 .. QUEUE_SIZE - 2
    BY <2>2 DEF Safe
  <2>4. QED
    BY <1>7, <2>1, <2>3, NextStateFacts, Size, SMT
<1>10. Held >= 1
  BY <1>1, <1>4 DEF RingInv, ConsoleInv
<1>11. ConsoleInv'
  BY <1>1, <1>7, <1>8, <1>9 DEF RingInv, ConsoleInv
<1>12. \A d \in Cpus : CpuInv(d)'
  BY <1>1, <1>2, <1>3, <1>7, <1>10 DEF CpuInv, InHandleEvents
<1>13. QED
  BY <1>7, <1>11, <1>12 DEF RingInv

LEMMA TakeFrontStep ==
    ASSUME RingInv, TypeOK', Safe', NEW c \in Cpus,
           DequeueLoadFront(c) \/ DequeueStoreFront(c) \/ DequeueIndex(c)
    PROVE  RingInv' /\ Unseen
<1>1. front \in Index /\ cfront \in [Cpus -> Index]
  BY DEF RingInv, TypeOK
<1>2. CASE DequeueLoadFront(c)
  <2>1. /\ cpc[c] = "load" /\ cpc' = [cpc EXCEPT ![c] = "store"] /\ InHandleEvents(c)
        /\ cfront' = [cfront EXCEPT ![c] = front]
        /\ UNCHANGED <<front, rear, pending, slots, main, cev, last, alive>>
    BY <1>2 DEF DequeueLoadFront, CpuGoto, ring, InHandleEvents
  <2>2. cpc'[c] = "store" /\ HeadOf(cpc', front') = HeadOf(cpc, front)
    BY <2>1, OnlyOne, HeadsInHandle
  <2>3. Held' = Held /\ Unseen /\ ConsoleInv' /\ (CpuInv(c)' => \A d \in Cpus : CpuInv(d)')
    BY <2>1, <2>2, WithinHandle
  <2>4. CpuInv(c)'
    BY <1>1, <2>1, <2>2, <2>3 DEF RingInv, CpuInv
  <2>5. QED
    BY <2>3, <2>4 DEF RingInv
<1>3. CASE DequeueStoreFront(c)
  <2>1. /\ cpc[c] = "store" /\ cpc' = [cpc EXCEPT ![c] = "index"] /\ InHandleEvents(c)
        /\ front' = Succ(cfront[c])
        /\ UNCHANGED <<rear, pending, slots, main, cfront, cev, last, alive>>
    BY <1>3 DEF DequeueStoreFront, CpuGoto, InHandleEvents
  <2>2. cfront[c] = front
    BY <2>1 DEF RingInv, CpuInv
  <2>3. cpc'[c] = "index" /\ HeadOf(cpc', front') = HeadOf(cpc, front)
    <3>1. HeadOf(cpc, front) = front
      BY <2>1, OnlyOne, HeadsInHandle
    <3>2. cpc'[c] = "index" /\ HeadOf(cpc', front') = Pred(front')
      BY <2>1, OnlyOne, HeadsInHandle
    <3>3. Pred(front') = front
      BY <1>1, <2>1, <2>2, Neighbours
    <3>4. QED
      BY <3>1, <3>2, <3>3
  <2>4. Held' = Held /\ Unseen /\ ConsoleInv' /\ (CpuInv(c)' => \A d \in Cpus : CpuInv(d)')
    BY <2>1, <2>3, WithinHandle
  <2>5. CpuInv(c)'
    BY <2>1, <2>3, <2>4 DEF RingInv, CpuInv
  <2>6. QED
    BY <2>4, <2>5 DEF RingInv
<1>4. CASE DequeueIndex(c)
  <2>1. /\ cpc[c] = "index" /\ cpc' = [cpc EXCEPT ![c] = "fun"] /\ InHandleEvents(c)
        /\ cfront' = [cfront EXCEPT ![c] = front]
        /\ UNCHANGED <<front, rear, pending, slots, main, cev, last, alive>>
    BY <1>4 DEF DequeueIndex, CpuGoto, ring, InHandleEvents
  <2>2. cpc'[c] = "fun" /\ HeadOf(cpc', front') = HeadOf(cpc, front)
    BY <2>1, OnlyOne, HeadsInHandle
  <2>3. Held' = Held /\ Unseen /\ ConsoleInv' /\ (CpuInv(c)' => \A d \in Cpus : CpuInv(d)')
    BY <2>1, <2>2, WithinHandle
  <2>4. CpuInv(c)'
    BY <1>1, <2>1, <2>2, <2>3 DEF RingInv, CpuInv
  <2>5. QED
    BY <2>3, <2>4 DEF RingInv
<1>5. QED
  BY <1>2, <1>3, <1>4

(* The event is copied word by word out of the slot of the oldest event,   *)
(* which the console thread does not write meanwhile.                      *)
LEMMA CopyStep ==
    ASSUME RingInv, TypeOK', Safe', NEW c \in Cpus,
           DequeueFun(c) \/ DequeueArg(c) \/ DequeueFront(c)
    PROVE  RingInv' /\ Unseen
<1>1. /\ front \in Index /\ cfront \in [Cpus -> Index] /\ cev \in [Cpus -> Slot]
      /\ slots[front] \in Slot /\ cev[c] \in Slot
  BY DEF RingInv, TypeOK
<1>2. CASE DequeueFun(c)
  <2>1. /\ cpc[c] = "fun" /\ cpc' = [cpc EXCEPT ![c] = "arg"] /\ InHandleEvents(c)
        /\ cev' = [cev EXCEPT ![c] = [cev[c] EXCEPT !.fun = slots[cfront[c]].fun]]
        /\ UNCHANGED <<front, rear, pending, slots, main, cfront, last, alive>>
    BY <1>2 DEF DequeueFun, CpuGoto, ring, InHandleEvents
  <2>2. cpc'[c] = "arg" /\ HeadOf(cpc', front') = HeadOf(cpc, front)
    BY <2>1, OnlyOne, HeadsInHandle
  <2>3. Held' = Held /\ Unseen /\ ConsoleInv' /\ (CpuInv(c)' => \A d \in Cpus : CpuInv(d)')
    BY <2>1, <2>2, WithinHandle
  <2>4. cfront[c] = front
    BY <2>1 DEF RingInv, CpuInv
  <2>5. cev'[c].fun = slots[front].fun
    BY <1>1, <2>1, <2>4 DEF Slot
  <2>6. CpuInv(c)'
    BY <2>1, <2>2, <2>3, <2>4, <2>5 DEF RingInv, CpuInv
  <2>7. QED
    BY <2>3, <2>6 DEF RingInv
<1>3. CASE DequeueArg(c)
  <2>1. /\ cpc[c] = "arg" /\ cpc' = [cpc EXCEPT ![c] = "front"] /\ InHandleEvents(c)
        /\ cev' = [cev EXCEPT ![c] = [cev[c] EXCEPT !.arg = slots[cfront[c]].arg]]
        /\ UNCHANGED <<front, rear, pending, slots, main, cfront, last, alive>>
    BY <1>3 DEF DequeueArg, CpuGoto, ring, InHandleEvents
  <2>2. cpc'[c] = "front" /\ HeadOf(cpc', front') = HeadOf(cpc, front)
    BY <2>1, OnlyOne, HeadsInHandle
  <2>3. Held' = Held /\ Unseen /\ ConsoleInv' /\ (CpuInv(c)' => \A d \in Cpus : CpuInv(d)')
    BY <2>1, <2>2, WithinHandle
  <2>4. cfront[c] = front /\ cev[c].fun = slots[front].fun
    BY <2>1 DEF RingInv, CpuInv
  <2>5. cev'[c] = [cev[c] EXCEPT !.arg = slots[front].arg]
    BY <1>1, <2>1, <2>4
  <2>6. cev'[c] = slots[front]
    BY <1>1, <2>4, <2>5 DEF Slot
  <2>7. CpuInv(c)'
    BY <2>1, <2>2, <2>3, <2>6 DEF RingInv, CpuInv
  <2>8. QED
    BY <2>3, <2>7 DEF RingInv
<1>4. CASE DequeueFront(c)
  <2>1. /\ cpc[c] = "front" /\ cpc' = [cpc EXCEPT ![c] = "rear"] /\ InHandleEvents(c)
        /\ cfront' = [cfront EXCEPT ![c] = front]
        /\ UNCHANGED <<front, rear, pending, slots, main, cev, last, alive>>
    BY <1>4 DEF DequeueFront, CpuGoto, ring, InHandleEvents
  <2>2. cpc'[c] = "rear" /\ HeadOf(cpc', front') = HeadOf(cpc, front)
    BY <2>1, OnlyOne, HeadsInHandle
  <2>3. Held' = Held /\ Unseen /\ ConsoleInv' /\ (CpuInv(c)' => \A d \in Cpus : CpuInv(d)')
    BY <2>1, <2>2, WithinHandle
  <2>4. cfront'[c] = front
    BY <1>1, <2>1
  <2>5. CpuInv(c)'
    BY <2>1, <2>2, <2>3, <2>4 DEF RingInv, CpuInv
  <2>6. QED
    BY <2>3, <2>5 DEF RingInv
<1>5. QED
  BY <1>2, <1>3, <1>4

(* Past the store of _queueFront, front and rear tell how many events      *)
(* there are.                                                              *)
LEMMA LastOrNot ==
    ASSUME RingInv, NEW c \in Cpus, cpc[c] \notin {"loop", "load", "store"},
           headFront = Pred(front)
    PROVE  /\ front = rear => Held = 1 /\ mpc = "idle"
           /\ front # rear => Held >= 2
<1>1. /\ front \in Index /\ rear \in Index /\ headFront \in Index /\ tailRear \in Index
      /\ Held = Dist(headFront, tailRear) /\ Held \in Nat /\ Held < QUEUE_SIZE
      /\ InHandleEvents(c) /\ Held >= 1
  BY StateFacts, HeadAndTail DEF RingInv, TypeOK, CpuInv, InHandleEvents
<1>2. Succ(headFront) = front
  BY <1>1, Neighbours
<1>3. CASE mpc \in {"idle", "flag"}
  <2>1. tailRear = rear
    BY <1>3, HeadAndTail DEF TailOf
  <2>2. front = rear <=> Held = 1
    BY <1>1, <1>2, <2>1, Neighbours
  <2>3. mpc # "idle" => Held >= 2
    BY <1>1, Overlap
  <2>4. Held # 1 => Held >= 2
    BY <1>1, SMT
  <2>5. ~(Held = 1 /\ Held >= 2)
    BY SMT
  <2>6. QED
    BY <2>2, <2>3, <2>4, <2>5
<1>4. CASE mpc \notin {"idle", "flag"}
  <2>1. front # rear /\ Held >= 2
    BY <1>1, <1>4, SlotsApart, Overlap
  <2>2. QED
    BY <2>1
<1>5. QED
  BY <1>3, <1>4

(* _eventPending is taken back after the last event, and only then.        *)
LEMMA TakeBackStep ==
    ASSUME RingInv, TypeOK', Safe', NEW c \in Cpus, DequeueTest(c) \/ DequeueClear(c)
    PROVE  RingInv' /\ Unseen
<1>1. /\ front \in Index /\ cfront \in [Cpus -> Index] /\ Held \in Nat
      /\ headFront = HeadOf(cpc, front)
  BY StateFacts, HeadAndTail DEF RingInv, TypeOK
<1>2. CASE DequeueTest(c)
  <2> DEFINE to == IF cfront[c] = rear THEN "clear" ELSE "call"
  <2>1. /\ cpc[c] = "rear" /\ cpc' = [cpc EXCEPT ![c] = to] /\ InHandleEvents(c)
        /\ UNCHANGED <<front, rear, pending, slots, main, cev, last, alive>>
    BY <1>2 DEF DequeueTest, CpuGoto, ring, InHandleEvents
  <2>2. cpc'[c] = to /\ HeadOf(cpc', front') = HeadOf(cpc, front) /\ headFront = Pred(front)
    BY <1>1, <2>1, OnlyOne, HeadsInHandle
  <2>3. Held' = Held /\ Unseen /\ ConsoleInv' /\ (CpuInv(c)' => \A d \in Cpus : CpuInv(d)')
    BY <2>1, <2>2, WithinHandle
  <2>4. cfront[c] = front
    BY <2>1 DEF RingInv, CpuInv
  <2>5. (front = rear => Held = 1) /\ (front # rear => Held >= 2)
    BY <2>1, <2>2, LastOrNot
  <2>6. pending /\ Held >= 1 /\ cev[c] = slots[front]
    BY <2>1 DEF RingInv, CpuInv
  <2>7. CpuInv(c)'
    BY <2>1, <2>2, <2>3, <2>4, <2>5, <2>6 DEF CpuInv
  <2>8. QED
    BY <2>3, <2>7 DEF RingInv
<1>3. CASE DequeueClear(c)
  <2>1. /\ cpc[c] = "clear" /\ cpc' = [cpc EXCEPT ![c] = "call"] /\ InHandleEvents(c)
        /\ pending' = FALSE
        /\ UNCHANGED <<front, rear, slots, main, cfront, cev, last, alive>>
    BY <1>3 DEF DequeueClear, CpuGoto, InHandleEvents
  <2>2. cpc'[c] = "call" /\ HeadOf(cpc', front') = HeadOf(cpc, front) /\ headFront = Pred(front)
    BY <1>1, <2>1, OnlyOne, HeadsInHandle
  <2>3. Held = 1 /\ cev[c] = slots[front]
    BY <2>1 DEF RingInv, CpuInv
  <2>4. ~(Held >= 2)
    BY <2>3, SMT
  <2>5. mpc = "idle"
    BY <2>1, <2>4, Overlap
  <2>6. Held' = Held /\ Unseen /\ ConsoleInv' /\ (CpuInv(c)' => \A d \in Cpus : CpuInv(d)')
    BY <2>1, <2>2, <2>5, WithinHandle
  <2>7. Held' >= 1 /\ ~(Held' >= 2)
    BY <2>3, <2>6, SMT
  <2>8. CpuInv(c)'
    BY <2>1, <2>2, <2>3, <2>7 DEF CpuInv
  <2>9. QED
    BY <2>6, <2>8 DEF RingInv
<1>4. QED
  BY <1>2, <1>3

(* The handler is called: the oldest event is handed over.                 *)
LEMMA CallStep ==
    ASSUME RingInv, TypeOK', Safe', NEW c \in Cpus, CallHandler(c)
    PROVE  RingInv' /\ Abstract!Next
<1>1. /\ cpc[c] = "call" /\ cpc' = [cpc EXCEPT ![c] = "loop"] /\ InHandleEvents(c)
      /\ last' = cev[c]
      /\ UNCHANGED <<front, rear, pending, slots, mpc, mev, mfront, cfront>>
  BY DEF CallHandler, CpuGoto, ring, main, InHandleEvents
<1>2. /\ front \in Index /\ rear \in Index /\ headFront \in Index /\ tailRear \in Index
      /\ slots \in Slots /\ Held \in Nat /\ Held = Dist(headFront, tailRear)
  BY StateFacts, HeadAndTail DEF RingInv, TypeOK
<1>3. /\ cpc'[c] = "loop" /\ \A d \in Cpus : d # c => cpc'[d] = "loop"
  BY <1>1, OnlyOne
<1>4. \A d \in Cpus : CpuInv(d)' /\ ~InHandleEvents(d)'
  BY <1>3 DEF CpuInv, InHandleEvents
<1>5. Busy /\ ~Busy'
  BY <1>1, <1>4 DEF Busy
<1>6. Held >= 1 /\ cev[c] = slots[front] /\ (pending <=> Held >= 2)
  BY <1>1 DEF RingInv, CpuInv
<1>7. headFront = Pred(front) /\ Succ(headFront) = front /\ headFront # tailRear
  <2>1. headFront = Pred(front)
    BY <1>1, HeadsInHandle, HeadAndTail
  <2>2. QED
    BY <1>2, <1>6, <2>1, Neighbours
<1>8. headFront' = Succ(headFront) /\ tailRear' = tailRear
  <2>1. HeadOf(cpc', front') = front'
    BY <1>1, HeadsInHandle
  <2>2. QED
    BY <1>1, <1>7, <2>1, HeadAndTail
<1>9. /\ items # <<>> /\ items' = Tail(items) /\ last' = Head(items)
  <2>1. /\ items = ItemsOf(headFront, tailRear, slots)
        /\ items' = ItemsOf(Succ(headFront), tailRear, slots)
    BY <1>1, <1>8, HeadAndTail
  <2>2. QED
    BY <1>1, <1>2, <1>6, <1>7, <2>1, TakeItem
<1>10. Abstract!Next
  BY <1>9 DEF Abstract!Next, Abstract!Take
<1>11. Held' = Held - 1
  <2>1. Held' = Dist(Succ(headFront), tailRear)
    BY <1>8, HeadAndTail
  <2>2. QED
    BY <1>2, <1>7, <2>1, Neighbours
<1>12. ConsoleInv'
  <2>1. /\ Held >= 2 <=> Held' >= 1
        /\ Held' >= 2 => Held >= 2
    BY <1>2, <1>11, SMT
  <2>2. mpc # "idle" => Held >= 2 /\ pending
    BY <1>1, Overlap
  <2>3. mpc \notin {"load", "store"}
    BY <1>5 DEF RingInv, ConsoleInv
  <2>4. pending' = pending /\ mpc' = mpc /\ mev' = mev /\ slots' = slots /\ rear' = rear
    BY <1>1
  <2>5. mpc' = "flag" => Held' >= 1 /\ (Held' >= 2 => pending')
    BY <2>1, <2>2, <2>4
  <2>6. pending' <=> Held' >= 1
    BY <1>6, <2>1, <2>4
  <2>7. QED
    BY <2>3, <2>4, <2>5, <2>6 DEF RingInv, ConsoleInv
<1>13. QED
  BY <1>4, <1>10, <1>12 DEF RingInv

-----------------------------------------------------------------------------
LEMMA RingInit == Init => RingInv /\ Abstract!Init
<1> SUFFICES ASSUME Init PROVE RingInv /\ Abstract!Init
  OBVIOUS
<1>1. /\ front = 0 /\ rear = 0 /\ pending = FALSE /\ mpc = "idle" /\ last = NullEvent
      /\ \A c \in Cpus : cpc[c] = "loop"
  BY DEF Init
<1>2. TypeOK
  BY InitTyped
<1>3. headFront = 0 /\ tailRear = 0
  BY <1>1, HeadAndTail, HeadOfIdle DEF TailOf
<1>4. Held = 0
  <2>1. 0 \in Index
    BY <1>1, <1>2 DEF TypeOK
  <2>2. Dist(0, 0) = 0
    BY <2>1, Indices
  <2>3. QED
    BY <1>3, <2>2 DEF Held
<1>5. ~(Held >= 1)
  BY <1>4, SMT
<1>6. ~Busy /\ \A c \in Cpus : ~InHandleEvents(c)
  BY <1>1 DEF Busy, InHandleEvents
<1>7. Safe /\ ConsoleInv /\ \A c \in Cpus : CpuInv(c)
  BY <1>1, <1>5, <1>6 DEF Safe, OneCpu, InHandleEvents, ConsoleInv, CpuInv
<1>8. items = <<>>
  BY <1>2, <1>4, StateFacts
<1>9. QED
  BY <1>1, <1>2, <1>7, <1>8 DEF RingInv, Abstract!Init

LEMMA RingStep == RingInv /\ [Next /\ Safe']_vars => RingInv' /\ (Unseen \/ Abstract!Next)
<1> SUFFICES ASSUME RingInv, [Next /\ Safe']_vars
             PROVE  RingInv' /\ (Unseen \/ Abstract!Next)
  OBVIOUS
<1>1. TypeOK'
  BY NextTyped DEF RingInv
<1>2. CASE UNCHANGED vars
  <2>1. UNCHANGED <<front, rear, pending, slots, mpc, mev, mfront, cpc, cfront, cev, last, alive>>
    BY <1>2 DEF vars, ring, main, cpu
  <2>2. headFront' = headFront /\ tailRear' = tailRear
    BY <2>1, HeadAndTail
  <2>3. Held' = Held /\ items' = items /\ Busy' = Busy
    BY <2>1, <2>2, HeadAndTail, SameBusy DEF cpu
  <2>4. Safe'
    BY <2>1, <2>3 DEF RingInv, Safe, OneCpu, InHandleEvents
  <2>5. ConsoleInv'
    BY <2>1, <2>3 DEF RingInv, ConsoleInv
  <2>6. \A c \in Cpus : CpuInv(c)'
    BY <2>1, <2>3 DEF RingInv, CpuInv, InHandleEvents
  <2>7. QED
    BY <1>1, <2>1, <2>3, <2>4, <2>5, <2>6 DEF RingInv, Unseen
<1>3. ASSUME Safe', NEW e \in Events, EnqueueRear(e)
      PROVE  RingInv' /\ (Unseen \/ Abstract!Next)
  BY <1>1, <1>3, RearStep
<1>4. ASSUME Safe', Enqueue PROVE RingInv' /\ (Unseen \/ Abstract!Next)
  BY <1>1, <1>4, WordStep, TestStep, LoadStep, StoreStep, FlagStep DEF Enqueue
<1>5. ASSUME Safe', NEW c \in Cpus, HandleEvents(c)
      PROVE  RingInv' /\ (Unseen \/ Abstract!Next)
  BY <1>1, <1>5, HandleStep
<1>6. ASSUME Safe', NEW c \in Cpus, Dequeue(c)
      PROVE  RingInv' /\ (Unseen \/ Abstract!Next)
  BY <1>1, <1>6, TakeFrontStep, CopyStep, TakeBackStep, CallStep DEF Dequeue
<1>7. QED
  BY <1>2, <1>3, <1>4, <1>5, <1>6 DEF Next

(* Whatever harmless overlaps happen, for a ring of any size: what         *)
(* eve_enqueueEvent and eve_handleEvents do together is what the abstract  *)
(* queue does.  Events are handed over whole, once, in the order in which  *)
(* they were put, and the only ones lost are the oldest of a full ring.    *)
THEOREM RingIsABoundedQueue == SafeSpec => ImplementsBoundedQueue
<1>1. RingInv /\ [Next /\ Safe']_vars => [Abstract!Next]_(Abstract!qvars)
  BY RingStep DEF Unseen, Abstract!qvars
<1>2. QED
  BY <1>1, RingInit, RingStep, PTL DEF SafeSpec, ImplementsBoundedQueue, Abstract!Spec
=============================================================================
