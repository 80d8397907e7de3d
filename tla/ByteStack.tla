------------------------------ MODULE ByteStack ------------------------------
(***************************************************************************)
(* What the comments of call, ret, push and pop promise: a stack of bytes. *)
(* A word is pushed high byte first, so that popping it yields the bytes   *)
(* low byte first.  Popping more than there is ends the process.           *)
(***************************************************************************)
EXTENDS Naturals, Sequences

CONSTANTS Words,    \* return addresses
          Data,     \* values of general purpose registers
          Size      \* the number of bytes the stack can hold

Low(w)  == <<w, "low">>
High(w) == <<w, "high">>
Byte(d) == <<d, "data">>

VARIABLES bytes,    \* the stack, its top last
          got,      \* the bytes popped last
          fault     \* how many bytes were wanted when there were too few, or 0

svars == <<bytes, got, fault>>

Init == bytes = <<>> /\ got = <<>> /\ fault = 0

Grow(more) ==
    /\ fault = 0
    /\ Len(bytes) + Len(more) <= Size
    /\ bytes' = bytes \o more
    /\ UNCHANGED <<got, fault>>

PushByte(d) == Grow(<<Byte(d)>>)
PushWord(w) == Grow(<<High(w), Low(w)>>)

(* The n topmost bytes are removed, the top first. *)
PopBytes(n) ==
    /\ fault = 0
    /\ Len(bytes) >= n
    /\ got' = [i \in 1 .. n |-> bytes[Len(bytes) + 1 - i]]
    /\ bytes' = SubSeq(bytes, 1, Len(bytes) - n)
    /\ UNCHANGED fault

Underflow(n) ==
    /\ fault = 0
    /\ Len(bytes) < n
    /\ fault' = n
    /\ UNCHANGED <<bytes, got>>

Next ==
    \/ \E d \in Data : PushByte(d)
    \/ \E w \in Words : PushWord(w)
    \/ \E n \in 1 .. 2 : PopBytes(n) \/ Underflow(n)

Spec == Init /\ [][Next]_svars
=============================================================================
