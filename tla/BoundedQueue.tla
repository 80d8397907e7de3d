---------------------------- MODULE BoundedQueue ----------------------------
(***************************************************************************)
(* What the event queue of eventhandler.h promises its two users: a first  *)
(* in, first out queue of at most Capacity events.  Putting an event into  *)
(* a full queue gives up the oldest one; taking from an empty queue is     *)
(* impossible.  last is the event most recently handed to its handler.     *)
(***************************************************************************)
EXTENDS Naturals, Sequences

CONSTANTS Event,      \* the events that can be put
          NoEvent,    \* "nothing was handed over yet"
          Capacity    \* the number of events the queue can hold

VARIABLES items, last

qvars == <<items, last>>

Init == items = <<>> /\ last = NoEvent

(* An event is appended; a full queue first forgets its oldest event. *)
Put(e) ==
    /\ items' = Append(IF Len(items) = Capacity THEN Tail(items) ELSE items, e)
    /\ UNCHANGED last

(* The oldest event is handed over. *)
Take ==
    /\ items # <<>>
    /\ last' = Head(items)
    /\ items' = Tail(items)

Next == Take \/ \E e \in Event : Put(e)

Spec == Init /\ [][Next]_qvars
=============================================================================
