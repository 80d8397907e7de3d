---------------------------- MODULE MCEventQueue ----------------------------
(* Instances of EventQueue for TLC. *)
EXTENDS EventQueue

(* The two events that differ in both words of a slot, so that a slot read *)
(* half written shows.                                                     *)
MCEvents == {[fun |-> "eve_writeToInt0Pin", arg |-> 1],
             [fun |-> "eve_writeToInt1Pin", arg |-> 0]}

(* A single event, where only how many there are matters. *)
MCOneEvent == {[fun |-> "eve_writeToInt0Pin", arg |-> 1]}
=============================================================================
