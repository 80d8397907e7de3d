----------------------------- MODULE MCEmulator -----------------------------
(* The instance of Emulator for TLC. *)
EXTENDS Emulator

(* The pin of INT0 is set to high.  While the event is half written into a *)
(* fresh slot, the slot says low.                                          *)
OneEvent == [fun : {"eve_writeToInt0Pin"}, arg : {1}]

(* The program leaves the pins and the senses alone. *)
NoPins == [p \in {"B", "C", "D"} |-> {}]
NoSenses == {}
None == {{}}

(* It may enable INT0, which then interrupts on the level. *)
Int0 == {{0}}
=============================================================================
