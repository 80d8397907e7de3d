---------------------------- MODULE MCInterrupts ----------------------------
(* Instances of Interrupts for TLC. *)
EXTENDS Interrupts

None == {{}}
Bit2 == {{2}}

(* The pins of both external interrupts rise and fall by events alone. *)
NoPins == [p \in {"B", "C", "D"} |-> {{}}]

(* The program drives pin 5 as an output or not. *)
DrivePin5 == {{}, {3}}

BothInt == {{0, 1}}
Group2 == {{2}}

(* Both edges, any change and the level occur. *)
TwoSenses == {[n \in 0 .. 1 |-> IF n = 0 THEN "RISING" ELSE "FALLING"],
              [n \in 0 .. 1 |-> IF n = 0 THEN "CHANGING" ELSE "LOW"]}

(* A write to a flag register raises the flag of a pin change on port C.   *)
Pcif1 == {{"PCIF1"}}
=============================================================================
