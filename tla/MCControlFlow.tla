---------------------------- MODULE MCControlFlow ----------------------------
(***************************************************************************)
(* Three programs of 23 words at most in a memory of 24: one with every    *)
(* kind of instruction and a loop, one that jumps around the end of the    *)
(* memory, one with a branch ahead.                                        *)
(***************************************************************************)
EXTENDS ControlFlow

W(op, k) == [op |-> op, k |-> k]
Then(op, k) == <<W(op, 0), W("operand", k)>>

(* The instructions one after the other, nothing behind them. *)
Assembled(s) ==
    LET used == 1 .. Len(s)
    IN  [word   |-> [a \in Address |-> IF a + 1 \in used THEN s[a + 1] ELSE W("operand", 0)],
         starts |-> {a \in Address : a + 1 \in used /\ s[a + 1].op # "operand"}]

(* 0 rjmp 4; 1 the routine: pop; 2 sbic; 3 reti; 4 sbis; 5 lds32; 7 call   *)
(* 17; 9 sbic; 10 jmp 4; 12 sbis; 13 rcall 17; 14 brne 12; 15 jmp 4;       *)
(* 17 a subroutine: lds16; 18 sbis; 19 sts; 21 ret                         *)
EveryKind == Assembled(
    <<W("rjmp", 3), W("pop", 0), W("skip", 0), W("ret", 0), W("skip", 0)>>
      \o Then("load", 3) \o Then("call", 17)
      \o <<W("skip", 0)>> \o Then("jmp", 4)
      \o <<W("skip", 0), W("rcall", 3), W("brne", 5)>> \o Then("jmp", 4)
      \o <<W("lds16", 0), W("skip", 0)>> \o Then("load", 2) \o <<W("ret", 0)>>)

(* 0 plain; 1 the routine: plain; 2 rcall around address 0 to 21; 3 rjmp   *)
(* to itself; 21 rjmp around the end to 1; 22 ret                          *)
AroundTheEnd ==
    [word |-> [a \in Address |->
                  CASE a = 2 -> W("rcall", 10) [] a = 3 -> W("rjmp", 15)
                    [] a = 21 -> W("rjmp", 3)  [] a = 22 -> W("ret", 0)
                    [] OTHER -> W("plain", 0)],
     starts |-> {0, 1, 2, 3, 21, 22}]

(* 0 plain; 1 the routine: brne 3; 2 plain; 3 rjmp 0 *)
Ahead == Assembled(<<W("plain", 0), W("brne", 1), W("plain", 0), W("rjmp", 12)>>)

AllPrograms == {EveryKind, AroundTheEnd, Ahead}
=============================================================================
