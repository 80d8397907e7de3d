----------------------------- MODULE CpuControl -----------------------------
(***************************************************************************)
(* Starting and stopping the CPU: main.c starts a thread that runs the     *)
(* loop of cpu.h (_run or _runVerbose) and its console command 's' starts  *)
(* another one, 'h' raises _cpuStopSignal.  All threads share that one     *)
(* flag without a lock, so each action is one load or store of it.  What a *)
(* round of the loop does to the machine is left to other modules.         *)
(***************************************************************************)
CONSTANTS
    Threads,    \* the threads that can exist at one time
    Users       \* the kinds of users who may sit at the console

ASSUME UsersAssumption == Users \subseteq {"any", "alternating", "patient"}

VARIABLES
    threadPc,     \* where each thread is; "none" if there is no such thread
    verbose,      \* whether it runs _runVerbose
    stopSignal,   \* _cpuStopSignal
    console,      \* "boot" until main enters its command loop
    last,         \* the command that was given last, to start or to stop
    screen,       \* the kinds of lines printed since the last start
    alive,        \* FALSE once the process has exited
    user          \* who types the commands

cpuVars == <<threadPc, verbose, stopSignal, console, last, screen, alive, user>>

CpuInit ==
    /\ threadPc = [t \in Threads |-> "none"]
    /\ verbose = [t \in Threads |-> FALSE]
    /\ stopSignal = FALSE
    /\ console = "boot"
    /\ last = "none"
    /\ screen = {}
    /\ alive = TRUE
    /\ user \in Users

Live == {t \in Threads : threadPc[t] # "none"}

-----------------------------------------------------------------------------
(* The console thread.                                                     *)

(* cpu_start and cpu_startVerbose: nobody looks at the result of           *)
(* pthread_create, which fails when no thread can be had.                  *)
CpuStart(v) ==
    /\ \/ \E t \in Threads \ Live :
             /\ threadPc' = [threadPc EXCEPT ![t] = "created"]
             /\ verbose' = [verbose EXCEPT ![t] = v]
       \/ Live = Threads /\ UNCHANGED <<threadPc, verbose>>
    /\ last' = "start"
    /\ screen' = {}

(* main starts the CPU once, with or without -v. *)
Boot ==
    /\ alive /\ console = "boot"
    /\ \E v \in BOOLEAN : CpuStart(v)
    /\ console' = "loop"
    /\ UNCHANGED <<stopSignal, alive, user>>

CommandStart ==
    /\ alive /\ console = "loop"
    /\ CpuStart(TRUE)
    /\ UNCHANGED <<stopSignal, console, alive, user>>

(* A fault the runs must notice: the end of the CPU is reported too soon,  *)
(* by the command itself.                                                  *)
CommandStopReports ==
    /\ alive /\ console = "loop"
    /\ stopSignal' = TRUE
    /\ last' = "stop"
    /\ screen' = screen \cup {"stopped"}
    /\ UNCHANGED <<threadPc, verbose, console, alive, user>>

CommandStop ==
    /\ alive /\ console = "loop"
    /\ stopSignal' = TRUE
    /\ last' = "stop"
    /\ UNCHANGED <<threadPc, verbose, console, screen, alive, user>>

CommandExit ==
    /\ alive /\ console = "loop"
    /\ alive' = FALSE
    /\ UNCHANGED <<threadPc, verbose, stopSignal, console, last, screen, user>>

-----------------------------------------------------------------------------
(* A CPU thread.                                                           *)

Goto(t, from, to) == alive /\ threadPc[t] = from /\ threadPc' = [threadPc EXCEPT ![t] = to]

(* A fault the runs must notice: the assignment in front of the loop is    *)
(* missing.                                                                *)
ResetMissing(t) ==
    /\ Goto(t, "created", "test")
    /\ UNCHANGED <<verbose, stopSignal, console, last, screen, alive, user>>

(* The assignment in front of the loop. *)
Reset(t) ==
    /\ Goto(t, "created", "test")
    /\ stopSignal' = FALSE
    /\ UNCHANGED <<verbose, console, last, screen, alive, user>>

(* A fault the runs must notice: "cpu stopped" is printed before the       *)
(* signal is taken back.                                                   *)
TestReports(t) ==
    /\ Goto(t, "test", IF stopSignal THEN "clear" ELSE "round")
    /\ screen' = screen \cup IF stopSignal THEN {"stopped"} ELSE {}
    /\ UNCHANGED <<verbose, stopSignal, console, last, alive, user>>

(* while (!_cpuStopSignal) *)
Test(t) ==
    /\ Goto(t, "test", IF stopSignal THEN "clear" ELSE "round")
    /\ UNCHANGED <<verbose, stopSignal, console, last, screen, alive, user>>

(* The body of the loop; _runVerbose prints the next instruction. *)
Round(t) ==
    /\ Goto(t, "round", "test")
    /\ screen' = screen \cup IF verbose[t] THEN {"trace"} ELSE {}
    /\ UNCHANGED <<verbose, stopSignal, console, last, alive, user>>

(* An instruction that accesses a bad address ends the process. *)
Fault(t) ==
    /\ alive /\ threadPc[t] = "round"
    /\ alive' = FALSE
    /\ UNCHANGED <<threadPc, verbose, stopSignal, console, last, screen, user>>

(* A fault the runs must notice: the assignment behind the loop is missing. *)
ClearMissing(t) ==
    /\ Goto(t, "clear", "print")
    /\ UNCHANGED <<verbose, stopSignal, console, last, screen, alive, user>>

(* The assignment behind the loop. *)
Clear(t) ==
    /\ Goto(t, "clear", "print")
    /\ stopSignal' = FALSE
    /\ UNCHANGED <<verbose, console, last, screen, alive, user>>

(* A fault the runs must notice: the thread hangs instead of ending. *)
PrintStoppedHangs(t) ==
    /\ Goto(t, "print", "hangs")
    /\ screen' = screen \cup {"stopped"}
    /\ UNCHANGED <<verbose, stopSignal, console, last, alive, user>>

(* "cpu stopped" is printed and the thread ends. *)
PrintStopped(t) ==
    /\ Goto(t, "print", "none")
    /\ screen' = screen \cup {"stopped"}
    /\ UNCHANGED <<verbose, stopSignal, console, last, alive, user>>

Thread(t) == Reset(t) \/ Test(t) \/ Round(t) \/ Clear(t) \/ PrintStopped(t)

Cpu == \E t \in Threads : Thread(t) \/ Fault(t)

-----------------------------------------------------------------------------
(* Every thread goes on as long as the process lives, and main starts the  *)
(* CPU; the user need not type anything.                                   *)
Fairness == WF_cpuVars(Boot) /\ \A t \in Threads : WF_cpuVars(Thread(t))

(* Any user types any command at any time; an alternating one starts and   *)
(* stops in turn, without looking at the screen; a patient one reads the   *)
(* screen, starts the CPU again only after "cpu stopped" was printed and   *)
(* stops it only after it has printed an instruction.                      *)
MayStart ==
    CASE user = "any"         -> TRUE
      [] user = "alternating" -> last = "stop"
      [] user = "patient"     -> "stopped" \in screen

MayStop ==
    CASE user = "any"         -> TRUE
      [] user = "alternating" -> last = "start"
      [] user = "patient"     -> screen = {"trace"}

CpuNext ==
    \/ Boot \/ CommandExit \/ Cpu
    \/ MayStart /\ CommandStart
    \/ MayStop /\ CommandStop

CpuSpec == CpuInit /\ [][CpuNext]_cpuVars /\ Fairness

-----------------------------------------------------------------------------
CpuTypeOK ==
    /\ threadPc \in [Threads -> {"none", "created", "test", "round", "clear", "print"}]
    /\ verbose \in [Threads -> BOOLEAN]
    /\ stopSignal \in BOOLEAN
    /\ console \in {"boot", "loop"}
    /\ last \in {"none", "start", "stop"}
    /\ screen \subseteq {"trace", "stopped"}
    /\ alive \in BOOLEAN
    /\ user \in Users

(* No two threads execute the program of the machine at one time: the      *)
(* registers, the memory and the event queue have no lock, so the CPU can  *)
(* "continue execution where it has been stopped" only if this holds.      *)
AtMostOneCpu ==
    \A s, t \in Threads : threadPc[s] = "round" /\ threadPc[t] = "round" => s = t

(* For a patient user it does hold.                                        *)
PatientAtMostOneCpu == user = "patient" => AtMostOneCpu

(* After a patient user's stop, unless a start is typed later, no thread   *)
(* runs the CPU any more.                                                  *)
StopObeyed ==
    user = "patient" /\ last = "stop" ~> Live = {} \/ last = "start" \/ ~alive

(* After a patient user's start, unless a stop is typed later, some thread *)
(* executes instructions.                                                  *)
StartObeyed ==
    user = "patient" /\ last = "start"
        ~> (\E t \in Threads : threadPc[t] = "round") \/ last = "stop" \/ ~alive

(* A patient user's loop ends only because of a stop typed after the       *)
(* latest start: a signal left over from before never ends a new run.      *)
OnlyStopEndsTheLoop ==
    [][user = "patient" =>
          \A t \in Threads :
             threadPc[t] = "test" /\ threadPc'[t] = "clear" => last = "stop"]_cpuVars

(* Whatever the user types, a signal that is raised while some thread has  *)
(* not left its loop is taken: it does not stay raised and keep the loops  *)
(* of later starts from running.                                           *)
SignalConsumed ==
    stopSignal /\ (\E t \in Live : threadPc[t] # "print") ~> ~stopSignal \/ ~alive
=============================================================================
