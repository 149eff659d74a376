------------------------------ MODULE MCTimers ------------------------------
(***************************************************************************)
(* The two timers, in the two programs that use one: the CLINT's with the   *)
(* delays (ClintTimer), and the SoC's in test_timer() (TimerDemo).          *)
(***************************************************************************)
EXTENDS ClintTimer

CONSTANTS Second, PrintTicks, Expiries

VARIABLES
    program,        \* which of them was built: "clint" or "demo"
    dpc, left, dipc, ileft, enabled, userdef, load, count, intstatus,
    g_count, g_time_old, g_time_elapsed, now, expired

demo == <<dpc, left, dipc, ileft, enabled, userdef, load, count, intstatus,
          g_count, g_time_old, g_time_elapsed, now, expired>>

Demo == INSTANCE TimerDemo WITH pc <- dpc, ipc <- dipc

ASSUME DemoAssumption == Demo!TimerDemoConstants

Init ==
    /\ program \in {"clint", "demo"}
    /\ ClintInit /\ Demo!Init
    /\ program = "demo" => timecmpl0 = 0 /\ timecmph0 = 0
    /\ program = "clint" => ~enabled /\ ~userdef /\ count = 0

InDemo(A) == program = "demo" /\ A /\ UNCHANGED <<program, clintVars>>
InClint(A) == program = "clint" /\ A /\ UNCHANGED <<program, demo>>

Next ==
    \/ InDemo(Demo!MainStep) \/ InDemo(Demo!IsrStep) \/ InDemo(Demo!Tick) \/ InDemo(Demo!Returned)
    \/ InClint(ClintNext)

vars == <<program, demo, clintVars>>

\* The fairness of each module
Spec ==
    /\ Init /\ [][Next]_vars
    /\ WF_vars(InDemo(Demo!MainStep)) /\ WF_vars(InDemo(Demo!IsrStep)) /\ WF_vars(InDemo(Demo!Tick))
    /\ WF_vars(InClint(IsrStep))

\* NthPeriod, Ends and DoneMeansOff of TimerDemo: the n-th interrupt of test_timer() comes n
\* seconds after the one before, and the demo ends, with its timer off.
NthPeriod == program = "demo" => Demo!NthPeriod
Ends == program = "demo" => Demo!Ends
DoneMeansOff == program = "demo" => Demo!DoneMeansOff
=============================================================================
