----------------------------- MODULE TimerDemo ------------------------------
(***************************************************************************)
(* source/test/test_timer.c: a timer in user-defined mode whose load        *)
(* register is written one period ahead, by the main program and by the     *)
(* interrupt handler, while the counter runs.  Time is counted in ticks of  *)
(* 1/Second seconds; a printf takes one of PrintTicks.                      *)
(***************************************************************************)
EXTENDS Integers

CONSTANTS Second, PrintTicks, Expiries

\* A printf takes less than a second: SecondTop and IsrSetTop are in time only because of that.
TimerDemoConstants ==
    /\ Second \in Nat \ {0} /\ Expiries \in Nat \ {0}
    /\ PrintTicks \subseteq 0 .. (Second - 1)

VARIABLES
    pc, left, ipc, ileft,              \* the main program and the handler; time left
    enabled, userdef, load, count,     \* TimerNControlReg bits, TimerNLoadCount, counter
    intstatus,                         \* TimerNIntStatus and the line
    g_count, g_time_old, g_time_elapsed,
    now,                               \* what clint_timer_meter_get_ms() reads, in ticks
    expired                            \* (history) how often the counter ran out

code == <<pc, left, ipc, ileft>>
timer == <<enabled, userdef, load, count, intstatus>>
globals == <<g_count, g_time_old, g_time_elapsed>>
vars == <<code, timer, globals, now, expired>>

\* An earlier stage may have left the timer running, but without its interrupt up.
Init ==
    /\ pc = "stop" /\ left = 0 /\ ipc = "idle" /\ ileft = 0
    /\ enabled \in BOOLEAN /\ userdef \in BOOLEAN
    /\ load = 0 /\ count \in {0, Second} /\ intstatus = FALSE
    /\ g_count = 0 /\ g_time_old = 0 /\ g_time_elapsed = 0
    /\ now = 0 /\ expired = 0

At(p, q) == ipc = "idle" /\ pc = p /\ left = 0 /\ pc' = q /\ UNCHANGED <<ipc, ileft, now, expired>>

\* timer_init(): stop, choose user-defined mode, request the interrupt
Stop == At("stop", "mode") /\ enabled' = FALSE
        /\ UNCHANGED <<left, userdef, load, count, intstatus, globals>>

SetMode == At("mode", "top1") /\ userdef' = TRUE /\ g_count' = 1 /\ left' \in PrintTicks
           /\ UNCHANGED <<enabled, load, count, intstatus, g_time_old, g_time_elapsed>>

\* timer_set_top() prints, then writes the load register.
SetTop(secs) == load' = secs * Second /\ UNCHANGED <<enabled, userdef, count, intstatus>>

FirstTop == At("top1", "enable") /\ SetTop(g_count) /\ UNCHANGED <<left, globals>>

\* timer_enable(timer, 1) starts the counter from the load register (external)
Enable == At("enable", "old") /\ enabled' = TRUE /\ count' = load
          /\ UNCHANGED <<left, userdef, load, intstatus, globals>>

TimeOld == At("old", "top2") /\ g_time_old' = now /\ left' \in PrintTicks
           /\ UNCHANGED <<timer, g_count, g_time_elapsed>>

\* Fault: the second period is left to the handler.
FaultNoPreload == At("top2", "wait") /\ UNCHANGED <<left, timer, globals>>

SecondTop == At("top2", "wait") /\ SetTop(g_count + 1) /\ UNCHANGED <<left, globals>>

\* while (g_count);
Finish == At("wait", "done") /\ g_count = 0 /\ UNCHANGED <<left, timer, globals>>

-----------------------------------------------------------------------------
\* timer_irq_handler(): the interrupt is cleared, the time measured and printed, ...
IsrEnter ==
    /\ ipc = "idle" /\ intstatus
    /\ intstatus' = FALSE
    /\ g_time_elapsed' = now - g_time_old /\ g_time_old' = now
    /\ ipc' = "print" /\ ileft' \in PrintTicks
    /\ UNCHANGED <<pc, left, enabled, userdef, load, count, g_count, now, expired>>

IsrAt(p, q) == ipc = p /\ ileft = 0 /\ ipc' = q /\ UNCHANGED <<pc, left, now, expired>>

\* Fault: the timer is stopped but its end not announced.
FaultCountKept ==
    /\ IsrAt("print", IF g_count < Expiries THEN "top" ELSE "off")
    /\ IF g_count < Expiries THEN g_count' = g_count + 1 /\ ileft' \in PrintTicks
                             ELSE UNCHANGED <<g_count, ileft>>
    /\ UNCHANGED <<timer, g_time_old, g_time_elapsed>>

\* ... and the period after the next is prepared, or the end announced to the main program ...
IsrCount ==
    /\ IsrAt("print", IF g_count < Expiries THEN "top" ELSE "off")
    /\ IF g_count < Expiries THEN g_count' = g_count + 1 /\ ileft' \in PrintTicks
                             ELSE g_count' = 0 /\ UNCHANGED ileft
    /\ UNCHANGED <<timer, g_time_old, g_time_elapsed>>

IsrSetTop == IsrAt("top", "idle") /\ SetTop(g_count + 1) /\ UNCHANGED <<ileft, globals>>

\* ... and then the timer stopped.
IsrOff ==
    /\ IsrAt("off", "idle")
    /\ enabled' = FALSE
    /\ UNCHANGED <<ileft, userdef, load, count, intstatus, globals>>

-----------------------------------------------------------------------------
\* The free-running mode starts again from 2^32 - 1 (external); here from far beyond.
FreeTop == 100 * Second

\* With the timer off the clock is read no further than this; the demo ends long before.
Horizon == 100 * Second

Tick ==
    /\ IF ipc = "idle" THEN ~intstatus /\ (left > 0 \/ (pc = "wait" /\ g_count > 0))
                       ELSE ileft > 0
    /\ left' = IF left > 0 THEN left - 1 ELSE 0
    /\ ileft' = IF ileft > 0 THEN ileft - 1 ELSE 0
    /\ now' = IF enabled \/ now < Horizon THEN now + 1 ELSE now
    /\ IF enabled /\ count <= 1
       THEN /\ count' = (IF userdef THEN load ELSE FreeTop)
            /\ intstatus' = TRUE /\ expired' = expired + 1
       ELSE /\ count' = (IF enabled THEN count - 1 ELSE count)
            /\ UNCHANGED <<intstatus, expired>>
    /\ UNCHANGED <<pc, ipc, enabled, userdef, load, globals>>

\* test_timer() has returned.
Returned == ipc = "idle" /\ pc = "done" /\ UNCHANGED vars

MainStep == Stop \/ SetMode \/ FirstTop \/ Enable \/ TimeOld \/ SecondTop \/ Finish
IsrStep == IsrEnter \/ IsrCount \/ IsrSetTop \/ IsrOff
Next == MainStep \/ IsrStep \/ Tick \/ Returned

\* The hart executes, takes the interrupt, and time passes.
Spec == Init /\ [][Next]_vars /\ WF_vars(MainStep) /\ WF_vars(IsrStep) /\ WF_vars(Tick)

-----------------------------------------------------------------------------
\* The counters stay within the longest period ever loaded and the run within its length.
TypeOK ==
    /\ pc \in {"stop", "mode", "top1", "enable", "old", "top2", "wait", "done"}
    /\ ipc \in {"idle", "print", "top", "off"}
    /\ left \in Nat /\ ileft \in Nat
    /\ enabled \in BOOLEAN /\ userdef \in BOOLEAN /\ intstatus \in BOOLEAN
    /\ load \in 0 .. (Expiries + 1) * Second /\ count \in 0 .. (Expiries + 1) * Second
    /\ g_count \in 0 .. Expiries
    /\ g_time_old \in 0 .. now /\ g_time_elapsed \in Nat /\ now \in Nat

\* "The first timeout is 1 s, then 2 s is set, then 3 s, and so on" (the comment that opens
\* the demo): the n-th interrupt comes, and is counted as, the n-th, exactly n seconds after the
\* one before, however long the prints (below a second) of the handler and of the main program
\* take, although both write the load register while the counter runs.
NthPeriod ==
    ipc = "print" => g_count = expired /\ g_time_elapsed = expired * Second

\* When main sees g_count = 0 the handler is through with all of it: the timer is off, no
\* interrupt is under way, and it has expired exactly as often as it should.
DoneMeansOff ==
    pc = "done" => ~enabled /\ ~intstatus /\ ipc = "idle" /\ expired = Expiries

\* "After five expiries the timer is stopped and the demo ends": it ends, and when it has, the
\* timer is off, no interrupt is under way and it expired exactly that often.
Ends == <>[](pc = "done" /\ ~enabled /\ ~intstatus /\ ipc = "idle" /\ expired = Expiries)
=============================================================================
