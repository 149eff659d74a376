------------------------------ MODULE RtcAlarm ------------------------------
(***************************************************************************)
(* The clock and the alarm of test_rtc.c: rtc_enable_sec_counter() loads    *)
(* and starts the seconds counter, test_rtc_irq() asks for an alarm after   *)
(* one second, and rtc_isr() for another three seconds after each.  The RTC *)
(* is external: it counts seconds when it was loaded, and the alarm line is *)
(* up while the alarm is enabled and its second is the present one.         *)
(***************************************************************************)
EXTENDS Naturals

CONSTANTS
    Seconds,    \* what mktime() makes of 18 March 2024
    Kept,       \* RTC_MACRO_RO_T, the time kept over the reset: a set
    Left,       \* whether an earlier run may have left the alarm enabled: BOOLEAN or {FALSE}
    MaxTime     \* bound on the time

ASSUME AlarmAssumption ==
    /\ {Seconds, MaxTime} \subseteq Nat
    /\ Kept \subseteq Nat /\ Left \subseteq BOOLEAN

VARIABLES
    pc, sec, main_now,      \* the main program, its sec and val64
    handler, isr_now,       \* rtc_isr() and its val64
    open,                   \* request_irq() was called
    ro_t,                   \* RTC_MACRO_RO_T
    set_value, loading,     \* RTC_SET_SEC_CNTR_VALUE; it is being loaded
    now, running,           \* RTC_SEC_CNTR_VALUE; the counter counts
    alarm, enabled,         \* RTC_ALARM_TIME, RTC_ALARM_ENABLE
    left                    \* (history) an earlier run left the alarm enabled

main == <<pc, sec, main_now>>
isr == <<handler, isr_now>>
counter == <<set_value, loading, now, running>>
chip == <<ro_t, counter, alarm, enabled>>
vars == <<main, isr, open, chip, left>>

\* Before the counter is loaded it shows nothing of use; the alarm is disabled after
\* power-on (line 278).
Init ==
    /\ pc = "ro_t" /\ sec = Seconds /\ main_now = 0
    /\ handler = "none" /\ isr_now = 0
    /\ open = FALSE
    /\ ro_t \in Kept
    /\ set_value = 0 /\ loading = FALSE /\ now = 0 /\ running = FALSE
    /\ left \in Left /\ enabled = left
    /\ alarm \in IF enabled THEN Seconds..MaxTime ELSE {0}

\* The main program runs when its handler does not.
Main(from, to) == handler = "none" /\ pc = from /\ pc' = to
Isr(from, to) == handler = from /\ handler' = to

(* Seeded faults *)
FaultOwnTime ==
    /\ Main("ro_t", "load")
    /\ UNCHANGED <<sec, main_now, isr, open, left, chip>>
FaultNoPoll ==
    /\ Main("poll", "request")
    /\ UNCHANGED <<sec, main_now, isr, open, left, chip>>
FaultStaleNow ==
    /\ Main("setup", "enable")
    /\ alarm' = sec + 1
    /\ UNCHANGED <<sec, main_now, isr, open, left, ro_t, counter, enabled>>

-----------------------------------------------------------------------------
\* rtc_enable_sec_counter(): the later of the time asked for and the time kept, ...
ReadKept ==
    /\ Main("ro_t", "load")
    /\ sec' = IF ro_t > sec THEN ro_t ELSE sec
    /\ UNCHANGED <<main_now, isr, open, left, chip>>

\* ... put in a buffer, ...
LoadValue ==
    /\ Main("load", "trigger")
    /\ set_value' = sec
    /\ UNCHANGED <<sec, main_now, isr, open, left, ro_t, loading, now, running, alarm, enabled>>

\* ... loaded into the counter, ...
Trigger ==
    /\ Main("trigger", "poll")
    /\ running' = TRUE /\ loading' = TRUE
    /\ UNCHANGED <<sec, main_now, isr, open, left, ro_t, set_value, now, alarm, enabled>>

\* ... and waited for.
Poll ==
    /\ Main("poll", "request")
    /\ now >= sec
    /\ UNCHANGED <<sec, main_now, isr, open, left, chip>>

\* test_rtc_irq()
RequestIrq ==
    /\ Main("request", "now")
    /\ open' = TRUE
    /\ UNCHANGED <<sec, main_now, isr, chip, left>>

\* rtc_setup_alarm(1)
MainNow ==
    /\ Main("now", "setup")
    /\ main_now' = now
    /\ UNCHANGED <<sec, isr, open, left, chip>>

MainSetup ==
    /\ Main("setup", "enable")
    /\ alarm' = main_now + 1
    /\ UNCHANGED <<sec, main_now, isr, open, left, ro_t, counter, enabled>>

\* rtc_enable_alarm(); the main program has no more to do.
MainEnable ==
    /\ Main("enable", "idle")
    /\ enabled' = TRUE
    /\ UNCHANGED <<sec, main_now, isr, open, left, ro_t, counter, alarm>>

-----------------------------------------------------------------------------
Line == running /\ enabled /\ now = alarm

Interrupt ==
    /\ open /\ Line
    /\ Isr("none", "disable")
    /\ UNCHANGED <<main, isr_now, open, left, chip>>

\* rtc_isr(): rtc_disable_alarm(), a print, rtc_setup_alarm(3), rtc_enable_alarm()
IsrDisable ==
    /\ Isr("disable", "now")
    /\ enabled' = FALSE
    /\ UNCHANGED <<main, isr_now, open, left, ro_t, counter, alarm>>

IsrNow ==
    /\ Isr("now", "setup")
    /\ isr_now' = now
    /\ UNCHANGED <<main, open, left, chip>>

IsrSetup ==
    /\ Isr("setup", "enable")
    /\ alarm' = isr_now + 3
    /\ UNCHANGED <<main, isr_now, open, left, ro_t, counter, enabled>>

IsrEnable ==
    /\ Isr("enable", "none")
    /\ enabled' = TRUE
    /\ UNCHANGED <<main, isr_now, open, left, ro_t, counter, alarm>>

-----------------------------------------------------------------------------
\* The counter takes the loaded value after a while ...
Loaded ==
    /\ loading /\ loading' = FALSE
    /\ now' = set_value
    /\ UNCHANGED <<main, isr, open, left, ro_t, set_value, running, alarm, enabled>>

\* ... and counts.  Setting the alarm, which prints nothing, takes less than a second, and so
\* does the way into the handler.
InTime ==
    /\ pc \in {"setup", "enable"} => now = main_now
    /\ handler \in {"setup", "enable"} => now = isr_now
    /\ ~(open /\ Line /\ handler \in {"none", "disable"})

Tick ==
    /\ running /\ ~loading /\ now < MaxTime
    /\ InTime
    /\ now' = now + 1
    /\ UNCHANGED <<main, isr, open, left, ro_t, set_value, loading, running, alarm, enabled>>

Program ==
    \/ ReadKept \/ LoadValue \/ Trigger \/ Poll
    \/ RequestIrq \/ MainNow \/ MainSetup \/ MainEnable
Handler == Interrupt \/ IsrDisable \/ IsrNow \/ IsrSetup \/ IsrEnable

\* The bound is reached and nothing is left to do.
Over == pc = "idle" /\ handler = "none" /\ now = MaxTime /\ UNCHANGED vars

Next == Program \/ Handler \/ Loaded \/ Tick \/ Over

\* The hart executes, its interrupts are taken, and the counter is loaded.
Spec == Init /\ [][Next]_vars /\ WF_vars(Program) /\ WF_vars(Handler) /\ WF_vars(Loaded)

-----------------------------------------------------------------------------
\* The seconds and the registers are natural numbers.
TypeOK ==
    /\ pc \in {"ro_t", "load", "trigger", "poll", "request", "now", "setup", "enable", "idle"}
    /\ handler \in {"none", "disable", "now", "setup", "enable"}
    /\ {sec, main_now, isr_now, ro_t, set_value} \subseteq Nat
    /\ now \in Nat /\ alarm \in Nat
    /\ {open, loading, running, enabled, left} \subseteq BOOLEAN

\* Lines 189 and 190: if the time asked for is older than the time that was kept, the clock
\* goes on from the latter.  Once rtc_init() has returned the clock shows neither an earlier
\* time than the one kept nor the value of a counter that is still being loaded.
NeverSetBack ==
    pc \in {"request", "now", "setup", "enable", "idle"} => now >= ro_t /\ now >= Seconds

\* The alarm compares for the very second, so one that is set for a second already gone never
\* comes.  Whenever neither context is setting it, the alarm is enabled and its second is
\* still ahead, or the present one; and it is at most three seconds ahead, as line 363 says,
\* whatever alarm an earlier run left enabled.
NeverMissed ==
    pc = "idle" /\ handler = "none" => enabled /\ alarm \in now .. (now + 3)
=============================================================================
