------------------------------ MODULE WdtDemos ------------------------------
(***************************************************************************)
(* The two test cases the watchdog interrupts, chosen when the program is   *)
(* built.                                                                   *)
(*                                                                          *)
(* test_wdt(): the watchdog interrupts the delay loop, its handler feeds it. *)
(*                                                                          *)
(* test_lpc(): every fifth second the program resets GPIO0 and stops the    *)
(* hart with wfi; the watchdog interrupt wakes the hart, and its handler    *)
(* feeds the dog and brings GPIO0 back.  Nothing but time keeps the         *)
(* interrupt from coming between gpio0_sleep() and wfi.                     *)
(*                                                                          *)
(* A step that waits or prints takes time (left, ileft); any other step     *)
(* takes less than a unit.  Time passes only while somebody waits, and a    *)
(* pending interrupt is taken within the unit.                              *)
(***************************************************************************)
EXTENDS Watchdog

CONSTANTS
    DelayUnits,    \* the lengths in units that printf and mdelay(1000) may have
    PrintUnits,    \* those a printf on the way to sleep, or in the handler, may have
    Others         \* the other peripherals whose reset bits share SOFT_RSTN_1

ASSUME WdtDemosAssumption ==
    DelayUnits \subseteq Nat \ {0} /\ PrintUnits \subseteq Nat /\ "gpio0" \notin Others

Longest(units) == CHOOSE u \in units : \A v \in units : v <= u

\* What test_lpc() relies on: five delays, the prints on the way to sleep and the last one of
\* the handler together take less than the second period of the watchdog.
ASSUME TimingAssumption ==
    /\ \A units \in {DelayUnits, PrintUnits} : \E u \in units : \A v \in units : v <= u
    /\ 5 * Longest(DelayUnits) + 3 * Longest(PrintUnits) < 128

VARIABLES
    test,                  \* the test case: "wdt" or "lpc"
    pc, left, val, i,      \* main program: where, time left, gpio0_reset()'s local, counter
    ipc, ileft, ival,      \* the same for the handler
    rstn,                  \* SOFT_RSTN_1: the peripherals that are out of reset
    dr, ddr,               \* bit 15 of GPIO0's data and direction registers
    since,                 \* (history) units since the counter was started or fed
    fed                    \* (history) whether the dog has been fed

main == <<pc, left, val, i>>
isr == <<ipc, ileft, ival>>
hist == <<since, fed>>
gpio == <<rstn, dr, ddr>>
vars == <<wdt, test, main, isr, gpio, hist>>

Init ==
    /\ WdtOff
    /\ test \in {"wdt", "lpc"}
    /\ pc = (IF test = "wdt" THEN "torr" ELSE "dr") /\ left = 0 /\ val = {} /\ i = 0
    /\ ipc = "idle" /\ ileft = 0 /\ ival = {}
    /\ rstn = Others \cup {"gpio0"} /\ dr = FALSE /\ ddr = FALSE
    /\ since = 0 /\ fed = FALSE

\* A peripheral in reset forgets its registers and ignores writes (external).
WriteDr == dr' = ("gpio0" \in rstn) /\ UNCHANGED <<rstn, ddr>>
WriteDdr == ddr' = ("gpio0" \in rstn) /\ UNCHANGED <<rstn, dr>>
WriteRstn(v) ==
    /\ rstn' = v
    /\ dr' = (dr /\ "gpio0" \in v) /\ ddr' = (ddr /\ "gpio0" \in v)

-----------------------------------------------------------------------------
At(p) == ipc = "idle" /\ pc = p /\ left = 0
Goto(q) == pc' = q /\ UNCHANGED <<test, isr, hist>>

\* test_lpc() begins with gpio0_init(15), ...
InitDr == At("dr") /\ Goto("ddr") /\ WriteDr /\ UNCHANGED <<left, val, i, wdt>>
InitDdr == At("ddr") /\ Goto("torr") /\ WriteDdr /\ UNCHANGED <<left, val, i, wdt>>

\* ... test_wdt() with wdt_init(11, 10, 64000), which is wdt_init(11, 11, 64000) in test_lpc().
InitTorr == At("torr") /\ Goto("toc") /\ WriteTorr(11, IF test = "wdt" THEN 10 ELSE 11)
            /\ UNCHANGED <<left, val, i, gpio>>
InitToc == At("toc") /\ Goto("cr") /\ WriteToc(64000) /\ UNCHANGED <<left, val, i, gpio>>
InitCr == At("cr") /\ pc' = "loop" /\ since' = 0 /\ WriteCr
          /\ UNCHANGED <<test, left, val, i, isr, gpio, fed>>

\* printf, mdelay(1000).  mdelay() waits for a time, so an interrupt does not make it longer.
Delay == At("loop") /\ Goto("delay") /\ left' \in DelayUnits /\ UNCHANGED <<val, i, wdt, gpio>>

\* test_wdt() does nothing else in its loop.
Again == At("delay") /\ test = "wdt" /\ Goto("loop") /\ UNCHANGED <<left, val, i, wdt, gpio>>

\* test_lpc(): i++; if (i % 5 == 0) ...: i is kept modulo 10.  gpio0_sleep() prints first.
Count ==
    /\ At("delay") /\ test = "lpc" /\ i' = (i + 1) % 10
    /\ IF i' % 5 = 0 THEN Goto("sleep_read") /\ left' \in PrintUnits
                 ELSE Goto("loop") /\ UNCHANGED left
    /\ UNCHANGED <<val, wdt, gpio>>

\* gpio0_reset(RESET_ACTIVE): read SOFT_RSTN_1, clear the bit, write it back
SleepRead == At("sleep_read") /\ Goto("sleep_write") /\ val' = rstn
             /\ UNCHANGED <<left, i, wdt, gpio>>

SleepWrite ==
    /\ At("sleep_write") /\ Goto("wfi") /\ WriteRstn(val \ {"gpio0"})
    /\ left' \in PrintUnits                       \* cpu_sleep() prints before wfi
    /\ UNCHANGED <<val, i, wdt>>

Wfi == At("wfi") /\ Goto("asleep") /\ UNCHANGED <<left, val, i, wdt, gpio>>

-----------------------------------------------------------------------------
\* The interrupt ends a wfi; the main program goes on behind it after the handler.
IsrEnter ==
    /\ wint /\ ipc = "idle"
    /\ ipc' = "feed" /\ ileft' \in PrintUnits
    /\ pc' = IF pc = "asleep" THEN "loop" ELSE pc
    /\ UNCHANGED <<wdt, test, left, val, i, ival, gpio, hist>>

IsrAt(p, q) == ipc = p /\ ileft = 0 /\ ipc' = q /\ UNCHANGED <<test, main>>

\* wdt_isr(): printf, wdt_feeddog().  lpc_isr(): printf, wdt_feeddog(), then gpio0_wakeup() =
\* gpio0_reset(RESET_INACTIVE), gpio0_init(15).
IsrFeed == IsrAt("feed", IF test = "wdt" THEN "idle" ELSE "wake_read") /\ wdt_feeddog
           /\ since' = 0 /\ fed' = TRUE /\ UNCHANGED <<ileft, ival, gpio>>
WakeRead == IsrAt("wake_read", "wake_write") /\ ival' = rstn /\ UNCHANGED <<ileft, wdt, gpio, hist>>

WakeWrite == IsrAt("wake_write", "wake_dr") /\ WriteRstn(ival \cup {"gpio0"})
             /\ UNCHANGED <<ileft, ival, wdt, hist>>

\* Fault: GPIO0 is not set up again after its reset.
FaultNoSetup == IsrAt("wake_dr", "wake_ddr") /\ UNCHANGED <<ileft, ival, wdt, gpio, hist>>

WakeDr == IsrAt("wake_dr", "wake_ddr") /\ WriteDr /\ UNCHANGED <<ileft, ival, wdt, hist>>
WakeDdr == IsrAt("wake_ddr", "wake_print") /\ WriteDdr
           /\ ileft' \in PrintUnits /\ UNCHANGED <<ival, wdt, hist>>
IsrReturn == IsrAt("wake_print", "idle") /\ UNCHANGED <<ileft, ival, wdt, gpio, hist>>

-----------------------------------------------------------------------------
Busy == IF ipc # "idle" THEN ileft > 0 ELSE ~wint /\ (left > 0 \/ pc = "asleep")

Tick ==
    /\ Busy
    /\ left' = IF left > 0 THEN left - 1 ELSE 0
    /\ ileft' = IF ileft > 0 THEN ileft - 1 ELSE 0
    /\ since' = since + 1
    /\ WdtCount /\ UNCHANGED <<test, pc, val, i, ipc, ival, gpio, fed>>

MainStep ==
    \/ InitDr \/ InitDdr \/ InitTorr \/ InitToc \/ InitCr
    \/ Delay \/ Again \/ Count \/ SleepRead \/ SleepWrite \/ Wfi
IsrStep == IsrEnter \/ IsrFeed \/ WakeRead \/ WakeWrite \/ WakeDr \/ WakeDdr \/ IsrReturn

Next == MainStep \/ IsrStep \/ Tick

\* The hart executes, takes the interrupt, and time passes.
Spec == Init /\ [][Next]_vars /\ WF_vars(MainStep) /\ WF_vars(IsrStep) /\ WF_vars(Tick)

-----------------------------------------------------------------------------
\* The registers keep their widths, the counters their ranges.
TypeOK ==
    /\ torr \in 0 .. 255 /\ toc \in 0 .. 65535 /\ count \in 0 .. 128
    /\ running \in BOOLEAN /\ twophase \in BOOLEAN /\ wint \in BOOLEAN /\ reset \in BOOLEAN
    /\ left \in Nat /\ ileft \in Nat /\ i \in 0 .. 9
    /\ val \subseteq Others \cup {"gpio0"} /\ ival \subseteq Others \cup {"gpio0"}
    /\ rstn \subseteq Others \cup {"gpio0"}
    /\ dr \in BOOLEAN /\ ddr \in BOOLEAN /\ fed \in BOOLEAN /\ since \in Nat

\* As test_wdt() and docs/labs/wdt.md promise: the handler runs 5 s after the start (64
\* units) and 10 s after each feeding (128 units), never earlier and at most one printf late.
\* test_lpc() starts with 10 s.  So the dog is fed before the second timeout.
FiveThenTen ==
    LET due == IF fed \/ test = "lpc" THEN 128 ELSE 64
    IN  /\ ipc = "feed" => due <= since
        /\ running => since <= due + Longest(PrintUnits)
        /\ ~reset

\* GPIO0 and the hart sleep and wake in step (the steps 1 to 3 of test_lpc()): while the hart
\* sleeps GPIO0 is in reset, although the interrupt between gpio0_sleep() and wfi would wake GPIO0
\* first; whenever the program counts its seconds GPIO0 runs and drives the pin high; and no other
\* peripheral is ever reset on the way.
SleepInStep ==
    /\ pc = "asleep" /\ ~wint => "gpio0" \notin rstn
    /\ test = "lpc" /\ pc = "delay" /\ ipc = "idle" => "gpio0" \in rstn /\ dr /\ ddr
    /\ Others \subseteq rstn

\* The main loop goes on between the interrupts and the dog is fed again and again: neither an
\* interrupt that comes back at once nor a delay that never ends stops the program.  In
\* test_lpc() every sleep ends, and every waking leads to a sleep.
KeepsRunning ==
    /\ []<>(pc = "delay" /\ ipc = "idle" /\ running)
    /\ []<>(since = 0 /\ fed)
    /\ test = "lpc" => []<>(pc = "asleep")
=============================================================================
