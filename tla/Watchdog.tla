------------------------------ MODULE Watchdog ------------------------------
(***************************************************************************)
(* Watchdog timer WDT1 and the functions of source/test/test_wdt.c that     *)
(* program it.  Time is counted in units of 64000 << 5 cycles of the 25 MHz *)
(* clock (0.082 s), in which both timeouts the test cases use are whole     *)
(* numbers.  The device (external) follows the comments of test_wdt.c: the  *)
(* first period is the ITORR one, the later ones the TORR one; the second   *)
(* timeout with the interrupt still up resets the system.                   *)
(***************************************************************************)
EXTENDS Integers

VARIABLES
    torr,     \* WDT_TORR: ITORR in bits 7:4, TORR in bits 3:0
    toc,      \* WDT_TOC
    running,  \* WDT_CR.WDT_EN
    twophase, \* WDT_CR.RMOD: interrupt first, reset only at the second timeout
    count,    \* WDT_CCVR, in units
    wint,     \* the interrupt line
    reset     \* the system has been reset

wdt == <<torr, toc, running, twophase, count, wint, reset>>

UnitCycles == 64000 * 2 ^ 5
Period(n) == (toc * 2 ^ (n + 1)) \div UnitCycles
TorPeriod == Period(torr % 16)
ItorPeriod == Period(torr \div 16)

WdtOff == /\ torr = 0 /\ toc = 0 /\ running = FALSE /\ twophase = FALSE
          /\ count = 0 /\ wint = FALSE /\ reset = FALSE

\* Fault: the two nibbles are swapped.
FaultSwappedNibbles(t, it) ==
    torr' = ((t % 16) * 16) + (it % 16) /\ UNCHANGED <<toc, running, twophase, count, wint, reset>>

\* wdt_init(): three register writes; the last one starts the counter
WriteTorr(t, it) ==
    torr' = ((it % 16) * 16) + (t % 16) /\ UNCHANGED <<toc, running, twophase, count, wint, reset>>

WriteToc(c) == toc' = c % 65536 /\ UNCHANGED <<torr, running, twophase, count, wint, reset>>

WriteCr ==
    /\ running' = TRUE /\ twophase' = TRUE /\ count' = ItorPeriod
    /\ UNCHANGED <<torr, toc, wint, reset>>

\* Fault: the dog is fed by reloading the counter without clearing the interrupt.
FaultInterruptKept == count' = TorPeriod /\ UNCHANGED <<torr, toc, running, twophase, wint, reset>>

\* wdt_feeddog(): a write to WDT_CRR restarts the counter and clears the interrupt
wdt_feeddog == count' = TorPeriod /\ wint' = FALSE /\ UNCHANGED <<torr, toc, running, twophase, reset>>

\* The device counts one unit.
WdtCount ==
    /\ running
    /\ IF count > 1
       THEN count' = count - 1 /\ UNCHANGED <<wint, reset>>
       ELSE count' = TorPeriod /\ wint' = TRUE /\ reset' = (reset \/ wint \/ ~twophase)
    /\ UNCHANGED <<torr, toc, running, twophase>>
=============================================================================
