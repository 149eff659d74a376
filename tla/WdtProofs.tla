----------------------------- MODULE WdtProofs ------------------------------
(***************************************************************************)
(* The watchdog and low-power demos (WdtDemos) for every length of their    *)
(* delays and prints that TimingAssumption allows.                          *)
(***************************************************************************)
EXTENDS WdtDemos, TLAPS

D == Longest(DelayUnits)
P == Longest(PrintUnits)

Due == IF fed = TRUE \/ test = "lpc" THEN 128 ELSE 64

Types ==
    /\ test \in {"wdt", "lpc"} /\ left \in Nat /\ ileft \in Nat /\ since \in Nat /\ i \in 0 .. 9
    /\ count \in Int

\* Registers: nothing but GPIO0 is ever reset; its pin is an output that is high.
Up == "gpio0" \in rstn
Drives == Up /\ dr = TRUE /\ ddr = TRUE

\* wdt_init() writes the two periods before it starts the counter.
Starting ==
    /\ pc \in {"dr", "ddr", "torr", "toc", "cr"} /\ ipc = "idle"
    /\ running = FALSE /\ wint = FALSE /\ reset = FALSE /\ fed = FALSE
    /\ left = 0 /\ i = 0
    /\ pc \in {"dr", "ddr"} => test = "lpc"
    /\ pc \in {"toc", "cr"} => torr = IF test = "wdt" THEN 171 ELSE 187
    /\ pc = "cr" => toc = 64000
    /\ test = "lpc" => /\ Up /\ (pc # "dr" => dr = TRUE)
                       /\ (pc \notin {"dr", "ddr"} => ddr = TRUE)

\* The watchdog since it was started: the counter and the time since the start or the last
\* feeding are as far apart as one period, or two when the interrupt is up.
Counting ==
    /\ running = TRUE /\ twophase = TRUE /\ reset = FALSE /\ toc = 64000
    /\ torr = IF test = "wdt" THEN 171 ELSE 187
    /\ count > 0
    /\ since + count = IF wint = TRUE THEN Due + 128 ELSE Due
    /\ wint = TRUE =>
          /\ ipc \in {"idle", "feed"} /\ since >= Due
          /\ ipc = "idle" => since = Due
    /\ ipc = "feed" => wint = TRUE /\ since + ileft <= Due + P

WdtRuns == test = "wdt" /\ pc \in {"loop", "delay"} /\ ipc \in {"idle", "feed"}

\* test_lpc() between two interrupts: what is left of its five rounds fits the period.
Awake ==
    /\ pc \in {"loop", "delay", "sleep_read", "sleep_write", "wfi"} /\ ipc = "idle"
    /\ pc = "loop" => left = 0 /\ since <= P + (i % 5) * D
    /\ pc = "delay" => since + left <= P + ((i % 5) + 1) * D
    /\ pc \in {"sleep_read", "sleep_write", "wfi"} => i % 5 = 0
    /\ pc \in {"sleep_read", "sleep_write"} => since + left <= 2 * P + 5 * D
    /\ pc = "sleep_write" => left = 0 /\ val = rstn
    /\ pc = "wfi" => since + left <= 3 * P + 5 * D /\ ~Up
    /\ pc # "wfi" => Drives

Asleep == pc = "asleep" /\ ipc = "idle" /\ left = 0 /\ i % 5 = 0 /\ ~Up

\* The handler, which only ever interrupts the sleep
Waking ==
    /\ pc = "loop" /\ left = 0 /\ i % 5 = 0
    /\ ipc \in {"feed", "wake_read", "wake_write", "wake_dr", "wake_ddr", "wake_print"}
    /\ ipc # "feed" => since + ileft <= P
    /\ ipc \in {"wake_read", "wake_write", "wake_dr", "wake_ddr"} => since = 0 /\ ileft = 0
    /\ ipc = "wake_write" => ival = rstn
    /\ ipc \in {"wake_dr", "wake_ddr", "wake_print"} => Up
    /\ ipc \in {"wake_ddr", "wake_print"} => dr = TRUE
    /\ ipc = "wake_print" => ddr = TRUE

LpcRuns == test = "lpc" /\ (Awake \/ Asleep \/ Waking)

\* The interrupt line is up or down.
Line == wint \in BOOLEAN

Core == Types /\ Others \subseteq rstn /\ (Starting \/ (Counting /\ (WdtRuns \/ LpcRuns)))

WInv == Core /\ Line

-----------------------------------------------------------------------------
\* The longest units are what their name says.
LEMMA Bounds ==
    /\ D \in Nat /\ \A d \in DelayUnits : d \in Nat /\ d <= D
    /\ P \in Nat /\ \A p \in PrintUnits : p \in Nat /\ p <= P
    /\ 5 * D + 3 * P < 128
<1>1. D \in DelayUnits /\ \A d \in DelayUnits : d <= D
  BY TimingAssumption DEF D, Longest
<1>2. P \in PrintUnits /\ \A p \in PrintUnits : p <= P
  BY TimingAssumption DEF P, Longest
<1> QED  BY <1>1, <1>2, WdtDemosAssumption, TimingAssumption DEF D, P

\* The values wdt_init() writes give the periods of 64 and 128 units.
LEMMA Periods ==
    ASSUME toc = 64000
    PROVE  /\ torr = 171 => TorPeriod = 128 /\ ItorPeriod = 64
           /\ torr = 187 => TorPeriod = 128 /\ ItorPeriod = 128
<1>1. Period(11) = 128 /\ Period(10) = 64
  BY DEF Period, UnitCycles
<1>2. 171 % 16 = 11 /\ 171 \div 16 = 10 /\ 187 % 16 = 11 /\ 187 \div 16 = 11
  OBVIOUS
<1> QED  BY <1>1, <1>2 DEF TorPeriod, ItorPeriod

\* Counting the rounds: the delay of this one comes on top of those before.
LEMMA Rounds ==
    ASSUME NEW k \in 0 .. 9
    PROVE  /\ (k + 1) % 10 \in 0 .. 9
           /\ ((k % 5) + 1) * D = (k % 5) * D + D
           /\ k % 5 = 0 => (k % 5) * D = 0
           /\ IF ((k + 1) % 10) % 5 = 0 THEN ((k % 5) + 1) * D = 5 * D
              ELSE (((k + 1) % 10) % 5) * D = ((k % 5) + 1) * D
<1>1. D \in Nat
  BY Bounds
<1>2. /\ (k + 1) % 10 \in 0 .. 9 /\ k % 5 \in 0 .. 4
      /\ IF ((k + 1) % 10) % 5 = 0 THEN k % 5 = 4 ELSE ((k + 1) % 10) % 5 = (k % 5) + 1
  OBVIOUS
<1> DEFINE n == k % 5
<1>3. n \in 0 .. 4 /\ (n + 1) * D = n * D + D /\ (n = 0 => n * D = 0) /\ (n = 4 => (n + 1) * D = 5 * D)
  <2> HIDE DEF D
  <2>1. n \in {0, 1, 2, 3, 4}
    BY <1>2
  <2>2. CASE n = 0  BY <1>1, <2>2
  <2>3. CASE n = 1  BY <1>1, <2>3
  <2>4. CASE n = 2  BY <1>1, <2>4
  <2>5. CASE n = 3  BY <1>1, <2>5
  <2>6. CASE n = 4  BY <1>1, <2>6
  <2> QED  BY <2>1, <2>2, <2>3, <2>4, <2>5, <2>6
<1> QED  BY <1>2, <1>3

-----------------------------------------------------------------------------
\* The watchdog is off.
LEMMA InitWInv == Init => WInv
<1> SUFFICES ASSUME Init PROVE WInv
  OBVIOUS
<1>1. Types
  BY DEF Init, WdtOff, Types
<1>2. rstn = Others \cup {"gpio0"}
  BY DEF Init
<1>3. Starting
  BY <1>2 DEF Init, WdtOff, Starting, Up
<1>4. Line
  BY Zenon DEF Init, WdtOff, Line
<1> QED  BY <1>1, <1>2, <1>3, <1>4 DEF WInv, Core

\* The line is only ever set, cleared or left.
LEMMA LineKept == ASSUME WInv, [Next]_vars PROVE Line'
<1>1. Line
  BY DEF WInv
<1>2. CASE UNCHANGED wint
  BY <1>1, <1>2, Zenon DEF Line
<1>3. CASE IsrFeed
  BY <1>3, Zenon DEF IsrFeed, wdt_feeddog, Line
<1>4. CASE Tick
  <2>1. wint' = TRUE \/ UNCHANGED wint
    BY <1>4, Zenon DEF Tick, WdtCount
  <2> QED  BY <1>1, <2>1, Zenon DEF Line
<1> QED
  BY <1>1, <1>2, <1>3, <1>4
     DEF Next, MainStep, IsrStep, vars, wdt, InitDr, InitDdr, InitTorr, WriteTorr, InitToc, WriteToc,
         InitCr, WriteCr, Delay, Again, Count, SleepRead, SleepWrite, Wfi, IsrEnter, WakeRead,
         WakeWrite, WakeDr, WakeDdr, IsrReturn

\* wdt_init()
LEMMA StartSteps ==
    ASSUME WInv, InitDr \/ InitDdr \/ InitTorr \/ InitToc \/ InitCr
    PROVE  Core'
<1>1. Starting /\ Types /\ Others \subseteq rstn
  BY DEF WInv, Core, InitDr, InitDdr, InitTorr, InitToc, InitCr, At, WdtRuns, LpcRuns, Awake, Asleep,
         Waking
<1>2. CASE InitDr \/ InitDdr
  <2>1. test = "lpc" /\ Up
    BY <1>1, <1>2 DEF InitDr, InitDdr, At, Starting
  <2>2. CASE InitDr
    <3>1. dr' = TRUE /\ UNCHANGED <<rstn, ddr>>
      BY <2>1, <2>2, Zenon DEF InitDr, WriteDr, Up
    <3> QED  BY <1>1, <2>1, <2>2, <3>1 DEF InitDr, At, Goto, wdt, isr, hist, Core, Types, Starting, Up
  <2>3. CASE InitDdr
    <3>1. ddr' = TRUE /\ UNCHANGED <<rstn, dr>>
      BY <2>1, <2>3, Zenon DEF InitDdr, WriteDdr, Up
    <3> QED  BY <1>1, <2>1, <2>3, <3>1 DEF InitDdr, At, Goto, wdt, isr, hist, Core, Types, Starting, Up
  <2> QED  BY <1>2, <2>2, <2>3
<1>3. CASE InitTorr
  <2>1. torr' = IF test = "wdt" THEN 171 ELSE 187
    BY <1>3 DEF InitTorr, WriteTorr
  <2> QED  BY <1>1, <1>3, <2>1 DEF InitTorr, WriteTorr, At, Goto, gpio, isr, hist, Core, Types,
                                   Starting, Up
<1>4. CASE InitToc
  BY <1>1, <1>4 DEF InitToc, WriteToc, At, Goto, gpio, isr, hist, Core, Types, Starting, Up
<1>5. CASE InitCr
  <2>1. /\ pc = "cr" /\ pc' = "loop" /\ since' = 0 /\ running' = TRUE /\ twophase' = TRUE
        /\ count' = ItorPeriod
        /\ UNCHANGED <<test, left, i, ipc, ileft, gpio, fed, torr, toc, wint, reset>>
    BY <1>5 DEF InitCr, WriteCr, At, isr
  <2>2. count' = Due' /\ Due' \in {64, 128}
    BY <1>1, <2>1, Periods DEF Starting, Types, Due
  <2>3. Counting'
    <3>1. since' + count' = Due' /\ wint' = FALSE /\ reset' = FALSE /\ ipc' = "idle"
      <4>1. since' + count' = Due'
        <5>1. PICK d : d = Due'
          OBVIOUS
        <5>2. since' = 0 /\ count' = d /\ d \in Int
          BY <2>1, <2>2, <5>1
        <5>3. since' + count' = d
          BY <5>2
        <5> QED  BY <5>1, <5>3
      <4>2. wint' = FALSE /\ reset' = FALSE
        BY <1>1, <2>1 DEF Starting
      <4> QED  BY <1>1, <2>1, <4>1, <4>2 DEF Starting
    <3>2. /\ running' = TRUE /\ twophase' = TRUE /\ toc' = 64000 /\ count' > 0
          /\ torr' = IF test' = "wdt" THEN 171 ELSE 187
      BY <1>1, <2>1, <2>2 DEF Starting
    <3> QED  BY <3>1, <3>2 DEF Counting
  <2>4. test = "lpc" => LpcRuns'
    BY <1>1, <2>1, Bounds, Rounds DEF Starting, Types, LpcRuns, Awake, Drives, Up, gpio
  <2>5. test = "wdt" => WdtRuns'
    BY <1>1, <2>1 DEF Starting, WdtRuns
  <2> QED  BY <1>1, <2>1, <2>2, <2>3, <2>4, <2>5 DEF Core, Types, gpio
<1> QED  BY <1>2, <1>3, <1>4, <1>5

\* The loops of the two programs
LEMMA LoopSteps ==
    ASSUME WInv, Delay \/ Again \/ Count \/ SleepRead \/ SleepWrite \/ Wfi
    PROVE  Core'
<1>1. /\ ipc = "idle" /\ left = 0
      /\ pc \in {"loop", "delay", "sleep_read", "sleep_write", "wfi"}
      /\ UNCHANGED <<test, ipc, ileft, since, fed, count, running, twophase, reset, toc, torr, wint>>
  BY DEF Delay, Again, Count, SleepRead, SleepWrite, Wfi, At, Goto, isr, hist, wdt
<1>2. Types /\ Others \subseteq rstn /\ Counting /\ (WdtRuns \/ LpcRuns)
  BY <1>1 DEF WInv, Core, Starting
<1>3. Counting'
  BY <1>1, <1>2 DEF Counting, Due
<1>4. Types'
  <2>1. CASE Count
    BY <1>1, <1>2, <2>1, Bounds, Rounds DEF Count, Types
  <2>2. CASE Delay \/ Again \/ SleepRead \/ SleepWrite \/ Wfi
    BY <1>1, <1>2, <2>2, Bounds DEF Delay, Again, SleepRead, SleepWrite, Wfi, Types
  <2> QED  BY <2>1, <2>2
<1>5. Others \subseteq rstn'
  BY <1>2, WdtDemosAssumption
     DEF Delay, Again, Count, SleepRead, SleepWrite, Wfi, WriteRstn, gpio, LpcRuns, WdtRuns, Awake,
         At, Asleep, Waking
<1>6. CASE test = "wdt"
  BY <1>1, <1>2, <1>3, <1>4, <1>5, <1>6
     DEF Core, WdtRuns, LpcRuns, Delay, Again, Count, SleepRead, SleepWrite, Wfi, At, Goto
<1>7. CASE test = "lpc"
  <2>1. Awake
    BY <1>1, <1>2, <1>7 DEF WdtRuns, LpcRuns, Asleep, Waking
  <2>2. Awake' \/ Asleep'
    <3>1. CASE Delay
      BY <1>1, <1>2, <2>1, <3>1, Bounds, Rounds DEF Delay, At, Goto, gpio, Awake, Types, Drives, Up
    <3>2. CASE Again
      BY <1>7, <3>2 DEF Again
    <3>3. CASE Count
      BY <1>1, <1>2, <2>1, <3>3, Bounds, Rounds DEF Count, At, Goto, gpio, Awake, Types, Drives, Up
    <3>4. CASE SleepRead
      BY <1>1, <1>2, <2>1, <3>4, Bounds DEF SleepRead, At, Goto, gpio, Awake, Types, Drives, Up
    <3>5. CASE SleepWrite
      BY <1>1, <1>2, <2>1, <3>5, Bounds DEF SleepWrite, WriteRstn, At, Goto, Awake, Types, Up
    <3>6. CASE Wfi
      BY <1>1, <1>2, <2>1, <3>6 DEF Wfi, At, Goto, gpio, Awake, Asleep, Types, Up
    <3> QED  BY <3>1, <3>2, <3>3, <3>4, <3>5, <3>6
  <2> QED  BY <1>1, <1>3, <1>4, <1>5, <1>7, <2>2 DEF Core, LpcRuns
<1> QED  BY <1>2, <1>6, <1>7 DEF Types

\* In test_lpc() the interrupt comes only to the sleeping hart: nothing before lasts so long.
LEMMA OnlyAsleep ==
    ASSUME WInv, test = "lpc", wint = TRUE, ipc = "idle"
    PROVE  Asleep
<1>1. Types /\ Counting /\ LpcRuns /\ since = 128
  BY DEF WInv, Core, Starting, Counting, WdtRuns, Due
<1>2. ~Awake
  <2>1. SUFFICES ASSUME Awake PROVE FALSE
    OBVIOUS
  <2>2. (i % 5) * D <= 5 * D /\ ((i % 5) + 1) * D <= 5 * D
    <3> HIDE DEF D
    <3>1. i % 5 \in {0, 1, 2, 3, 4}
      BY <1>1 DEF Types
    <3>2. CASE i % 5 = 0  BY <3>2, Bounds
    <3>3. CASE i % 5 = 1  BY <3>3, Bounds
    <3>4. CASE i % 5 = 2  BY <3>4, Bounds
    <3>5. CASE i % 5 = 3  BY <3>5, Bounds
    <3>6. CASE i % 5 = 4  BY <3>6, Bounds
    <3> QED  BY <3>1, <3>2, <3>3, <3>4, <3>5, <3>6
  <2>3. left \in Nat /\ D \in Nat /\ P \in Nat /\ 5 * D + 3 * P < 128
    BY <1>1, Bounds DEF Types
  <2> DEFINE before == (i % 5) * D
  <2> DEFINE after == ((i % 5) + 1) * D
  <2>4. \/ since <= P + before \/ since + left <= P + after
        \/ since + left <= 2 * P + 5 * D \/ since + left <= 3 * P + 5 * D
    BY <2>1 DEF Awake
  <2>5. before \in Int /\ after \in Int /\ before <= 5 * D /\ after <= 5 * D
    BY <1>1, <2>2, <2>3 DEF Types
  <2> HIDE DEF before, after
  <2> QED  BY <1>1, <2>3, <2>4, <2>5
<1> QED  BY <1>1, <1>2 DEF LpcRuns, Waking

\* wdt_isr() and lpc_isr()
LEMMA IsrSteps ==
    ASSUME WInv, IsrStep
    PROVE  Core'
<1>1. Types /\ Others \subseteq rstn /\ Counting /\ (WdtRuns \/ LpcRuns)
  BY DEF WInv, Core, Starting, IsrStep, IsrEnter, IsrFeed, WakeRead, WakeWrite, WakeDr, WakeDdr,
         IsrReturn, IsrAt
<1>2. CASE IsrEnter
  <2>1. /\ wint = TRUE /\ ipc = "idle" /\ ipc' = "feed"
        /\ ileft' \in Nat /\ ileft' <= P
        /\ pc' = IF pc = "asleep" THEN "loop" ELSE pc
        /\ UNCHANGED <<wdt, test, left, val, i, ival, gpio, hist>>
    BY <1>1, <1>2, Bounds DEF IsrEnter, Counting
  <2>2. Types' /\ Others \subseteq rstn'
    BY <1>1, <2>1 DEF Types, wdt, gpio, hist
  <2>3. Counting'
    <3>1. since = Due /\ Due' = Due /\ since' = since /\ Due \in {64, 128}
      BY <1>1, <2>1 DEF Counting, Due, hist
    <3>2. since' + ileft' <= Due' + P
      <4>1. since \in Int /\ since' + ileft' = Due' + ileft'
        BY <1>1, <2>1, <3>1 DEF Types
      <4>2. PICK p : p = P /\ p \in Nat /\ ileft' \in Nat /\ ileft' <= p
        BY <2>1, Bounds
      <4>3. PICK d : d = Due' /\ d \in Int
        BY <3>1
      <4>4. since' + ileft' <= d + p
        BY <4>1, <4>2, <4>3
      <4> QED  BY <4>2, <4>3, <4>4
    <3> QED  BY <1>1, <2>1, <3>1, <3>2 DEF Counting, wdt
  <2>4. test = "wdt" => WdtRuns'
    BY <1>1, <2>1 DEF WdtRuns, LpcRuns
  <2>5. test = "lpc" => LpcRuns'
    BY <2>1, OnlyAsleep DEF Asleep, LpcRuns, Waking, Up, gpio
  <2> QED  BY <1>1, <2>2, <2>3, <2>4, <2>5 DEF Core, Types
<1>3. CASE IsrFeed
  <2>1. /\ ipc = "feed" /\ ileft = 0 /\ ipc' = IF test = "wdt" THEN "idle" ELSE "wake_read"
        /\ count' = TorPeriod /\ wint' = FALSE /\ since' = 0 /\ fed' = TRUE
        /\ UNCHANGED <<test, pc, left, val, i, torr, toc, running, twophase, reset,
                       ileft, ival, gpio>>
    BY <1>3 DEF IsrFeed, IsrAt, wdt_feeddog, main
  <2>2. count' = 128 /\ Due' = 128
    BY <1>1, <2>1, Periods DEF Counting, Due
  <2>3. Types' /\ Others \subseteq rstn' /\ Counting'
    BY <1>1, <2>1, <2>2 DEF Types, Counting, gpio
  <2>4. test = "wdt" => WdtRuns'
    BY <1>1, <2>1 DEF WdtRuns, LpcRuns
  <2>5. test = "lpc" => LpcRuns'
    BY <1>1, <2>1, Bounds DEF WdtRuns, LpcRuns, Awake, Asleep, Waking
  <2> QED  BY <1>1, <2>3, <2>4, <2>5 DEF Core, Types
<1>4. CASE WakeRead \/ WakeWrite \/ WakeDr \/ WakeDdr \/ IsrReturn
  <2>1. /\ ipc \in {"wake_read", "wake_write", "wake_dr", "wake_ddr", "wake_print"} /\ ileft = 0
        /\ ipc' \in {"wake_write", "wake_dr", "wake_ddr", "wake_print", "idle"}
        /\ ileft' \in Nat /\ ileft' <= P /\ UNCHANGED <<test, main, wdt, hist>>
    BY <1>1, <1>4, Bounds DEF WakeRead, WakeWrite, WakeDr, WakeDdr, IsrReturn, IsrAt, Types
  <2>2. test = "lpc" /\ Waking /\ wint = FALSE
    BY <1>1, <2>1 DEF WdtRuns, LpcRuns, Awake, Asleep, Counting
  <2>3. Types' /\ Counting'
    BY <1>1, <2>1, <2>2 DEF Types, Counting, Due, main, wdt, hist
  <2>4. Others \subseteq rstn' /\ LpcRuns'
    <3>1. CASE WakeRead
      BY <1>1, <2>1, <2>2, <3>1 DEF WakeRead, IsrAt, main, wdt, gpio, hist, Waking, LpcRuns
    <3>2. CASE WakeWrite
      BY <1>1, <2>1, <2>2, <3>2 DEF WakeWrite, WriteRstn, IsrAt, main, wdt, hist, Waking, LpcRuns, Up
    <3>3. CASE WakeDr
      <4>1. dr' = TRUE
        BY <2>2, <3>3, Zenon DEF WakeDr, WriteDr, IsrAt, Waking, Up
      <4> QED  BY <1>1, <2>1, <2>2, <3>3, <4>1 DEF WakeDr, WriteDr, IsrAt, main, wdt, hist, Waking, LpcRuns, Up
    <3>4. CASE WakeDdr
      <4>1. ddr' = TRUE
        BY <2>2, <3>4, Zenon DEF WakeDdr, WriteDdr, IsrAt, Waking, Up
      <4>2. /\ pc = "loop" /\ left = 0 /\ i % 5 = 0 /\ Up /\ dr = TRUE /\ since = 0
            /\ ipc' = "wake_print" /\ UNCHANGED <<test, pc, left, i, rstn, dr, since>>
        BY <2>1, <2>2, <3>4 DEF WakeDdr, WriteDdr, IsrAt, main, hist, Waking
      <4>3. since' + ileft' <= P
        <5>1. PICK x : x = ileft'
          OBVIOUS
        <5>2. P \in Nat /\ x \in Nat /\ x <= P /\ since' = 0
          BY <2>1, <4>2, <5>1, Bounds
        <5>3. 0 + x <= P
          BY <5>2
        <5> QED  BY <5>1, <5>2, <5>3, Zenon
      <4> QED  BY <1>1, <2>2, <4>1, <4>2, <4>3 DEF Waking, LpcRuns, Up
    <3>5. CASE IsrReturn
      BY <1>1, <2>1, <2>2, <3>5, Bounds, Rounds
         DEF IsrReturn, IsrAt, main, wdt, gpio, hist, Waking, LpcRuns, Awake, Drives, Up, Types
    <3> QED  BY <1>4, <3>1, <3>2, <3>3, <3>4, <3>5
  <2> QED  BY <2>1, <2>2, <2>3, <2>4 DEF Core
<1> QED  BY <1>2, <1>3, <1>4 DEF IsrStep

\* A unit passes: the counter is never taken past the first timeout after the interrupt.
LEMMA TickStep ==
    ASSUME WInv, Tick
    PROVE  Core'
<1>1. Types /\ Others \subseteq rstn /\ Counting /\ (WdtRuns \/ LpcRuns)
  BY DEF WInv, Core, Starting, Tick, WdtCount, Busy
<1>2. /\ left' = IF left > 0 THEN left - 1 ELSE 0
      /\ ileft' = IF ileft > 0 THEN ileft - 1 ELSE 0
      /\ since' = since + 1
      /\ UNCHANGED <<test, pc, val, i, ipc, ival, rstn, dr, ddr, fed, torr, toc, running, twophase>>
  BY DEF Tick, WdtCount, gpio
<1>3. TorPeriod = 128
  BY <1>1, Periods DEF Counting
<1>4. Counting'
  <2>1. CASE wint = TRUE
    <3>1. ipc = "feed" /\ ileft > 0 /\ since + ileft <= Due + P /\ P < 127
      BY <1>1, <2>1, Bounds DEF Tick, Busy, Counting
    <3>2. count > 1
      BY <1>1, <2>1, <3>1, Bounds DEF Counting, Types, Due
    <3>3. count' = count - 1 /\ wint' = TRUE /\ reset' = reset
      BY <2>1, <3>2 DEF Tick, WdtCount
    <3> QED  BY <1>1, <1>2, <2>1, <3>1, <3>2, <3>3, Bounds DEF Counting, Types, Due
  <2>2. CASE wint = FALSE
    <3>1. CASE count > 1
      BY <1>1, <1>2, <2>2, <3>1 DEF Tick, WdtCount, Counting, Types, Due
    <3>2. CASE ~(count > 1)
      <4>1. count = 1 /\ count' = 128 /\ wint' = TRUE /\ reset' = FALSE
        <5>1. count = 1 /\ reset = FALSE /\ twophase = TRUE
          BY <1>1, <3>2 DEF Counting, Types
        <5>2. count' = TorPeriod /\ wint' = TRUE /\ reset' = (reset \/ wint \/ ~twophase)
          BY <3>2 DEF Tick, WdtCount
        <5>3. reset' = FALSE
          BY <2>2, <5>1, <5>2, Zenon
        <5> QED  BY <1>3, <5>1, <5>2, <5>3
      <4>2. since' = Due /\ Due' = Due
        BY <1>1, <1>2, <2>2, <4>1 DEF Counting, Types, Due
      <4>3. ipc = "idle"
        <5>1. SUFFICES ASSUME ipc # "idle" PROVE FALSE
          OBVIOUS
        <5>2. test = "lpc" /\ since + ileft <= P /\ ileft \in Nat
          BY <1>1, <2>2, <5>1 DEF Counting, WdtRuns, LpcRuns, Awake, Asleep, Waking, Types
        <5> QED  BY <1>1, <1>2, <4>2, <5>2, Bounds DEF Due, Types
      <4> QED  BY <1>1, <1>2, <4>1, <4>2, <4>3 DEF Counting, Types, Due
    <3> QED  BY <3>1, <3>2
  <2>3. wint = TRUE \/ wint = FALSE
    BY Zenon DEF WInv, Line
  <2> QED  BY <2>1, <2>2, <2>3
<1>5. Types'
  <2>1. count' = count - 1 \/ count' = 128
    BY <1>3 DEF Tick, WdtCount
  <2> QED  BY <1>1, <1>2, <2>1 DEF Types
<1>6. Others \subseteq rstn' /\ (WdtRuns => WdtRuns')
  BY <1>1, <1>2 DEF WdtRuns
<1>7. LpcRuns => LpcRuns'
  <2>1. Awake => Awake'
    <3>1. SUFFICES ASSUME Awake PROVE Awake'
      OBVIOUS
    <3>2. left > 0
      BY <3>1 DEF Awake, Tick, Busy
    <3>3. since' + left' = since + left /\ left' \in Nat /\ pc \notin {"loop", "sleep_write"}
      BY <1>1, <1>2, <3>1, <3>2 DEF Awake, Types
    <3> QED  BY <1>2, <3>1, <3>3 DEF Awake, Drives, Up
  <2>2. Asleep => Asleep'
    BY <1>2 DEF Asleep, Up
  <2>3. Waking => Waking'
    <3>1. SUFFICES ASSUME Waking PROVE Waking'
      OBVIOUS
    <3>2. ileft > 0
      BY <3>1 DEF Waking, Tick, Busy
    <3>3. since' + ileft' = since + ileft /\ left' = 0
          /\ ipc \notin {"wake_read", "wake_write", "wake_dr", "wake_ddr"}
      BY <1>1, <1>2, <3>1, <3>2 DEF Waking, Types
    <3> QED  BY <1>2, <3>1, <3>3 DEF Waking, Up
  <2> QED  BY <1>2, <2>1, <2>2, <2>3 DEF LpcRuns
<1> QED  BY <1>1, <1>4, <1>5, <1>6, <1>7 DEF Core

\* Every step keeps the invariant.
LEMMA NextWInv == WInv /\ [Next]_vars => WInv'
<1> SUFFICES ASSUME WInv, [Next]_vars PROVE WInv'
  OBVIOUS
<1>1. Core /\ Line'
  BY LineKept DEF WInv
<1>2. CASE UNCHANGED vars
  BY <1>1, <1>2 DEF vars, WInv, wdt, main, isr, gpio, hist, Core, Types, Starting, Counting, Due, WdtRuns,
              LpcRuns, Awake, Asleep, Waking, Drives, Up
<1> QED  BY <1>1, <1>2, StartSteps, LoopSteps, IsrSteps, TickStep DEF Next, MainStep, WInv

\* At every step the counter and the time since the last feeding belong together, and what
\* test_lpc() still has to do before it sleeps fits what is left of the period.
THEOREM Invariant == Spec => []WInv
BY InitWInv, NextWInv, PTL DEF Spec

\* wdt_init() and wdt_feeddog(): the first interrupt of test_wdt() comes after 5 s, each later one
\* and all of test_lpc() after 10 s, at most one print late, and the system is never reset.
THEOREM FiveSecondsThenTen == Spec => []FiveThenTen
<1>1. WInv => FiveThenTen
  BY Bounds DEF WInv, Core, Types, Starting, Counting, FiveThenTen, Due, P
<1> QED  BY <1>1, Invariant, PTL

\* test_lpc(): GPIO0 and the hart sleep and wake together, for all delays and prints that
\* together take less than ten seconds.
THEOREM SleepTogether == Spec => []SleepInStep
<1>1. WInv => SleepInStep
  BY DEF WInv, Core, Starting, WdtRuns, LpcRuns, Awake, Asleep, Waking, Drives, Up, SleepInStep
<1> QED  BY <1>1, Invariant, PTL
=============================================================================
