---------------------------- MODULE TimerProofs -----------------------------
(***************************************************************************)
(* The timer of ClintTimer keeps its time and its delays are long enough,   *)
(* for every width of the registers, every frequency and every argument;    *)
(* and the periods of test_timer() (TimerDemo) are what they are meant to   *)
(* be, for every number of them and every resolution of time.               *)
(***************************************************************************)
EXTENDS MCTimers, TLAPS

\* When the next tick is due
Due == IF interval = 0 THEN arg + smtime ELSE (interval + 1) * TIMER_CNT_MS + smtime

\* While the timer can interrupt, its compare register is the next tick's time, except between
\* the handler's two writes; the timer is started over with its interrupt off.
TimerInv ==
    /\ smtime <= mtime
    /\ ipc # "idle" => mtie
    /\ pc \in {"mtime", "low", "high", "mie", "mtie"} => ~mtie /\ interval = 0
    /\ pc \in {"high", "mie", "mtie"} => timecmpl0 = Low(arg + smtime)
    /\ pc \in {"mie", "mtie"} => timecmph0 = High(arg + smtime)
    /\ mtie /\ ipc \in {"idle", "count", "return"} =>
          timecmpl0 = Low(Due) /\ timecmph0 = High(Due)
    /\ ipc = "count" => mtime >= Due
    /\ ipc \in {"low", "high"} => tval = Due /\ interval # 0
    /\ ipc = "high" => timecmpl0 = Low(tval)

\* The deadline is the asked ticks, of 32 bits, after a time that is not before the meter's.
DelayInv ==
    /\ pc \in {"delay", "wait", "meter", "measured"} => timer_meter_start_cnt <= mtime
    /\ pc \in {"wait", "meter"} =>
          /\ cnt = (unit * asked) % Word
          /\ exp_tick >= timer_meter_start_cnt + cnt
    /\ pc = "meter" => mtime >= exp_tick
    /\ DelayLongEnough

Inv == ClintTypeOK /\ TimerInv /\ DelayInv

\* The two halves of a time make the time, and each is a natural number.
LEMMA Halves ==
    ASSUME NEW t \in Nat
    PROVE  /\ Low(t) \in 0 .. (Word - 1) /\ High(t) \in Nat
           /\ High(t) * Word + Low(t) = t
BY ClintTimerAssumption DEF Low, High

\* A quotient of a natural number is one, and not above it; it is at least what the number
\* holds the divisor times.
LEMMA Quotient ==
    ASSUME NEW u \in Nat \ {0}, NEW t \in Nat, NEW a \in Nat
    PROVE  /\ t \div u \in Nat /\ t \div u <= t
           /\ u * a \in Nat
           /\ t >= u * a => t \div u >= a
OBVIOUS

\* A remainder is a natural number, and the number itself below the divisor.
LEMMA Remainder ==
    ASSUME NEW t \in Nat
    PROVE  /\ t % Word \in Nat
           /\ t < Word => t % Word = t
BY ClintTimerAssumption

\* The next tick is due at a natural number.
LEMMA DueInNat == ClintTypeOK => Due \in Nat /\ (interval + 1) * TIMER_CNT_MS + smtime \in Nat
<1> SUFFICES ASSUME ClintTypeOK
             PROVE  Due \in Nat /\ (interval + 1) * TIMER_CNT_MS + smtime \in Nat
  OBVIOUS
<1>1. interval \in Nat /\ smtime \in Nat /\ arg \in Nat /\ TIMER_CNT_MS \in Nat
  BY ClintTimerAssumption DEF ClintTypeOK
<1>2. (interval + 1) * TIMER_CNT_MS \in Nat
  BY <1>1
<1> QED  BY <1>1, <1>2 DEF Due

\* At the start the timer is stopped and no delay is under way.
LEMMA InitInv == ClintInit => Inv
<1> SUFFICES ASSUME ClintInit PROVE Inv
  OBVIOUS
<1>1. ClintTypeOK
  <2>1. /\ timecmpl0 \in 0 .. (Word - 1) /\ timecmph0 \in Nat
        /\ unit \in {TIMER_CNT_MS, TIMER_CNT_US}
    BY ClintTimerAssumption DEF ClintInit
  <2> QED  BY <2>1 DEF ClintInit, ClintTypeOK
<1>2. TimerInv /\ DelayInv
  BY DEF ClintInit, TimerInv, DelayInv, DelayLongEnough
<1> QED  BY <1>1, <1>2 DEF Inv

\* riscv_start_timer() and riscv_stop_timer(): the compare register is written while the timer
\* cannot interrupt, and is whole when it can again.
LEMMA TimerSteps == Inv /\ TimerStep => Inv'
<1> SUFFICES ASSUME Inv, TimerStep PROVE Inv'
  OBVIOUS
<1> USE DEF Go
<1>1. arg \in Nat /\ smtime \in Nat /\ arg + smtime \in Nat
  BY DEF Inv, ClintTypeOK
<1>2. /\ Low(arg + smtime) \in 0 .. (Word - 1)
      /\ High(arg + smtime) \in Nat
  BY <1>1, Halves
<1>3. ClintTypeOK'
  <2> USE ClintTimerAssumption DEF Inv, ClintTypeOK
  <2>1. CASE StartTimer
    BY <2>1 DEF StartTimer, clint, csrs, delay, handler
  <2>2. CASE ReadMtime
    BY <2>2 DEF ReadMtime, clint, csrs, delay, handler
  <2>3. CASE WriteLow
    BY <1>2, <2>3 DEF WriteLow, csrs, thls, delay, handler
  <2>4. CASE WriteHigh
    BY <1>2, <2>4 DEF WriteHigh, csrs, thls, delay, handler
  <2>5. CASE EnableMie
    BY <2>5 DEF EnableMie, clint, thls, delay, handler
  <2>6. CASE EnableMtie
    BY <2>6 DEF EnableMtie, clint, thls, delay, handler
  <2>7. CASE StopTimer
    BY <2>7 DEF StopTimer, clint, thls, delay, handler
  <2> QED  BY <2>1, <2>2, <2>3, <2>4, <2>5, <2>6, <2>7 DEF TimerStep
<1>4. TimerInv'
  <2> USE DEF Inv, TimerInv, Due, Low, High
  <2>1. CASE StartTimer
    BY <2>1 DEF StartTimer, clint, csrs, delay, handler
  <2>2. CASE ReadMtime
    BY <2>2 DEF ReadMtime, ClintTypeOK, clint, csrs, delay, handler
  <2>3. CASE WriteLow
    BY <2>3 DEF WriteLow, csrs, thls, delay, handler
  <2>4. CASE WriteHigh
    BY <2>4 DEF WriteHigh, csrs, thls, delay, handler
  <2>5. CASE EnableMie
    BY <2>5 DEF EnableMie, clint, thls, delay, handler
  <2>6. CASE EnableMtie
    BY <2>6 DEF EnableMtie, clint, thls, delay, handler
  <2>7. CASE StopTimer
    BY <2>7 DEF StopTimer, clint, thls, delay, handler
  <2> QED  BY <2>1, <2>2, <2>3, <2>4, <2>5, <2>6, <2>7 DEF TimerStep
<1>5. DelayInv'
  BY DEF Inv, DelayInv, DelayLongEnough, TimerStep, StartTimer, ReadMtime, WriteLow, WriteHigh,
      EnableMie, EnableMtie, StopTimer, delay
<1> QED  BY <1>3, <1>4, <1>5 DEF Inv

\* timer_interrupt(): it is taken when a tick is due, and the compare register is whole again
\* when it returns.
LEMMA IsrSteps == Inv /\ IsrStep => Inv'
<1> SUFFICES ASSUME Inv, IsrStep PROVE Inv'
  OBVIOUS
<1>1. /\ Due \in Nat /\ (interval + 1) * TIMER_CNT_MS + smtime \in Nat
      /\ tval \in Nat /\ interval \in Nat
  BY DueInNat DEF Inv, ClintTypeOK
<1>2. /\ Low(Due) \in 0 .. (Word - 1) /\ High(Due) \in Nat
      /\ High(Due) * Word + Low(Due) = Due
  BY <1>1, Halves
<1>3. Low(tval) \in 0 .. (Word - 1) /\ High(tval) \in Nat
  BY <1>1, Halves
<1>4. (interval + 1 + 1) * TIMER_CNT_MS + smtime \in Nat
  <2>1. interval + 1 + 1 \in Nat /\ TIMER_CNT_MS \in Nat /\ smtime \in Nat
    BY <1>1, ClintTimerAssumption DEF Inv, ClintTypeOK
  <2>2. (interval + 1 + 1) * TIMER_CNT_MS \in Nat
    BY <2>1
  <2> QED  BY <2>1, <2>2
<1>5. CASE TakeInterrupt
  <2>1. ClintTypeOK' /\ DelayInv'
    BY <1>5 DEF Inv, ClintTypeOK, DelayInv, DelayLongEnough, TakeInterrupt, clint, thls, delay
  <2>2. mtime >= Due
    BY <1>2, <1>5 DEF Inv, TimerInv, TakeInterrupt, Compare
  <2>3. Due' = Due
    BY <1>5 DEF TakeInterrupt, Due, thls
  <2>4. TimerInv'
    BY <1>5, <2>2, <2>3 DEF Inv, TimerInv, TakeInterrupt, clint, thls, Low, High
  <2> QED  BY <2>1, <2>4 DEF Inv
<1>6. CASE IsrCount
  <2>1. ClintTypeOK' /\ DelayInv'
    BY <1>1, <1>4, <1>6
    DEF Inv, ClintTypeOK, DelayInv, DelayLongEnough, IsrCount, clint, csrs, delay
  <2>2. tval' = Due' /\ interval' # 0
    BY <1>1, <1>6 DEF IsrCount, Due
  <2>3. TimerInv'
    BY <1>6, <2>2 DEF Inv, TimerInv, IsrCount, clint, csrs
  <2> QED  BY <2>1, <2>3 DEF Inv
<1>7. CASE IsrLow
  <2>1. ClintTypeOK' /\ DelayInv'
    BY <1>3, <1>7 DEF Inv, ClintTypeOK, DelayInv, DelayLongEnough, IsrLow, csrs, thls, delay
  <2>2. Due' = Due /\ timecmpl0' = Low(tval)'
    BY <1>7 DEF IsrLow, Due, Low, thls
  <2>3. TimerInv'
    BY <1>7, <2>2 DEF Inv, TimerInv, IsrLow, csrs, thls
  <2> QED  BY <2>1, <2>3 DEF Inv
<1>8. CASE IsrHigh
  <2>1. ClintTypeOK' /\ DelayInv'
    BY <1>3, <1>8 DEF Inv, ClintTypeOK, DelayInv, DelayLongEnough, IsrHigh, csrs, thls, delay
  <2>2. Due' = Due /\ timecmpl0' = Low(Due)' /\ timecmph0' = High(Due)'
    BY <1>8 DEF Inv, TimerInv, IsrHigh, Due, Low, High, thls
  <2>3. TimerInv'
    BY <1>8, <2>2 DEF Inv, TimerInv, IsrHigh, csrs, thls
  <2> QED  BY <2>1, <2>3 DEF Inv
<1>9. CASE Mret
  <2>1. ClintTypeOK' /\ DelayInv'
    BY <1>9 DEF Inv, ClintTypeOK, DelayInv, DelayLongEnough, Mret, clint, thls, delay
  <2>2. Due' = Due /\ Low(Due)' = Low(Due) /\ High(Due)' = High(Due)
    BY <1>9 DEF Mret, Due, Low, High, thls
  <2>3. TimerInv'
    BY <1>9, <2>2 DEF Inv, TimerInv, Mret, clint, thls, Low, High
  <2> QED  BY <2>1, <2>3 DEF Inv
<1> QED  BY <1>5, <1>6, <1>7, <1>8, <1>9 DEF IsrStep

\* mdelay(), udelay() and the meter: the ticks of a delay that fit 32 bits are the ticks asked
\* for, and the meter is read when they have passed.
LEMMA DelaySteps == Inv /\ DelayStep => Inv'
<1> SUFFICES ASSUME Inv, DelayStep PROVE Inv'
  OBVIOUS
<1>1. /\ mtime \in Nat /\ timer_meter_start_cnt \in Nat /\ asked \in Nat
      /\ unit \in Nat \ {0} /\ cnt \in Nat /\ exp_tick \in Nat
  BY ClintTimerAssumption DEF Inv, ClintTypeOK
<1>2. UNCHANGED <<mtime, clint, csrs, thls, arg, handler>>
  BY DEF DelayStep, MeterStart, Deadline, WaitOver, MeterGet, DelayDone
<1>3. ipc = "idle" /\ pc \in {"main", "delay", "wait", "meter", "measured"}
      /\ pc' \in {"main", "delay", "wait", "meter", "measured"}
  BY DEF DelayStep, MeterStart, Deadline, WaitOver, MeterGet, DelayDone, Go
<1>4. TimerInv'
  <2>1. Due' = Due
    BY <1>2 DEF Due, thls
  <2> QED
    BY <1>2, <1>3, <2>1 DEF Inv, TimerInv, Low, High, clint, csrs, thls, handler
<1>5. CASE MeterStart
  <2>1. ClintTypeOK'
    BY <1>1, <1>2, <1>5, ClintTimerAssumption
    DEF Inv, ClintTypeOK, MeterStart, Go, clint, csrs, thls, handler
  <2>2. DelayInv'
    BY <1>1, <1>5 DEF DelayInv, DelayLongEnough, MeterStart, Go
  <2> QED  BY <1>4, <2>1, <2>2 DEF Inv
<1>6. CASE Deadline
  <2>1. unit * asked \in Nat /\ (unit * asked) % Word \in Nat
    BY <1>1, Remainder
  <2>2. ClintTypeOK'
    BY <1>1, <1>2, <1>6, <2>1 DEF Inv, ClintTypeOK, Deadline, Go, clint, csrs, thls, handler
  <2>3. DelayInv'
    BY <1>1, <1>2, <1>6, <2>1 DEF Inv, DelayInv, DelayLongEnough, Deadline, Go
  <2> QED  BY <1>4, <2>2, <2>3 DEF Inv
<1>7. CASE WaitOver
  <2>1. ClintTypeOK' /\ DelayInv'
    BY <1>2, <1>7 DEF Inv, ClintTypeOK, DelayInv, DelayLongEnough, WaitOver, Go,
                      clint, csrs, thls, handler, delay
  <2> QED  BY <1>4, <2>1 DEF Inv
<1>8. CASE MeterGet
  <2>1. PICK t \in Nat : t = mtime - timer_meter_start_cnt
    BY <1>1, <1>8 DEF Inv, DelayInv, MeterGet, Go
  <2>2. elapsed' = (t \div unit) % Word
    BY <1>8, <2>1 DEF MeterGet
  <2>3. t \div unit \in Nat /\ t \div unit <= t /\ unit * asked \in Nat
        /\ (t >= unit * asked => t \div unit >= asked)
    BY <1>1, <2>1, Quotient
  <2>4. ClintTypeOK'
    BY <1>1, <1>2, <1>8, <2>2, <2>3, Remainder
    DEF Inv, ClintTypeOK, MeterGet, Go, clint, csrs, thls, handler
  <2>5. ASSUME unit * asked < Word, t < Word PROVE elapsed' >= asked
    <3>1. elapsed' = t \div unit
      BY <2>2, <2>3, <2>5, Remainder, <2>1, ClintTimerAssumption
    <3>2. cnt = unit * asked
      BY <1>8, <2>3, <2>5, Remainder DEF Inv, DelayInv, MeterGet, Go
    <3>3. t >= unit * asked
      BY <1>1, <1>8, <2>1, <2>3, <3>2 DEF Inv, DelayInv, MeterGet, Go
    <3> QED  BY <2>3, <3>1, <3>3
  <2>6. DelayLongEnough'
    BY <1>2, <1>8, <2>1, <2>5 DEF DelayLongEnough, MeterGet, Go
  <2>7. DelayInv'
    BY <1>2, <1>8, <2>6 DEF Inv, DelayInv, MeterGet, Go
  <2> QED  BY <1>4, <2>4, <2>7 DEF Inv
<1>9. CASE DelayDone
  <2>1. ClintTypeOK' /\ DelayInv'
    BY <1>2, <1>9 DEF Inv, ClintTypeOK, DelayInv, DelayLongEnough, DelayDone, Go,
                      clint, csrs, thls, handler
  <2> QED  BY <1>4, <2>1 DEF Inv
<1> QED  BY <1>5, <1>6, <1>7, <1>8, <1>9 DEF DelayStep

\* Time only makes what was due or over more so.
LEMMA TimePasses == Inv /\ Pass => Inv'
<1> SUFFICES ASSUME Inv, Pass PROVE Inv'
  OBVIOUS
<1>1. mtime \in Nat /\ mtime' = mtime + 1
      /\ UNCHANGED <<clint, csrs, thls, pc, arg, delay, handler>>
  BY DEF Pass, Inv, ClintTypeOK
<1>2. Due' = Due /\ Due \in Nat
  BY <1>1, DueInNat DEF Due, thls, Inv
<1>3. ClintTypeOK'
  BY <1>1 DEF Inv, ClintTypeOK, clint, csrs, thls, delay, handler
<1>4. TimerInv'
  BY <1>1, <1>2 DEF Inv, TimerInv, ClintTypeOK, Low, High, clint, csrs, thls, handler
<1>5. DelayLongEnough'
  <2>1. pc = "measured" /\ unit * asked < Word /\ mtime + 1 - timer_meter_start_cnt < Word
           => elapsed >= asked
    BY <1>1, ClintTimerAssumption DEF Inv, DelayInv, DelayLongEnough, ClintTypeOK
  <2>2. /\ mtime' = mtime + 1 /\ pc' = pc /\ unit' = unit /\ asked' = asked
        /\ timer_meter_start_cnt' = timer_meter_start_cnt /\ elapsed' = elapsed
    BY <1>1 DEF delay
  <2>3. unit' * asked' = unit * asked
    BY <2>2, Zenon
  <2>4. mtime \in Nat /\ timer_meter_start_cnt \in Nat /\ Word \in Nat
    BY ClintTimerAssumption DEF Inv, ClintTypeOK
  <2>5. mtime' - timer_meter_start_cnt' < Word => mtime + 1 - timer_meter_start_cnt < Word
    BY <2>2, <2>4
  <2>6. pc' = "measured" /\ unit' * asked' < Word /\ mtime' - timer_meter_start_cnt' < Word
           => elapsed' >= asked'
    BY <2>1, <2>2, <2>3, <2>5, Zenon
  <2> QED  BY <2>6, Zenon DEF DelayLongEnough
<1>6. DelayInv'
  BY <1>1, <1>5 DEF Inv, DelayInv, ClintTypeOK, delay
<1> QED  BY <1>3, <1>4, <1>6 DEF Inv

\* Every step keeps the invariant.
LEMMA NextInv == Inv /\ [ClintNext]_clintVars => Inv'
<1>1. Inv /\ UNCHANGED clintVars => Inv'
  <2> SUFFICES ASSUME Inv, UNCHANGED clintVars PROVE Inv'
    OBVIOUS
  <2>1. UNCHANGED <<mtime, timecmpl0, timecmph0, mie, mtie, smtime, interval, pc, arg, asked,
                    unit, cnt, exp_tick, timer_meter_start_cnt, elapsed, ipc, tval>>
    BY DEF clintVars, clint, csrs, thls, delay, handler
  <2>2. ClintTypeOK' /\ DelayInv'
    BY <2>1 DEF Inv, ClintTypeOK, DelayInv, DelayLongEnough
  <2>3. TimerInv'
    BY <2>1 DEF Inv, TimerInv, Due, Low, High
  <2> QED  BY <2>2, <2>3 DEF Inv
<1> QED
  BY <1>1, TimerSteps, DelaySteps, IsrSteps, TimePasses DEF ClintNext, Bounded

\* The invariant holds in every state.
THEOREM Invariant == ClintSpec => []Inv
BY InitInv, NextInv, PTL DEF ClintSpec

\* mdelay() and udelay(): a delay of at most 2^32 ticks is, by the program's meter, at least as
\* long as asked, whatever interrupts are served during it.
THEOREM DelaysLongEnough == ClintSpec => []DelayLongEnough
<1>1. Inv => DelayLongEnough  BY DEF Inv, DelayInv
<1> QED  BY <1>1, Invariant, PTL

\* timer_interrupt() and riscv_start_timer(): every step of the driver is a step of the
\* metronome or leaves it alone, so no tick comes early and none is lost or shifts the next;
\* that the ticks that are due come is left to the run.
THEOREM IsMetronome == ClintSpec => MetronomeOf!Init /\ [][MetronomeOf!Next]_(MetronomeOf!vars)
<1>1. ClintInit => MetronomeOf!Init
  BY DEF ClintInit, MetronomeOf!Init
<1>2. Inv /\ [ClintNext]_clintVars => [MetronomeOf!Next]_(MetronomeOf!vars)
  <2> SUFFICES ASSUME Inv, [ClintNext]_clintVars PROVE [MetronomeOf!Next]_(MetronomeOf!vars)
    OBVIOUS
  <2> USE DEF Go
  <2>1. CASE EnableMtie
    <3>1. mtie = FALSE /\ mtie' = TRUE /\ UNCHANGED <<mtime, smtime, interval, arg>>
          /\ interval = 0 /\ smtime \in 0 .. mtime /\ arg \in Nat
      BY <2>1 DEF EnableMtie, thls, Inv, TimerInv, ClintTypeOK
    <3>2. MetronomeOf!Set
      BY <3>1 DEF MetronomeOf!Set
    <3> QED  BY <3>2 DEF MetronomeOf!Next
  <2>2. CASE StopTimer
    <3>1. mtie = TRUE /\ mtie' = FALSE /\ mtime' = mtime
      BY <2>2 DEF StopTimer, Inv, ClintTypeOK
    <3>2. MetronomeOf!Reset
      BY <3>1 DEF MetronomeOf!Reset
    <3> QED  BY <3>2 DEF MetronomeOf!Next
  <2>3. CASE IsrCount
    <3>1. mtie = TRUE /\ mtie' = TRUE /\ mtime >= Due /\ interval' = interval + 1
          /\ UNCHANGED <<mtime, smtime, arg>>
      BY <2>3 DEF IsrCount, csrs, Inv, TimerInv, ClintTypeOK
    <3>2. Due = MetronomeOf!Due
      <4>1. arg \in Nat /\ smtime \in Nat /\ (interval + 1) * TIMER_CNT_MS + smtime \in Nat
            /\ (interval + 1) * TIMER_CNT_MS \in Int
        <5>1. arg \in Nat /\ smtime \in Nat /\ interval \in Nat
          BY DEF Inv, ClintTypeOK
        <5> QED  BY <5>1, ClintTimerAssumption, DueInNat DEF Inv
      <4> QED  BY <3>1, <4>1 DEF Due, MetronomeOf!Due
    <3>3. MetronomeOf!Tick
      BY <3>1, <3>2 DEF MetronomeOf!Tick
    <3> QED  BY <3>3 DEF MetronomeOf!Next
  <2>4. CASE Pass
    <3>1. MetronomeOf!Pass
      BY <2>4 DEF Pass, csrs, thls, MetronomeOf!Pass
    <3> QED  BY <3>1 DEF MetronomeOf!Next
  <2>5. CASE StartTimer \/ ReadMtime \/ WriteLow \/ WriteHigh \/ EnableMie
    <3>1. mtie = FALSE /\ mtie' = FALSE /\ mtime' = mtime
      BY <2>5 DEF StartTimer, ReadMtime, WriteLow, WriteHigh, EnableMie, csrs, Inv, TimerInv,
                  ClintTypeOK
    <3> QED  BY <3>1 DEF MetronomeOf!vars
  <2>6. CASE DelayStep \/ TakeInterrupt \/ IsrLow \/ IsrHigh \/ Mret
    <3>1. UNCHANGED <<mtime, mtie, smtime, interval, arg>>
      BY <2>6 DEF DelayStep, MeterStart, Deadline, WaitOver, MeterGet, DelayDone, TakeInterrupt,
                  IsrLow, IsrHigh, Mret, csrs, thls
    <3> QED  BY <3>1 DEF MetronomeOf!vars
  <2>7. CASE UNCHANGED clintVars
    BY <2>7 DEF clintVars, csrs, thls, MetronomeOf!vars
  <2> QED
    BY <2>1, <2>2, <2>3, <2>4, <2>5, <2>6, <2>7 DEF ClintNext, TimerStep, IsrStep, Bounded
<1> QED  BY <1>1, <1>2, Invariant, PTL DEF ClintSpec

-----------------------------------------------------------------------------
\* test_timer().  Before the timer is started, ...
Before ==
    /\ dpc \in {"stop", "mode", "top1", "enable"} /\ dipc = "idle" /\ expired = 0
    /\ ~intstatus /\ (dpc # "stop" => ~enabled)
    /\ dpc \in {"stop", "mode", "enable"} => left = 0
    /\ dpc \in {"top1", "enable"} => g_count = 1 /\ userdef
    /\ dpc = "enable" => load = Second

\* ... until the second period is in the load register, ...
Preload ==
    /\ dpc \in {"old", "top2"} /\ dipc = "idle" /\ expired = 0
    /\ ~intstatus /\ enabled /\ userdef /\ g_count = 1
    /\ load = Second /\ left < count
    /\ dpc = "old" => count = Second /\ left = 0
    /\ dpc = "top2" => (now - g_time_old) + count = Second

\* ... between two interrupts, with the next period in the load register, ...
Counting ==
    /\ dpc = "wait" /\ dipc = "idle" /\ ~intstatus /\ left = 0
    /\ enabled /\ userdef /\ g_count = expired + 1
    /\ load = g_count * Second + Second /\ count > 0
    /\ (now - g_time_old) + count = g_count * Second

\* ... when a period is over, ...
Expired ==
    /\ dpc = "wait" /\ dipc = "idle" /\ intstatus /\ left = 0
    /\ enabled /\ userdef /\ g_count = expired /\ g_count > 0
    /\ load = g_count * Second + Second /\ count = load
    /\ now - g_time_old = g_count * Second

\* ... in the handler, which prints twice in less than two seconds, ...
Handling ==
    /\ dpc = "wait" /\ dipc \in {"print", "top", "off"} /\ ~intstatus /\ left = 0
    /\ enabled /\ userdef
    /\ dipc = "print" => /\ g_count = expired /\ g_count > 0
                         /\ g_time_elapsed = expired * Second
                         /\ load = g_count * Second + Second
                         /\ (now - g_time_old) + count = g_count * Second + Second
                         /\ (now - g_time_old) + ileft < Second
    /\ dipc = "top" => /\ g_count = expired + 1 /\ g_count > 1
                       /\ (now - g_time_old) + count = g_count * Second
                       /\ (now - g_time_old) + ileft < 2 * Second
    /\ dipc = "off" => g_count = 0 /\ ileft = 0

\* ... and when the last one has stopped the timer.
Stopped ==
    /\ dpc \in {"wait", "done"} /\ dipc = "idle" /\ ~intstatus /\ left = 0
    /\ ~enabled /\ g_count = 0

DemoTypes ==
    /\ left \in Nat /\ ileft \in Nat /\ load \in Nat /\ count \in Nat /\ g_count \in Nat
    /\ now \in Nat /\ g_time_old \in 0 .. now /\ expired \in Nat

DemoInv == DemoTypes /\ (Before \/ Preload \/ Counting \/ Expired \/ Handling \/ Stopped)

\* Whole numbers of seconds
LEMMA Seconds ==
    ASSUME NEW n \in Nat
    PROVE  /\ n * Second \in Nat
           /\ (n + 1) * Second = n * Second + Second
           /\ 1 * Second = Second
           /\ n > 0 => n * Second >= Second
           /\ n > 1 => n * Second >= 2 * Second
<1>1. Second \in Nat \ {0}
  BY DemoAssumption DEF Demo!TimerDemoConstants
<1>2. n * Second \in Nat /\ (n + 1) * Second = n * Second + Second /\ 1 * Second = Second
  BY <1>1
<1>3. n > 0 => n * Second >= Second
  <2>1. n > 0 => n * Second = (n - 1) * Second + Second /\ (n - 1) * Second \in Nat
    BY <1>1
  <2> QED  BY <1>1, <1>2, <2>1
<1>4. n > 1 => n * Second >= 2 * Second
  <2>1. n > 1 => n * Second = (n - 2) * Second + 2 * Second /\ (n - 2) * Second \in Nat
    BY <1>1
  <2> QED  BY <1>1, <1>2, <2>1
<1> QED  BY <1>2, <1>3, <1>4

\* At the start
LEMMA InitDemo == Init => DemoInv
<1> SUFFICES ASSUME Demo!Init PROVE DemoInv
  BY DEF Init
<1>1. DemoTypes
  BY DemoAssumption DEF Demo!Init, Demo!TimerDemoConstants, DemoTypes
<1>2. Before
  BY DEF Demo!Init, Before
<1> QED  BY <1>1, <1>2 DEF DemoInv

\* test_timer(): with one period in the counter, the next one is in the load register before
\* the main program waits.
LEMMA MainDemo ==
    ASSUME DemoInv, Demo!MainStep
    PROVE  DemoInv'
<1> USE DEF Demo!At
<1> USE DemoAssumption DEF Demo!TimerDemoConstants
<1>1. CASE Demo!Stop
  BY <1>1 DEF Demo!Stop, Demo!globals, DemoInv, DemoTypes, Before, Preload, Counting, Expired,
              Handling, Stopped
<1>2. CASE Demo!SetMode
  BY <1>2 DEF Demo!SetMode, DemoInv, DemoTypes, Before, Preload, Counting, Expired, Handling,
              Stopped
<1>3. CASE Demo!FirstTop
  <2>1. Before /\ load' = 1 * Second
    BY <1>3 DEF Demo!FirstTop, Demo!SetTop, DemoInv, Before, Preload, Counting, Expired,
                Handling, Stopped
  <2> QED  BY <1>3, <2>1, Seconds DEF Demo!FirstTop, Demo!SetTop, Demo!globals, DemoInv,
                                     DemoTypes, Before
<1>4. CASE Demo!Enable
  BY <1>4 DEF Demo!Enable, Demo!globals, DemoInv, DemoTypes, Before, Preload, Counting, Expired,
              Handling, Stopped
<1>5. CASE Demo!TimeOld
  BY <1>5 DEF Demo!TimeOld, Demo!timer, DemoInv, DemoTypes, Before, Preload, Counting, Expired,
              Handling, Stopped
<1>6. CASE Demo!SecondTop
  <2>1. Preload /\ load' = (g_count + 1) * Second /\ g_count = 1
    BY <1>6 DEF Demo!SecondTop, Demo!SetTop, DemoInv, Before, Preload, Counting, Expired,
                Handling, Stopped
  <2>2. g_count * Second = Second /\ load' = g_count * Second + Second
    BY <2>1, Seconds
  <2> QED  BY <1>6, <2>1, <2>2 DEF Demo!SecondTop, Demo!SetTop, Demo!globals, DemoInv,
                                  DemoTypes, Preload, Counting
<1>7. CASE Demo!Finish
  BY <1>7 DEF Demo!Finish, Demo!timer, Demo!globals, DemoInv, DemoTypes, Before, Preload,
              Counting, Expired, Handling, Stopped
<1> QED  BY <1>1, <1>2, <1>3, <1>4, <1>5, <1>6, <1>7 DEF Demo!MainStep

\* timer_irq_handler(): the period after the next is in the load register before the next ends.
LEMMA HandlerDemo ==
    ASSUME DemoInv, Demo!IsrStep
    PROVE  DemoInv'
<1> USE DEF Demo!IsrAt
<1>1. g_count \in Nat /\ Second \in Nat \ {0} /\ PrintTicks \subseteq 0 .. (Second - 1)
  BY DemoAssumption DEF DemoInv, DemoTypes, Demo!TimerDemoConstants
<1>2. /\ g_count * Second \in Nat /\ (g_count + 1) * Second = g_count * Second + Second
      /\ g_count > 1 => g_count * Second >= 2 * Second
  BY <1>1, Seconds
<1>3. CASE Demo!IsrEnter
  <2>1. Expired
    BY <1>3 DEF Demo!IsrEnter, DemoInv, Before, Preload, Counting, Handling, Stopped
  <2>2. DemoTypes'
    BY <1>1, <1>3 DEF Demo!IsrEnter, DemoInv, DemoTypes
  <2>3. Handling'
    <3>1. /\ now' = now /\ now - g_time_old = g_count * Second /\ expired = g_count
          /\ g_time_old' = now /\ ileft' \in 0 .. (Second - 1) /\ now \in Nat
          /\ count' = g_count * Second + Second /\ load' = count'
          /\ g_time_elapsed' = now - g_time_old /\ g_count > 0
          /\ dpc' = "wait" /\ dipc' = "print" /\ left' = 0 /\ UNCHANGED <<g_count, expired>>
      BY <1>1, <1>3, <2>1 DEF Demo!IsrEnter, DemoInv, DemoTypes, Expired
    <3>2. ~intstatus' /\ enabled' /\ userdef'
      BY <1>3, <2>1 DEF Demo!IsrEnter, Expired
    <3>3. g_time_elapsed' = expired' * Second /\ load' = g_count' * Second + Second
      BY <3>1
    <3>4. (now' - g_time_old') + count' = g_count' * Second + Second
      BY <1>2, <3>1
    <3>5. (now' - g_time_old') + ileft' < Second
      <4>1. now' - g_time_old' = 0 /\ ileft' \in 0 .. (Second - 1)
        BY <3>1
      <4>2. Second \in Nat
        BY <1>1
      <4> QED  BY <4>1, <4>2
    <3> QED  BY <3>1, <3>2, <3>3, <3>4, <3>5, Zenon DEF Handling
  <2> QED  BY <2>2, <2>3 DEF DemoInv
<1>4. CASE Demo!IsrCount
  <2>1. Handling /\ dipc = "print"
    BY <1>4 DEF Demo!IsrCount, DemoInv, Before, Preload, Counting, Expired, Handling, Stopped
  <2>2. CASE g_count < Expiries
    <3>1. /\ g_count' = g_count + 1 /\ ileft' \in 0 .. (Second - 1) /\ ileft = 0
          /\ dpc' = "wait" /\ dipc' = "top" /\ left' = 0 /\ left = 0
          /\ UNCHANGED <<now, g_time_old, load, count, expired>>
      BY <1>1, <1>4, <2>1, <2>2 DEF Demo!IsrCount, Demo!timer, Handling
    <3>2. DemoTypes /\ DemoTypes'
      <4>1. DemoTypes  BY DEF DemoInv
      <4>2. ileft' \in Nat  BY <1>1, <3>1
      <4>3. g_count' \in Nat  BY <1>1, <3>1
      <4>4. left' \in Nat  BY <3>1
      <4> QED  BY <3>1, <4>1, <4>2, <4>3, <4>4 DEF DemoTypes
    <3>3. ~intstatus' /\ enabled' /\ userdef'
      BY <1>4, <2>1, <2>2 DEF Demo!IsrCount, Demo!timer, Handling
    <3>4. g_count = expired /\ g_count > 0
      BY <2>1 DEF Handling
    <3>5. (now' - g_time_old') + count' = g_count' * Second
      BY <1>2, <2>1, <3>1 DEF Handling
    <3>6. (now' - g_time_old') + ileft' < 2 * Second
      <4>1. (now - g_time_old) + ileft < Second
        BY <2>1 DEF Handling
      <4>2. now - g_time_old < Second /\ now - g_time_old \in Nat
        BY <3>1, <3>2, <4>1 DEF DemoTypes
      <4>3. now' - g_time_old' = now - g_time_old
        BY <3>1
      <4> QED  BY <1>1, <3>1, <4>2, <4>3
    <3>7. g_count' = expired' + 1 /\ g_count' > 1
      BY <1>1, <3>1, <3>4
    <3>8. Handling'
      BY <3>1, <3>3, <3>5, <3>6, <3>7, Zenon DEF Handling
    <3> QED  BY <3>2, <3>8 DEF DemoInv
  <2>3. CASE ~(g_count < Expiries)
    <3>1. /\ g_count' = 0 /\ ileft = 0 /\ dipc' = "off"
          /\ UNCHANGED <<dpc, left, ileft, Demo!timer, now, g_time_old, expired>>
      BY <1>4, <2>1, <2>3 DEF Demo!IsrCount, Demo!timer
    <3>2. DemoTypes'
      BY <1>1, <3>1 DEF Demo!timer, DemoInv, DemoTypes
    <3>3. Handling'
      BY <2>1, <3>1 DEF Demo!timer, Handling
    <3> QED  BY <3>2, <3>3 DEF DemoInv
  <2> QED  BY <2>2, <2>3
<1>5. CASE Demo!IsrSetTop
  <2>1. Handling /\ dipc = "top"
    BY <1>5 DEF Demo!IsrSetTop, DemoInv, Before, Preload, Counting, Expired, Handling, Stopped
  <2>2. load' = g_count * Second + Second
    BY <1>2, <1>5 DEF Demo!IsrSetTop, Demo!SetTop
  <2> QED  BY <1>1, <1>2, <1>5, <2>1, <2>2
           DEF Demo!IsrSetTop, Demo!SetTop, Demo!globals, DemoInv, DemoTypes, Handling, Counting
<1>6. CASE Demo!IsrOff
  <2>1. Handling /\ dipc = "off"
    BY <1>6 DEF Demo!IsrOff, DemoInv, Before, Preload, Counting, Expired, Handling, Stopped
  <2>2. DemoTypes'
    BY <1>6 DEF Demo!IsrOff, Demo!globals, DemoInv, DemoTypes
  <2>3. Stopped'
    BY <1>6, <2>1 DEF Demo!IsrOff, Demo!globals, Handling, Stopped
  <2> QED  BY <2>2, <2>3 DEF DemoInv
<1> QED  BY <1>3, <1>4, <1>5, <1>6 DEF Demo!IsrStep

\* A tick: the counter runs out only between two interrupts.
LEMMA TickDemo ==
    ASSUME DemoInv, Demo!Tick
    PROVE  DemoInv'
<1>1. /\ g_count \in Nat /\ Second \in Nat \ {0}
      /\ left' \in Nat /\ ileft' \in Nat /\ now' \in Nat /\ now' >= now
      /\ enabled => now' = now + 1
      /\ UNCHANGED <<dpc, dipc, enabled, userdef, load, g_count, g_time_old, g_time_elapsed>>
  BY DemoAssumption DEF DemoInv, DemoTypes, Demo!TimerDemoConstants, Demo!Tick, Demo!globals
<1>2. /\ g_count * Second \in Nat
      /\ g_count > 0 => g_count * Second >= Second
      /\ g_count > 1 => g_count * Second >= 2 * Second
  BY <1>1, Seconds
<1>3. CASE Before
  <2>1. dpc = "top1" /\ ~enabled /\ UNCHANGED <<count, intstatus, expired>>
    BY <1>3 DEF Demo!Tick, Before, DemoInv, DemoTypes
  <2> QED  BY <1>1, <1>3, <2>1 DEF DemoInv, DemoTypes, Before
<1>4. CASE Preload
  <2>1. left > 0 /\ left' = left - 1 /\ count' = count - 1 /\ UNCHANGED <<intstatus, expired>>
    BY <1>4 DEF Demo!Tick, Preload, DemoInv, DemoTypes
  <2> QED  BY <1>1, <1>4, <2>1 DEF DemoInv, DemoTypes, Preload
<1>5. CASE Counting
  <2>1. left' = 0
    BY <1>5 DEF Demo!Tick, Counting
  <2>2. CASE count = 1
    <3>1. count' = load /\ intstatus' = TRUE /\ expired' = expired + 1
      BY <1>5, <2>2 DEF Demo!Tick, Counting
    <3> QED  BY <1>1, <1>2, <1>5, <2>1, <2>2, <3>1 DEF DemoInv, DemoTypes, Counting, Expired
  <2>3. CASE count > 1
    <3>1. count' = count - 1 /\ UNCHANGED <<intstatus, expired>>
      BY <1>5, <2>3 DEF Demo!Tick, Counting, DemoInv, DemoTypes
    <3> QED  BY <1>1, <1>2, <1>5, <2>1, <2>3, <3>1 DEF DemoInv, DemoTypes, Counting
  <2> QED  BY <1>5, <2>2, <2>3 DEF DemoInv, DemoTypes, Counting
<1>6. CASE Handling
  <2>1. ileft > 0 /\ ileft' = ileft - 1 /\ left' = 0
    BY <1>6 DEF Demo!Tick, Handling, DemoInv, DemoTypes
  <2>2. count > 1
    BY <1>1, <1>2, <1>6, <2>1 DEF Handling, DemoInv, DemoTypes
  <2>3. count' = count - 1 /\ UNCHANGED <<intstatus, expired>>
    BY <1>6, <2>2 DEF Demo!Tick, Handling, DemoInv, DemoTypes
  <2> QED  BY <1>1, <1>2, <1>6, <2>1, <2>2, <2>3 DEF DemoInv, DemoTypes, Handling
<1>7. ~Expired /\ ~Stopped
  BY DEF Demo!Tick, Expired, Stopped, DemoInv, DemoTypes
<1> QED  BY <1>3, <1>4, <1>5, <1>6, <1>7 DEF DemoInv

\* Every step of the program test_timer() keeps its invariant.
LEMMA NextDemo == (program = "demo" => DemoInv) /\ [Next]_vars => (program = "demo" => DemoInv)'
<1> SUFFICES ASSUME program = "demo" => DemoInv, [Next]_vars, program' = "demo"
             PROVE  DemoInv'
  OBVIOUS
<1>1. program = "demo"
  BY DEF Next, InDemo, InClint, vars
<1>2. CASE UNCHANGED vars \/ InDemo(Demo!Returned)
  <2>1. UNCHANGED demo
    BY <1>2 DEF vars, InDemo, Demo!Returned, Demo!vars, Demo!code, Demo!timer, Demo!globals, demo
  <2> QED  BY <1>1, <2>1 DEF demo, DemoInv, DemoTypes, Before, Preload, Counting, Expired,
                            Handling, Stopped
<1>3. CASE InDemo(Demo!MainStep)
  BY <1>1, <1>3, MainDemo DEF InDemo
<1>4. CASE InDemo(Demo!IsrStep)
  BY <1>1, <1>4, HandlerDemo DEF InDemo
<1>5. CASE InDemo(Demo!Tick)
  BY <1>1, <1>5, TickDemo DEF InDemo
<1> QED  BY <1>1, <1>2, <1>3, <1>4, <1>5 DEF Next, InClint

\* test_timer(): at every step the period that runs and, once it is needed, the one after it
\* are in the timer, and g_time_old is when the one that runs began.
THEOREM DemoInvariant == Spec => [](program = "demo" => DemoInv)
<1>1. Init => (program = "demo" => DemoInv)
  BY InitDemo
<1> QED  BY <1>1, NextDemo, PTL DEF Spec

\* The comment that opens test_timer.c: the n-th interrupt comes n seconds after the one before,
\* however many there are, as long as a print takes less than a second.
THEOREM PeriodsAreRight == Spec => []NthPeriod
<1>1. (program = "demo" => DemoInv) => NthPeriod
  BY DEF NthPeriod, Demo!NthPeriod, DemoInv, Before, Preload, Counting, Expired, Handling, Stopped
<1> QED  BY <1>1, DemoInvariant, PTL

\* g_count stays within the number of expiries, and the handler turns the timer off with the
\* last of them.
LengthInv ==
    /\ g_count <= Expiries
    /\ dpc \in {"wait", "done"} /\ ~enabled => expired = Expiries
    /\ dipc = "off" => expired = Expiries

\* The main program: it never waits for a timer that it has not enabled.
LEMMA MainLength ==
    ASSUME DemoInv, LengthInv, Demo!MainStep
    PROVE  LengthInv'
<1>1. CASE Demo!SetMode
  BY <1>1, DemoAssumption DEF Demo!SetMode, Demo!At, Demo!TimerDemoConstants, LengthInv
<1>2. CASE Demo!Stop \/ Demo!FirstTop \/ Demo!Enable \/ Demo!TimeOld
  <2>1. g_count' = g_count /\ dpc' \notin {"wait", "done"} /\ dipc' # "off"
    BY <1>2 DEF Demo!Stop, Demo!FirstTop, Demo!Enable, Demo!TimeOld, Demo!At, Demo!globals
  <2> QED  BY <2>1 DEF LengthInv
<1>3. CASE Demo!SecondTop
  <2>1. UNCHANGED <<g_count, enabled>> /\ dpc = "top2" /\ dipc' # "off"
    BY <1>3 DEF Demo!SecondTop, Demo!At, Demo!SetTop, Demo!globals
  <2>2. enabled
    BY <2>1 DEF DemoInv, Before, Preload, Counting, Expired, Handling, Stopped
  <2> QED  BY <2>1, <2>2 DEF LengthInv
<1>4. CASE Demo!Finish
  BY <1>4 DEF Demo!Finish, Demo!At, Demo!timer, Demo!globals, LengthInv
<1> QED  BY <1>1, <1>2, <1>3, <1>4 DEF Demo!MainStep

\* The handler: when it turns the timer off, it is the interrupt of the last expiry it handles.
LEMMA HandlerLength ==
    ASSUME DemoInv, LengthInv, Demo!IsrStep
    PROVE  LengthInv'
<1>1. CASE Demo!IsrEnter \/ Demo!IsrSetTop
  <2>1. UNCHANGED <<dpc, g_count, enabled, expired>> /\ dipc' # "off"
    BY <1>1 DEF Demo!IsrEnter, Demo!IsrSetTop, Demo!IsrAt, Demo!SetTop, Demo!globals
  <2> QED  BY <2>1 DEF LengthInv
<1>2. CASE Demo!IsrCount
  <2>1. enabled /\ g_count = expired /\ expired' = expired /\ g_count \in Nat
    BY <1>2 DEF Demo!IsrCount, Demo!IsrAt, DemoInv, DemoTypes, Before, Preload, Counting, Expired,
                Handling, Stopped
  <2>2. CASE g_count < Expiries
    <3>1. g_count' = g_count + 1 /\ enabled' = enabled /\ dipc' = "top"
      BY <1>2, <2>2 DEF Demo!IsrCount, Demo!IsrAt, Demo!timer
    <3> QED  BY <2>1, <2>2, <3>1, DemoAssumption DEF Demo!TimerDemoConstants, LengthInv
  <2>3. CASE ~(g_count < Expiries)
    <3>1. g_count' = 0
      BY <1>2, <2>3 DEF Demo!IsrCount
    <3>2. expired = Expiries
      BY <2>1, <2>3, DemoAssumption DEF Demo!TimerDemoConstants, LengthInv
    <3> QED  BY <2>1, <3>1, <3>2, DemoAssumption DEF Demo!TimerDemoConstants, LengthInv
  <2> QED  BY <2>2, <2>3
<1>3. CASE Demo!IsrOff
  BY <1>3 DEF Demo!IsrOff, Demo!IsrAt, Demo!globals, LengthInv
<1> QED  BY <1>1, <1>2, <1>3 DEF Demo!IsrStep

\* Every step of test_timer() keeps it; the counter of a timer that is off does not run out.
LEMMA NextLength ==
    (program = "demo" => DemoInv) /\ (program = "demo" => LengthInv) /\ [Next]_vars
        => (program = "demo" => LengthInv)'
<1> SUFFICES ASSUME program = "demo" => DemoInv, program = "demo" => LengthInv, [Next]_vars,
                    program' = "demo"
             PROVE  LengthInv'
  OBVIOUS
<1>1. program = "demo"
  BY DEF Next, InDemo, InClint, vars
<1>2. CASE UNCHANGED vars \/ InDemo(Demo!Returned)
  <2>1. UNCHANGED demo
    BY <1>2 DEF vars, InDemo, Demo!Returned, Demo!vars, Demo!code, Demo!timer, Demo!globals, demo
  <2> QED  BY <1>1, <2>1 DEF demo, LengthInv
<1>3. CASE InDemo(Demo!MainStep)
  BY <1>1, <1>3, MainLength DEF InDemo
<1>4. CASE InDemo(Demo!IsrStep)
  BY <1>1, <1>4, HandlerLength DEF InDemo
<1>5. CASE InDemo(Demo!Tick)
  <2>1. UNCHANGED <<dpc, dipc, enabled, g_count>>
        /\ (~enabled => expired' = expired)
    BY <1>5 DEF InDemo, Demo!Tick, Demo!globals
  <2>2. dipc # "off"
    <3>1. dipc = "off" => Handling /\ ileft = 0
      BY <1>1 DEF DemoInv, Before, Preload, Counting, Expired, Handling, Stopped
    <3>2. ileft > 0 \/ dipc = "idle"
      BY <1>5 DEF InDemo, Demo!Tick
    <3> QED  BY <3>1, <3>2
  <2> QED  BY <1>1, <2>1, <2>2 DEF LengthInv
<1> QED  BY <1>1, <1>2, <1>3, <1>4, <1>5 DEF Next, InClint

\* test_timer() returns with its timer off, no interrupt up or in its handler, and after exactly
\* the expiries it was to wait for: nothing of it runs on into the next stage.
THEOREM StopsOnTime == Spec => []DoneMeansOff
<1>1. Init => (program = "demo" => LengthInv)
  BY DemoAssumption DEF Init, Demo!Init, Demo!TimerDemoConstants, LengthInv
<1>2. (program = "demo" => DemoInv) /\ (program = "demo" => LengthInv) => DoneMeansOff
  BY DEF DoneMeansOff, Demo!DoneMeansOff, DemoInv, LengthInv, Before, Preload, Counting, Expired,
         Handling, Stopped
<1> QED  BY <1>1, <1>2, NextLength, DemoInvariant, PTL DEF Spec
=============================================================================
