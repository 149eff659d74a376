----------------------------- MODULE ClintTimer -----------------------------
(***************************************************************************)
(* source/clint_timer.c: the machine timer, started and stopped by a main   *)
(* program and served by timer_interrupt(), whose compare register is two   *)
(* halves written one after the other; and the delays and the meter, which  *)
(* read the same clock with interrupts on.  One step per register access.   *)
(***************************************************************************)
EXTENDS Integers

CONSTANTS
    Word,           \* 2^32: what a half of the compare register and a uint32_t hold
    TIMER_CNT_MS,   \* ticks of the clock in a millisecond: also the timer's period,
                    \* CONFIG_CPU_TIMER_CLOCK / TIMER_HZ
    TIMER_CNT_US,   \* ticks in a microsecond
    Intervals,      \* what riscv_start_timer() is given
    Delays,         \* what mdelay() and udelay() are given
    MaxTime         \* bound on the clock

ASSUME ClintTimerAssumption ==
    /\ Word \in Nat \ {0} /\ TIMER_CNT_MS \in Nat \ {0} /\ TIMER_CNT_US \in Nat \ {0}
    /\ Intervals \subseteq Nat /\ Delays \subseteq Nat /\ MaxTime \in Nat

VARIABLES
    mtime, timecmpl0, timecmph0, mie, mtie,     \* the CLINT, mstatus.MIE and mie.MTIP
    smtime, interval,                           \* thls
    pc, arg,                                    \* the main program, and riscv_start_timer()'s argument
    asked, unit, cnt, exp_tick,                 \* a delay: its argument, the ticks of one unit,
                                                \* the ticks in all, and the deadline
    timer_meter_start_cnt, elapsed,             \* the meter, and what it read
    ipc, tval                                   \* the handler

clint == <<timecmpl0, timecmph0>>
csrs == <<mie, mtie>>
thls == <<smtime, interval>>
delay == <<asked, unit, cnt, exp_tick, timer_meter_start_cnt, elapsed>>
handler == <<ipc, tval>>
clintVars == <<mtime, clint, csrs, thls, pc, arg, delay, handler>>

\* An earlier stage may have left any compare value.
ClintInit ==
    /\ mtime = 0 /\ timecmpl0 \in {0, Word - 1} /\ timecmph0 \in 0..1
    /\ mie = FALSE /\ mtie = FALSE /\ smtime = 0 /\ interval = 0
    /\ pc = "main" /\ arg = 0
    /\ asked = 0 /\ unit = TIMER_CNT_MS /\ cnt = 0 /\ exp_tick = 0
    /\ timer_meter_start_cnt = 0 /\ elapsed = 0
    /\ ipc = "idle" /\ tval = 0

Low(t) == t % Word
High(t) == t \div Word
Compare == timecmph0 * Word + timecmpl0

\* The main program runs unless the handler does.
Go(from, to) == ipc = "idle" /\ pc = from /\ pc' = to

-----------------------------------------------------------------------------
\* riscv_start_timer(), of a timer that is stopped: the time is read, ...
StartTimer ==
    /\ Go("main", "mtime") /\ ~mtie
    /\ arg' \in Intervals /\ interval' = 0
    /\ UNCHANGED <<mtime, clint, csrs, smtime, delay, handler>>

ReadMtime ==
    /\ Go("mtime", "low") /\ smtime' = mtime
    /\ UNCHANGED <<mtime, clint, csrs, interval, arg, delay, handler>>

\* Fault: the interrupt is enabled while the compare register is half written.
FaultEnabledEarly ==
    /\ Go("low", "high") /\ timecmpl0' = Low(arg + smtime)
    /\ mie' = TRUE /\ mtie' = TRUE
    /\ UNCHANGED <<mtime, timecmph0, thls, arg, delay, handler>>

\* ... the halves written, ...
WriteLow ==
    /\ Go("low", "high") /\ timecmpl0' = Low(arg + smtime)
    /\ UNCHANGED <<mtime, timecmph0, csrs, thls, arg, delay, handler>>

WriteHigh ==
    /\ Go("high", "mie") /\ timecmph0' = High(arg + smtime)
    /\ UNCHANGED <<mtime, timecmpl0, csrs, thls, arg, delay, handler>>

\* ... and interrupts enabled.
EnableMie ==
    /\ Go("mie", "mtie") /\ mie' = TRUE
    /\ UNCHANGED <<mtime, clint, mtie, thls, arg, delay, handler>>

EnableMtie ==
    /\ Go("mtie", "main") /\ mtie' = TRUE
    /\ UNCHANGED <<mtime, clint, mie, thls, arg, delay, handler>>

\* riscv_stop_timer() (mip.MTIP follows the comparison; clearing it does nothing)
StopTimer ==
    /\ Go("main", "main") /\ mtie /\ mtie' = FALSE /\ arg' = 0
    /\ UNCHANGED <<mtime, clint, mie, thls, delay, handler>>

-----------------------------------------------------------------------------
\* The trap: taken with both enables on and the clock at the compare value or past it; the
\* handler runs with MIE off.
TakeInterrupt ==
    /\ ipc = "idle" /\ mie /\ mtie /\ mtime >= Compare
    /\ ipc' = "count" /\ mie' = FALSE
    /\ UNCHANGED <<mtime, clint, mtie, thls, pc, arg, delay, tval>>

\* timer_interrupt(); intr_handler is never set.
IsrCount ==
    /\ ipc = "count" /\ ipc' = "low"
    /\ interval' = interval + 1
    /\ tval' = (interval' + 1) * TIMER_CNT_MS + smtime
    /\ UNCHANGED <<mtime, clint, csrs, smtime, pc, arg, delay>>

IsrLow ==
    /\ ipc = "low" /\ ipc' = "high" /\ timecmpl0' = Low(tval)
    /\ UNCHANGED <<mtime, timecmph0, csrs, thls, pc, arg, delay, tval>>

IsrHigh ==
    /\ ipc = "high" /\ ipc' = "return" /\ timecmph0' = High(tval) /\ tval' = 0
    /\ UNCHANGED <<mtime, timecmpl0, csrs, thls, pc, arg, delay>>

Mret ==
    /\ ipc = "return" /\ ipc' = "idle" /\ mie' = TRUE
    /\ UNCHANGED <<mtime, clint, mtie, thls, pc, arg, delay, tval>>

-----------------------------------------------------------------------------
\* A caller times a delay with clint_timer_meter_start() ...
MeterStart ==
    /\ Go("main", "delay") /\ timer_meter_start_cnt' = mtime
    /\ asked' \in Delays /\ unit' \in {TIMER_CNT_MS, TIMER_CNT_US}
    /\ UNCHANGED <<mtime, clint, csrs, thls, arg, cnt, exp_tick, elapsed, handler>>

\* Fault: the deadline is kept in 32 bits.
FaultNarrowDeadline ==
    /\ Go("delay", "wait") /\ cnt' = (unit * asked) % Word /\ exp_tick' = (mtime + cnt') % Word
    /\ UNCHANGED <<mtime, clint, csrs, thls, arg, asked, unit, timer_meter_start_cnt, elapsed, handler>>

\* ... clint_timer_mdelay() or clint_timer_udelay(): the product is of 32 bits, its sum with
\* the time is not, ...
Deadline ==
    /\ Go("delay", "wait") /\ cnt' = (unit * asked) % Word /\ exp_tick' = mtime + cnt'
    /\ UNCHANGED <<mtime, clint, csrs, thls, arg, asked, unit, timer_meter_start_cnt, elapsed, handler>>

WaitOver ==
    /\ Go("wait", "meter") /\ mtime >= exp_tick
    /\ UNCHANGED <<mtime, clint, csrs, thls, arg, delay, handler>>

\* ... and clint_timer_meter_get_ms() or _us(), a uint32_t again.
MeterGet ==
    /\ Go("meter", "measured") /\ elapsed' = ((mtime - timer_meter_start_cnt) \div unit) % Word
    /\ UNCHANGED <<mtime, clint, csrs, thls, arg, asked, unit, cnt, exp_tick, timer_meter_start_cnt, handler>>

\* (what a return leaves behind is not looked at again, and cleared here)
DelayDone ==
    /\ Go("measured", "main")
    /\ asked' = 0 /\ unit' = TIMER_CNT_MS /\ cnt' = 0 /\ exp_tick' = 0
    /\ timer_meter_start_cnt' = 0 /\ elapsed' = 0
    /\ UNCHANGED <<mtime, clint, csrs, thls, arg, handler>>

-----------------------------------------------------------------------------
Pass == mtime < MaxTime /\ mtime' = mtime + 1 /\ UNCHANGED <<clint, csrs, thls, pc, arg, delay, handler>>

\* The bound is reached.
Bounded == mtime = MaxTime /\ UNCHANGED clintVars

TimerStep ==
    \/ StartTimer \/ ReadMtime \/ WriteLow \/ WriteHigh \/ EnableMie \/ EnableMtie \/ StopTimer
DelayStep == MeterStart \/ Deadline \/ WaitOver \/ MeterGet \/ DelayDone
IsrStep == TakeInterrupt \/ IsrCount \/ IsrLow \/ IsrHigh \/ Mret

ClintNext == TimerStep \/ DelayStep \/ IsrStep \/ Pass \/ Bounded

\* The hart takes an interrupt that is pending and enabled.
ClintSpec == ClintInit /\ [][ClintNext]_clintVars /\ WF_clintVars(IsrStep)

-----------------------------------------------------------------------------
\* The clock and its arithmetic stay natural numbers, the halves within their width.
ClintTypeOK ==
    /\ mtime \in Nat /\ timecmpl0 \in 0..(Word - 1) /\ timecmph0 \in Nat
    /\ mie \in BOOLEAN /\ mtie \in BOOLEAN /\ smtime \in Nat /\ interval \in Nat
    /\ pc \in {"main", "mtime", "low", "high", "mie", "mtie", "delay", "wait", "meter", "measured"}
    /\ arg \in Nat /\ asked \in Nat /\ unit \in {TIMER_CNT_MS, TIMER_CNT_US}
    /\ cnt \in Nat /\ exp_tick \in Nat /\ timer_meter_start_cnt \in Nat /\ elapsed \in Nat
    /\ ipc \in {"idle", "count", "low", "high", "return"} /\ tval \in Nat

\* The timer is a metronome: no tick comes early, not even while one half of the compare
\* register is new and the other old, none is lost when ticks are served late, and none
\* shifts those that follow.
MetronomeOf == INSTANCE Metronome WITH
    Period <- TIMER_CNT_MS, now <- mtime, set <- mtie,
    base <- IF mtie THEN smtime ELSE 0, first <- IF mtie THEN arg ELSE 0,
    ticks <- IF mtie THEN interval ELSE 0
ImplementsMetronome == MetronomeOf!Spec

\* A delay lasts at least as long as asked, by the program's own meter, also when interrupts
\* are served during it; so up to the longest delay whose ticks fit 32 bits, 171 s, above which
\* it is cut short.
DelayLongEnough ==
    pc = "measured" /\ unit * asked < Word /\ mtime - timer_meter_start_cnt < Word => elapsed >= asked
=============================================================================
