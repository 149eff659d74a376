# Verification of BM4Duo

BM4Duo runs small bare-metal programs on the C906 core of the Milk-V Duo boards. A program is
the start-up code, a handful of drivers, and one test case chosen when it is built. This
directory holds TLA+ models of that code, the TLC configurations that check them, and proofs
for TLAPS. Line numbers refer to the repository's `source/`, `boot/`, `scripts/`.

    cd tla
    tlc -config MCIrq.cfg MCIrq          # a run: module and configuration as in the table below
    tlapm IrqProofs.tla                  # the proofs of a component

Contents: [inventory](#1-inventory), [how the modules are written](#2-how-the-modules-are-written),
[modules and runs](#3-modules-and-runs), [fairness](#4-fairness), [proofs](#5-proofs),
[known divergences](#6-known-divergences), [seeded faults](#7-seeded-faults),
[what is not modelled](#8-what-is-not-modelled), [plan](#9-plan).

## 1. Inventory

There is one hart that matters, no scheduler, and no memory protection. All concurrency is
between the main program, the trap handler that interrupts it at any instruction and then
runs to its end, and the devices, which go on by themselves. Components interact by calls
(`main()` -> test case -> driver), by the callback table `g_irq_action` (`do_irq()` ->
handler), by globals that a handler and the main program share, and by device registers.

| component | state | operations | hard part | what makes it correct |
|---|---|---|---|---|
| trap entry, `boot/start.S`, `trap.c` | registers, stack, `mstatus`, `mepc`, `mcause` | `trap_entry`, `handle_trap()`, `_exit_trap()` | exceptions inside handlers share `mepc` and `mstatus` with the trap around them | what is interrupted finds its registers, stack and interrupt bit as they were |
| interrupts, `irq.c` | `g_irq_action[256]`, PLIC enable words, priorities, claims, `mie` | `irq_init()`, `request_irq()`, `enable_irq()`, `disable_irq()`, `do_irq()`, `cpu_*_irqs()` | an interrupt between any two accesses; words that 32 lines share; what a boot stage left behind | every request of an open line is served once, with the handler and priv of one `request_irq()` |
| console, `uart.c`, `syscalls.c`, `test_irq.c` | THR, RBR, FIFO, stdout's buffer | `_uart_putc()`, `_write()`, `uart_getc()`, `uart_isr()` | a poll and a write that a printing handler may come between; one buffer that both print through | what is lost or replaced is bounded; the handler never waits |
| watchdog, `test_wdt.c` | WDT registers, counter | `wdt_init()`, `wdt_feeddog()`, `wdt_isr()` | two periods in one register; feeding late | 5 s, then every 10 s, never a reset |
| low power, `test_lpc.c` | `SOFT_RSTN_1`, GPIO0, wfi | `gpio0_sleep()`, `gpio0_wakeup()`, `cpu_sleep()` | the wake-up between the two halves of going to sleep | GPIO0 and the hart sleep together and wake together |
| timer, `test_timer.c` | load register, `g_count`, `g_time_*` | `timer_set_top()`, `timer_isr()` | load register written ahead by two contexts | the n-th period is n seconds; the demo stops its timer |
| I2C master, `test_i2c.c` | controller registers, FIFOs | `i2c_init()`, `i2c_read()`, `i2c_write()`, `i2c_enable()` | polls that give up; slaves that refuse or are absent | 0 means that the transfer was made |
| I2C slave, `test_i2c_slave.c` | `i2c_slave_data`, slave FIFO | `i2c_slave_isr()`, the read loop | main program waits for its own handler | reads count up and return |
| SPI, `test_spi.c` | controller, D/C and RES pins, panel RAM | `spi_init()`, `spi_write()`, `spi_read()`, `oled_*()` | "FIFO empty" is not "byte sent" | what was sent arrives; at most the last byte of a run is taken for the wrong kind |
| RTC calibration, `test_rtc.c` | `RTC_ANA_CALIB`, counters | `rtc_32k_coarse_val_calib()`, `rtc_32k_fine_val_calib()` | measurements overlap the writes they measure; counters wrap | an accepted value was measured, in range |
| RTC clock and alarm, `test_rtc.c` | seconds counter, alarm | `rtc_enable_sec_counter()`, `test_rtc_irq()`, `rtc_isr()` | an alarm left on by an earlier run | time never goes back; no alarm is missed |
| heap, `syscalls.c` | `heap_end` | `_sbrk()` | the end of the heap after long sequences | addresses of `heap[]`, each once |
| boot image, `scripts/fiptool.py` | parameter blocks and images | `genfip` | checksums over fields written later; a second run on the first one's file | the loader finds every image, intact |
| CLINT timer, `clint_timer.c` | compare register, `thls`, meter | `riscv_start_timer()`, `riscv_stop_timer()`, `timer_interrupt()`, `clint_timer_mdelay()`, `_udelay()`, `_meter_*()` | the compare register is written in two halves; 32-bit products | no tick early, lost or shifted; no delay too short |
| pin multiplexing, `pinmux.c`, `pinmux*.h` | one register per pad | `PINMUX_CONFIG()`, `pinmux_config()` | some thousand table entries of two boards; bits left by a boot stage | a pad carries what it was last asked to carry |
| start-up, `system.c`, `main.c`, `test_main.c` | pads, UART1, `mie` | `system_init()`, `uart_init()`, `main()`, `testcase_main()` | order; a divisor latch that shares addresses with data | each test finds its pins connected; no garbage is printed |
| ADC, `test_adc.c` | SARADC registers, `val_ch1` | `test_adc()` | a poll that also passes before a conversion begins | the average is of fresh, settled samples |
| GPIO, PWM, clock demos | registers | straight-line code | pins and channels differ by board | what they drive is on a pad (in start-up) |
| scripts, documents, binaries | | | | not modelled, see 8 |

`PROJECT.json` lists the components with their sources, and under `hazards` the places where
the code is exposed, each with the properties that watch over it.

## 2. How the modules are written

A step is one register access, one store to shared memory, or one poll that ends its loop:
anything an interrupt could come before or after. A variable `pc` says where the main program is
and `ipc` (or `handler`) where the trap is; a step of the main program requires that no trap is
open, so the trap runs to its end, as on the hart. Names are those of the code; where several
steps make up a function, their names say which (`StoreHandler`, `StoreIrqn`, `StorePriv`,
`SetPriority` are the stores of `request_irq()`, in order).

Devices are not in the repository. They are modelled from the registers the code uses and the
comments it quotes from the manuals, at their most unhelpful: they proceed at a speed of
their own, and what an earlier boot stage left in them is any value. Such definitions are
marked external in `PROJECT.json`.

Time appears where the code waits for it: in units that divide all waits exactly, with a
chosen number of units for a `printf()`. Data is abstracted to what properties tell apart:
the text of a line to two characters, a checksum to what it covers, an image to cells.

## 3. Modules and runs

All runs but `i2c_doc` and `spi_doc` end without an error; these two each show a divergence (6,
numbers 2 and 4).

| run | modules | checked | states |
|---|---|---|---|
| `irq` | Irq, IrqService, MCIrq | DispatchWhole, ClaimsCompleted, OnlyAskedLinesServed, ImplementsService, EveryRaiseServed | 114370 |
| `trap` | Trap | NeverNested, Transparent | 568 |
| `syscalls` | Uart, Console, Sbrk, MCSyscalls | LossBounded, EchoesInOrder, PrintingComesToRest, WithinHeap, BlocksAreFresh | 294706 |
| `watchdog` | Watchdog, WdtDemos | FiveThenTen, SleepInStep, KeepsRunning | 3693 |
| `timers` | ClintTimer, Metronome, TimerDemo, MCTimers | DelayLongEnough, ImplementsMetronome, NthPeriod, Ends | 916805 |
| `i2c` | I2cMaster, I2cSlave, MCI2c | WriteZeroMeansStored, ReadZeroMeansRead, OperationsReturn, ReadsCountUp, ReadsReturn | 12977 |
| `i2c_doc` | I2cMaster | WriteZeroMeansSuccess, violated: what `i2c.h` says of `i2c_write()` | |
| `spi` | Spi, SpiDemo | LastOfRunAtRisk, PictureShown, Loops | 264040 |
| `spi_doc` | SpiDemo | KindKept, violated: what test_spi.c says of D/C | |
| `rtc` | RtcCalib, RtcAlarm, MCRtc | FreshMeasurement, CalibratedIsAccurate, FailedMeansOutOfReach, Ends, NeverSetBack, NeverMissed | 580326 |
| `board` | PadsCv1800b, PadsSg2002, Pinmux, PadMap, Startup, AdcDemo, Board | Wired, ImplementsPadMap, ConsoleReadable, SamplesFresh | 100688 |
| `fip` | Fip, MCFip | ParamsSealed, ImagesFound, SameAgain | 200214 |

`MCTimers`, `MCI2c`, `MCRtc` and `MCSyscalls` put two modules that share no state into one run: a
variable says which of them a behaviour is of (`program`, `part`, `called`), and the other's variables stand still. Every
module states its type invariant (`TypeOK`; `DemoTypeOK` in `SpiDemo` and `TimerDemo`). None is
part of a run (add it to the INVARIANTS of a configuration), and where a proof needs types it
proves them.

**`irq`.** `Irq` is `irq.c` with the external-interrupt path through `start.S` and `trap.c`.
`Init` is what `start.S` guarantees: `mie` clear, `.bss` zero, the PLIC anything. The main
program then makes calls in any order, each access a step. One restriction is taken from the
test cases, none of which breaks it: a line is given a (new) handler while it is closed. A
handler quiets its device, as all handlers in the repository do. Checked: `do_irq()` never runs
a half-written table entry; every claim is completed on a line the PLIC still listens to; only
requested lines are served and none before `irq_init()` is over; every raise of an open line is
served and `do_irq()` comes back. `IrqService` is the same promise without table, words and
traps, and `ImplementsService` shows that `Irq` implements it with `open` = lines with enable
bit and priority, `waiting` = latched requests, `serving` = the entry between claim and end of
interrupt. Bounds: two lines in one enable word (masking one must spare the other), two handlers
with two privs, a line without a handler, a number out of range, three calls, two raises. Three
calls are enough to request both lines and then re-open, close or re-request one; a third line
could not share more than these two do. The two exceptions in the liveness properties,
`Storm(j)`, are real: see 6.

**`trap`.** `Trap` is the way in and out with all 31 registers, a stack of 78 words, the bits
of `mstatus`, and handler code that uses registers as the calling convention allows and may
itself fault. `Transparent` is an action property: a trap that returns gives back registers, `mstatus`,
stack and place. Two open traps (`MaxDepth`) are an interrupt with an exception inside its
handler; a third level adds only more of the same frame. A store access fault stops the
program in `_exit_trap()`, as in the code.

**`syscalls`.** `Uart` is `_uart_putc()` and the loops around it, `uart_puts()` and `_write()`,
which read one character at a time from memory. `Console` is two programs on it: "lines", in which
a handler prints inside the main program's printing (as in most test cases), and "echo", which
is `test_irq()`. `Depths = {1, 2}` is the FIFO off and on. In "lines" both contexts call `printf`,
and newlib (external) gives them one buffer, that of stdout: `printf` fills it, then, at the end of
a line, starts it over from its beginning and has `_write()` read it. A handler's `printf` while
`_write()` reads puts its text over the beginning of the main program's, and the loop goes on with
what is there (`Replaced`); one that comes while the main program's `printf` still fills the
buffer leaves any mixture of the two texts (`Mixtures`), as nothing in newlib keeps it from that.
Two lines and two interrupts of two characters each let an interrupt fall at every point,
including on the same poll twice. `LossBounded` says how much can go wrong: what is read
for the main program is never lost on its way; of what is read for the handlers nothing with the
FIFO on and at most one character per interrupt that falls between poll and write with it off; a line
during which no handler prints is put out as it was, and one that a handler met in `_write()`
has kept its length and differs only where the handler's text has a character, by that one.
`Ier` is the IER of `uart_init()`: it sets the bit for received data and keeps the other bits, so
that they are clear is an assumption about what ran before (6, number 14); with the bit for
an empty transmit buffer set, the handler would wait for a key (the fault for `PrintingComesToRest`).
`Sbrk` has 9 bytes of heap and increments that just fit, cannot fit, are zero and negative.

**`watchdog`.** `Watchdog` is the device with `wdt_init()` and `wdt_feeddog()`, `WdtDemos`
both programs that use it, `test_wdt()` and `test_lpc()`. A unit is 0.082 s, in which the two
periods are 64 and 128 units; `mdelay(1000)` takes 12 or 13 of them and a `printf()` 0 or 1.
`SleepInStep` holds because of timing alone, and the model shows it does:
watchdog interrupts come ten seconds after a feeding, and the program goes to sleep about five
seconds after. `Others` is one other device in the shared reset register. `TimingAssumption` is
the timing the program relies on: five of the longest delays and three of the longest prints
are shorter than a period.

**`timers`.** `ClintTimer` is `clint_timer.c`: the timer's start and stop, its handler, and the
delays and meter of the main program, which read the same clock with interrupts on. The two
halves of the compare register are two steps, and any earlier value may be in it. `Metronome`
says what a periodic timer promises without registers, words or handlers; under the mapping
`set` = MTIP enabled, `base` = `smtime`, `first` = the first delay, `ticks` = `interval`,
`ClintTimer` implements it, its fairness included: a tick that is due comes. A word has 8 values
instead of 2^32 and a millisecond 3 ticks, so that halves carry and delays overflow within 12
ticks of the clock: several periods, with interrupts that come late by more than one. No code in
the repository calls `riscv_start_timer()`; here a program calls it only while the timer is
stopped. `TimerDemo`: the counter reloads itself from the load register; both the main program
and the handler write that register one period ahead. A second has 4 ticks and a print takes 0
or 1, so a late write is possible in every period; the number of expiries is the code's 5. The
handler's last act is two steps, `g_count = 0` and the write that stops the timer. `NthPeriod` is exact: the
n-th period is n seconds to the tick. It needs prints shorter than a second, because the handler
prints twice before it has written the load register for the period after the one that runs.
`DoneMeansOff` (proved, see 5) is what the main program may rely on when it sees `g_count` = 0: the handler,
which writes that before it turns the timer off, is through with both.

**`i2c`.** `I2cMaster`: every register access of `i2c_init()`, `i2c_enable()`, `i2c_read()`,
`i2c_write()`, each poll loop with the limit of its timeout (1 instead of some thousands: a
poll either sees the event or gives up, which is all that the callers can tell apart). The
FIFO has 3 entries instead of 16; writes have 1 or 3 bytes, so the wait for room in the FIFO
happens, and reads 1 to 3, of which the last do not fit (see 6). Slaves acknowledge, are absent, or refuse data.
`CallsAdvance` (proved, see 5) says why the calls come back: each step of the driver lowers `Place`, or else
the bytes left, or else the tries left (`Tries`), whatever the controller does. What is left
for `OperationsReturn` is that the driver is not for ever at one of its two waits without a timeout.

`i2c_doc` is the same driver against what `i2c.h` promises of `i2c_write()`.

`I2cSlave`: the main program reads through IIC2 what its own handler writes to IIC3.
256 reads are all for which the counter fits the data register (see 6).

**`spi`.** `Spi` is the controller with its FIFO of 8 and the byte on the wire; `SpiDemo` the
loop test and the OLED program down to each byte and pin. The panel interprets commands and data
by the D/C pin when the last bit arrives, which may be before or after the program sets the pin
for the next byte: `spi_write()` waits for an empty FIFO, not for an empty shift register.
So the comments' "what is sent is data" (`KindKept`) is false, and the run `spi_doc` shows
it. What the wait does guarantee is `LastOfRunAtRisk`: D/C is wrong at most for the last byte of
a run of commands or of data, and no longer than until the present call's wait is over.
`PictureShown` compares the panel's whole RAM with the picture that was to be shown, in a
behaviour in which no byte was misread (`misread`). The controller's `SRL` bit and
the others that `spi_init()` does not clear keep what an earlier stage left.

**`rtc`.** `RtcCalib` is the binary search over `RTC_ANA_CALIB`, against ten oscillators with
values right at, near and out of reach, from a register that holds 256 or only 100, as after an
earlier calibration; then `analog_calib_value - offset` may underflow its `uint32_t`. `Half` is the
2^31 of that type, with bit 31 set the oscillator is tuned from elsewhere and has any other period
(`other`), and `strayed` remembers it. `FailedMeansOutOfReach` is about searches that stayed in
the register's range, and says from where alone they may leave it. Between two steps of
the program up to `Ahead` measurements are finished: each round of the waits prints a line, which on
the board takes as long as some seventy measurements. A wait that begins with all greater numbers
of the counter so near that they may pass between two reads (`NearWrap`) may go on for ever; `Ends`
says that nothing else does. Measurement counters have 8 and 4 numbers and `Ahead` is 2, so
that a wait begins near the wrap, and far from it, in many rounds. `SearchAdvances`, proved, is the
argument for the rounds: `Remaining` falls with every step to another place. `RtcAlarm`: the clock kept over a reset at earlier,
equal and later times than asked for; an alarm left enabled or not. 16 seconds are several alarms
after any of the starts.

**`board`.** `PadsCv1800b` and `PadsSg2002` are the two pin headers as tables: the order of the
registers, and the functions of every pad by number. `Pinmux` gives `PINMUX_CONFIG()` as the
read-modify-write of one register and `pinmux_config()` as the selections of each mode;
`Startup` runs them from `system_init()` on, one register access a step, for both boards and
every test case that can be built, or for a program of one's own that selects any two modes or
any single function. What an earlier stage left in the pads is one of nine words (all values of
the field, and one with bits beside it); in UART1, any divisor, format and DLAB. `PadMap` is
what the multiplexer is taken for, a function from pads to signals that a request changes in one
place; the mapping reads the function of each pad off its register. `Wired` compares what a test
case configures with what its code then drives, which are written in different files and by
board. `AdcDemo` runs when `test_adc()` was built: three conversions (`NUM`) of two values, at
the converter's own speed, with a result of old in the register.

**`fip`.** All sets of images with DDR parameters, compressed or not, packed from nothing and
again on the first file with other lengths. Images are shorter than, equal to and longer than
a multiple of the alignment (3 instead of 512). The fields of the first block that are only
copied (`--CHIP_CONF`, `--NOR_INFO`, `--NAND_INFO`) are given, given again shorter or, as the code
has it, without a byte and so not given, or left.
`MCFip` has TLC evaluate `DdrGiven` and `NothingEmpty` on these command lines, the two conditions
under which the theorems about the file hold (see 5).

## 4. Fairness

The hart executes: weak fairness on the steps of the main program and of the handler. An
interrupt that is signalled and enabled is taken: weak fairness on trap entry (`irq`; in the
other modules entry is one of the handler's steps, and of the CLINT timer only these are
fair). Devices go on: the PLIC's gateways, the I2C bus, shift registers, the RTC's
measurements, time in the demos. Nothing else is assumed: no device has to raise its line, no
program to make a call, and no key has to be typed. `Board` states none: its
properties are safety.

## 5. Proofs

Each proof module has an inductive invariant, one lemma per group of actions that shows it is
kept, and theorems that derive the properties from it. Constants are those of the
specifications; the sizes and bounds of the configurations do not appear. What is assumed is

- the named ASSUME of each specification about its constants, which TLC evaluates in the runs of that module;
  `PadTables` and `WiringTables` of `Startup` are among them: closed formulas about the header
  tables, and all that the proofs use of these;
- `DdrGiven`, in the theorems about the boot image: a run that starts from nothing is given
  `--DDR_PARAM`, and the file that option names is never empty. The Makefile does both (Makefile:153-168).
  Without the first `ImagesFound` is false (6, number 8); an empty one in a later run would leave
  out the whole second part, to which the first block still points;
- `NothingEmpty`, in `WritesSame` only: no image of the second part is empty, and none is given
  with run address 0 (Makefile:64-67 and 153-168). The code takes either for "not given", and a later
  run would then change its record.

Every safety property that a run checks is stated by a theorem.

| module | what is proved, for every value of the constants |
|---|---|
| `IrqProofs` | DispatchWhole, ClaimsCompleted, OnlyAskedLinesServed; `Spec => Service!Spec` |
| `TrapProofs` | NeverNested, Transparent: any depth of traps, any stack that has room for them |
| `SyscallsProofs` | LossBounded, EchoesInOrder: any texts, keys, sizes of the transmit buffer, number of interrupts; WithinHeap, BlocksAreFresh: any heap and increments; the program stops only when a block fits nowhere |
| `TimerProofs` | DelayLongEnough; the safety half of ImplementsMetronome; NthPeriod, DoneMeansOff: any number of periods, any second, any prints shorter than it |
| `WdtProofs` | FiveThenTen, SleepInStep: any lengths of delays and prints that fit the period |
| `RtcProofs` | NeverSetBack, NeverMissed: any times, any kept clock, an alarm left on; FreshMeasurement, CalibratedIsAccurate, FailedMeansOutOfReach, SearchAdvances: any oscillator, any first value of the register, any width of it and of the counters |
| `BusProofs` | WriteZeroMeansStored, ReadZeroMeansRead: any depth of the FIFO, lengths, limits of the polls and slaves; CallsAdvance: any such limits and lengths; ReadsCountUp: any number of reads; LastOfRunAtRisk, PictureShown, and that the loop test reads back what it wrote: any depth of the FIFO, whatever an earlier stage left in the controller |
| `BootProofs` | ImplementsPadMap: any words left in the pads, any number of calls; Wired, ConsoleReadable: any such words and any state of UART1; SamplesFresh: any number of samples; ParamsSealed, ImagesFound, SameAgain: any images of any length, any sequence of command lines |

**Irq.** The properties are not inductive; `IInv` in `Irq` is. It adds to `TypeOK`:

- `InitInv`: during `irq_init()` no trap is open, `meie` is off, and the words before the
  loop counter are clear;
- `TableInv`: table and requests differ only in the entry that `request_irq()` is writing,
  and only in the fields it has not yet written, while that line is closed;
- `MaskInv`: the word that `plic_(un)mask_irq()` read is what the PLIC holds when it is
  written back (this is where "no handler masks lines" is used), and every line with a
  priority was asked for;
- `TrapInv`: at most one claim is open, on an open line.

The refinement then maps each step under `IInv` and `IInv'` to a step of the service or a
stutter. Assumed is `IrqAssumption`: line numbers from 1 to 255, `NULL` is no handler,
in-range requests are of existing lines, bounds are natural numbers.

**Trap.** The invariant says where everything is on the stack. The k-th open trap interrupted
code with its sp at `Base(k)`; 35 words below is the trap's frame, 3 more are `handle_trap()`'s.
`Interrupted`: the stack above `Base(k)` is as it was. `Frames`: a trap below the innermost, or
one whose way in is complete, has its 31 registers, `mepc` and `mstatus` in its frame, with sp
in the lowered form that `start.S` saves. `Innermost`: at each step of the way in and out, which
of these are still or again in the hart. `Main`: only the bottom of the nest is main code. The
key lemma `Below` is that whatever the innermost trap writes lies below what is saved.
`TrapAssumption`: the stack has room for `MaxDepth` traps (`start.S` does not check it).

**ClintTimer.** While the timer is started, the compare register equals the next tick's time
except where a step says which half is still old; interrupts are off there. The refinement's
safety follows: a tick is taken only at or after its time, and from the right base. That a due tick comes
(`WF_vars(Tick)` of `Metronome`) is only model-checked.

**TimerDemo.** The counter holds what is left of the period that runs, which began at
`g_time_old`. The load register holds the next one, except from an expiry until the handler has
called `timer_set_top()`: there it still holds the one that runs, and would repeat it. The
handler prints twice on that way, less than two seconds, and from the second period on a period
is at least as long; the first is covered by the main program, which prints once. `LengthInv`
adds the length of the demo: `g_count` never passes `Expiries`, and a timer that is off while the
main program waits has expired exactly that often.

**I2cMaster.** The invariant says for each state of the controller what is where. In a write
(`WriteFresh`, `WriteRuns`, `WriteAborted`) the slave has a prefix of address and data, the FIFO
the entries that follow, up to the last one pushed; in a read (`AddressFirst`, `ReadRuns`,
`ReadAborted`) the commands in the FIFO are those not yet sent, and `rx` and the buffer together
the slave's bytes from the first; if a full FIFO lost one, fewer arrive than were asked for and
the call does not get to its return. What an earlier transfer left is gone before the first push, because
`i2c_enable()` empties the FIFOs. A poll that gave up leaves all of this true: it only lets the
call go on early, and only to a place where 0 still says what it should. `PollsInv` bounds the
tries of each loop by its limit; that they are counted from 0 wherever a loop begins is what
`CallsAdvance` needs.

**RtcAlarm.** `ClockInv`: the counter is at or past the time that was asked for, and the poll for
the load can only pass after the load. `AlarmInv`: the clock is at most one second past what
either context read, and at rest the alarm is on and at most three seconds ahead. The one
assumption about time is `InTime`: setting the alarm takes less than a second, and so does the
way into the handler.

**RtcCalib.** `Straight`, as long as the search has not left the register's range: at every step
each value that would do is strictly within twice `offset` of the present one, the present one is an
even multiple of `offset` from the first and within 257 - 2 * `offset` of it, and
`PeriodFalls` (a larger value, a shorter period) says which half to drop. `Interval` adds that a
search that has left the range began in its first 255 or last 255 values (`AdjustStrays`). When `offset` reaches 0
what is left is of odd distance, hence "even" in the property. That there is some `offset` left
whenever it is halved makes `SearchAdvances` hold. `Settled` carries that a measurement is of
the register's present value through the `udelay(200)`.

**Pads, ADC.** `ClrSetBits` leaves a field that reads back as what was set, pads have registers
of their own, and a step of `Board` is a step of `Startup` or stutters on it. `PadTables`, the
facts about the header tables that this uses (every pad has a register, functions are numbered 1
to 8, modes and tests select what exists), is an ASSUME that TLC evaluates in the run `board`.
`SamplesFresh` rests on `SampleInv`: the i-th sample read is the i-th conversion, which needs
that a conversion is visible in the status by the poll after its start (external, see
`Started`).

**WdtDemos.** `Counting`: the time since the last feeding and the counter add up to one period,
or to the period and 128 units once the interrupt is up. `Awake` bounds, at each place of `test_lpc()`,
the time since the feeding by the rounds, the delays and the prints that were on the way; with
`TimingAssumption` it stays below the period, so an interrupt can only find the hart asleep
(lemma `OnlyAsleep`), never between `gpio0_sleep()` and `wfi`. `Waking`: the handler then has
all of GPIO0 set up again before the main program counts.

**I2cSlave.** Between two reads nothing is under way; in a read there is one request, then one
answer, or a refused one (from the 257th read on), and the handler has counted as many as were
printed.

**Sbrk.** `malloc()` holds exactly the addresses below `heap_end`.

**Console.** `Flow` is what the terminal has, the shift register and the transmit buffer, in
that order. `StreamInv`: the main program's part of `Flow`, with what it still has to put out, is
what it printed; of the handler's at most as many characters are missing as interrupts have
fallen between a poll and its write. `PolledInv` is why: a writer that has seen THRE finds the
buffer empty, or holding one character of a handler that came after the poll. `BufferInv`: what
`_write()` has read of the main program's line, with what it has still to read, is that line, or,
once a handler has refilled the buffer, that line with the handler's over some of it. `EchoInv`: in
`test_irq()` `Flow` and what is due are the echoes of the keys read. The echoes are put together
by `FlattenSeq`, a fold; the facts about it (what it is of a longer sequence, that it keeps the
order) are proved by an induction written out: the set of lengths for which the fact holds has 0
and with each number the next.

**Start-up.** `PinsInv`: of the selections that `system_init()` and the test case want, the ones
no longer to be made are on their pads. A later one cannot undo an earlier one because no two are of
one pad (`WiringTables`). `PortInv`: UART1's registers are as far as `uart_init()` has come, the
latch shut from its last store on.

**SPI.** `KindInv`: at each place of `spi_write()` the byte of this call, the last one
of the call before, or both one behind the other are under way, and D/C is at the level of this
call's, or, before it is set, of the one before. So only that last byte can be taken for the wrong
kind, and only if the two differ (`OnlyLastAtRisk`). `LoopInv`: what was read is the
beginning of what was written, and either nothing or the byte of this round is in the
controller, its FIFOs or the shift register; what an earlier stage left is gone with
`SSIENR` = 0. `PicInv`: `Script`, the 1347 bytes of `oled_init()`, `oled_clear()` and four characters
of two halves, is known by its places (`InitPhase`, a row of `RowPhase`, `HomePhase`,
`PartPhase`). `Shows(n)` says what page, column, display and RAM of the panel are after n bytes;
`Progress(n)` that the program is at byte n or n + 1 and that the difference is under way.
`NextShown`: taking byte n + 1 leads from `Shows(n)` to `Shows(n + 1)`. Each phase moves the
pointer and changes one cell of the picture at a time, which is what `Rub` and `Draw` are for:
the picture with so many columns cleared, or drawn.

**Boot image.** `FipInv` goes through `make()` stage by stage: after `make_fip1()` the file
begins with the first block and its images (`FirstPart`); after `insert` there is `Room` for the
second block where `param2_loadaddr` says; each image of the second part is then appended behind
it (`Packed`), so storing the second block last, with its checksum, overwrites nothing (`Complete`). A
file that is read has been `Complete`, and what a run adds replaces whole images.
`SameAgain` needs more, `AgainInv`: records and images agree on which are there (`RecordsInv`); the
file is, cell by cell, its first block, images, second block, images and loader one behind the
other, at the addresses recorded (`LayoutInv`); a file on the disk is written as it would be
read (`SettledInv`); and a run that was given no image holds what it has read (`UnchangedInv`).
Padding, compression and alignment come in as three facts: they do nothing to what is already
padded, compressed or aligned.

Only model-checked: liveness, for which the provers have neither fairness nor ENABLED
(`EveryRaiseServed`, `PrintingComesToRest`, `KeepsRunning`, `OperationsReturn`, `ReadsReturn`, `Loops`,
`Ends` of the timer demo and of the calibration), and the fairness half of
`ImplementsMetronome`, that a due tick comes. Three of them have the part of the argument that
needs no fairness as a property of its own, which is proved: `CallsAdvance` (of
`OperationsReturn`), `SearchAdvances` and `DoneMeansOff` (of `Ends`, twice). These three are
lemmas for a liveness property that a run checks and in no run of their own; TLC finds them true
when they are added to the configurations of `i2c`, `rtc` and `timers`.

## 6. Known divergences

Places where the code does something other than its comments, callers or documents suggest.
Where a model shows it, the way to see it is given; the runs keep to the side where the
properties hold and say so.

1. `_uart_putc()` polls THRE and then writes (uart.c:127). `uart_init()` never enables the FIFO,
   so a handler that prints in between loses its last character to the main program's write.
   `LossBounded` allows one for each such interrupt; with `0` in place of `hits`, the run
   `syscalls` fails.
2. `i2c_write()` never looks at `TX_ABRT` (test_i2c.c:228): it returns 0 to a slave that is
   absent or refuses data. `i2c_read()` of an absent slave waits for `RX_FULL` for ever
   (test_i2c.c:187), although i2c.h:236 says "Return: 0 success, else failed".
   The run `i2c_doc` shows the first against i2c.h:249, "Return: 0 successs, else failed".
   `WriteZeroMeansStored` and `OperationsReturn` name the two as exceptions; without the second
   `OperationsReturn` fails.
3. `i2c_read()` pushes `len` commands without asking for room (test_i2c.c:176): from the FIFO's
   depth on it may lose the last one with its STOP, and then waits for ever for the byte.
   `OperationsReturn` names this; 0 is never returned for it. No caller reads more than 2 bytes.
4. `spi_write()` waits for an empty FIFO, not for the byte to be sent (test_spi.c:73), and the
   next `oled_write()` may then change D/C under it, against the comments at test_spi.c:152 and
   157. The run `spi_doc` shows it. A byte takes some 2 us on the wire and the code polls once a
   microsecond, so it is for the board to say whether the pin is ever early; the last bit of
   a run is what is at risk (`LastOfRunAtRisk`).
5. `i2c_slave_data` is an `int` that counts up for ever (test_i2c_slave.c:29): the 257th byte
   has bit 8 set, which the data register takes for something else, and the read never returns.
   Set `MaxReads = 257`: TLC reports the hang as a deadlock, and with `-deadlock` that
   `ReadsReturn` fails.
6. `rtc_32k_coarse_val_calib()` compares `time2` of the round before (test_rtc.c:62): after a
   wrap of the counter the wait is skipped. A wait that begins at the counter's last number
   never ends, and one that begins shortly before it may not end either: every read prints a line,
   and the greater numbers may all pass meanwhile. The same holds for the fine counter, of 8 bits.
   `FreshMeasurement` and `Ends` name these cases (`NearWrap`). A calibration in which they do
   not occur is accurate. From a register below 255, where an earlier calibration may have left it,
   the search may underflow (test_rtc.c:97) to a value with bit 31 set. Bit 31 chooses what tunes the
   oscillator; a calibration clears it once, at its beginning (test_rtc.c:29), and not between its
   rounds. The search goes on with what it measures there, and may fail although a value is in reach.
7. The fine calibration ors the frequency into a register that keeps its value
   (test_rtc.c:162-168): a second calibration leaves the or of two frequencies.
8. `genfip` without `--DDR_PARAM` drops the second part's images (fiptool.py:661, :723).
   `MCWhole` always has `DDR_PARAM`, as the Makefile does; without it `ImagesFound` fails.
9. A line requested with a null handler is completed but never quieted, so `do_irq()` claims it
   for ever (irq.c:155). `Storm` names this in `EveryRaiseServed`.
10. `TIMER_CNT_MS * ms` is a 32-bit product (clint_timer.c:90): `mdelay()` above 171 s is cut
    short. `DelayLongEnough` is about delays below that.
11. `trap_entry` saves no floating-point register (start.S:117), although the code is built for
    lp64d: a handler that computed with floats would change the main program's. No handler does,
    and `Trap` has none.
12. `request_irq()` of a line below 16 returns 0 and does not unmask it; `irq_init()`'s loop
    runs to a ninth enable word (`Word` in `Irq`). No property is broken by either.
13. A `printf()` in a handler uses the buffer of stdout that the main program's `printf()` or
    `_write()` is in the middle of (syscalls.c:54): what is left of the main program's line is
    replaced by the handler's. All demos whose handlers print are exposed. `LossBounded` says how
    far it goes.
14. `uart_init()` keeps the bits of IER other than the one it sets (uart.c:112), and `uart_isr()`
    waits for a character whatever the interrupt was for. If an earlier stage left the bit for an
    empty transmit buffer set, the handler would wait for a key with interrupts off. `Ier`
    assumes that none did.

## 7. Seeded faults

Beside each definition that a property depends on there is an operator `Fault...`: the same step
with a bug someone could write (a dropped wait, a field not written, a bit not merged).
`PROJECT.json` pairs each property with one such fault under which TLC refutes it. The operators
are not used by the specifications.

## 8. What is not modelled

- Start-up before `system_init()` (`start.S`): copy loops and cache bits, run once with nothing
  concurrent. Its result is the `Init` of `Irq` and `Startup`.
- What `test_gpio()`, `test_pwm()` and `test_clock()` write after their pins are set: constants,
  to registers nobody else writes, in a straight line. The arithmetic on the ADC's average.
- `test_rtc()`, which reads the clock twice and prints; `mktime()` and `localtime()` come from
  the C library.
- `_read()`; the other system calls are constants. What newlib does around `_write()` is external,
  and as in section 3.
- `riscv_start_timer()` called while the timer runs: no code does, and the first tick could
  then come early between the two halves.
- Floating-point registers in `trap_entry`, see 6.
- Errors and printing of `fiptool.py` and its parsing of options (`--BLOCK_SIZE` and
  `--BLCP_PARAM_LOADADDR` are parsed and never used), among them `--compress ""`, with which a
  loader not compressed yet ends the program (fiptool.py:588); the other scripts, which are shell and tables; documents; binaries without source.

## 9. Plan

Done: every part with state of its own, in the order of section 3; the refinements
`IrqService`, `PadMap`, `Metronome`; the proofs of section 5, which state every safety property
of the runs.

What is left stays with TLC: the liveness properties and the fairness half of
`ImplementsMetronome`.
