------------------------------ MODULE Startup -------------------------------
(***************************************************************************)
(* From the end of start.S to the test case: system_init() of system.c with *)
(* pinmux_config() and uart_init(), main() of main.c, testcase_main() of    *)
(* test_main.c, and the pins that the test case built into the program      *)
(* configures before it drives its peripheral.  One step per register       *)
(* access; a printf is one step of the characters it sends.                 *)
(***************************************************************************)
EXTENDS Pinmux, Sequences, FiniteSets, Functions, TLC

CONSTANTS
    Words,      \* what an earlier boot stage may leave in the function-select registers
    OwnCalls    \* bound on the pinmux_config() calls of a program of one's own

ASSUME StartupAssumption == Words \subseteq Nat /\ OwnCalls \in Nat

\* CONFIG_TEST_*: what testcase_main() may have been built to run; "DBG" is built instead of
\* it, and "own" is a program of one's own in its place.
Tests == {"DBG", "GPIO", "CLOCK", "IRQ", "PWM", "RTC", "RTC_IRQ", "WDT", "ADC",
          "I2C", "I2C_S", "TIMER", "SPI", "LPC", "none", "own"}

VARIABLES
    board, test,    \* build options
    pc,
    todo,           \* the selections under way
    calls,          \* pinmux_config() calls of a program of one's own
    funcsel,        \* the function-select registers
    uart,           \* the pointer of uart.c: a port
    port,           \* the registers of each UART
    irqs,           \* the CPU's interrupts are on
    sent            \* (history) characters, or texts, written to a THR

build == <<board, test>>
console == <<uart, port>>
vars == <<build, pc, todo, calls, funcsel, console, irqs, sent>>

Ports == 0..5       \* UART0 to UART4 and PWR_UART

\* A UART: the divisor latch in two bytes, LCR with DLAB, IER's receive interrupt.
Registers == [dll : 0..255, dlh : 0..255, dlab : BOOLEAN, format : {"8N1", "other"}, rda : BOOLEAN]

Reset == [dll |-> 13, dlh |-> 0, dlab |-> FALSE, format |-> "8N1", rda |-> FALSE]

\* The earlier stage may have left UART1 at any speed and format, also with DLAB set.
Init ==
    /\ board \in Boards /\ test \in Tests
    /\ pc = "system_init" /\ todo = <<>> /\ calls = 0
    /\ \E w \in Words : funcsel = [r \in {RegisterOf[board][p] : p \in PadSet[board]} |-> w]
    /\ uart = 0
    /\ \E r \in [dll : {1, 14}, dlh : {0, 1}, dlab : BOOLEAN, format : {"8N1", "other"}, rda : {FALSE}] :
          port = [n \in Ports |-> IF n = 1 THEN r ELSE Reset]
    /\ irqs = FALSE /\ sent = 0

Carries(p) == Selected(board, p, funcsel[RegisterOf[board][p]])

At(from, to) == pc = from /\ todo = <<>> /\ pc' = to

-----------------------------------------------------------------------------
\* pinmux_config() and PINMUX_CONFIG() make their selections one after the other.
Select ==
    /\ todo # <<>>
    /\ funcsel' = PINMUX_CONFIG(board, funcsel, Head(todo))
    /\ todo' = Tail(todo)
    /\ UNCHANGED <<build, pc, calls, console, irqs, sent>>

\* system_init(): the pads of the console first ...
ConsolePins ==
    /\ At("system_init", "uart_init")
    /\ todo' = pinmux_config(board, "UART1")
    /\ UNCHANGED <<build, calls, funcsel, console, irqs, sent>>

\* ... then uart_init(1): the port, ...
UartPort ==
    /\ At("uart_init", "dlab")
    /\ uart' = 1
    /\ UNCHANGED <<build, todo, calls, funcsel, port, irqs, sent>>

(* Seeded faults *)
FaultFormatKept ==
    /\ At("format", "irq_init")
    /\ UNCHANGED <<build, todo, calls, funcsel, console, irqs, sent>>

SetLcr(dlab, format) == port' = [port EXCEPT ![uart].dlab = dlab, ![uart].format = format]

\* ... the divisor latch opened, LCR otherwise kept, ...
LatchOpen ==
    /\ At("dlab", "dll")
    /\ SetLcr(TRUE, port[uart].format)
    /\ UNCHANGED <<build, todo, calls, funcsel, uart, irqs, sent>>

\* (rbr is the divisor's low byte while the latch is open, else a character to send; ier is
\* the high byte or the interrupt enable, bit 0 the receive interrupt)
WriteRbr(v) ==
    IF port[uart].dlab THEN port' = [port EXCEPT ![uart].dll = v] /\ UNCHANGED sent
                       ELSE sent' = sent + 1 /\ UNCHANGED port
WriteIer(v) ==
    port' = IF port[uart].dlab THEN [port EXCEPT ![uart].dlh = v]
                               ELSE [port EXCEPT ![uart].rda = (v % 2 = 1)]

\* ... the divisor, 14, in two bytes, ...
DivisorLow ==
    /\ At("dll", "dlh")
    /\ WriteRbr(14 % 256)
    /\ UNCHANGED <<build, todo, calls, funcsel, uart, irqs>>

DivisorHigh ==
    /\ At("dlh", "latch")
    /\ WriteIer(14 \div 256)
    /\ UNCHANGED <<build, todo, calls, funcsel, uart, irqs, sent>>

LatchClosed ==
    /\ At("latch", "ier")
    /\ SetLcr(FALSE, port[uart].format)
    /\ UNCHANGED <<build, todo, calls, funcsel, uart, irqs, sent>>

\* ... the receive interrupt, ...
ReceiveIrq ==
    /\ At("ier", "format")
    /\ WriteIer(1)
    /\ UNCHANGED <<build, todo, calls, funcsel, uart, irqs, sent>>

\* ... and the format: lcr = UART_LCR_DLS_8.
Format ==
    /\ At("format", "irq_init")
    /\ SetLcr(FALSE, "8N1")
    /\ UNCHANGED <<build, todo, calls, funcsel, uart, irqs, sent>>

\* irq_init() (module Irq)
IrqInit ==
    /\ At("irq_init", "newline")
    /\ irqs' = TRUE
    /\ UNCHANGED <<build, todo, calls, funcsel, console, sent>>

\* A printf: uart_putc() writes each character to rbr.
Printf == WriteRbr(13) /\ UNCHANGED <<build, calls, funcsel, uart, irqs>>

\* printf("\n"); in main() the first line, of the debug build or of a test; the test's own
Newline == At("newline", "main") /\ Printf /\ UNCHANGED todo
Banner == At("main", IF test \in {"DBG", "own"} THEN "pins" ELSE "testcase") /\ Printf /\ UNCHANGED todo
testcase_main == At("testcase", "pins") /\ Printf /\ UNCHANGED todo

-----------------------------------------------------------------------------
oled_set_pinmux(b) ==
    IF b = "duo256" THEN << <<"PAD_MIPI_TXM1", "XGPIOC_14">>, <<"PAD_MIPI_TXP1", "XGPIOC_15">> >>
                    ELSE << <<"PAD_MIPIRX1P", "XGPIOC_9">>, <<"PAD_MIPIRX0N", "XGPIOC_10">> >>

led_pinmux_config(b) ==
    IF b = "duo256" THEN << <<"PWR_GPIO2", "PWR_GPIO_2">> >>
                    ELSE << <<"PAD_AUD_AOUTR", "XGPIOC_24">> >>

TEST_PINMUX_I2C == [duo |-> "I2C0", duo256 |-> "I2C1"]

\* The selections a test case makes before it touches its peripheral; the others make none.
TestPins(b, t) ==
    CASE t \in {"DBG", "GPIO", "CLOCK"} -> led_pinmux_config(b)
      [] t = "PWM" -> << <<"SD1_D2", "PWM_5">> >>
      [] t = "LPC" -> << <<"SPK_EN", "XGPIOA_15">> >>
      [] t = "SPI" -> pinmux_config(b, "SPI2") \o oled_set_pinmux(b)
      [] t = "I2C" -> pinmux_config(b, TEST_PINMUX_I2C[b])
      [] t = "I2C_S" -> << <<"PAD_MIPI_TXM1", "IIC2_SDA">>, <<"PAD_MIPI_TXP1", "IIC2_SCL">>,
                           <<"SD1_CLK", "IIC3_SDA">>, <<"SD1_CMD", "IIC3_SCL">> >>
      [] OTHER -> <<>>

\* What makes the tables of the headers tables: a pad that has functions has a register, with
\* room for their numbers, and what a mode or a test case selects is in the headers.
ASSUME PadTables ==
    \A b \in Boards :
      /\ DOMAIN Pads[b] \subseteq Nat
      /\ \A p \in PadSet[b] :
            /\ \E j \in DOMAIN Pads[b] : Pads[b][j] = p
            /\ DOMAIN Functions[b][p] \subseteq 1..8
      /\ \A io \in IoTypes : pinmux_config(b, io) \in Seq(Selections(b))
      /\ \A t \in Tests : TestPins(b, t) \in Seq(Selections(b))

\* Fault: the test case drives its peripheral without a look at the pins.
FaultPinsForgotten ==
    /\ test # "own" /\ At("pins", "drive")
    /\ UNCHANGED <<build, todo, calls, funcsel, console, irqs, sent>>

TestCasePins ==
    /\ test # "own" /\ At("pins", "drive")
    /\ todo' = TestPins(board, test)
    /\ UNCHANGED <<build, calls, funcsel, console, irqs, sent>>

\* A program of one's own calls pinmux_config(), or PINMUX_CONFIG() once (a bound, too).
OwnPins ==
    /\ test = "own" /\ calls < OwnCalls /\ At("pins", "pins")
    /\ \/ \E io \in IoTypes : todo' = pinmux_config(board, io) /\ calls' = calls + 1
       \/ calls = 0 /\ calls' = OwnCalls /\ \E s \in Selections(board) : todo' = <<s>>
    /\ UNCHANGED <<build, funcsel, console, irqs, sent>>

\* The test case drives its peripheral (the modules of the demos; some never return), ...
Drive == test # "DBG" /\ At("drive", "returned") /\ UNCHANGED <<build, todo, calls, funcsel, console, irqs, sent>>

\* ... and main() prints its last line.
LastLine == At("returned", "stop") /\ Printf /\ UNCHANGED todo

\* while(1), or the program of one's own
Rest ==
    /\ todo = <<>>
    /\ pc = "stop" \/ (pc = "drive" /\ test = "DBG") \/ (pc = "pins" /\ test = "own" /\ calls = OwnCalls)
    /\ UNCHANGED vars

InitSteps ==
    \/ ConsolePins \/ UartPort \/ LatchOpen \/ DivisorLow \/ DivisorHigh \/ LatchClosed
    \/ ReceiveIrq \/ Format \/ IrqInit
MainSteps ==
    \/ Newline \/ Banner \/ testcase_main \/ TestCasePins \/ OwnPins \/ Drive \/ LastLine \/ Rest

Next == InitSteps \/ Select \/ MainSteps

Spec == Init /\ [][Next]_vars

-----------------------------------------------------------------------------
\* The signals of the peripherals that the program drives, from the registers it uses: the
\* banks of mmap.h, each with the names its channels have in the pin headers.
Bank == [GPIO0_BASE |-> "XGPIOA_", GPIO1_BASE |-> "XGPIOB_", GPIO2_BASE |-> "XGPIOC_",
         GPIO3_BASE |-> "XGPIOD_", PWR_GPIO_BASE |-> "PWR_GPIO_"]
GpioSignal(base, channel) == {Bank[base] \o ToString(channel)}
PwmSignal(bank, channel) == {"PWM_" \o ToString(4 * bank + channel)}    \* four to a bank
I2cSignals(n) == {"IIC" \o ToString(n) \o s : s \in {"_SDA", "_SCL"}}
SpiSignals(n) == {"SPI" \o ToString(n) \o s : s \in {"_SCK", "_CS_X", "_SDI", "_SDO"}}
UartSignals(n) == {"UART" \o ToString(n) \o s : s \in {"_TX", "_RX"}}

LedSignal(b) == IF b = "duo256" THEN GpioSignal("PWR_GPIO_BASE", 2) ELSE GpioSignal("GPIO2_BASE", 24)
OledSignals(b) == UNION {GpioSignal("GPIO2_BASE", n) : n \in IF b = "duo256" THEN {14, 15} ELSE {9, 10}}

\* What each test case drives
Driven(b, t) ==
    CASE t \in {"DBG", "GPIO", "CLOCK"} -> LedSignal(b)
      [] t = "PWM" -> PwmSignal(1, 1)
      [] t = "LPC" -> GpioSignal("GPIO0_BASE", 15)
      [] t = "SPI" -> SpiSignals(2) \cup OledSignals(b)
      [] t = "I2C" -> I2cSignals(IF b = "duo" THEN 0 ELSE 1)
      [] t = "I2C_S" -> I2cSignals(2) \cup I2cSignals(3)
      [] OTHER -> {}

\* The selections made before a test case drives its peripheral
Configured(b, t) == pinmux_config(b, "UART1") \o TestPins(b, t)

\* What makes the tables agree, in five files: the pin headers of two boards, the modes of
\* pinmux.c, the selections and the channels of the test cases.  No pad is configured twice,
\* and each signal of the peripheral and of the console is selected once.
ASSUME WiringTables ==
    \A b \in Boards, t \in Tests :
      LET s == Configured(b, t)
      IN  /\ \A i, j \in DOMAIN s : s[i][1] = s[j][1] => i = j
          /\ \A signal \in Driven(b, t) \cup UartSignals(1) :
                \E i \in DOMAIN s : \A j \in DOMAIN s : s[j][2] = signal <=> j = i

\* The registers hold words, the port is one of the six.
TypeOK ==
    /\ board \in Boards /\ test \in Tests /\ calls \in 0..OwnCalls
    /\ \A p \in PadSet[board] : funcsel[RegisterOf[board][p]] \in Nat
    /\ uart \in Ports /\ port \in [Ports -> Registers] /\ irqs \in BOOLEAN /\ sent \in Nat

\* The multiplexer is what a program takes it for, whatever an earlier boot stage left in its
\* registers, also in the bits beside the field: each selection gives its pad the function
\* asked for, and no other pad loses the one it has.
PadMapOf == INSTANCE PadMap WITH signal <- [p \in PadSet[board] |-> Carries(p)]
ImplementsPadMap == PadMapOf!Spec

\* When a test case starts to drive its peripheral, every signal of the channels it drives, and
\* every signal of the console, is on exactly one of the pads that the program configured,
\* whatever an earlier stage left in the registers: WiringTables holds of the pads as it does
\* of the tables.
Wired ==
    pc = "drive" /\ todo = <<>> =>
      LET configured == {s[1] : s \in Range(Configured(board, test))}
      IN  \A signal \in Driven(board, test) \cup UartSignals(1) :
             Cardinality({p \in configured : Carries(p) = signal}) = 1

\* A character is sent only when the receiver can read it: by UART1, at 115200 baud (divisor
\* 14 of 25 MHz) in 8N1, with the divisor latch shut, by pads that carry UART1; so whatever
\* state an earlier stage left the UART and the pads in.
ConsoleReadable ==
    [][sent' # sent =>
         /\ uart = 1
         /\ port[1].dll = 14 /\ port[1].dlh = 0 /\ port[1].format = "8N1" /\ ~port[1].dlab
         /\ \A s \in UartSignals(1) : \E p \in PadSet[board] : Carries(p) = s]_vars
=============================================================================
