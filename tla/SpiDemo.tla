------------------------------ MODULE SpiDemo -------------------------------
(***************************************************************************)
(* test_spi() of test_spi.c, which runs one of two programs, as LOOP was   *)
(* defined when it was built.                                              *)
(*                                                                         *)
(* test_looptest() wires the controller's output to its input and reads    *)
(* every byte it wrote back before it writes the next.                     *)
(*                                                                         *)
(* test_spi_oled() shows four Chinese characters on an SSD1306 panel of 8  *)
(* pages of 128 columns, behind the controller and two GPIO pins, RES and  *)
(* D/C.  The panel looks at D/C when the last bit of a byte arrives,       *)
(* whenever the controller sends it: the program waits for TXFLR = 0 only, *)
(* so its next write to the pin may come before that bit.  The program is  *)
(* a straight line, so it is written as the sequence of its oled_write()   *)
(* calls; each call is three steps: the D/C pin, the byte, the wait for    *)
(* TXFLR = 0.                                                              *)
(***************************************************************************)
EXTENDS Spi, SequencesExt


VARIABLES loop,                 \* LOOP: which of the two programs was built
          spi_pc, nth,          \* the program, and the byte or oled_write() call it is at
          default_rx,           \* what the loop test read, as far as it was read
          dir, res, dc,         \* GPIO: pins are outputs, RES high, D/C high
          page, col, on, arg,   \* the panel: RAM pointer, display on, an argument due
          ram,                  \* the panel's RAM, by page and column
          misread               \* history: the panel took data for a command,
                                \* or a command for data

gpio == <<dir, res, dc>>
panel == <<page, col, on, arg, ram, misread>>
prog == <<loop, default_rx>>
demoVars == <<spivars, prog, spi_pc, nth, gpio, panel>>

Pages == 0..7
Cols == 0..127

\* A byte of the font is known by its character, half and column; the values
\* are outside 0..255.  font_array has 16 of the 32 columns, C clears the rest.
Font(idx, half, t) == IF t < 16 THEN 256 + 32 * idx + 16 * half + t ELSE 0
Unknown == 999      \* what the RAM holds at power-on

Command(v) == [kind |-> "cmd", val |-> v]
Datum(v)   == [kind |-> "data", val |-> v]

(* Seeded faults *)
FaultNibbles(c, r) == <<Command(176 + r), Command(16 + (c % 16)), Command(c \div 16)>>

\* oled_set_pos()
SetPos(c, r) == <<Command(176 + r), Command(c \div 16 + 16), Command(c % 16)>>

\* oled_clear()
ClearRow(r) == [c \in 1..128 |-> Datum(0)]
oled_clear == FlattenSeq([r \in 1..8 |-> SetPos(0, r - 1) \o ClearRow(r - 1)])

\* oled_init(), after the reset
InitPanel ==
    LET bytes == <<174, 64, 176, 16, 0, 161, 166, 164, 200, 213, 128, 141, 20, 129, 207, 175>>
    IN [n \in 1..Len(bytes) |-> Command(bytes[n])] \o oled_clear \o SetPos(0, 0)

\* oled_show_font_16()
ShowHalf(x, y, idx, half) == SetPos(x, y + half) \o [t \in 1..32 |-> Datum(Font(idx, half, t - 1))]
Show(x, y, idx) == ShowHalf(x, y, idx, 0) \o ShowHalf(x, y, idx, 1)

\* default_tx: the loop test reads a byte into default_rx for each.
Tx == <<1, 2, 3, 4, 5, 6, 7, 8, 9, 16, 17, 18>>

\* test_spi_oled(), after spi_init(0) and the reset
Script == InitPanel \o Show(10, 4, 0) \o Show(40, 4, 1) \o Show(70, 4, 2) \o Show(100, 4, 3)

Bytes == IF loop THEN [n \in 1..Len(Tx) |-> Datum(Tx[n])] ELSE Script

\* The FIFOs and the panel's pointer stay within their sizes, and a program does not go
\* past its last byte.
DemoTypeOK ==
    /\ SpiTypeOK
    /\ spi_pc \in {"disable", "ctrl0", "ser", "enable", "dir", "reset", "work",
                   "dc", "dr", "drain", "read", "done"}
    /\ loop \in BOOLEAN /\ Len(default_rx) <= Len(Tx)
    /\ nth \in 1..(Len(Bytes) + 1) /\ (spi_pc # "done" => nth <= Len(Bytes))
    /\ dir \in BOOLEAN /\ res \in BOOLEAN /\ dc \in BOOLEAN
    /\ page \in Pages /\ col \in Cols /\ on \in BOOLEAN /\ arg \in BOOLEAN
    /\ ram \in [Pages -> [Cols -> 0..999]] /\ misread \in BOOLEAN

DemoInit ==
    /\ SpiInit
    /\ loop \in BOOLEAN
    /\ spi_pc = "disable" /\ nth = 1 /\ default_rx = <<>>
    /\ dir = FALSE /\ res \in BOOLEAN /\ dc \in BOOLEAN
    /\ page = 0 /\ col = 0 /\ on \in BOOLEAN /\ arg = FALSE
    /\ ram = [p \in Pages |-> [c \in Cols |-> Unknown]] /\ misread = FALSE

To(from, to) == spi_pc = from /\ spi_pc' = to

FaultKeptOn == To("disable", "ctrl0") /\ UNCHANGED <<spivars, prog, nth, gpio, panel>>

\* spi_init(1) or spi_init(0)
InitOff == To("disable", "ctrl0") /\ SpiDisable /\ UNCHANGED <<prog, nth, gpio, panel>>
Ctrl0 ==
    /\ To("ctrl0", "ser") /\ SpiConfigure(loop)
    /\ UNCHANGED <<prog, nth, gpio, panel>>
Ser == To("ser", "enable") /\ SpiSelect /\ UNCHANGED <<prog, nth, gpio, panel>>
InitOn ==
    /\ To("enable", IF loop THEN "dr" ELSE "dir") /\ SpiEnable
    /\ UNCHANGED <<prog, nth, gpio, panel>>

\* oled_set_pinmux() and oled_gpio_init(): both pins become outputs.
Dir == To("dir", "reset") /\ dir' = TRUE /\ UNCHANGED <<spivars, prog, nth, res, dc, panel>>

\* oled_res_set(OLED_RESET): the panel forgets its registers, not its RAM.
Reset ==
    /\ To("reset", "work")
    /\ res' = FALSE
    /\ IF dir THEN page' = 0 /\ col' = 0 /\ on' = FALSE /\ arg' = FALSE
              ELSE UNCHANGED <<page, col, on, arg>>
    /\ UNCHANGED <<spivars, prog, nth, dir, dc, ram, misread>>

\* mdelay(1) and oled_res_set(OLED_WORK)
Work == To("work", "dc") /\ res' = TRUE /\ UNCHANGED <<spivars, prog, nth, dir, dc, panel>>

\* oled_dc_set()
DcSet ==
    /\ To("dc", "dr")
    /\ dc' = (Script[nth].kind = "data")
    /\ UNCHANGED <<spivars, prog, nth, dir, res, panel>>

\* spi_write(): the write to DR ...
Write == To("dr", "drain") /\ WriteDr(Bytes[nth]) /\ UNCHANGED <<prog, nth, gpio, panel>>

\* On to the next byte; behind the last one the program is over.
NextByte == /\ spi_pc' = IF nth = Len(Bytes) THEN "done" ELSE IF loop THEN "dr" ELSE "dc"
            /\ nth' = nth + 1

FaultNoDrain == /\ spi_pc = "drain"
                /\ IF loop THEN spi_pc' = "read" /\ UNCHANGED nth ELSE NextByte
                /\ UNCHANGED <<spivars, prog, gpio, panel>>

\* ... and the poll of TXFLR that ends the wait; polls that fail change nothing.
Drain == /\ spi_pc = "drain" /\ TxLevel = 0
         /\ IF loop THEN spi_pc' = "read" /\ UNCHANGED nth ELSE NextByte
         /\ UNCHANGED <<spivars, prog, gpio, panel>>

\* spi_read(): the poll of RXFLR that ends the wait, and the byte.
Read == /\ spi_pc = "read" /\ RxLevel # 0
        /\ default_rx' = Append(default_rx, Head(rxfifo)) /\ ReadDr
        /\ NextByte /\ UNCHANGED <<loop, gpio, panel>>

(***************************************************************************)
(* The panel takes a byte: data goes to the RAM at the pointer, which moves*)
(* along the page and wraps at its end; of the commands, those that move   *)
(* the pointer, switch the display, or have an argument.  A byte that      *)
(* arrives under the other level of D/C is misread; what the panel shows   *)
(* from then on is not followed, and no property speaks of it.             *)
(***************************************************************************)
TakeData(v) ==
    /\ ram' = [ram EXCEPT ![page][col] = v]
    /\ col' = (col + 1) % 128
    /\ UNCHANGED <<page, on, arg>>

TakeCmd(v) ==
    /\ page' = IF ~arg /\ v \in 176..183 THEN v - 176 ELSE page
    /\ col' = IF arg THEN col
              ELSE IF v \in 0..15 THEN 16 * (col \div 16) + v
              ELSE IF v \in 16..23 THEN 16 * (v - 16) + (col % 16)
              ELSE col
    /\ on' = IF ~arg /\ v \in {174, 175} THEN v = 175 ELSE on
    /\ arg' = (~arg /\ v \in {213, 141, 129})
    /\ UNCHANGED ram

Take(b) ==
    /\ misread' = (misread \/ (res /\ ~loop /\ dc # (b.kind = "data")))
    /\ IF loop \/ ~res \/ misread' THEN UNCHANGED <<page, col, on, arg, ram>>
       ELSE IF dc THEN TakeData(b.val) ELSE TakeCmd(b.val)

LoadByte == SpiLoad /\ UNCHANGED <<prog, spi_pc, nth, gpio, panel>>
ByteArrives == Shifted /\ Take(shifting[1]) /\ UNCHANGED <<prog, spi_pc, nth, gpio>>

test_spi ==
    \/ InitOff \/ Ctrl0 \/ Ser \/ InitOn
    \/ Dir \/ Reset \/ Work
    \/ DcSet \/ Write \/ Drain \/ Read
Controller == LoadByte \/ ByteArrives
Finished == spi_pc = "done" /\ shifting = <<>> /\ UNCHANGED demoVars

DemoNext == test_spi \/ Controller \/ Finished

\* The program runs, and the controller sends what it was given.
DemoSpec == DemoInit /\ [][DemoNext]_demoVars /\ WF_demoVars(test_spi) /\ WF_demoVars(Controller)

-----------------------------------------------------------------------------
\* The comments in oled_dc_set(), lines 152 and 157: with D/C high what is sent
\* is data, with D/C low it is a command.  A byte on the wire still has the level
\* that its oled_write() chose: the next call does not change it under the byte.
KindKept == ~loop /\ shifting # <<>> => dc = (shifting[1].kind = "data")

\* spi_write()'s wait for TXFLR = 0 confines the damage to one byte.  The level of
\* D/C can be wrong only for the byte of the last oled_write() before the current
\* one, only where the two differ in kind, and only until the current call's wait
\* is over: that is, for the last byte of a run of commands or of data.
LastOfRunAtRisk ==
    ~loop /\ shifting # <<>> /\ dc # (shifting[1].kind = "data")
        => /\ spi_pc \in {"dr", "drain"} /\ nth > 1
           /\ shifting[1] = Script[nth - 1]
           /\ Script[nth].kind # Script[nth - 1].kind

\* When test_spi_oled() has returned and the last byte arrived, and no byte was
\* misread on the way, the display is on and shows the four characters, side by
\* side in pages 4 and 5, and nothing else: the blank right halves do not reach
\* over a neighbour, the last of them wraps around, and no byte of the RAM's
\* power-on contents is left.
Picture ==
    [p \in Pages |-> [c \in Cols |->
        IF p \in {4, 5} /\ \E idx \in 0..3 : c - 10 - 30 * idx \in 0..15
        THEN LET idx == (c - 10) \div 30 IN Font(idx, p - 4, c - 10 - 30 * idx)
        ELSE 0]]

PictureShown ==
    ~loop /\ ~misread /\ spi_pc = "done" /\ shifting = <<>> => on /\ ram = Picture

\* The comment at the head of test_spi.c: in the loop test what is sent comes back, byte by
\* byte and in order.  The i-th byte read is the i-th byte written, although an earlier boot
\* stage may have left the controller running in another mode; and no wait for a FIFO lasts for ever.
Loops == <>[](spi_pc = "done" /\ (loop => default_rx = Tx))
=============================================================================
