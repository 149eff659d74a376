------------------------------ MODULE Console -------------------------------
(***************************************************************************)
(* The programs that share the console with an interrupt handler.           *)
(*                                                                          *)
(* "lines": the printing of test_wdt(), test_lpc(), test_timer() and        *)
(* test_rtc_irq().  The main program prints a line now and then, a handler  *)
(* that may come at any time prints its own and runs to its end first.      *)
(* Both use printf and so the one buffer of newlib's stdout (external):     *)
(* printf fills it from its beginning, or behind what it holds, and, when   *)
(* there is a whole line, marks it empty and has _write() put it out.  A    *)
(* handler's line therefore replaces the beginning of a line that           *)
(* _write() is still reading.                                               *)
(*                                                                          *)
(* "echo": test_irq().  The UART interrupts when a key arrives, uart_isr()  *)
(* reads it with uart_getc(), echoes it and prompts for the next.  The      *)
(* receive buffer (external) has one character; a key that finds it full is *)
(* lost in it.                                                              *)
(***************************************************************************)
EXTENDS Uart

CONSTANTS
    MainLine, IsrLine, MaxLines, MaxIrqs,   \* "lines": the texts, and how many of each
    Keys, Prompt, MaxKeys                   \* "echo": keys, the prompt, and how many keys

ASSUME ConsoleAssumption == MaxLines \in Nat /\ MaxIrqs \in Nat /\ MaxKeys \in Nat

\* The texts are strings of characters, and the prompt is part of a line.
ASSUME TextsAssumption ==
    /\ \A s \in {MainLine, IsrLine, Prompt} : s \in Seq(Range(s))
    /\ NL # CR /\ NL \notin Range(Prompt)

VARIABLES
    test,      \* the program
    pc,        \* main before and behind request_irq() ("main"), or where the handler is
    stdout,    \* the main program's printf is "filling" the buffer, or has it "flushed"
    touched,   \* (history) a handler used the buffer "never", or last in that "copy" or "write"
    line,      \* (history) what _write() has read of the main program's line
    lines,     \* lines the main program printed
    irqs,      \* interrupts taken in "lines"
    rbr,       \* the receive buffer
    hits,      \* (history) interrupts taken between a poll and its write of THR
    got,       \* (history) the keys uart_getc() returned
    overrun,   \* (history) the keys lost in the receive buffer
    typed      \* (history) all keys that arrived

rx == <<rbr, got, overrun, typed>>
buffer == <<stdout, touched, line>>
counts == <<lines, irqs, hits>>
vars == <<tx, rx, buffer, counts, test, pc>>

Init ==
    /\ TxInit
    /\ \/ test = "lines" /\ pc = "main" /\ rbr = <<>>
       \/ /\ test = "echo" /\ pc = "prompt"
          /\ rbr \in {<<>>} \cup {<<key>> : key \in Keys}   \* a key may come before the program
    /\ stdout = "flushed" /\ touched = "never" /\ line = <<>>
    /\ lines = 0 /\ irqs = 0 /\ hits = 0
    /\ typed = rbr /\ got = <<>> /\ overrun = 0

-----------------------------------------------------------------------------
\* "lines": what a buffer may hold that a handler used while the main program filled it
Mixtures == BoundedSeq(Range(MainLine) \cup Range(IsrLine), Len(MainLine))

\* The main program calls printf, ...
MainPrints ==
    /\ test = "lines" /\ pc = "main" /\ lines < MaxLines /\ lines' = lines + 1
    /\ stdout = "flushed" /\ Written("main")
    /\ stdout' = "filling" /\ touched' = "never" /\ line' = <<>>
    /\ UNCHANGED <<tx, rx, irqs, hits, test, pc>>

\* ... which calls _write() when the line is in the buffer.
MainFlushes ==
    /\ stdout = "filling" /\ pc = "main" /\ stdout' = "flushed"
    /\ \E s \in IF touched = "never" THEN {MainLine} ELSE Mixtures : Puts("main", s)
    /\ UNCHANGED <<rx, touched, line, counts, test, pc>>

\* The unread rest s of the main program's line when a handler has filled the buffer
Replaced(s) == [j \in DOMAIN s |-> IF Len(line) + j <= Len(IsrLine) THEN IsrLine[Len(line) + j]
                                   ELSE s[j]]

\* The interrupt is taken between any two accesses of the main program, and its printf finds
\* what the main program's has put into the buffer: none, a part, or what is left after
\* another handler.
LineIrq ==
    /\ test = "lines" /\ pc = "main" /\ irqs < MaxIrqs
    /\ pc' = "print" /\ irqs' = irqs + 1
    /\ hits' = hits + IF ready["main"] THEN 1 ELSE 0
    /\ \E begun \in CASE stdout = "flushed" -> {<<>>}
                      [] touched = "never"  -> {SubSeq(MainLine, 1, n) : n \in 0 .. Len(MainLine)}
                      [] OTHER              -> Mixtures :
         text' = [text EXCEPT !["isr"] = begun \o IsrLine, !["main"] = Replaced(@)]
    /\ touched' = CASE stdout = "filling"    -> "copy"
                    [] text["main"] # <<>>  -> IF touched = "copy" THEN touched ELSE "write"
                    [] OTHER                -> touched
    /\ UNCHANGED <<depth, todo, ready, thr, shift, sent, printed>>
    /\ UNCHANGED <<rx, stdout, line, lines, test>>

\* A handler of either program returns.
IsrReturn ==
    pc = "print" /\ Written("isr") /\ pc' = "main" /\ UNCHANGED <<tx, rx, buffer, counts, test>>

-----------------------------------------------------------------------------
\* "echo": test_irq() prompts, then calls request_irq(); then the main program only spins.
MainPrompts ==
    /\ pc = "prompt" /\ pc' = "request"
    /\ Puts("main", Prompt) /\ UNCHANGED <<rx, buffer, counts, test>>

\* Fault: the interrupt is requested before the prompt is written.
FaultRequestsEarly == pc = "request" /\ pc' = "main" /\ UNCHANGED <<tx, rx, buffer, counts, test>>

MainRequests ==
    pc = "request" /\ Written("main") /\ pc' = "main" /\ UNCHANGED <<tx, rx, buffer, counts, test>>

\* Fault: uart_init() enables the interrupt of an empty transmit buffer too.
FaultThreIrq == {"data", "thre"}

\* IER: uart_init() sets RDA and keeps the other bits, clear after reset; no earlier stage is
\* taken to have used UART1 with interrupts.
Ier == {"data"}

\* The line is up while LSR.DR is set, and would be while LSR.THRE is if IER had that bit.
KeyIrq ==
    /\ test = "echo" /\ pc = "main"
    /\ \/ "data" \in Ier /\ rbr # <<>>
       \/ "thre" \in Ier /\ thr = <<>>
    /\ pc' = "getc" /\ UNCHANGED <<tx, rx, buffer, counts, test>>

\* uart_getc(): wait for LSR.DR, read RBR; then uart_putc(c), uart_putc('\n'), uart_puts(...)
IsrGetc ==
    /\ pc = "getc" /\ rbr # <<>>
    /\ rbr' = <<>> /\ got' = got \o rbr
    /\ Puts("isr", <<Head(rbr), NL>> \o Prompt)
    /\ pc' = "print" /\ UNCHANGED <<overrun, typed, buffer, counts, test>>

-----------------------------------------------------------------------------
Putc(w) ==
    /\ (w = "isr") <=> (pc = "print")
    /\ \/ Fetch(w) /\ line' = IF w = "main" THEN Append(line, Head(text[w])) ELSE line
       \/ (Poll(w) \/ Store(w)) /\ UNCHANGED line
    /\ UNCHANGED <<rx, stdout, touched, counts, test, pc>>

Hardware == (Load \/ Transmit) /\ UNCHANGED <<rx, buffer, counts, test, pc>>

Type(key) ==
    /\ test = "echo" /\ Len(typed) < MaxKeys /\ typed' = Append(typed, key)
    /\ IF rbr = <<>> THEN rbr' = <<key>> /\ UNCHANGED overrun
                     ELSE overrun' = overrun + 1 /\ UNCHANGED rbr
    /\ UNCHANGED <<tx, got, buffer, counts, test, pc>>

\* The delays between the lines, the spinning of test_irq(), the end of what is modelled.
Idle == pc = "main" /\ TxQuiet /\ rbr = <<>> /\ UNCHANGED vars

Program == MainFlushes \/ MainRequests \/ MainPrompts \/ KeyIrq \/ IsrGetc \/ IsrReturn

Next ==
    \/ MainPrints \/ LineIrq \/ Program \/ Hardware \/ Idle
    \/ \E w \in Writers : Putc(w)
    \/ \E key \in Keys : Type(key)

\* The hart and the UART work on; keys, lines and their interrupts may or may not come.
Spec ==
    /\ Init /\ [][Next]_vars
    /\ WF_vars(Program) /\ WF_vars(Hardware)
    /\ \A w \in Writers : WF_vars(Putc(w))

-----------------------------------------------------------------------------
Letters == {NL, CR} \cup Keys \cup Range(MainLine) \cup Range(IsrLine) \cup Range(Prompt)
Characters == [by : Writers, ch : Letters]

\* The buffers keep their size; only the handler writes while it runs; every key is in the
\* buffer, read, or lost there.
TypeOK ==
    /\ TxTypeOK
    /\ text \in [Writers -> Seq(Letters)] /\ todo \in [Writers -> Seq(Letters)]
    /\ printed \in [Writers -> Seq(Letters)] /\ line \in Seq(Letters)
    /\ thr \in Seq(Characters) /\ shift \in Seq(Characters) /\ sent \in Seq(Characters)
    /\ pc \in {"prompt", "request", "main", "getc", "print"} /\ test \in {"lines", "echo"}
    /\ stdout \in {"filling", "flushed"} /\ touched \in {"never", "copy", "write"}
    /\ test = "lines" => pc \in {"main", "print"}
    /\ test = "echo" => stdout = "flushed" /\ lines = 0
    /\ stdout = "filling" => Written("main")
    /\ lines \in 0 .. MaxLines /\ irqs \in 0 .. MaxIrqs /\ hits \in 0 .. irqs
    /\ pc # "print" => Written("isr")
    /\ rbr \in Seq(Keys) /\ Len(rbr) <= 1 /\ got \in Seq(Keys) /\ typed \in Seq(Keys)
    /\ overrun \in Nat /\ Len(got) + Len(rbr) + overrun = Len(typed)

\* The main program's line, where a handler's may have taken its place
Overwritten(s) ==
    /\ Len(s) = Len(MainLine)
    /\ \A j \in DOMAIN s : s[j] = MainLine[j] \/ (j <= Len(IsrLine) /\ s[j] = IsrLine[j])

\* Once the UART is quiet the line has carried, in order, all that uart_puts() or _write() read
\* for the main program, and for each writer each line feed right behind its carriage return,
\* although the writers interrupt each other inside _uart_putc().  Of what was read for the
\* handlers at most one character is missing for each interrupt that came between the poll of
\* THRE and the write of THR, and none when the transmit FIFO is on.  What _write() read for the
\* main program is the line it printed, unless a handler printed before the last character was
\* read; then it has the same length and, where it differs, the handler's characters, unless
\* the handler printed while printf still filled the buffer.
LossBounded ==
    TxQuiet =>
        /\ Chars("main") = Expand(printed["main"])
        /\ Len(Expand(printed["isr"])) - Len(Chars("isr")) \in 0 .. IF depth = 1 THEN hits ELSE 0
        /\ \A w \in Writers : Paired(Chars(w))
        /\ stdout = "flushed" /\ lines > 0 =>
             /\ touched = "never" => line = MainLine
             /\ touched = "write" => Overwritten(line)

\* What uart_isr() puts on the line for a key, in which uart_putc() finds a '\n' of its own
\* and perhaps the key
Echo(key) == (IF key = NL THEN <<CR, NL>> ELSE <<key>>) \o <<CR, NL>> \o Prompt

\* When the UART is quiet, the line has carried the prompt of test_irq() and then, for each
\* key read, in the order they were typed, the key, a line end and the next prompt.
EchoesInOrder ==
    test = "echo" /\ pc = "main" /\ TxQuiet =>
        [j \in DOMAIN sent |-> sent[j].ch] = Prompt \o FlattenSeq([j \in DOMAIN got |-> Echo(got[j])])

\* What was printed goes out, every key that is not lost in the receive buffer is read, and the
\* handler's wait for a key ends: the polling loops end, the UART comes to rest on both sides and
\* the hart returns to the main program.
ComesToRest == []<>(pc = "main" /\ TxQuiet /\ rbr = <<>>)
-----------------------------------------------------------------------------
(***************************************************************************)
(* The inductive invariant: what has been given to the UART and is not      *)
(* lost, with what uart_putc() is about to give it, is what was read.  What *)
(* _write() has read and what it has still to read is the line, or that and *)
(* the handler's one over the other.  A writer that has seen THRE finds the *)
(* buffer empty, unless it is the main program and a handler has printed    *)
(* since; then the write of THR costs a character that one of the hits      *)
(* stands for, which is not settled before.                                 *)
(***************************************************************************)
Flow == sent \o shift \o thr
Stream(w) == Of(w, Flow) \o todo[w]
Lost == Len(Expand(printed["isr"])) - Len(Stream("isr"))
Settled == hits - IF ready["main"] /\ (pc = "print" \/ thr # <<>>) THEN 1 ELSE 0

PolledInv ==
    /\ ready["isr"] => thr = <<>>
    /\ ready["main"] => thr \in {<<>>} \cup {<<c>> : c \in [by : {"isr"}, ch : Letters]}

StreamInv ==
    /\ Stream("main") = Expand(printed["main"])
    /\ Lost >= 0 /\ (depth = 1 => Lost <= Settled) /\ (depth # 1 => Lost = 0)
    /\ \A w \in Writers : Paired(Stream(w))

BufferInv ==
    test = "lines" =>
        /\ lines = 0 => Written("main")
        /\ stdout = "filling" => lines > 0 /\ line = <<>> /\ touched # "write"
        /\ stdout = "flushed" /\ lines > 0 =>
             /\ touched = "never" => line \o text["main"] = MainLine
             /\ touched = "write" => Overwritten(line \o text["main"])

\* test_irq(): the main program writes the prompt, the handler everything else.
Left(w) == todo[w] \o Expand(text[w])
Due == IF pc = "prompt" THEN <<>> ELSE Prompt \o FlattenSeq([j \in DOMAIN got |-> Echo(got[j])])

EchoInv ==
    test = "echo" =>
        /\ [j \in DOMAIN Flow |-> Flow[j].ch] \o Left("main") \o Left("isr") = Due
        /\ ready["main"] => thr = <<>>
        /\ pc \in {"prompt", "request"} => got = <<>>
        /\ pc # "request" => Written("main")

IInv == TypeOK /\ PolledInv /\ StreamInv /\ BufferInv /\ EchoInv

=============================================================================
