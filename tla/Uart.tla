-------------------------------- MODULE Uart --------------------------------
(***************************************************************************)
(* source/uart.c on its UART: transmit path, shared by the main program and *)
(* the interrupt handlers.  uart_puts() and _write() read one character at  *)
(* a time from memory, which may have changed by then, and give it to       *)
(* uart_putc(); _uart_putc() polls LSR.THRE and then writes THR.  An        *)
(* interrupt can come between any two of these.  The UART (external) has a  *)
(* transmit buffer in front of the shift register: one character when its   *)
(* FIFO is off, more when it is on; THRE says that the buffer is empty.     *)
(* uart_init() writes no FCR, so the FIFO is as an earlier stage left it.    *)
(***************************************************************************)
EXTENDS Integers, SequencesExt

CONSTANTS Depths,    \* the sizes the transmit buffer may have
          NL, CR     \* line feed and carriage return

ASSUME UartAssumption == Depths \subseteq Nat \ {0}

Writers == {"main", "isr"}

VARIABLES
    depth,     \* the size of the transmit buffer
    text,      \* the characters in memory that each writer has still to read
    todo,      \* what its uart_putc() under way has still to write, after \n -> \r\n
    ready,     \* the writer has seen THRE and is about to write THR
    thr,       \* the transmit buffer
    shift,     \* the shift register: a sequence of at most one character
    sent,      \* (history) what went out on the line
    printed    \* (history) what each writer's uart_puts() or _write() has read

tx == <<depth, text, todo, ready, thr, shift, sent, printed>>

TxInit ==
    /\ depth \in Depths
    /\ text = [w \in Writers |-> <<>>] /\ todo = [w \in Writers |-> <<>>]
    /\ ready = [w \in Writers |-> FALSE]
    /\ thr = <<>> /\ shift = <<>> /\ sent = <<>>
    /\ printed = [w \in Writers |-> <<>>]

\* uart_putc(): '\n' is preceded by '\r'
Bytes(c) == IF c = NL THEN <<CR, NL>> ELSE <<c>>

\* uart_putc() for each character of s
Expand(s) == FlattenSeq([j \in DOMAIN s |-> Bytes(s[j])])

Written(w) == text[w] = <<>> /\ todo[w] = <<>>

\* uart_puts(), or _write() for printf, is called with this text, ...
Puts(w, s) ==
    /\ Written(w) /\ text' = [text EXCEPT ![w] = s]
    /\ UNCHANGED <<depth, todo, ready, thr, shift, sent, printed>>

\* ... and reads its next character when uart_putc() is done with the one before.
Fetch(w) ==
    /\ todo[w] = <<>> /\ text[w] # <<>>
    /\ text' = [text EXCEPT ![w] = Tail(@)]
    /\ todo' = [todo EXCEPT ![w] = Bytes(Head(text[w]))]
    /\ printed' = [printed EXCEPT ![w] = Append(@, Head(text[w]))]
    /\ UNCHANGED <<depth, ready, thr, shift, sent>>

\* Fault: the character is written without waiting for the buffer.
FaultNoPoll(w) ==
    /\ todo[w] # <<>> /\ ~ready[w]
    /\ ready' = [ready EXCEPT ![w] = TRUE]
    /\ UNCHANGED <<depth, text, todo, thr, shift, sent, printed>>

\* _uart_putc(): the read of LSR that ends the polling loop, ...
Poll(w) ==
    /\ todo[w] # <<>> /\ ~ready[w] /\ thr = <<>>
    /\ ready' = [ready EXCEPT ![w] = TRUE]
    /\ UNCHANGED <<depth, text, todo, thr, shift, sent, printed>>

\* ... and the write of THR.  A full one-character buffer is overwritten; a full FIFO
\* ignores the write.
Store(w) ==
    LET char == [by |-> w, ch |-> Head(todo[w])] IN
    /\ ready[w] /\ ready' = [ready EXCEPT ![w] = FALSE]
    /\ todo' = [todo EXCEPT ![w] = Tail(@)]
    /\ thr' = IF Len(thr) < depth THEN Append(thr, char)
              ELSE IF depth = 1 THEN <<char>> ELSE thr
    /\ UNCHANGED <<depth, text, shift, sent, printed>>

\* The UART: load the shift register, put its character on the line.
Load == /\ thr # <<>> /\ shift = <<>>
        /\ shift' = <<Head(thr)>> /\ thr' = Tail(thr)
        /\ UNCHANGED <<depth, text, todo, ready, sent, printed>>

Transmit == /\ shift # <<>>
            /\ sent' = sent \o shift /\ shift' = <<>>
            /\ UNCHANGED <<depth, text, todo, ready, thr, printed>>

-----------------------------------------------------------------------------
TxQuiet == \A w \in Writers : Written(w) /\ thr = <<>> /\ shift = <<>>

\* Of the characters s the writer's own, and those the line carried for it
Of(w, s) == FlattenSeq([j \in DOMAIN s |-> IF s[j].by = w THEN <<s[j].ch>> ELSE <<>>])
Chars(w) == Of(w, sent)

\* Each line feed comes right behind a carriage return.
Paired(s) == \A j \in DOMAIN s : s[j] = NL => j > 1 /\ s[j - 1] = CR

\* The buffers keep their size.
TxTypeOK ==
    /\ depth \in Depths /\ Len(thr) <= depth /\ Len(shift) <= 1
    /\ ready \in [Writers -> BOOLEAN]
    /\ \A w \in Writers : ready[w] => todo[w] # <<>>
=============================================================================
