-------------------------------- MODULE Spi --------------------------------
(***************************************************************************)
(* The SPI controller as test_spi.c uses it (the controller itself is not  *)
(* in the repository): a transmit FIFO, one byte in the shift register,    *)
(* and a receive FIFO.  The byte leaves the transmit FIFO when its first   *)
(* bit is sent, so TXFLR = 0 says that it was taken, not that it arrived.  *)
(* A byte is a record [kind, val]; kind is what the program means it to be.*)
(***************************************************************************)
EXTENDS Naturals, Sequences

CONSTANTS FifoDepth,    \* characters a FIFO holds
          Junk      \* what an input pin without a driver reads as

ASSUME FifoAssumption == FifoDepth \in Nat \ {0}

VARIABLES enr,      \* SPIENR: the controller is enabled
          ctrl,     \* CTRL0's mode, frame and polarity: "boot" as an earlier stage
                    \* left them, or "set" by spi_init()
          srl,      \* CTRL0 bit 11: the input is wired to the output
          ser,      \* SER: a slave is selected
          txfifo,   \* bytes written to DR and not yet on the wire
          shifting, \* the byte on the wire: a sequence of length 0 or 1
          rxfifo    \* values received and not yet read

spivars == <<enr, ctrl, srl, ser, txfifo, shifting, rxfifo>>

\* An earlier boot stage may have left the controller enabled and configured
\* for something else, with a byte nobody read, and no transfer under way.
SpiInit ==
    /\ enr \in BOOLEAN
    /\ ctrl = "boot" /\ srl \in BOOLEAN
    /\ ser \in BOOLEAN
    /\ txfifo = <<>> /\ shifting = <<>>
    /\ rxfifo \in {<<>>} \union (IF enr THEN {<<Junk>>} ELSE {})

\* spi_enable(0): clears the FIFOs and drops what is on the wire.
SpiDisable ==
    /\ enr' = FALSE
    /\ txfifo' = <<>> /\ shifting' = <<>> /\ rxfifo' = <<>>
    /\ UNCHANGED <<ctrl, srl, ser>>

SpiEnable == enr' = TRUE /\ UNCHANGED <<ctrl, srl, ser, txfifo, shifting, rxfifo>>

\* CTRL0 keeps its value while the controller is enabled.  spi_init() clears and
\* sets the fields of the mode, and sets SRL for the loop test; nothing clears SRL.
SpiConfigure(looptest) ==
    /\ ctrl' = IF enr THEN ctrl ELSE "set"
    /\ srl' = (srl \/ (~enr /\ looptest))
    /\ UNCHANGED <<enr, ser, txfifo, shifting, rxfifo>>

SpiSelect == ser' = TRUE /\ UNCHANGED <<enr, ctrl, srl, txfifo, shifting, rxfifo>>

\* A write to DR is lost when the controller is off or the FIFO is full.
WriteDr(b) ==
    /\ txfifo' = IF enr /\ Len(txfifo) < FifoDepth THEN Append(txfifo, b) ELSE txfifo
    /\ UNCHANGED <<enr, ctrl, srl, ser, shifting, rxfifo>>

TxLevel == Len(txfifo)
RxLevel == Len(rxfifo)

ReadDr == rxfifo' = Tail(rxfifo) /\ UNCHANGED <<enr, ctrl, srl, ser, txfifo, shifting>>

\* The controller: the first bit of the next byte goes out ...
SpiLoad ==
    /\ enr /\ ser /\ shifting = <<>> /\ txfifo # <<>>
    /\ shifting' = <<Head(txfifo)>>
    /\ txfifo' = Tail(txfifo)
    /\ UNCHANGED <<enr, ctrl, srl, ser, rxfifo>>

\* ... and its last bit, with which a received one is complete.
Shifted ==
    /\ shifting # <<>>
    /\ shifting' = <<>>
    /\ rxfifo' = IF Len(rxfifo) < FifoDepth
                 THEN Append(rxfifo, IF ctrl = "set" /\ srl THEN shifting[1].val ELSE Junk)
                 ELSE rxfifo
    /\ UNCHANGED <<enr, ctrl, srl, ser, txfifo>>

SpiTypeOK ==
    /\ enr \in BOOLEAN /\ ser \in BOOLEAN
    /\ ctrl \in {"boot", "set"} /\ srl \in BOOLEAN
    /\ Len(txfifo) <= FifoDepth /\ Len(shifting) <= 1 /\ Len(rxfifo) <= FifoDepth
=============================================================================
