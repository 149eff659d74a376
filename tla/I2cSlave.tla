------------------------------ MODULE I2cSlave ------------------------------
(***************************************************************************)
(* test_i2c_slave.c: IIC3 as a slave that answers from its interrupt        *)
(* handler, read one byte at a time by the main program through IIC2 on the *)
(* same hart.  i2c_read() is one request here and the wait for its answer   *)
(* (module I2cMaster has its steps); the slave's side is register by        *)
(* register.  The slave controller is external: it raises RD_REQ when it is *)
(* asked, holds the clock until it has a byte, flushes what was left over   *)
(* when it is asked again, and refuses a byte written with bit 8 set.       *)
(***************************************************************************)
EXTENDS Naturals, Sequences

CONSTANT MaxReads   \* bound on the calls of i2c_read() in test_i2c_slave(); the 257th, for
                    \* which the handler writes a value with bit 8 set, never returns

ReadsConstants == MaxReads \in Nat

VARIABLES
    pc, reads, data,     \* the main program, its finished reads, the last byte read
    handler, i2c_slave_data,     \* i2c_slave_isr(): "none", "write", "clear"
    open,                \* request_irq() has opened the line
    regs, enable,        \* the slave: what IC_SAR, IC_CON, IC_INTR_MASK hold, IC_ENABLE
    rd_req, tx_abrt, fifo,       \* its two interrupts and its transmit FIFO
    bus, answer          \* the bus: "idle", "address" sent, clock "held" by the slave; the
                         \* byte the master received

main == <<pc, reads, data>>
isr == <<handler, i2c_slave_data>>
intr == <<rd_req, tx_abrt>>
vars == <<main, isr, open, regs, enable, intr, fifo, bus, answer>>

Registers == {"ic_sar", "ic_con", "ic_intr_mask"}

TypeOK ==
    /\ pc \in {"disable", "sar", "con", "mask", "enable", "request", "issue", "wait", "print"}
    /\ reads \in 0..MaxReads /\ data \in 0..255
    /\ handler \in {"none", "write", "clear"} /\ i2c_slave_data \in Nat
    /\ regs \in [Registers -> {"boot", "set"}]
    /\ bus \in {"idle", "address", "held"}
    /\ {open, enable, rd_req, tx_abrt} \subseteq BOOLEAN
    /\ \A b \in {fifo[n] : n \in DOMAIN fifo} \cup {answer[n] : n \in DOMAIN answer} : b \in 0..255
    /\ Len(answer) <= 1 /\ Len(fifo) <= 1

\* An earlier boot stage may have left the controller enabled for another use.
Init ==
    /\ pc = "disable" /\ reads = 0 /\ data = 0
    /\ handler = "none" /\ i2c_slave_data = 0
    /\ open = FALSE
    /\ regs = [r \in Registers |-> "boot"] /\ enable \in BOOLEAN
    /\ rd_req = FALSE /\ tx_abrt = FALSE /\ fifo = <<>>
    /\ bus = "idle" /\ answer = <<>>

\* The main program runs when its handler does not.
Main(from, to) == handler = "none" /\ pc = from /\ pc' = to

\* IC_SAR and IC_CON keep their values while the controller is enabled.
SetReg(r) ==
    /\ regs' = IF enable /\ r # "ic_intr_mask" THEN regs ELSE [regs EXCEPT ![r] = "set"]
    /\ UNCHANGED <<reads, data, isr, open, enable, intr, fifo, bus, answer>>

(* Seeded faults *)
FaultStaysEnabled ==
    Main("disable", "sar") /\ UNCHANGED <<reads, data, isr, open, regs, enable, intr, fifo, bus, answer>>
\* i2c_slave_init()
SetEnable(from, to, e) ==
    /\ Main(from, to)
    /\ enable' = e
    /\ UNCHANGED <<reads, data, isr, open, regs, intr, fifo, bus, answer>>

Disable    == SetEnable("disable", "sar", FALSE)
Address    == Main("sar", "con") /\ SetReg("ic_sar")
SlaveMode  == Main("con", "mask") /\ SetReg("ic_con")
Unmask     == Main("mask", "enable") /\ SetReg("ic_intr_mask")
Enable     == SetEnable("enable", "request", TRUE)
RequestIrq ==
    /\ Main("request", "issue")
    /\ open' = TRUE
    /\ UNCHANGED <<reads, data, isr, regs, enable, intr, fifo, bus, answer>>

\* i2c_read(I2C2, IIC_SLAVE_ADDR, 0x00, &data, 1): the command ...
Issue ==
    /\ Main("issue", "wait")
    /\ reads < MaxReads
    /\ bus' = "address"
    /\ UNCHANGED <<reads, data, isr, open, regs, enable, intr, fifo, answer>>

\* ... and the byte, when RX_FULL says it is there.
Return ==
    /\ Main("wait", "print")
    /\ answer # <<>>
    /\ data' = answer[1] /\ answer' = <<>>
    /\ UNCHANGED <<reads, isr, open, regs, enable, intr, fifo, bus>>

\* printf() and mdelay(1000)
PrintAndDelay ==
    /\ Main("print", "issue")
    /\ reads' = reads + 1
    /\ UNCHANGED <<data, isr, open, regs, enable, intr, fifo, bus, answer>>

-----------------------------------------------------------------------------
\* The line is up: IC_INTR_MASK lets RD_REQ and TX_ABRT through.
Line == regs["ic_intr_mask"] = "set" /\ (rd_req \/ tx_abrt)

Interrupt ==
    /\ handler = "none" /\ open /\ Line
    /\ handler' = "write"
    /\ UNCHANGED <<main, i2c_slave_data, open, regs, enable, intr, fifo, bus, answer>>

\* i2c_slave_isr(): the whole int goes to ic_cmd_data.
Bit8(v) == (v \div 256) % 2 = 1

FaultFromOne ==
    /\ handler = "write" /\ handler' = "clear"
    /\ i2c_slave_data' = i2c_slave_data + 1
    /\ fifo' = Append(fifo, i2c_slave_data' % 256)
    /\ UNCHANGED <<main, open, regs, enable, intr, bus, answer>>

WriteData ==
    /\ handler = "write" /\ handler' = "clear"
    /\ i2c_slave_data' = i2c_slave_data + 1
    /\ IF Bit8(i2c_slave_data)
       THEN fifo' = <<>> /\ tx_abrt' = TRUE
       ELSE fifo' = Append(fifo, i2c_slave_data % 256) /\ UNCHANGED tx_abrt
    /\ UNCHANGED <<main, open, regs, enable, rd_req, bus, answer>>

\* The read of ic_clr_intr clears every interrupt.
ClearIntr ==
    /\ handler = "clear" /\ handler' = "none"
    /\ rd_req' = FALSE /\ tx_abrt' = FALSE
    /\ UNCHANGED <<main, i2c_slave_data, open, regs, enable, fifo, bus, answer>>

-----------------------------------------------------------------------------
\* The slave hears its address and a read: an old byte is flushed.
Addressed == enable /\ regs["ic_sar"] = "set" /\ regs["ic_con"] = "set"

ReadRequest ==
    /\ bus = "address" /\ bus' = "held"
    /\ Addressed
    /\ rd_req' = TRUE
    /\ tx_abrt' = (tx_abrt \/ fifo # <<>>) /\ fifo' = <<>>
    /\ UNCHANGED <<main, isr, open, regs, enable, answer>>

\* The byte goes to the master, which ends the transfer.
Transmit ==
    /\ bus = "held" /\ bus' = "idle"
    /\ fifo # <<>>
    /\ answer' = <<Head(fifo)>> /\ fifo' = Tail(fifo)
    /\ UNCHANGED <<main, isr, open, regs, enable, intr>>

-----------------------------------------------------------------------------
MainStep ==
    \/ Disable \/ Address \/ SlaveMode \/ Unmask \/ Enable \/ RequestIrq
    \/ Issue \/ Return \/ PrintAndDelay
HandlerStep == Interrupt \/ WriteData \/ ClearIntr
BusStep == ReadRequest \/ Transmit

\* The bound is reached.
Over == pc = "issue" /\ reads = MaxReads /\ handler = "none" /\ UNCHANGED vars

Next == MainStep \/ HandlerStep \/ BusStep \/ Over

\* The hart executes, its interrupts are taken, the bus moves.
Spec == Init /\ [][Next]_vars /\ WF_vars(MainStep) /\ WF_vars(HandlerStep) /\ WF_vars(BusStep)

-----------------------------------------------------------------------------
\* test_i2c_slave.c, lines 10 and 11: the slave starts at 0 and each read adds 1.  The
\* n-th byte the main program prints is n - 1 modulo 256: no request is answered twice,
\* none with a byte left over from the one before.
ReadsCountUp == pc = "print" => data = reads % 256

\* Every read ends, although i2c_read() waits without a limit for a byte that its own hart's
\* handler has to provide, as long as the int has no bit 8: up to the 256th read.
ReadsReturn == pc = "wait" ~> pc = "print"
=============================================================================
