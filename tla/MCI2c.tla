------------------------------- MODULE MCI2c --------------------------------
(***************************************************************************)
(* The two I2C test cases, one of which is built: test_i2c() with the       *)
(* accesses of the master (I2cMaster), and test_i2c_slave() with the        *)
(* interrupt handler of the slave (I2cSlave).                               *)
(***************************************************************************)
EXTENDS I2cMaster

CONSTANT MaxReads

VARIABLES
    part,       \* "master" or "slave"
    slave_pc, reads, slave_data, handler, i2c_slave_data, open, regs, enable, rd_req, tx_abrt,
    fifo, slave_bus, answer

slaveVars == <<slave_pc, reads, slave_data, handler, i2c_slave_data, open, regs, enable,
               rd_req, tx_abrt, fifo, slave_bus, answer>>

Slave == INSTANCE I2cSlave WITH pc <- slave_pc, data <- slave_data, bus <- slave_bus

ASSUME ReadsAssumption == Slave!ReadsConstants

\* The test case not chosen begins with one of its initial states.
I2cInit ==
    /\ part \in {"master", "slave"}
    /\ Init /\ Slave!Init
    /\ part = "master" => ~enable
    /\ part = "slave" => ~ena /\ ~stopdet

InMaster(A) == part = "master" /\ A /\ UNCHANGED <<part, slaveVars>>
InSlave(A) == part = "slave" /\ A /\ UNCHANGED <<part, vars>>

I2cNext ==
    \/ InMaster(Next)
    \/ InSlave(Slave!MainStep) \/ InSlave(Slave!HandlerStep) \/ InSlave(Slave!BusStep)
    \/ InSlave(Slave!Over)

i2cVars == <<part, vars, slaveVars>>

\* The fairness of each module
I2cSpec ==
    /\ I2cInit /\ [][I2cNext]_i2cVars
    /\ WF_i2cVars(InMaster(DriverStep)) /\ WF_i2cVars(InMaster(BusStep))
    /\ WF_i2cVars(InSlave(Slave!MainStep)) /\ WF_i2cVars(InSlave(Slave!HandlerStep))
    /\ WF_i2cVars(InSlave(Slave!BusStep))

\* The properties of I2cSlave: what the main program reads counts up, and every read returns.
ReadsCountUp == part = "slave" => Slave!ReadsCountUp
ReadsReturn == part = "slave" => Slave!ReadsReturn
=============================================================================
