----------------------------- MODULE I2cMaster ------------------------------
(***************************************************************************)
(* The I2C master driver of source/test/test_i2c.c on its controller        *)
(* (external, a DesignWare I2C): i2c_init(), i2c_read() and i2c_write(), one *)
(* register access or poll at a time, while the controller works through    *)
(* its command FIFO at a speed of its own.  The polling loops give up after *)
(* a number of polls, so a slow transfer may be answered too late.          *)
(***************************************************************************)
EXTENDS Integers, SequencesExt

CONSTANTS
    Depth,       \* length of the controller's two FIFOs
    ReadLens, WriteLens,   \* the len arguments of i2c_read() and i2c_write()
    Slaves,      \* how the addressed slave may behave: "acks", "absent", "refuses" data
    BusyLimit,   \* i2c_wait_for_bb() gives up after this many polls and one (200)
    StopLimit,   \* i2c_xfer_finish() gives up on STOP_DET after these and one (200)
    TryLimit,    \* i2c_enable() gives up after these and one (100)
    MaxOps       \* bound on the number of operations

ASSUME I2cAssumption ==
    /\ {Depth, BusyLimit, StopLimit, TryLimit, MaxOps} \subseteq Nat /\ Depth > 0
    /\ ReadLens \cup WriteLens \subseteq Nat \ {0}
    /\ Slaves \subseteq {"acks", "absent", "refuses"}

VARIABLES
    pc, op, len, size, polls, ret, buffer,   \* the driver; size is what is left of len
    ops,
    con, ena, tx, rx, active, stopdet, abrt, \* the controller: IC_CON's speed, IC_ENABLE,
                                             \* the FIFOs, the master FSM, STOP_DET, TX_ABRT
    slave, stored, given                     \* the slave: behaviour, the bytes it received
                                             \* in this transfer, how many it gave

driver == <<pc, op, len, size, polls, ret, buffer, ops>>
chip == <<con, ena, tx, rx, active, stopdet, abrt>>
bus == <<slave, stored, given>>
vars == <<driver, chip, bus>>

Init ==
    /\ pc = "init_disable" /\ op = "none" /\ len = 0 /\ size = 0 /\ polls = 0 /\ ret = 0
    /\ buffer = <<>> /\ ops = 0
    /\ con = "unset" /\ ena \in BOOLEAN
    /\ tx = <<>> /\ rx = <<>> /\ active = FALSE /\ stopdet \in BOOLEAN /\ abrt = FALSE
    /\ slave = "acks" /\ stored = <<>> /\ given = 0

At(p) == pc = p
Goto(p) == pc' = p /\ polls' = 0

-----------------------------------------------------------------------------
\* The register address of an operation and the bytes of a write, by position.
Addr == 0
Data(j) == 10 + j
Cmd(kind, data, stop) == [kind |-> kind, data |-> data, stop |-> stop]

\* A write to IC_CMD_DATA; a full FIFO ignores it, and so does one that TX_ABRT keeps empty.
Push(cmd) == tx' = (IF Len(tx) < Depth /\ ~abrt THEN Append(tx, cmd) ELSE tx)
             /\ UNCHANGED <<con, ena, rx, active, stopdet, abrt, bus>>

\* A write of IC_ENABLE; an idle controller that is disabled forgets its FIFOs and TX_ABRT.
WriteEnable(e) ==
    /\ ena' = e
    /\ IF ~e /\ ~active THEN tx' = <<>> /\ rx' = <<>> /\ abrt' = FALSE
                         ELSE UNCHANGED <<tx, rx, abrt>>
    /\ UNCHANGED <<con, active, stopdet, bus>>

\* i2c_enable() between the steps p and q, w its polling loop: write, then poll
\* IC_ENABLE_STATUS; after TryLimit retries go on regardless.
SetEnable(p, w, e, q) ==
    \/ At(p) /\ pc' = w /\ WriteEnable(e)
       /\ UNCHANGED <<op, len, size, polls, ret, buffer, ops>>
    \/ /\ At(w)
       /\ IF (ena \/ active) = e \/ polls = TryLimit
          THEN Goto(q) ELSE pc' = p /\ polls' = polls + 1
       /\ UNCHANGED <<op, len, size, ret, buffer, ops, chip, bus>>

\* IC_CON cannot be written while the controller is enabled.
WriteCon(c) == con' = (IF ena THEN con ELSE c) /\ UNCHANGED <<ena, tx, rx, active, stopdet, abrt, bus>>

\* i2c_init(), with i2c_set_bus_speed()
InitDisable == SetEnable("init_disable", "init_disable_wait", FALSE, "init_con")
InitCon == At("init_con") /\ Goto("init_disable2") /\ WriteCon("master")
           /\ UNCHANGED <<op, len, size, ret, buffer, ops>>
SpeedDisable == SetEnable("init_disable2", "init_disable2_wait", FALSE, "init_speed")
SpeedCon == At("init_speed") /\ Goto("init_enable") /\ WriteCon("master_fast")
            /\ UNCHANGED <<op, len, size, ret, buffer, ops>>
InitEnable == SetEnable("init_enable", "init_enable_wait", TRUE, "idle")

-----------------------------------------------------------------------------
\* i2c_read() and i2c_write() begin alike: enable, i2c_xfer_init().
Start(o, n, s) ==
    /\ At("idle") /\ ops < MaxOps /\ ops' = ops + 1
    /\ op' = o /\ len' = n /\ size' = n /\ buffer' = <<>>
    /\ slave' = s
    /\ Goto("enable") /\ UNCHANGED <<ret, chip, stored, given>>

Enable == SetEnable("enable", "enable_wait", TRUE, "busy1")

\* i2c_wait_for_bb(): the master FSM is idle and the command FIFO empty, or give up
Idle == ~active /\ tx = <<>>

WaitBusy(p, idle, timeout) ==
    /\ At(p)
    /\ IF Idle THEN Goto(idle) /\ UNCHANGED ret
       ELSE IF polls < BusyLimit THEN polls' = polls + 1 /\ UNCHANGED <<pc, ret>>
       ELSE Goto(timeout) /\ ret' = 1
    /\ UNCHANGED <<op, len, size, buffer, ops, chip, bus>>

BusyBefore == WaitBusy("busy1", "addr_disable", "idle")

\* i2c_setaddress() disables the controller around the write of IC_TAR.
AddressDisable == SetEnable("addr_disable", "addr_disable_wait", FALSE, "addr_enable")

\* Fault: the controller is left disabled.
FaultStaysDisabled == SetEnable("addr_enable", "addr_enable_wait", FALSE, "addr")

AddressEnable == SetEnable("addr_enable", "addr_enable_wait", TRUE, "addr")

PushAddress ==
    /\ At("addr") /\ Goto(IF op = "read" THEN "read_cmd" ELSE "write_data")
    /\ Push(Cmd("W", Addr, FALSE)) /\ UNCHANGED <<op, len, size, ret, buffer, ops>>

\* Fault: size is not loaded again for the second loop.
FaultNotReloaded ==
    /\ At("read_cmd") /\ size > 0
    /\ Push(Cmd("R", 0, size = 1)) /\ size' = size - 1
    /\ Goto(IF size = 1 THEN "stop" ELSE "read_cmd")
    /\ UNCHANGED <<op, len, ret, buffer, ops>>

\* i2c_read(): all read commands, the last with STOP, without a look at the FIFO, ...
PushRead ==
    /\ At("read_cmd") /\ size > 0
    /\ Push(Cmd("R", 0, size = 1))
    /\ IF size = 1 THEN size' = len /\ Goto("read_data") ELSE size' = size - 1 /\ Goto("read_cmd")
    /\ UNCHANGED <<op, len, ret, buffer, ops>>

\* ... then a byte for each RX_FULL, however long it takes
ReadByte ==
    /\ At("read_data") /\ rx # <<>>
    /\ buffer' = Append(buffer, Head(rx)) /\ rx' = Tail(rx)
    /\ size' = size - 1 /\ Goto(IF size = 1 THEN "stop" ELSE "read_data")
    /\ UNCHANGED <<op, len, ret, ops, con, ena, tx, active, stopdet, abrt, bus>>

ReadNotReady == At("read_data") /\ rx = <<>> /\ UNCHANGED vars

\* i2c_write(): a byte whenever the FIFO has room, the last with STOP
WriteByte ==
    /\ At("write_data") /\ size > 0 /\ Len(tx) < Depth
    /\ Push(Cmd("W", Data(len - size), size = 1))
    /\ size' = size - 1 /\ Goto(IF size = 1 THEN "stop" ELSE "write_data")
    /\ UNCHANGED <<op, len, ret, buffer, ops>>

WriteNotReady == At("write_data") /\ Len(tx) = Depth /\ UNCHANGED vars

\* i2c_xfer_finish(): STOP_DET, or its timeout, which is only printed; ...
WaitStop ==
    /\ At("stop")
    /\ IF stopdet THEN stopdet' = FALSE /\ Goto("busy2")
       ELSE /\ IF polls < StopLimit THEN pc' = pc /\ polls' = polls + 1 ELSE Goto("busy2")
            /\ UNCHANGED stopdet
    /\ UNCHANGED <<op, len, size, ret, buffer, ops, con, ena, tx, rx, active, abrt, bus>>

\* Fault: STOP_DET alone is taken for the end of the transfer.
FaultNoBusyWait == At("busy2") /\ Goto("flush") /\ UNCHANGED <<op, len, size, ret, buffer, ops, chip, bus>>

BusyAfter == WaitBusy("busy2", "flush", "disable")

\* ... i2c_flush_rxfifo()
Flush ==
    /\ At("flush") /\ rx' = <<>> /\ ret' = 0 /\ Goto("disable")
    /\ UNCHANGED <<op, len, size, buffer, ops, con, ena, tx, active, stopdet, abrt, bus>>

Disable == SetEnable("disable", "disable_wait", FALSE, "return")

Return == At("return") /\ Goto("idle") /\ UNCHANGED <<op, len, size, ret, buffer, ops, chip, bus>>

-----------------------------------------------------------------------------
(***************************************************************************)
(* The controller and the slave.  A slave that acknowledges stores what is  *)
(* written and answers reads with 100, 101, ...; one that is absent, or     *)
(* refuses data, makes the controller drop its commands, send STOP, and     *)
(* raise TX_ABRT, which the driver never looks at; until the controller is  *)
(* disabled it takes no further command.                                    *)
(***************************************************************************)
\* The address goes out when the first command is there.
BusStart ==
    /\ ena /\ ~active /\ tx # <<>>
    /\ stored' = <<>> /\ given' = 0
    /\ IF slave = "absent"
       THEN tx' = <<>> /\ stopdet' = TRUE /\ abrt' = TRUE /\ UNCHANGED active
       ELSE active' = TRUE /\ UNCHANGED <<tx, stopdet, abrt>>
    /\ UNCHANGED <<con, ena, rx, slave, driver>>

\* Later in the same transfer: a byte of a write, or of a read
BusWrite ==
    /\ ena /\ active /\ tx # <<>> /\ Head(tx).kind = "W"
    /\ IF slave = "refuses" /\ stored # <<>>
       THEN tx' = <<>> /\ active' = FALSE /\ stopdet' = TRUE /\ abrt' = TRUE /\ UNCHANGED stored
       ELSE /\ stored' = Append(stored, Head(tx).data)
            /\ tx' = Tail(tx)
            /\ active' = ~Head(tx).stop /\ stopdet' = (stopdet \/ Head(tx).stop)
            /\ UNCHANGED abrt
    /\ UNCHANGED <<con, ena, rx, slave, given, driver>>

BusRead ==
    /\ ena /\ active /\ tx # <<>> /\ Head(tx).kind = "R"
    /\ given' = given + 1
    /\ rx' = IF Len(rx) < Depth THEN Append(rx, 100 + given) ELSE rx
    /\ tx' = Tail(tx)
    /\ active' = ~Head(tx).stop /\ stopdet' = (stopdet \/ Head(tx).stop)
    /\ UNCHANGED <<con, ena, abrt, slave, stored, driver>>

\* A controller disabled in a transfer ends it and forgets its FIFOs.
BusDisabled ==
    /\ ~ena /\ active
    /\ active' = FALSE /\ tx' = <<>> /\ rx' = <<>> /\ stopdet' = TRUE /\ abrt' = FALSE
    /\ UNCHANGED <<con, ena, bus, driver>>

-----------------------------------------------------------------------------
DriverStep ==
    \/ InitDisable \/ InitCon \/ SpeedDisable \/ SpeedCon \/ InitEnable
    \/ Enable \/ BusyBefore \/ AddressDisable \/ AddressEnable \/ PushAddress
    \/ PushRead \/ ReadByte \/ WriteByte
    \/ WaitStop \/ BusyAfter \/ Flush \/ Disable \/ Return

Waiting == ReadNotReady \/ WriteNotReady

BusStep == BusStart \/ BusWrite \/ BusRead \/ BusDisabled

Begin == \E s \in Slaves : \/ \E n \in ReadLens : Start("read", n, s)
                          \/ \E n \in WriteLens : Start("write", n, s)

\* The test case has made its last call.
Over == At("idle") /\ ops = MaxOps /\ UNCHANGED vars

Next == DriverStep \/ Waiting \/ BusStep \/ Begin \/ Over

\* The hart executes and the controller works through its commands; no call is owed.
Spec == Init /\ [][Next]_vars /\ WF_vars(DriverStep) /\ WF_vars(BusStep)

-----------------------------------------------------------------------------
\* The FIFOs keep their depth, the counters their limits.
TypeOK ==
    /\ Len(tx) <= Depth /\ Len(rx) <= Depth
    /\ size \in 0 .. len /\ ret \in {0, 1} /\ Len(buffer) <= len
    /\ polls \in 0 .. Max({BusyLimit, StopLimit, TryLimit})
    /\ {ena, active, stopdet, abrt} \subseteq BOOLEAN
    /\ con \in {"unset", "master", "master_fast"}
    /\ op \in {"none", "read", "write"} /\ slave \in Slaves \cup {"acks"}

\* i2c.h, i2c_write(): "Return: 0 success, else failed".  When it returns 0, a slave that
\* acknowledges has stored the register address and every byte, in order, in one transfer,
\* whatever timed out on the way and whatever the transfer before left behind.  The 0 says
\* nothing of another slave (TX_ABRT is never read), but at least it got no byte behind one
\* that it refused.
WriteZeroMeansStored ==
    pc = "return" /\ op = "write" /\ ret = 0 =>
        LET ordered == <<Addr>> \o [j \in 1 .. len |-> Data(j - 1)]
        IN  IF slave = "acks" THEN stored = ordered ELSE IsPrefix(stored, ordered)

\* i2c.h of i2c_write(), taken at its word: "Return: 0 successs, else failed".  The code does
\* not keep it: i2c_xfer_finish() takes the STOP_DET that ends a refused transfer for success.
WriteZeroMeansSuccess ==
    pc = "return" /\ op = "write" /\ ret = 0 =>
        stored = <<Addr>> \o [j \in 1 .. len |-> Data(j - 1)]

\* i2c.h, i2c_read(): when it returns 0 the buffer holds the slave's bytes, from the first, in
\* order, and nothing an earlier transfer left in the FIFO or a late STOP_DET let through, also
\* when more was asked for than the FIFO holds commands.
ReadZeroMeansRead ==
    pc = "return" /\ op = "read" /\ ret = 0 =>
        buffer = [j \in 1 .. len |-> 99 + j] /\ stored = <<Addr>>

\* Where i2c_init() and an operation are, counted from their ends
Place ==
    [init_disable |-> 14, init_disable_wait |-> 14, init_con |-> 13, init_disable2 |-> 12,
     init_disable2_wait |-> 12, init_speed |-> 11, init_enable |-> 10, init_enable_wait |-> 10,
     enable |-> 13, enable_wait |-> 13, busy1 |-> 12, addr_disable |-> 11,
     addr_disable_wait |-> 11, addr_enable |-> 10, addr_enable_wait |-> 10, addr |-> 9,
     read_cmd |-> 8, read_data |-> 7, write_data |-> 7, stop |-> 6, busy2 |-> 5, flush |-> 4,
     disable |-> 3, disable_wait |-> 3, return |-> 2, idle |-> 1][pc]

\* What is left of the tries where the driver polls; a try of i2c_enable() has two steps.
Tries ==
    CASE pc \in {"init_disable", "init_disable2", "init_enable", "enable", "addr_disable",
                 "addr_enable", "disable"} -> 2 * (TryLimit - polls) + 1
      [] pc \in {"init_disable_wait", "init_disable2_wait", "init_enable_wait", "enable_wait",
                 "addr_disable_wait", "addr_enable_wait", "disable_wait"} -> 2 * (TryLimit - polls)
      [] pc \in {"busy1", "busy2"} -> BusyLimit - polls
      [] pc = "stop" -> StopLimit - polls
      [] OTHER -> 0

Nearer ==
    \/ Place' < Place
    \/ Place' = Place /\ size' < size
    \/ Place' = Place /\ size' = size /\ Tries' < Tries

\* No loop of the driver goes round for nothing: each of its steps brings the call nearer to
\* its return, by a place, a byte or a try, and there is never less than no byte and no try
\* left.  Only where it waits for a byte or for room in the FIFO may it stay for ever.
CallsAdvance == [][DriverStep => Nearer /\ size' >= 0 /\ Tries' >= 0]_vars

\* i2c_read() and i2c_write() come back to their caller, also from a slave that refuses data;
\* only a read may wait for ever, for an RX_FULL that never comes: of an absent slave, or when
\* its commands did not fit the FIFO.
OperationsReturn ==
    pc = "enable" ~>
        pc = "idle" \/ (op = "read" /\ pc = "read_data" /\ (slave = "absent" \/ len >= Depth))
=============================================================================
