----------------------------- MODULE BusProofs ------------------------------
(***************************************************************************)
(* The bus demos.  i2c_read() and i2c_write() (I2cMaster) return 0 only     *)
(* when the transfer was made, for every depth of the FIFOs, every length   *)
(* and every limit of the polling loops.  The bytes that test_i2c_slave()   *)
(* reads from its own interrupt handler (I2cSlave) count up, for every      *)
(* number of reads.  The bytes that test_spi() sends (SpiDemo) keep their   *)
(* kind, the loop test reads back what it wrote, and the panel shows the    *)
(* four characters in the end, for every depth of the FIFOs.                *)
(***************************************************************************)
EXTENDS MCI2c, SpiDemo, SequenceTheorems, TLAPS

Cmds == [kind : {"W", "R"}, data : Nat, stop : BOOLEAN]

Types ==
    /\ tx \in Seq(Cmds) /\ rx \in Seq(Nat) /\ buffer \in Seq(Nat) /\ stored \in Seq(Nat)
    /\ given \in Nat /\ len \in Nat /\ size \in Nat

\* The byte at each place of a write, and the command that carries it
ByteAt(i) == IF i = 1 THEN Addr ELSE Data(i - 2)
Carries(c, i) == c.kind = "W" /\ c.data = ByteAt(i) /\ (c.stop <=> i = len + 1)
InOrder == \A i \in 1 .. Len(stored) : stored[i] = ByteAt(i)

\* No operation, or the bus is waited for: whatever an earlier transfer left may be there.
Other == pc \in {"init_disable", "init_disable_wait", "init_con", "init_disable2",
                 "init_disable2_wait", "init_speed", "init_enable", "init_enable_wait", "idle"}

Request == op \in {"read", "write"} /\ len > 0 /\ size = len /\ buffer = <<>>

Called == pc \in {"enable", "enable_wait", "busy1"} /\ Request

\* i2c_setaddress(): the bus is idle, and disabling the controller clears what was left.
Setup ==
    /\ pc \in {"addr_disable", "addr_disable_wait", "addr_enable", "addr_enable_wait", "addr"}
    /\ Request /\ ~active /\ tx = <<>>
    /\ pc # "addr_disable" => rx = <<>> /\ ~abrt
    /\ pc \in {"addr_enable_wait", "addr"} => ena

\* A write: what was pushed is in the FIFO, ...
Count == len + 1 - size

WriteFresh ==
    ~active /\ ~abrt /\ Len(tx) = Count /\ \A j \in 1 .. Len(tx) : Carries(tx[j], j)

\* ... or the first part of it was stored, and the rest is in the FIFO, ...
WriteRuns ==
    /\ ~abrt /\ Len(stored) + Len(tx) = Count /\ InOrder
    /\ \A j \in 1 .. Len(tx) : Carries(tx[j], Len(stored) + j)
    /\ ~active => tx = <<>> /\ size = 0

\* ... or the slave is absent or refused a byte.
WriteAborted ==
    slave # "acks" /\ abrt /\ ~active /\ tx = <<>> /\ Len(stored) <= len + 1 /\ InOrder

Writing ==
    /\ pc \in {"write_data", "stop", "busy2", "flush"} /\ op = "write" /\ ena
    /\ len > 0 /\ size <= len /\ (pc = "write_data" <=> size > 0)
    /\ pc = "flush" => ~active /\ tx = <<>>
    /\ WriteFresh \/ WriteRuns \/ WriteAborted

\* A read: the FIFO holds the register address and read commands, ...
AddressFirst(asked) ==
    /\ ~abrt /\ tx # <<>> /\ Len(tx) - 1 <= asked /\ rx = <<>> /\ buffer = <<>>
    /\ tx[1].kind = "W" /\ tx[1].data = Addr /\ ~tx[1].stop
    /\ \A j \in 2 .. Len(tx) : tx[j].kind = "R"
    /\ active => stored = <<>> /\ given = 0

\* ... or read commands only, fewer than were pushed if it was full; as many bytes as the slave
\* gave are in order, unless the other FIFO was full.
ReadRuns(asked) ==
    /\ ~abrt /\ stored = <<Addr>> /\ \A j \in 1 .. Len(tx) : tx[j].kind = "R"
    /\ given + Len(tx) <= asked /\ Len(buffer) + Len(rx) <= given
    /\ Len(buffer) + Len(rx) = given =>
          /\ \A i \in 1 .. Len(buffer) : buffer[i] = 99 + i
          /\ \A j \in 1 .. Len(rx) : rx[j] = 99 + Len(buffer) + j
    /\ ~active => tx = <<>> /\ pc # "read_cmd"

ReadAborted == abrt /\ ~active /\ tx = <<>> /\ rx = <<>> /\ buffer = <<>>

Reading ==
    /\ pc \in {"read_cmd", "read_data", "stop", "busy2", "flush"} /\ op = "read" /\ ena
    /\ len > 0
    /\ pc = "read_cmd" => size > 0 /\ size <= len /\ buffer = <<>>
    /\ pc = "read_data" => size > 0 /\ Len(buffer) = len - size
    /\ pc \in {"stop", "busy2", "flush"} => Len(buffer) = len
    /\ pc = "flush" => ~active /\ tx = <<>>
    /\ \A j \in 1 .. Len(tx) : tx[j].stop => j = Len(tx) /\ pc # "read_cmd"
    /\ LET asked == IF pc = "read_cmd" THEN len - size ELSE len
       IN  AddressFirst(asked) \/ ReadRuns(asked) \/ ReadAborted

\* What 0 means; nothing is left to change it.
Transferred ==
    /\ ~active /\ tx = <<>>
    /\ op = "write" => /\ InOrder /\ Len(stored) <= len + 1
                       /\ slave = "acks" => Len(stored) = len + 1
    /\ op = "read" => /\ Len(buffer) = len /\ stored = <<Addr>>
                      /\ \A i \in 1 .. len : buffer[i] = 99 + i

Ended == pc \in {"disable", "disable_wait", "return"} /\ (ret = 0 => Transferred)

MInv == Types /\ (Other \/ Called \/ Setup \/ Writing \/ Reading \/ Ended)

-----------------------------------------------------------------------------
\* The first element of a queue, and the others moved up
LEMMA Queue ==
    ASSUME NEW S, NEW s \in Seq(S), s # <<>>
    PROVE  /\ Len(s) \in Nat /\ Len(s) > 0 /\ Head(s) = s[1] /\ Head(s) \in S
           /\ Tail(s) \in Seq(S) /\ Len(Tail(s)) = Len(s) - 1
           /\ \A i \in 1 .. (Len(s) - 1) : Tail(s)[i] = s[i + 1]
<1>1. Len(s) \in Nat /\ Len(s) > 0 /\ Head(s) = s[1]
  BY EmptySeq, LenProperties
<1> QED  BY <1>1, HeadTailProperties

\* What a write to IC_CMD_DATA does to the FIFO
LEMMA Pushed ==
    ASSUME Types, NEW c \in Cmds, Push(c)
    PROVE  /\ tx' \in Seq(Cmds) /\ Len(tx) \in Nat /\ Len(tx') \in Nat
           /\ UNCHANGED <<ena, rx, active, abrt, slave, stored, given>>
           /\ \/ tx' = tx /\ (Len(tx) < Depth => abrt)
              \/ /\ ~abrt /\ Len(tx') = Len(tx) + 1 /\ tx' # <<>>
                 /\ \A j \in 1 .. Len(tx) : tx'[j] = tx[j]
                 /\ tx'[Len(tx) + 1] = c
<1>1. tx \in Seq(Cmds) /\ Len(tx) \in Nat
  BY LenProperties DEF Types
<1>2. CASE Len(tx) < Depth /\ ~abrt
  <2>1. tx' = Append(tx, c)
    BY <1>2 DEF Push
  <2> QED  BY <1>1, <1>2, <2>1, AppendProperties DEF Push, bus
<1>3. CASE ~(Len(tx) < Depth /\ ~abrt)
  <2>1. tx' = tx
    BY <1>3 DEF Push
  <2> QED  BY <1>1, <1>3, <2>1 DEF Push, bus
<1> QED  BY <1>2, <1>3

\* The commands of the driver
LEMMA Commands ==
    ASSUME NEW d \in Nat
    PROVE  /\ Cmd("W", d, FALSE) \in Cmds
           /\ Cmd("W", d, size = 1) \in Cmds
           /\ Cmd("R", 0, size = 1) \in Cmds
BY Zenon DEF Cmd, Cmds

\* The FIFOs hold commands and bytes.
LEMMA TypesKept ==
    ASSUME MInv, [Next]_vars
    PROVE  Types'
<1> USE DEF Types, Goto, At
<1> Types
  BY DEF MInv
<1>1. CASE InitDisable \/ InitCon \/ SpeedDisable \/ SpeedCon \/ InitEnable \/ Enable
          \/ BusyBefore \/ AddressDisable \/ AddressEnable \/ WaitStop \/ BusyAfter \/ Disable
          \/ Return
  <2>1. UNCHANGED <<buffer, stored, given, len, size>>
    BY <1>1 DEF InitDisable, InitCon, SpeedDisable, SpeedCon, InitEnable, Enable, BusyBefore,
                AddressDisable, AddressEnable, WaitStop, BusyAfter, Disable, Return, SetEnable,
                WriteCon, WriteEnable, WaitBusy, bus, chip
  <2>2. tx' \in {tx, <<>>} /\ rx' \in {rx, <<>>}
    BY <1>1 DEF InitDisable, InitCon, SpeedDisable, SpeedCon, InitEnable, Enable, BusyBefore,
                AddressDisable, AddressEnable, WaitStop, BusyAfter, Disable, Return, SetEnable,
                WriteCon, WriteEnable, WaitBusy, bus, chip
  <2> QED  BY <2>1, <2>2, EmptySeq
<1>2. CASE PushAddress
  <2>1. Push(Cmd("W", Addr, FALSE)) /\ UNCHANGED <<buffer, len, size>>
    BY <1>2 DEF PushAddress
  <2> QED  BY <2>1, Pushed, Commands DEF Addr
<1>3. CASE PushRead
  <2>1. Push(Cmd("R", 0, size = 1)) /\ UNCHANGED <<buffer, len>> /\ size' \in Nat
    BY <1>3 DEF PushRead
  <2> QED  BY <2>1, Pushed, Commands
<1>4. CASE WriteByte
  <2>1. Push(Cmd("W", Data(len - size), size = 1)) /\ UNCHANGED <<buffer, len>> /\ size' \in Nat
    BY <1>4 DEF WriteByte
  <2>2. Writing
    BY <1>4 DEF WriteByte, MInv, Other, Called, Setup, Reading, Ended
  <2>3. Data(len - size) \in Nat
    BY <2>2 DEF Writing, Data
  <2> QED  BY <2>1, <2>3, Pushed, Commands
<1>5. CASE ReadByte
  <2>1. buffer' = Append(buffer, Head(rx)) /\ rx' = Tail(rx) /\ rx # <<>> /\ size' = size - 1
        /\ UNCHANGED <<tx, stored, given, len>>
    BY <1>5 DEF ReadByte, bus
  <2>2. size > 0
    BY <1>5 DEF ReadByte, MInv, Other, Called, Setup, Writing, Reading, Ended
  <2> QED  BY <2>1, <2>2, Queue, AppendProperties
<1>6. CASE Flush
  BY <1>6, EmptySeq DEF Flush, bus
<1>7. CASE Begin
  <2>1. \E n \in ReadLens \cup WriteLens : len' = n /\ size' = n
    BY <1>7 DEF Begin, Start
  <2> QED  BY <1>7, <2>1, I2cAssumption, EmptySeq DEF Begin, Start, chip
<1>8. CASE BusStep
  <2>1. CASE BusStart
    BY <2>1, EmptySeq DEF BusStart, driver
  <2>2. CASE BusWrite
    <3>1. /\ Head(tx) \in Cmds /\ Tail(tx) \in Seq(Cmds) /\ tx' \in {<<>>, Tail(tx)}
          /\ UNCHANGED <<rx, buffer, given, len, size>>
          /\ stored' = stored \/ stored' = Append(stored, Head(tx).data)
      BY <2>2, Queue DEF BusWrite, driver
    <3>2. Head(tx).data \in Nat
      BY <3>1 DEF Cmds
    <3>3. Append(stored, Head(tx).data) \in Seq(Nat)
      BY <3>2, AppendProperties
    <3>4. tx' \in Seq(Cmds)
      BY <3>1, EmptySeq
    <3> QED  BY <3>1, <3>3, <3>4
  <2>3. CASE BusRead
    <3>1. /\ tx' = Tail(tx) /\ Tail(tx) \in Seq(Cmds) /\ given' = given + 1
          /\ UNCHANGED <<buffer, stored, len, size>>
          /\ rx' = rx \/ rx' = Append(rx, 100 + given)
      BY <2>3, Queue DEF BusRead, driver
    <3>2. 100 + given \in Nat /\ given' \in Nat
      BY <3>1
    <3>3. Append(rx, 100 + given) \in Seq(Nat)
      BY <3>2, AppendProperties
    <3> QED  BY <3>1, <3>2, <3>3
  <2>4. CASE BusDisabled
    BY <2>4, EmptySeq DEF BusDisabled, bus, driver
  <2> QED  BY <1>8, <2>1, <2>2, <2>3, <2>4 DEF BusStep
<1>9. CASE Waiting \/ Over \/ UNCHANGED vars
  BY <1>9 DEF Waiting, ReadNotReady, WriteNotReady, Over, vars, driver, chip, bus
<1> QED  BY <1>1, <1>2, <1>3, <1>4, <1>5, <1>6, <1>7, <1>8, <1>9 DEF Next, DriverStep

-----------------------------------------------------------------------------
\* i2c_init() and the way of an operation to its first command: the bus is idle from the end of
\* i2c_wait_for_bb() on, and i2c_setaddress() clears what a transfer before left.
LEMMA SetupKept ==
    ASSUME MInv, Types',
           \/ InitDisable \/ InitCon \/ SpeedDisable \/ SpeedCon \/ InitEnable \/ Begin
           \/ Enable \/ BusyBefore \/ AddressDisable \/ AddressEnable
    PROVE  MInv'
<1> USE DEF At, Goto
<1>1. CASE InitDisable \/ InitCon \/ SpeedDisable \/ SpeedCon \/ InitEnable
  <2>1. Other'
    BY <1>1 DEF InitDisable, InitCon, SpeedDisable, SpeedCon, InitEnable, SetEnable, Other
  <2> QED  BY <2>1 DEF MInv
<1>2. CASE Begin
  <2>1. /\ pc' = "enable" /\ op' \in {"read", "write"} /\ size' = len' /\ buffer' = <<>>
        /\ len' \in Nat \ {0}
    BY <1>2, I2cAssumption DEF Begin, Start
  <2>2. Called'
    BY <2>1 DEF Called, Request
  <2> QED  BY <2>2 DEF MInv
<1>3. CASE Enable
  <2>1. Called
    BY <1>3 DEF Enable, SetEnable, MInv, Other, Setup, Writing, Reading, Ended
  <2>2. pc' \in {"enable", "enable_wait", "busy1"} /\ UNCHANGED <<op, len, size, buffer>>
    BY <1>3 DEF Enable, SetEnable
  <2>3. Called'
    BY <2>1, <2>2 DEF Called, Request
  <2> QED  BY <2>3 DEF MInv
<1>4. CASE BusyBefore
  <2>1. Called /\ UNCHANGED <<op, len, size, buffer, chip>>
    BY <1>4 DEF BusyBefore, WaitBusy, MInv, Other, Setup, Writing, Reading, Ended
  <2>2. pc' = "idle" \/ pc' = "busy1" \/ (pc' = "addr_disable" /\ ~active /\ tx = <<>>)
    BY <1>4 DEF BusyBefore, WaitBusy, Idle
  <2>3. Other' \/ Called' \/ Setup'
    BY <2>1, <2>2 DEF Other, Called, Setup, Request, chip
  <2> QED  BY <2>3 DEF MInv
<1>5. CASE AddressDisable
  <2>1. Setup /\ pc \in {"addr_disable", "addr_disable_wait"}
    BY <1>5 DEF AddressDisable, SetEnable, MInv, Other, Called, Writing, Reading, Ended
  <2>2. UNCHANGED <<op, len, size, buffer, active>>
    BY <1>5 DEF AddressDisable, SetEnable, WriteEnable, chip
  <2>3. \/ pc' = "addr_disable_wait" /\ tx' = <<>> /\ rx' = <<>> /\ ~abrt'
        \/ pc' \in {"addr_disable", "addr_enable"} /\ pc = "addr_disable_wait"
           /\ UNCHANGED <<tx, rx, abrt>>
    BY <1>5, <2>1 DEF AddressDisable, SetEnable, WriteEnable, Setup, chip
  <2>4. Setup'
    BY <2>1, <2>2, <2>3 DEF Setup, Request
  <2> QED  BY <2>4 DEF MInv
<1>6. CASE AddressEnable
  <2>1. Setup /\ pc \in {"addr_enable", "addr_enable_wait"}
    BY <1>6 DEF AddressEnable, SetEnable, MInv, Other, Called, Writing, Reading, Ended
  <2>2. UNCHANGED <<op, len, size, buffer, active, tx, rx, abrt>>
    BY <1>6 DEF AddressEnable, SetEnable, WriteEnable, chip
  <2>3. \/ pc' = "addr_enable_wait" /\ ena'
        \/ pc' \in {"addr_enable", "addr"} /\ pc = "addr_enable_wait" /\ ena' = ena
    BY <1>6, <2>1 DEF AddressEnable, SetEnable, WriteEnable, chip
  <2>4. Setup'
    BY <2>1, <2>2, <2>3 DEF Setup, Request
  <2> QED  BY <2>4 DEF MInv
<1> QED  BY <1>1, <1>2, <1>3, <1>4, <1>5, <1>6

\* The register address goes into an empty FIFO.
LEMMA AddressKept ==
    ASSUME MInv, Types', PushAddress
    PROVE  MInv'
<1>1. Setup /\ pc = "addr" /\ Types
  BY DEF PushAddress, At, MInv, Other, Called, Writing, Reading, Ended
<1>2. Len(tx) = 0 /\ Depth > 0
  BY <1>1, EmptySeq, I2cAssumption DEF Setup
<1> DEFINE c == Cmd("W", Addr, FALSE)
<1>3. /\ Len(tx') = 1 /\ tx'[1] = c /\ tx' # <<>>
      /\ UNCHANGED <<ena, rx, active, abrt, slave, stored, given, op, len, size, buffer>>
  <2>1. c \in Cmds /\ Push(c) /\ UNCHANGED <<op, len, size, buffer>>
    BY Commands DEF PushAddress, Addr
  <2> HIDE DEF c
  <2>2. /\ UNCHANGED <<ena, rx, active, abrt, slave, stored, given>>
        /\ \/ Len(tx) < Depth => abrt
           \/ Len(tx') = Len(tx) + 1 /\ tx' # <<>> /\ tx'[Len(tx) + 1] = c
    BY <1>1, <2>1, Pushed
  <2>3. ~abrt
    BY <1>1 DEF Setup
  <2> QED  BY <1>2, <2>1, <2>2, <2>3
<1>4. c.kind = "W" /\ c.data = Addr /\ c.stop = FALSE
  BY DEF Cmd
<1> HIDE DEF c
<1>5. CASE op = "write"
  <2>1. pc' = "write_data"
    BY <1>5 DEF PushAddress, Goto
  <2>2. WriteFresh'
    BY <1>1, <1>3, <1>4 DEF Setup, Request, WriteFresh, Count, Carries, ByteAt, Types
  <2>3. Writing'
    BY <1>1, <1>3, <1>5, <2>1, <2>2 DEF Writing, Setup, Request, Types
  <2> QED  BY <2>3 DEF MInv
<1>6. CASE op = "read"
  <2>1. pc' = "read_cmd"
    BY <1>6 DEF PushAddress, Goto
  <2>2. AddressFirst(len - size)'
    BY <1>1, <1>3, <1>4 DEF Setup, Request, AddressFirst, Types
  <2>3. Reading'
    BY <1>1, <1>3, <1>4, <1>6, <2>1, <2>2 DEF Reading, Setup, Request, Types
  <2> QED  BY <2>3 DEF MInv
<1> QED  BY <1>1, <1>5, <1>6 DEF Setup, Request

\* i2c_write(): a byte is pushed when there is room; after an abort it is ignored.
LEMMA WriteByteKept ==
    ASSUME MInv, Types', WriteByte
    PROVE  MInv'
<1>1. Writing /\ pc = "write_data" /\ Types
  BY DEF WriteByte, At, MInv, Other, Called, Setup, Reading, Ended
<1> DEFINE c == Cmd("W", Data(len - size), size = 1)
<1>2. /\ Count \in Nat /\ Count > 0 /\ size \in Nat /\ len \in Nat /\ size > 0 /\ size <= len
      /\ len - size \in Nat /\ len - size = Count - 1 /\ (size = 1 <=> Count = len)
      /\ Len(stored) \in Nat
  BY <1>1, LenProperties DEF Writing, Types, Count
<1>3. /\ size' = size - 1 /\ Count' = Count + 1 /\ UNCHANGED <<op, len>>
      /\ pc' \in {"write_data", "stop"} /\ (pc' = "write_data" <=> size' > 0)
  BY <1>1, <1>2 DEF WriteByte, Goto, Count
<1>4. Carries(c, Count + 1)
  <2>1. c.kind = "W" /\ c.data = Data(len - size) /\ (c.stop <=> size = 1)
    BY DEF Cmd
  <2>2. ByteAt(Count + 1) = Data(len - size)
    BY <1>2 DEF ByteAt
  <2> HIDE DEF c
  <2> QED  BY <1>2, <2>1, <2>2 DEF Carries
<1>5. c \in Cmds /\ Push(c) /\ Len(tx) < Depth
  <2>1. Data(len - size) \in Nat
    BY <1>2 DEF Data
  <2> QED  BY <2>1, Commands DEF WriteByte
<1> HIDE DEF c
<1>6. /\ UNCHANGED <<ena, rx, active, abrt, slave, stored, given>>
      /\ Len(tx) \in Nat /\ Len(tx') \in Nat
      /\ \/ tx' = tx /\ abrt
         \/ /\ ~abrt /\ Len(tx') = Len(tx) + 1
            /\ \A j \in 1 .. Len(tx) : tx'[j] = tx[j]
            /\ tx'[Len(tx) + 1] = c
  BY <1>1, <1>5, Pushed
<1>7. InOrder' <=> InOrder
  BY <1>6 DEF InOrder, ByteAt, Addr, Data
<1>8. (WriteFresh \/ WriteRuns \/ WriteAborted)'
  <2>1. CASE WriteAborted
    BY <1>3, <1>6, <1>7, <2>1 DEF WriteAborted
  <2>2. CASE WriteFresh \/ WriteRuns
    <3>1. /\ ~abrt /\ Len(tx') = Len(tx) + 1
          /\ \A j \in 1 .. Len(tx) : tx'[j] = tx[j]
          /\ tx'[Len(tx) + 1] = c
      BY <1>6, <2>2 DEF WriteFresh, WriteRuns
    <3>2. CASE WriteFresh
      <4>1. ASSUME NEW j \in 1 .. Len(tx') PROVE Carries(tx'[j], j)
        <5>1. j \in 1 .. Len(tx) \/ j = Len(tx) + 1
          BY <1>6, <3>1
        <5> QED  BY <1>4, <3>1, <3>2, <5>1 DEF WriteFresh
      <4>2. (\A j \in 1 .. Len(tx) : Carries(tx[j], j))'
        BY <1>3, <4>1 DEF Carries, ByteAt, Addr, Data
      <4> QED  BY <1>3, <1>6, <3>1, <3>2, <4>2 DEF WriteFresh
    <3>3. CASE WriteRuns
      <4>1. active
        BY <1>2, <3>3 DEF WriteRuns
      <4>2. ASSUME NEW j \in 1 .. Len(tx') PROVE Carries(tx'[j], Len(stored) + j)
        <5>1. j \in 1 .. Len(tx) \/ (j = Len(tx) + 1 /\ Len(stored) + j = Count + 1)
          BY <1>2, <1>6, <3>1, <3>3 DEF WriteRuns
        <5> QED  BY <1>4, <3>1, <3>3, <5>1 DEF WriteRuns
      <4>3. (\A j \in 1 .. Len(tx) : Carries(tx[j], Len(stored) + j))'
        BY <1>3, <1>6, <4>2 DEF Carries, ByteAt, Addr, Data
      <4>4. Len(stored') + Len(tx') = Count'
        BY <1>2, <1>3, <1>6, <3>1, <3>3 DEF WriteRuns
      <4> QED  BY <1>6, <1>7, <3>1, <3>3, <4>1, <4>3, <4>4 DEF WriteRuns
    <3> QED  BY <2>2, <3>2, <3>3
  <2> QED  BY <1>1, <2>1, <2>2 DEF Writing
<1>9. Writing'
  BY <1>1, <1>2, <1>3, <1>6, <1>8 DEF Writing
<1> QED  BY <1>9 DEF MInv

\* i2c_read(): a read command is pushed, or lost when the FIFO is full.
LEMMA PushReadKept ==
    ASSUME MInv, Types', PushRead
    PROVE  MInv'
<1>1. Reading /\ pc = "read_cmd" /\ Types
  BY DEF PushRead, At, MInv, Other, Called, Setup, Writing, Ended
<1>2. /\ size \in Nat /\ len \in Nat /\ size > 0 /\ size <= len /\ buffer = <<>> /\ buffer' = <<>>
      /\ UNCHANGED <<op, len>> /\ op = "read" /\ len > 0 /\ Len(buffer) = 0
  BY <1>1, EmptySeq DEF Reading, Types, PushRead
<1> DEFINE c == Cmd("R", 0, size = 1)
           asked == IF pc = "read_cmd" THEN len - size ELSE len
<1>3. \/ size = 1 /\ pc' = "read_data" /\ size' = len
      \/ size > 1 /\ pc' = "read_cmd" /\ size' = size - 1
  BY <1>2 DEF PushRead, Goto
<1>4. asked \in Nat /\ asked' = asked + 1
  BY <1>1, <1>2, <1>3
<1>5. c \in Cmds /\ Push(c) /\ c.kind = "R" /\ (c.stop <=> size = 1)
  BY Commands DEF PushRead, Cmd
<1> HIDE DEF c
<1>6. /\ UNCHANGED <<ena, rx, active, abrt, slave, stored, given>>
      /\ Len(tx) \in Nat /\ Len(tx') \in Nat
      /\ \/ tx' = tx
         \/ /\ ~abrt /\ Len(tx') = Len(tx) + 1 /\ tx' # <<>>
            /\ \A j \in 1 .. Len(tx) : tx'[j] = tx[j]
            /\ tx'[Len(tx) + 1] = c
  BY <1>1, <1>5, Pushed
<1>7. \A j \in 1 .. Len(tx') : tx'[j].stop => j = Len(tx') /\ pc' # "read_cmd"
  BY <1>1, <1>3, <1>5, <1>6 DEF Reading
<1>8. AddressFirst(asked)' \/ ReadRuns(asked)' \/ ReadAborted'
  <2>1. CASE AddressFirst(asked)
    <3>1. Len(tx) > 0
      BY <1>1, <2>1, EmptySeq DEF AddressFirst, Types
    <3>2. tx'[1] = tx[1] /\ tx' # <<>> /\ \A j \in 2 .. Len(tx') : tx'[j].kind = "R"
      BY <1>5, <1>6, <2>1, <3>1 DEF AddressFirst
    <3> QED  BY <1>2, <1>4, <1>6, <2>1, <3>2 DEF AddressFirst
  <2>2. CASE ReadRuns(asked)
    <3>1. active /\ given \in Nat
      BY <1>1, <2>2 DEF ReadRuns, Types
    <3>2. \A j \in 1 .. Len(tx') : tx'[j].kind = "R"
      BY <1>5, <1>6, <2>2 DEF ReadRuns
    <3>3. given + Len(tx') <= asked'
      BY <1>4, <1>6, <2>2, <3>1 DEF ReadRuns
    <3> QED  BY <1>2, <1>6, <2>2, <3>1, <3>2, <3>3 DEF ReadRuns
  <2>3. CASE ReadAborted
    BY <1>2, <1>6, <2>3 DEF ReadAborted
  <2> QED  BY <1>1, <2>1, <2>2, <2>3 DEF Reading
<1>9. Reading'
  BY <1>1, <1>2, <1>3, <1>6, <1>7, <1>8 DEF Reading
<1> QED  BY <1>9 DEF MInv

\* i2c_read(): a byte is taken from the receive FIFO.
LEMMA ReadByteKept ==
    ASSUME MInv, Types', ReadByte
    PROVE  MInv'
<1>1. Reading /\ pc = "read_data" /\ Types
  BY DEF ReadByte, At, MInv, Other, Called, Setup, Writing, Ended
<1>2. /\ rx # <<>> /\ buffer' = Append(buffer, Head(rx)) /\ rx' = Tail(rx) /\ size' = size - 1
      /\ UNCHANGED <<op, len, ena, tx, active, abrt, stored, given>>
      /\ pc' = (IF size = 1 THEN "stop" ELSE "read_data")
  BY DEF ReadByte, Goto, bus
<1>3. /\ Len(rx) \in Nat /\ Len(rx) > 0 /\ Len(rx') = Len(rx) - 1 /\ Head(rx) = rx[1]
      /\ rx[1] \in Nat /\ \A j \in 1 .. (Len(rx) - 1) : rx'[j] = rx[j + 1]
  BY <1>1, <1>2, Queue DEF Types
<1>4. /\ Len(buffer) \in Nat /\ Len(buffer') = Len(buffer) + 1
      /\ buffer'[Len(buffer) + 1] = rx[1]
      /\ \A i \in 1 .. Len(buffer) : buffer'[i] = buffer[i]
  BY <1>1, <1>2, <1>3, AppendProperties, LenProperties DEF Types
<1>5. size \in Nat /\ size > 0 /\ len \in Nat /\ len > 0 /\ Len(buffer) = len - size /\ given \in Nat
      /\ op = "read" /\ ena
  BY <1>1 DEF Reading, Types
<1>6. ReadRuns(len)
  BY <1>1, <1>2 DEF Reading, AddressFirst, ReadAborted
<1>7. ReadRuns(len)'
  <2>1. Len(buffer') + Len(rx') = Len(buffer) + Len(rx)
    BY <1>3, <1>4
  <2>2. ASSUME Len(buffer) + Len(rx) = given
        PROVE  /\ \A i \in 1 .. Len(buffer') : buffer'[i] = 99 + i
               /\ \A j \in 1 .. Len(rx') : rx'[j] = 99 + Len(buffer') + j
    <3>1. /\ \A i \in 1 .. Len(buffer) : buffer[i] = 99 + i
          /\ \A j \in 1 .. Len(rx) : rx[j] = 99 + Len(buffer) + j
      BY <1>6, <2>2 DEF ReadRuns
    <3>2. rx[1] = 99 + Len(buffer) + 1
      BY <1>3, <3>1
    <3>3. ASSUME NEW i \in 1 .. Len(buffer') PROVE buffer'[i] = 99 + i
      <4>1. i \in 1 .. Len(buffer) \/ i = Len(buffer) + 1
        BY <1>4
      <4> QED  BY <1>4, <3>1, <3>2, <4>1
    <3>4. ASSUME NEW j \in 1 .. Len(rx') PROVE rx'[j] = 99 + Len(buffer') + j
      <4>1. j \in 1 .. (Len(rx) - 1) /\ j + 1 \in 1 .. Len(rx)
        BY <1>3
      <4> QED  BY <1>3, <1>4, <3>1, <4>1
    <3> QED  BY <3>3, <3>4
  <2>3. pc' # "read_cmd"
    BY <1>2
  <2> QED  BY <1>2, <1>6, <2>1, <2>2, <2>3 DEF ReadRuns
<1>8. \A j \in 1 .. Len(tx') : tx'[j].stop => j = Len(tx') /\ pc' # "read_cmd"
  BY <1>1, <1>2 DEF Reading
<1>9. Reading'
  BY <1>2, <1>4, <1>5, <1>7, <1>8 DEF Reading
<1> QED  BY <1>9 DEF MInv

\* i2c_xfer_finish() reports no error only of an idle bus, and by then all that was pushed has
\* been sent.
LEMMA FinishKept ==
    ASSUME MInv, Types', WaitStop \/ BusyAfter \/ Flush \/ Disable \/ Return
    PROVE  MInv'
<1> USE DEF At, Goto
<1>1. CASE WaitStop \/ BusyAfter
  <2>1. pc \in {"stop", "busy2"} /\ UNCHANGED <<op, len, size, buffer, ena, tx, rx, active, abrt, bus>>
    BY <1>1 DEF WaitStop, BusyAfter, WaitBusy, chip
  <2>2. \/ pc' \in {"stop", "busy2"}
        \/ pc' = "flush" /\ ~active /\ tx = <<>>
        \/ pc' = "disable" /\ ret' = 1
    BY <1>1 DEF WaitStop, BusyAfter, WaitBusy, Idle
  <2>3. CASE pc' = "disable"
    BY <2>2, <2>3 DEF Ended, MInv
  <2>4. CASE pc' # "disable"
    <3>1. Writing \/ Reading
      BY <2>1 DEF MInv, Other, Called, Setup, Ended
    <3>2. CASE Writing
      <4>1. (WriteFresh <=> WriteFresh') /\ (WriteRuns <=> WriteRuns') /\ (WriteAborted <=> WriteAborted')
        BY <2>1 DEF WriteFresh, WriteRuns, WriteAborted, Count, Carries, InOrder, ByteAt, Addr,
                    Data, bus
      <4>2. Writing'
        BY <2>1, <2>2, <2>4, <3>2, <4>1 DEF Writing
      <4> QED  BY <4>2 DEF MInv
    <3>3. CASE Reading
      <4>1. /\ AddressFirst(len) <=> AddressFirst(len)'
            /\ ReadRuns(len) <=> ReadRuns(len)'
            /\ ReadAborted <=> ReadAborted'
        BY <2>1, <2>2 DEF AddressFirst, ReadRuns, ReadAborted, bus
      <4>2. Reading'
        BY <2>1, <2>2, <2>4, <3>3, <4>1 DEF Reading
      <4> QED  BY <4>2 DEF MInv
    <3> QED  BY <3>1, <3>2, <3>3
  <2> QED  BY <2>3, <2>4
<1>2. CASE Flush
  <2>1. pc = "flush" /\ pc' = "disable" /\ UNCHANGED <<op, len, size, buffer, tx, active, bus>>
    BY <1>2 DEF Flush
  <2>2. Types /\ (Writing \/ Reading)
    BY <2>1 DEF MInv, Other, Called, Setup, Ended
  <2>3. ~active /\ tx = <<>> /\ Len(tx) = 0
    BY <2>1, <2>2, EmptySeq DEF Writing, Reading
  <2>4. CASE Writing
    <3>1. ~WriteFresh /\ (WriteRuns => size = 0)
      BY <2>2, <2>3, <2>4 DEF Writing, WriteFresh, WriteRuns, Count, Types
    <3>2. InOrder /\ Len(stored) <= len + 1 /\ (slave = "acks" => Len(stored) = len + 1)
      <4>1. CASE WriteAborted
        BY <4>1 DEF WriteAborted
      <4>2. CASE WriteRuns
        <5>1. Len(stored) \in Nat /\ Len(stored) + 0 = len + 1 - 0 /\ len \in Nat
          BY <2>2, <2>3, <3>1, <4>2, LenProperties DEF WriteRuns, Count, Types
        <5> QED  BY <4>2, <5>1 DEF WriteRuns
      <4> QED  BY <2>4, <3>1, <4>1, <4>2 DEF Writing
    <3>3. Transferred'
      BY <2>1, <2>3, <2>4, <3>2 DEF Transferred, Writing, InOrder, ByteAt, Addr, Data, bus
    <3> QED  BY <2>1, <3>3 DEF Ended, MInv
  <2>5. CASE Reading
    <3>1. Len(buffer) = len /\ len > 0 /\ len \in Nat /\ Len(rx) \in Nat /\ given \in Nat
      BY <2>1, <2>2, <2>5, LenProperties DEF Reading, Types
    <3>2. ReadRuns(len)
      BY <2>1, <2>5, <3>1, EmptySeq DEF Reading, AddressFirst, ReadAborted
    <3>3. Len(buffer) + Len(rx) = given
      BY <2>3, <3>1, <3>2 DEF ReadRuns
    <3>4. Transferred'
      BY <2>1, <2>3, <2>5, <3>1, <3>2, <3>3 DEF Transferred, Reading, ReadRuns, bus
    <3> QED  BY <2>1, <3>4 DEF Ended, MInv
  <2> QED  BY <2>2, <2>4, <2>5
<1>3. CASE Disable
  <2>1. Ended /\ pc' \in {"disable", "disable_wait", "return"}
    BY <1>3 DEF Disable, SetEnable, MInv, Other, Called, Setup, Writing, Reading
  <2>2. /\ UNCHANGED <<op, len, ret, buffer, active, stored, slave>>
        /\ tx = <<>> => tx' = <<>>
    BY <1>3 DEF Disable, SetEnable, WriteEnable, chip, bus
  <2>3. Ended'
    BY <2>1, <2>2 DEF Ended, Transferred, InOrder, ByteAt, Addr, Data
  <2> QED  BY <2>3 DEF MInv
<1>4. CASE Return
  BY <1>4 DEF Return, Other, MInv
<1> QED  BY <1>1, <1>2, <1>3, <1>4

-----------------------------------------------------------------------------
\* Where the program is is no matter of the bus, and between transfers nor is what is there.
LEMMA BusElsewhere ==
    ASSUME MInv, Types', BusStep, ~Writing, ~Reading
    PROVE  MInv'
<1>1. UNCHANGED <<pc, op, len, size, ret, buffer>>
  BY DEF BusStep, BusStart, BusWrite, BusRead, BusDisabled, driver
<1>2. active \/ tx # <<>>
  BY DEF BusStep, BusStart, BusWrite, BusRead, BusDisabled
<1>3. CASE Other \/ Called
  BY <1>1, <1>3 DEF Other, Called, Request, MInv
<1>4. ~Setup
  BY <1>2 DEF Setup
<1>5. CASE Ended
  BY <1>1, <1>2, <1>5 DEF Ended, Transferred, MInv
<1> QED  BY <1>3, <1>4, <1>5 DEF MInv

\* The bus in a write: the first command starts a transfer, each stores its byte, the last ends
\* the transfer; a slave that is absent or refuses a byte ends it before.
LEMMA BusInWrite ==
    ASSUME MInv, Types', BusStep, Writing
    PROVE  MInv'
<1>1. /\ UNCHANGED <<pc, op, len, size, ret, buffer, ena, slave>> /\ Types
      /\ len \in Nat /\ size \in Nat /\ Len(stored) \in Nat /\ Len(tx) \in Nat
  <2>1. UNCHANGED <<pc, op, len, size, ret, buffer, ena, slave>>
    BY DEF BusStep, BusStart, BusWrite, BusRead, BusDisabled, driver, bus
  <2> QED  BY <2>1, LenProperties DEF MInv, Types
<1>2. active \/ tx # <<>>
  BY DEF BusStep, BusStart, BusWrite, BusRead, BusDisabled
<1>3. WriteFresh \/ WriteRuns
  BY <1>2 DEF Writing, WriteAborted
<1>4. pc # "flush"
  BY <1>2 DEF Writing
<1> SUFFICES (WriteFresh \/ WriteRuns \/ WriteAborted)'
  BY <1>1, <1>4 DEF Writing, MInv
<1>5. CASE BusStart
  <2>1. ~active /\ tx # <<>> /\ stored' = <<>> /\ Len(stored') = 0
    BY <1>5, EmptySeq DEF BusStart
  <2>2. WriteFresh
    BY <1>3, <2>1 DEF WriteRuns
  <2>3. InOrder'
    BY <2>1 DEF InOrder
  <2>4. CASE slave = "absent"
    <3>1. tx' = <<>> /\ abrt' /\ ~active'
      BY <1>5, <2>1, <2>4 DEF BusStart
    <3> QED  BY <1>1, <2>1, <2>3, <2>4, <3>1 DEF WriteAborted
  <2>5. CASE slave # "absent"
    <3>1. active' /\ UNCHANGED <<tx, abrt>>
      BY <1>5, <2>5 DEF BusStart
    <3>2. \A j \in 1 .. Len(tx') : 0 + j = j
      BY <1>1, <3>1
    <3>3. (\A j \in 1 .. Len(tx) : Carries(tx[j], Len(stored) + j))'
      BY <1>1, <2>1, <2>2, <3>1, <3>2 DEF WriteFresh, Carries, ByteAt, Addr, Data
    <3>4. (Len(stored) + Len(tx) = Count)'
      BY <1>1, <2>1, <2>2, <3>1 DEF WriteFresh, Count
    <3> QED  BY <2>2, <2>3, <3>1, <3>3, <3>4 DEF WriteRuns, WriteFresh
  <2> QED  BY <2>4, <2>5
<1>6. CASE BusWrite
  <2>1. active /\ tx # <<>> /\ WriteRuns
    BY <1>3, <1>6 DEF BusWrite, WriteFresh
  <2>2. /\ Len(tx) > 0 /\ Head(tx) = tx[1] /\ Head(tx) \in Cmds /\ Len(Tail(tx)) = Len(tx) - 1
        /\ \A i \in 1 .. (Len(tx) - 1) : Tail(tx)[i] = tx[i + 1]
    BY <1>1, <2>1, Queue DEF Types
  <2>3. Carries(tx[1], Len(stored) + 1) /\ Len(stored) + Len(tx) = Count /\ Count <= len + 1
    BY <1>1, <2>1, <2>2 DEF WriteRuns, Count
  <2>4. CASE slave = "refuses" /\ stored # <<>>
    <3>1. tx' = <<>> /\ ~active' /\ abrt' /\ stored' = stored
      BY <1>6, <2>4 DEF BusWrite
    <3>2. Len(stored') <= len' + 1
      BY <1>1, <2>2, <2>3, <3>1 DEF Count
    <3> QED  BY <1>1, <2>1, <2>4, <3>1, <3>2
             DEF WriteAborted, WriteRuns, InOrder, ByteAt, Addr, Data
  <2>5. CASE ~(slave = "refuses" /\ stored # <<>>)
    <3>1. /\ stored' = Append(stored, tx[1].data) /\ tx' = Tail(tx) /\ abrt' = abrt
          /\ active' <=> ~tx[1].stop
      BY <1>6, <2>2, <2>5 DEF BusWrite
    <3>2. tx[1].data \in Nat
      BY <2>2 DEF Cmds
    <3>3. /\ Len(stored') = Len(stored) + 1 /\ stored'[Len(stored) + 1] = tx[1].data
          /\ \A i \in 1 .. Len(stored) : stored'[i] = stored[i]
      BY <1>1, <3>1, <3>2, AppendProperties DEF Types
    <3>4. InOrder'
      <4>1. ASSUME NEW i \in 1 .. Len(stored') PROVE stored'[i] = ByteAt(i)
        <5>1. i \in 1 .. Len(stored) \/ i = Len(stored) + 1
          BY <1>1, <3>3
        <5> QED  BY <2>1, <2>3, <3>3, <5>1 DEF WriteRuns, InOrder, Carries
      <4> QED  BY <4>1 DEF InOrder, ByteAt, Addr, Data
    <3>5. (\A j \in 1 .. Len(tx) : Carries(tx[j], Len(stored) + j))'
      <4>1. ASSUME NEW j \in 1 .. Len(tx') PROVE Carries(tx'[j], Len(stored') + j)
        <5>1. j \in 1 .. (Len(tx) - 1) /\ j + 1 \in 1 .. Len(tx)
              /\ Len(stored) + (j + 1) = Len(stored') + j
          BY <1>1, <2>2, <3>1, <3>3
        <5>2. Carries(tx[j + 1], Len(stored) + (j + 1))
          BY <2>1, <5>1 DEF WriteRuns
        <5> QED  BY <2>2, <3>1, <5>1, <5>2
      <4> QED  BY <1>1, <4>1 DEF Carries, ByteAt, Addr, Data
    <3>6. (Len(stored) + Len(tx) = Count)'
      <4>1. Count' = Count /\ Count \in Int
        BY <1>1 DEF Count
      <4>2. Len(stored') = Len(stored) + 1 /\ Len(tx') = Len(tx) - 1
        BY <2>2, <3>1, <3>3
      <4>3. Len(stored) + Len(tx) = Count /\ Len(stored) \in Nat /\ Len(tx) \in Nat
        BY <1>1, <2>3
      <4> QED  BY <4>1, <4>2, <4>3
    <3>7. ~active' => tx' = <<>> /\ size' = 0
      <4> SUFFICES ASSUME ~active' PROVE tx' = <<>> /\ size' = 0
        OBVIOUS
      <4>1. Len(stored) + 1 = len + 1
        BY <2>3, <3>1 DEF Carries
      <4>2. size = 0 /\ Len(tx) = 1
        <5>1. /\ Len(stored) \in Nat /\ Len(tx) \in Nat /\ len \in Nat /\ size \in Nat
              /\ Len(tx) > 0 /\ Len(stored) + Len(tx) = len + 1 - size
          BY <1>1, <2>2, <2>3 DEF Count
        <5>2. Len(stored) = len
          BY <4>1, <5>1
        <5>3. Len(tx) = 1 - size
          BY <5>1, <5>2
        <5> QED  BY <5>1, <5>3
      <4>3. tx' \in Seq(Cmds) /\ Len(tx') = 0
        BY <2>2, <3>1, <4>2 DEF Types
      <4> QED  BY <1>1, <4>2, <4>3, EmptySeq
    <3> QED  BY <2>1, <3>1, <3>4, <3>5, <3>6, <3>7 DEF WriteRuns
  <2> QED  BY <2>4, <2>5
<1>7. ~BusRead
  <2> SUFFICES ASSUME BusRead PROVE FALSE
    OBVIOUS
  <2>1. active /\ tx # <<>> /\ Head(tx).kind = "R" /\ WriteRuns
    BY <1>3 DEF BusRead, WriteFresh
  <2>2. Len(tx) > 0 /\ Head(tx) = tx[1]
    BY <1>1, <2>1, Queue DEF Types
  <2>3. tx[1].kind = "W"
    BY <1>1, <2>1, <2>2 DEF WriteRuns, Carries
  <2> QED  BY <2>1, <2>2, <2>3
<1>8. ~BusDisabled
  BY DEF BusDisabled, Writing
<1> QED  BY <1>5, <1>6, <1>7, <1>8 DEF BusStep

\* The first entry of a read leaves the FIFO, and the last one is still the one with a STOP.
EntryLeaves ==
    /\ Len(tx) > 0 /\ Head(tx) = tx[1] /\ Len(tx') = Len(tx) - 1
    /\ \A j \in 1 .. (Len(tx) - 1) : tx'[j] = tx[j + 1]
    /\ \A j \in 1 .. Len(tx') : tx'[j].stop => j = Len(tx') /\ pc # "read_cmd"
    /\ tx[1].stop => tx' = <<>> /\ pc # "read_cmd"

\* The bus in a read: the register address, then the bytes.
LEMMA BusInRead ==
    ASSUME MInv, Types', BusStep, Reading
    PROVE  MInv'
<1>1. /\ UNCHANGED <<pc, op, len, size, ret, buffer, ena>> /\ Types
      /\ len \in Nat /\ size \in Nat /\ Len(rx) \in Nat /\ Len(tx) \in Nat /\ given \in Nat
      /\ Len(buffer) \in Nat
  BY LenProperties DEF BusStep, BusStart, BusWrite, BusRead, BusDisabled, driver, MInv, Types
<1>2. active \/ tx # <<>>
  BY DEF BusStep, BusStart, BusWrite, BusRead, BusDisabled
<1> DEFINE asked == IF pc = "read_cmd" THEN len - size ELSE len
<1>3. AddressFirst(asked) \/ ReadRuns(asked)
  BY <1>2 DEF Reading, ReadAborted
<1>4. pc # "flush"
  BY <1>2 DEF Reading
<1>5. asked' = asked /\ asked \in Int
  BY <1>1
<1> SUFFICES /\ \A j \in 1 .. Len(tx') : tx'[j].stop => j = Len(tx') /\ pc # "read_cmd"
             /\ AddressFirst(asked)' \/ ReadRuns(asked)' \/ ReadAborted'
  BY <1>1, <1>4 DEF Reading, MInv
<1> HIDE DEF asked
<1>6. CASE BusStart
  <2>1. ~active /\ tx # <<>> /\ stored' = <<>> /\ given' = 0 /\ rx' = rx
    BY <1>6 DEF BusStart
  <2>2. AddressFirst(asked)
    BY <1>3, <2>1 DEF ReadRuns
  <2>3. CASE slave = "absent"
    <3>1. tx' = <<>> /\ Len(tx') = 0 /\ abrt' /\ ~active'
      BY <1>6, <2>1, <2>3, EmptySeq DEF BusStart
    <3> QED  BY <1>1, <2>1, <2>2, <3>1 DEF AddressFirst, ReadAborted
  <2>4. CASE slave # "absent"
    <3>1. active' /\ UNCHANGED <<tx, abrt>>
      BY <1>6, <2>4 DEF BusStart
    <3> QED  BY <1>1, <1>5, <2>1, <2>2, <3>1 DEF AddressFirst, Reading
  <2> QED  BY <2>3, <2>4
<1>7. ASSUME active, tx # <<>>, BusWrite \/ BusRead, tx' = Tail(tx)
      PROVE  EntryLeaves
  <2>1. /\ Len(tx) > 0 /\ Head(tx) = tx[1] /\ Len(tx') = Len(tx) - 1
        /\ \A j \in 1 .. (Len(tx) - 1) : tx'[j] = tx[j + 1]
    BY <1>1, <1>7, Queue DEF Types
  <2>2. ASSUME NEW j \in 1 .. Len(tx'), tx'[j].stop
        PROVE  j = Len(tx') /\ pc # "read_cmd"
    <3>1. j + 1 \in 1 .. Len(tx) /\ j \in 1 .. (Len(tx) - 1)
      BY <1>1, <2>1
    <3>2. tx[j + 1].stop
      BY <2>1, <2>2, <3>1
    <3>3. j + 1 = Len(tx) /\ pc # "read_cmd"
      BY <3>1, <3>2 DEF Reading
    <3> QED  BY <1>1, <2>1, <3>3
  <2>3. tx[1].stop => Len(tx) = 1 /\ pc # "read_cmd"
    BY <1>1, <2>1 DEF Reading
  <2>4. Len(tx) = 1 => tx' = <<>>
    BY <2>1, EmptySeq DEF Types
  <2> QED  BY <2>1, <2>2, <2>3, <2>4 DEF EntryLeaves
<1>8. CASE BusWrite
  <2>1. active /\ tx # <<>> /\ Head(tx).kind = "W"
    BY <1>8 DEF BusWrite
  <2>2. Len(tx) > 0 /\ Head(tx) = tx[1]
    BY <1>1, <2>1, Queue DEF Types
  <2>3. AddressFirst(asked) /\ stored = <<>> /\ given = 0
    BY <1>1, <1>3, <2>1, <2>2 DEF AddressFirst, ReadRuns
  <2>4. /\ stored' = Append(stored, Addr) /\ tx' = Tail(tx) /\ active' /\ UNCHANGED <<rx, abrt, given>>
    BY <1>8, <2>2, <2>3 DEF BusWrite, AddressFirst
  <2>5. stored' = <<Addr>>
    BY <2>3, <2>4 DEF Addr
  <2>6. /\ Len(tx') = Len(tx) - 1 /\ \A j \in 1 .. (Len(tx) - 1) : tx'[j] = tx[j + 1]
        /\ \A j \in 1 .. Len(tx') : tx'[j].stop => j = Len(tx') /\ pc # "read_cmd"
    <3>1. EntryLeaves
      BY <1>7, <1>8, <2>1, <2>4, Zenon
    <3> QED  BY <3>1, Zenon DEF EntryLeaves
  <2>7. \A j \in 1 .. Len(tx') : tx'[j].kind = "R"
    <3>1. ASSUME NEW j \in 1 .. Len(tx') PROVE tx'[j].kind = "R"
      <4>1. j + 1 \in 2 .. Len(tx) /\ j \in 1 .. (Len(tx) - 1)
        BY <1>1, <2>6
      <4> QED  BY <2>3, <2>6, <4>1 DEF AddressFirst
    <3> QED  BY <3>1
  <2>8. Len(buffer) = 0 /\ Len(rx) = 0
    BY <2>3, EmptySeq DEF AddressFirst
  <2>9. given' + Len(tx') <= asked
    <3>1. given' = 0 /\ Len(tx) - 1 <= asked /\ Len(tx') = Len(tx) - 1 /\ Len(tx) \in Nat
      BY <1>1, <2>3, <2>4, <2>6 DEF AddressFirst
    <3>2. PICK n \in Int : n = Len(tx) - 1
      BY <3>1
    <3>3. 0 + n = n
      OBVIOUS
    <3> QED  BY <3>1, <3>2, <3>3, Zenon
  <2>10. ReadRuns(asked)'
    BY <1>1, <1>5, <2>3, <2>4, <2>5, <2>7, <2>8, <2>9 DEF ReadRuns, AddressFirst, Addr
  <2> QED  BY <2>6, <2>10
<1>9. CASE BusRead
  <2>1. active /\ tx # <<>> /\ Head(tx).kind = "R" /\ tx' = Tail(tx)
    BY <1>9 DEF BusRead
  <2>2. /\ Len(tx) > 0 /\ Head(tx) = tx[1] /\ Len(tx') = Len(tx) - 1
        /\ \A j \in 1 .. (Len(tx) - 1) : tx'[j] = tx[j + 1]
        /\ \A j \in 1 .. Len(tx') : tx'[j].stop => j = Len(tx') /\ pc # "read_cmd"
        /\ tx[1].stop => tx' = <<>> /\ pc # "read_cmd"
    <3>1. EntryLeaves
      BY <1>7, <1>9, <2>1, Zenon
    <3> QED  BY <3>1, Zenon DEF EntryLeaves
  <2>3. ReadRuns(asked)
    <3>1. AddressFirst(asked) => tx[1].kind = "W"
      BY Zenon DEF AddressFirst
    <3>2. tx[1].kind = "R"
      BY <2>1, <2>2, Zenon
    <3> QED  BY <1>3, <3>1, <3>2, Zenon
  <2>4. /\ given' = given + 1 /\ UNCHANGED <<stored, abrt>> /\ (active' <=> ~tx[1].stop)
        /\ rx' = rx \/ rx' = Append(rx, 100 + given)
    BY <1>9, <2>2 DEF BusRead
  <2>5. \A j \in 1 .. Len(tx') : tx'[j].kind = "R"
    <3>1. ASSUME NEW j \in 1 .. Len(tx') PROVE tx'[j].kind = "R"
      <4>1. j + 1 \in 1 .. Len(tx) /\ j \in 1 .. (Len(tx) - 1)
        BY <1>1, <2>2
      <4> QED  BY <2>2, <2>3, <4>1 DEF ReadRuns
    <3> QED  BY <3>1
  <2>6. given' + Len(tx') <= asked
    BY <1>1, <1>5, <2>2, <2>3, <2>4 DEF ReadRuns
  <2>7. /\ Len(buffer) + Len(rx') <= given'
        /\ Len(buffer) + Len(rx') = given' =>
              /\ \A i \in 1 .. Len(buffer) : buffer[i] = 99 + i
              /\ \A j \in 1 .. Len(rx') : rx'[j] = 99 + Len(buffer) + j
    <3>1. CASE rx' = rx
      BY <1>1, <2>3, <2>4, <3>1 DEF ReadRuns
    <3>2. CASE rx' = Append(rx, 100 + given)
      <4>1. /\ Len(rx') = Len(rx) + 1 /\ rx'[Len(rx) + 1] = 100 + given
            /\ \A j \in 1 .. Len(rx) : rx'[j] = rx[j]
        BY <1>1, <3>2, AppendProperties DEF Types
      <4>2. Len(buffer) + Len(rx') <= given'
        BY <1>1, <2>3, <2>4, <4>1 DEF ReadRuns
      <4>3. ASSUME Len(buffer) + Len(rx') = given'
            PROVE  /\ \A i \in 1 .. Len(buffer) : buffer[i] = 99 + i
                   /\ \A j \in 1 .. Len(rx') : rx'[j] = 99 + Len(buffer) + j
        <5>1. Len(buffer) + Len(rx) = given
          BY <1>1, <2>4, <4>1, <4>3
        <5>2. /\ \A i \in 1 .. Len(buffer) : buffer[i] = 99 + i
              /\ \A j \in 1 .. Len(rx) : rx[j] = 99 + Len(buffer) + j
          BY <2>3, <5>1 DEF ReadRuns
        <5>3. ASSUME NEW j \in 1 .. Len(rx') PROVE rx'[j] = 99 + Len(buffer) + j
          <6>1. j \in 1 .. Len(rx) \/ j = Len(rx) + 1
            BY <1>1, <4>1
          <6>2. CASE j \in 1 .. Len(rx)
            BY <4>1, <5>2, <6>2
          <6>3. CASE j = Len(rx) + 1
            <7>1. rx'[j] = 100 + given /\ Len(buffer) \in Nat /\ Len(rx) \in Nat
              BY <1>1, <4>1, <6>3
            <7> QED  BY <5>1, <6>3, <7>1
          <6> QED  BY <6>1, <6>2, <6>3
        <5> QED  BY <5>2, <5>3
      <4> QED  BY <4>2, <4>3
    <3> QED  BY <2>4, <3>1, <3>2
  <2>8. ~active' => tx' = <<>> /\ pc # "read_cmd"
    BY <2>2, <2>4
  <2>9. ReadRuns(asked)'
    BY <1>1, <1>5, <2>3, <2>4, <2>5, <2>6, <2>7, <2>8 DEF ReadRuns
  <2> QED  BY <2>2, <2>9
<1>10. ~BusDisabled
  BY DEF BusDisabled, Reading
<1> QED  BY <1>6, <1>8, <1>9, <1>10 DEF BusStep

-----------------------------------------------------------------------------
\* At the start the driver has made no transfer.
LEMMA InitMInv == Init => MInv
BY EmptySeq DEF Init, MInv, Types, Other

\* Every step keeps the invariant.
LEMMA NextMInv == MInv /\ [Next]_vars => MInv'
<1> SUFFICES ASSUME MInv, [Next]_vars PROVE MInv'
  OBVIOUS
<1>1. Types'
  BY TypesKept
<1>2. CASE DriverStep
  BY <1>1, <1>2, SetupKept, AddressKept, WriteByteKept, PushReadKept, ReadByteKept, FinishKept
  DEF DriverStep
<1>3. CASE Begin
  BY <1>1, <1>3, SetupKept
<1>4. CASE BusStep
  BY <1>1, <1>4, BusElsewhere, BusInWrite, BusInRead
<1>5. CASE Waiting \/ Over \/ UNCHANGED vars
  <2>1. UNCHANGED vars
    BY <1>5 DEF Waiting, ReadNotReady, WriteNotReady, Over
  <2>2. Other' = Other /\ Called' = Called /\ Setup' = Setup /\ Ended' = Ended
    BY <2>1 DEF vars, driver, chip, bus, Other, Called, Setup, Request, Ended, Transferred,
                InOrder, ByteAt, Addr, Data
  <2>3. Writing' = Writing
    BY <2>1 DEF vars, driver, chip, bus, Writing, WriteFresh, WriteRuns, WriteAborted, Count,
                Carries, InOrder, ByteAt, Addr, Data
  <2>4. Reading' = Reading
    BY <2>1 DEF vars, driver, chip, bus, Reading, AddressFirst, ReadRuns, ReadAborted, Addr
  <2> QED  BY <1>1, <2>2, <2>3, <2>4 DEF MInv
<1> QED  BY <1>2, <1>3, <1>4, <1>5 DEF Next

\* At every step the FIFOs hold the part of the transfer that was pushed and not yet sent, and
\* nothing of the transfer before.
THEOREM Invariant == Spec => []MInv
BY InitMInv, NextMInv, PTL DEF Spec

\* i2c_write() returns 0 to a slave that acknowledges only after the address and all bytes have
\* been stored, in order; one that refuses data has no byte behind that.
THEOREM ZeroMeansStored == Spec => []WriteZeroMeansStored
<1>1. MInv => WriteZeroMeansStored
  <2> SUFFICES ASSUME MInv, pc = "return", op = "write", ret = 0
               PROVE  LET ordered == <<Addr>> \o [j \in 1 .. len |-> Data(j - 1)]
                      IN  IF slave = "acks" THEN stored = ordered ELSE IsPrefix(stored, ordered)
    BY DEF WriteZeroMeansStored
  <2> DEFINE data == [j \in 1 .. len |-> Data(j - 1)]
             ordered == <<Addr>> \o data
  <2>1. /\ InOrder /\ Len(stored) <= len + 1 /\ (slave = "acks" => Len(stored) = len + 1)
        /\ stored \in Seq(Nat) /\ Len(stored) \in Nat /\ len \in Nat
    BY LenProperties DEF MInv, Types, Other, Called, Setup, Writing, Reading, Ended, Transferred
  <2>2. data \in Seq(Nat) /\ Len(data) = len /\ \A j \in 1 .. len : data[j] = Data(j - 1)
    BY <2>1 DEF Data
  <2>3. <<Addr>> \in Seq(Nat) /\ Len(<<Addr>>) = 1 /\ <<Addr>>[1] = Addr
    BY DEF Addr
  <2> HIDE DEF data
  <2>4. /\ ordered \in Seq(Nat) /\ Len(ordered) = len + 1
        /\ \A i \in 1 .. (len + 1) : ordered[i] = IF i <= 1 THEN <<Addr>>[i] ELSE data[i - 1]
    BY <2>1, <2>2, <2>3, ConcatProperties
  <2>5. \A i \in 1 .. (len + 1) : ordered[i] = ByteAt(i)
    <3>1. ASSUME NEW i \in 1 .. (len + 1) PROVE ordered[i] = ByteAt(i)
      <4>1. CASE i = 1
        BY <2>3, <2>4, <3>1, <4>1 DEF ByteAt
      <4>2. CASE i # 1
        <5>1. i - 1 \in 1 .. len /\ ~(i <= 1) /\ (i - 1) - 1 = i - 2
          BY <2>1, <3>1, <4>2
        <5> QED  BY <2>2, <2>4, <3>1, <4>2, <5>1 DEF ByteAt
      <4> QED  BY <4>1, <4>2
    <3> QED  BY <3>1
  <2> HIDE DEF ordered
  <2>6. \A i \in 1 .. Len(stored) : stored[i] = ordered[i]
    <3>1. ASSUME NEW i \in 1 .. Len(stored) PROVE stored[i] = ordered[i]
      <4>1. i \in 1 .. (len + 1)
        BY <2>1
      <4> QED  BY <2>1, <2>5, <4>1 DEF InOrder
    <3> QED  BY <3>1
  <2>7. CASE slave = "acks"
    BY <2>1, <2>4, <2>6, <2>7, SeqEqual DEF ordered, data
  <2>8. IsPrefix(stored, ordered)
    <3>1. \A i \in 1 .. Len(stored) : stored[i] \in Nat /\ ordered[i] \in Nat
      BY <2>1, <2>6, ElementOfSeq
    <3>2. /\ SubSeq(stored, 1, Len(stored)) \in Seq(Nat)
          /\ Len(SubSeq(stored, 1, Len(stored))) = Len(stored)
          /\ \A i \in 1 .. Len(stored) : SubSeq(stored, 1, Len(stored))[i] = stored[i]
      BY <2>1, <3>1, SubSeqProperties
    <3>3. /\ SubSeq(ordered, 1, Len(stored)) \in Seq(Nat)
          /\ Len(SubSeq(ordered, 1, Len(stored))) = Len(stored)
          /\ \A i \in 1 .. Len(stored) : SubSeq(ordered, 1, Len(stored))[i] = ordered[i]
      BY <2>1, <3>1, SubSeqProperties
    <3>4. SubSeq(stored, 1, Len(stored)) = SubSeq(ordered, 1, Len(stored))
      BY <2>6, <3>2, <3>3, SeqEqual
    <3> QED  BY <2>1, <2>4, <3>4 DEF IsPrefix
  <2> QED  BY <2>7, <2>8 DEF ordered, data
<1> QED  BY <1>1, Invariant, PTL

\* i2c_read() returns 0 only with the slave's bytes in the buffer, in order, also when it pushed
\* more commands than the FIFO holds.
THEOREM ZeroMeansRead == Spec => []ReadZeroMeansRead
<1>1. MInv => ReadZeroMeansRead
  <2> SUFFICES ASSUME MInv, pc = "return", op = "read", ret = 0
               PROVE  buffer = [j \in 1 .. len |-> 99 + j] /\ stored = <<Addr>>
    BY DEF ReadZeroMeansRead
  <2>1. /\ Len(buffer) = len /\ stored = <<Addr>> /\ \A i \in 1 .. len : buffer[i] = 99 + i
        /\ buffer \in Seq(Nat) /\ len \in Nat
    BY DEF MInv, Types, Other, Called, Setup, Writing, Reading, Ended, Transferred
  <2>2. buffer = [j \in 1 .. len |-> buffer[j]]
    BY <2>1, LenProperties
  <2> QED  BY <2>1, <2>2
<1> QED  BY <1>1, Invariant, PTL


\* i2c_enable() is at one of its writes, or polls.
Writes == {"init_disable", "init_disable2", "init_enable", "enable", "addr_disable",
           "addr_enable", "disable"}
Polling == {"init_disable_wait", "init_disable2_wait", "init_enable_wait", "enable_wait",
            "addr_disable_wait", "addr_enable_wait", "disable_wait"}

\* The counts of the polling loops stay within their limits.
PollsInv ==
    /\ polls \in Nat
    /\ pc \in Writes \cup Polling => polls <= TryLimit
    /\ pc \in {"busy1", "busy2"} => polls <= BusyLimit
    /\ pc = "stop" => polls <= StopLimit

\* A step of i2c_enable(), which counts its tries, or past it
Attempt(p, w, q) ==
    \/ pc = p /\ pc' = w /\ polls' = polls
    \/ pc = w /\ pc' = p /\ polls # TryLimit /\ polls' = polls + 1
    \/ pc = w /\ pc' = q /\ polls' = 0

LEMMA EnableCounts ==
    ASSUME NEW p, NEW w, NEW e, NEW q, SetEnable(p, w, e, q)
    PROVE  size' = size /\ Attempt(p, w, q)
BY DEF SetEnable, At, Goto, Attempt

LEMMA WaitCounts ==
    ASSUME NEW p, NEW i, NEW t, WaitBusy(p, i, t)
    PROVE  /\ size' = size /\ pc = p
           /\ \/ pc' = p /\ polls < BusyLimit /\ polls' = polls + 1
              \/ pc' \in {i, t} /\ polls' = 0
BY DEF WaitBusy, At, Goto

\* i2c_enable(), wherever it is called: the next try, or the next place.
LEMMA EnableAdvances ==
    ASSUME Types, PollsInv,
           InitDisable \/ SpeedDisable \/ InitEnable \/ Enable \/ AddressDisable \/ AddressEnable
           \/ Disable
    PROVE  PollsInv' /\ Nearer /\ size' = size /\ Tries' >= 0
<1>1. TryLimit \in Nat /\ BusyLimit \in Nat /\ polls \in Nat /\ size' = size
  BY EnableCounts, I2cAssumption
  DEF InitDisable, SpeedDisable, InitEnable, Enable, AddressDisable, AddressEnable, Disable, PollsInv
<1>2. CASE /\ pc \in Writes /\ pc' \in Polling /\ polls' = polls /\ Place' = Place
  <2>1. Tries = 2 * (TryLimit - polls) + 1 /\ Tries' = 2 * (TryLimit - polls) /\ polls <= TryLimit
    BY <1>2 DEF Tries, Writes, Polling, PollsInv
  <2>2. PollsInv'
    BY <1>1, <1>2, <2>1 DEF PollsInv, Writes, Polling
  <2> QED  BY <1>1, <1>2, <2>1, <2>2 DEF Nearer
<1>3. CASE /\ pc \in Polling /\ pc' \in Writes /\ polls' = polls + 1 /\ Place' = Place
           /\ polls # TryLimit
  <2>1. /\ Tries = 2 * (TryLimit - polls) /\ Tries' = 2 * (TryLimit - (polls + 1)) + 1
        /\ polls < TryLimit
    BY <1>1, <1>3 DEF Tries, Writes, Polling, PollsInv
  <2>2. PollsInv'
    BY <1>1, <1>3, <2>1 DEF PollsInv, Writes, Polling
  <2> QED  BY <1>1, <1>3, <2>1, <2>2 DEF Nearer
<1>4. CASE /\ pc' \in {"init_con", "init_speed", "idle", "busy1", "addr_enable", "addr", "return"}
           /\ polls' = 0 /\ Place' < Place
  <2>1. PollsInv' /\ Tries' >= 0
    BY <1>1, <1>4 DEF PollsInv, Tries, Writes, Polling
  <2> QED  BY <1>1, <1>4, <2>1 DEF Nearer
<1>5. CASE InitDisable
  <2>1. Attempt("init_disable", "init_disable_wait", "init_con")
    BY <1>5, EnableCounts DEF InitDisable
  <2> QED  BY <1>2, <1>3, <1>4, <2>1 DEF Attempt, Place, Writes, Polling
<1>6. CASE SpeedDisable
  <2>1. Attempt("init_disable2", "init_disable2_wait", "init_speed")
    BY <1>6, EnableCounts DEF SpeedDisable
  <2> QED  BY <1>2, <1>3, <1>4, <2>1 DEF Attempt, Place, Writes, Polling
<1>7. CASE InitEnable
  <2>1. Attempt("init_enable", "init_enable_wait", "idle")
    BY <1>7, EnableCounts DEF InitEnable
  <2> QED  BY <1>2, <1>3, <1>4, <2>1 DEF Attempt, Place, Writes, Polling
<1>8. CASE Enable
  <2>1. Attempt("enable", "enable_wait", "busy1")
    BY <1>8, EnableCounts DEF Enable
  <2> QED  BY <1>2, <1>3, <1>4, <2>1 DEF Attempt, Place, Writes, Polling
<1>9. CASE AddressDisable
  <2>1. Attempt("addr_disable", "addr_disable_wait", "addr_enable")
    BY <1>9, EnableCounts DEF AddressDisable
  <2> QED  BY <1>2, <1>3, <1>4, <2>1 DEF Attempt, Place, Writes, Polling
<1>10. CASE AddressEnable
  <2>1. Attempt("addr_enable", "addr_enable_wait", "addr")
    BY <1>10, EnableCounts DEF AddressEnable
  <2> QED  BY <1>2, <1>3, <1>4, <2>1 DEF Attempt, Place, Writes, Polling
<1>11. CASE Disable
  <2>1. Attempt("disable", "disable_wait", "return")
    BY <1>11, EnableCounts DEF Disable
  <2> QED  BY <1>2, <1>3, <1>4, <2>1 DEF Attempt, Place, Writes, Polling
<1> QED  BY <1>5, <1>6, <1>7, <1>8, <1>9, <1>10, <1>11

\* The other polls: i2c_wait_for_bb() and the wait for STOP_DET.
LEMMA WaitAdvances ==
    ASSUME Types, PollsInv, BusyBefore \/ BusyAfter \/ WaitStop
    PROVE  PollsInv' /\ Nearer /\ size' = size /\ Tries' >= 0
<1>1. {BusyLimit, StopLimit, TryLimit} \subseteq Nat /\ polls \in Nat
  BY I2cAssumption DEF PollsInv
<1>2. CASE BusyBefore \/ BusyAfter
  <2>1. /\ size' = size /\ pc \in {"busy1", "busy2"}
        /\ \/ pc' = pc /\ polls < BusyLimit /\ polls' = polls + 1
           \/ pc = "busy1" /\ pc' \in {"addr_disable", "idle"} /\ polls' = 0
           \/ pc = "busy2" /\ pc' \in {"flush", "disable"} /\ polls' = 0
    BY <1>2, WaitCounts DEF BusyBefore, BusyAfter
  <2>2. PollsInv' /\ Tries' >= 0
    BY <1>1, <2>1 DEF PollsInv, Tries, Writes, Polling
  <2>3. Nearer
    BY <1>1, <2>1 DEF Nearer, Place, Tries
  <2> QED  BY <2>1, <2>2, <2>3
<1>3. CASE WaitStop
  <2>1. /\ size' = size /\ pc = "stop"
        /\ \/ pc' = "stop" /\ polls < StopLimit /\ polls' = polls + 1
           \/ pc' = "busy2" /\ polls' = 0
    BY <1>3 DEF WaitStop, At, Goto
  <2>2. PollsInv' /\ Tries' >= 0
    BY <1>1, <2>1 DEF PollsInv, Tries, Writes, Polling
  <2>3. Nearer
    BY <1>1, <2>1 DEF Nearer, Place, Tries
  <2> QED  BY <2>1, <2>2, <2>3
<1> QED  BY <1>2, <1>3

\* The steps that go on without a poll: to another place, or to the next byte.
LEMMA MoveAdvances ==
    ASSUME Types, Types', PollsInv,
           InitCon \/ SpeedCon \/ PushAddress \/ PushRead \/ ReadByte \/ WriteByte \/ Flush \/ Return
    PROVE  PollsInv' /\ Nearer /\ size' >= 0 /\ Tries' >= 0
<1>1. {BusyLimit, StopLimit, TryLimit} \subseteq Nat /\ size \in Nat /\ size' \in Nat
  BY I2cAssumption DEF Types
<1>2. /\ polls' = 0
      /\ \/ pc = "init_con" /\ pc' = "init_disable2"
         \/ pc = "init_speed" /\ pc' = "init_enable"
         \/ pc = "addr" /\ pc' \in {"read_cmd", "write_data"}
         \/ pc = "read_cmd" /\ pc' = "read_data"
         \/ pc \in {"read_cmd", "read_data", "write_data"} /\ pc' = pc /\ size' = size - 1
         \/ pc \in {"read_data", "write_data"} /\ pc' = "stop"
         \/ pc = "flush" /\ pc' = "disable"
         \/ pc = "return" /\ pc' = "idle"
  BY DEF InitCon, SpeedCon, PushAddress, PushRead, ReadByte, WriteByte, Flush, Return, At, Goto
<1>3. PollsInv' /\ Tries' >= 0
  BY <1>1, <1>2 DEF PollsInv, Tries, Writes, Polling
<1>4. Nearer
  BY <1>1, <1>2 DEF Nearer, Place
<1> QED  BY <1>1, <1>3, <1>4

\* Every step of the driver, and those of the controller and of the test case
LEMMA PollsNext == MInv /\ PollsInv /\ [Next]_vars => PollsInv'
<1> SUFFICES ASSUME MInv, PollsInv, [Next]_vars PROVE PollsInv'
  OBVIOUS
<1>1. Types /\ Types'
  BY TypesKept DEF MInv
<1>2. CASE DriverStep
  BY <1>1, <1>2, EnableAdvances, WaitAdvances, MoveAdvances DEF DriverStep
<1>3. CASE Begin
  <2>1. pc' = "enable" /\ polls' = 0
    BY <1>3 DEF Begin, Start, Goto
  <2> QED  BY <2>1, I2cAssumption DEF PollsInv, Writes, Polling
<1>4. CASE BusStep \/ Waiting \/ Over \/ UNCHANGED vars
  <2>1. UNCHANGED <<pc, polls>>
    BY <1>4 DEF BusStep, BusStart, BusWrite, BusRead, BusDisabled, Waiting, ReadNotReady,
                WriteNotReady, Over, vars, driver
  <2> QED  BY <2>1 DEF PollsInv, Writes, Polling
<1> QED  BY <1>2, <1>3, <1>4 DEF Next

\* No loop of i2c_init(), i2c_read() and i2c_write() goes round for nothing, for every limit of
\* the polls and every length: each step brings the call nearer to its return.
THEOREM CallsComeNearer == Spec => CallsAdvance
<1>1. Init => PollsInv
  BY I2cAssumption DEF Init, PollsInv, Writes, Polling
<1>2. MInv /\ PollsInv /\ [Next]_vars => [DriverStep => Nearer /\ size' >= 0 /\ Tries' >= 0]_vars
  <2> SUFFICES ASSUME MInv, PollsInv, Next, DriverStep PROVE Nearer /\ size' >= 0 /\ Tries' >= 0
    OBVIOUS
  <2>1. Types /\ Types' /\ (size' = size => size' >= 0)
    BY TypesKept DEF MInv, Types
  <2> QED  BY <2>1, EnableAdvances, WaitAdvances, MoveAdvances DEF DriverStep
<1> QED  BY <1>1, <1>2, PollsNext, Invariant, PTL DEF Spec, CallsAdvance

-----------------------------------------------------------------------------
\* test_i2c_slave(), whose i2c_read() is one request and the wait for its answer
Clear == rd_req = FALSE /\ tx_abrt = FALSE

\* No read is under way; the handler has answered as many requests as there were.
NoRead ==
    /\ slave_pc # "wait" /\ slave_bus = "idle" /\ handler = "none" /\ Clear
    /\ fifo = <<>> /\ answer = <<>>
    /\ IF slave_pc = "print" THEN slave_data = reads % 256 /\ i2c_slave_data = reads + 1
                       ELSE i2c_slave_data = reads

\* A read whose request has not yet been answered
Asked ==
    /\ slave_pc = "wait" /\ tx_abrt = FALSE
    /\ \/ slave_bus = "address" /\ handler = "none" /\ rd_req = FALSE
       \/ slave_bus = "held" /\ handler \in {"none", "write"} /\ rd_req = TRUE
    /\ fifo = <<>> /\ answer = <<>>
    /\ i2c_slave_data = reads

\* The handler has answered, and its last access clears the request before anything else.
Handled ==
    /\ slave_pc = "wait" /\ handler \in {"none", "clear"} /\ (handler = "none" => Clear)
    /\ i2c_slave_data = reads + 1

\* The byte is on its way ...
Answered ==
    /\ Handled
    /\ \/ slave_bus = "held" /\ fifo = <<reads % 256>> /\ answer = <<>>
       \/ slave_bus = "idle" /\ fifo = <<>> /\ answer = <<reads % 256>>

\* ... or was refused, and the read hangs.
Refused == Handled /\ slave_bus = "held" /\ fifo = <<>> /\ answer = <<>>

SInv == reads \in Nat /\ (NoRead \/ Asked \/ Answered \/ Refused)

-----------------------------------------------------------------------------
\* At the start nothing is under way.
LEMMA InitSInv == Slave!Init => SInv
BY DEF Slave!Init, SInv, NoRead, Clear

\* The main program: no request is under way but the one it waits for.
LEMMA MainSInv ==
    ASSUME SInv, Slave!MainStep
    PROVE  SInv'
<1>1. CASE \/ Slave!Disable \/ Slave!Address \/ Slave!SlaveMode \/ Slave!Unmask
           \/ Slave!Enable \/ Slave!RequestIrq
  <2>1. /\ slave_pc \in {"disable", "sar", "con", "mask", "enable", "request"}
        /\ slave_pc' \in {"sar", "con", "mask", "enable", "request", "issue"}
        /\ UNCHANGED <<reads, slave_data, handler, i2c_slave_data, rd_req, tx_abrt, fifo, slave_bus,
                       answer>>
    BY <1>1 DEF Slave!Disable, Slave!Address, Slave!SlaveMode, Slave!Unmask, Slave!Enable,
                Slave!RequestIrq, Slave!SetEnable, Slave!SetReg, Slave!Main, Slave!isr, Slave!intr
  <2> QED  BY <2>1 DEF SInv, NoRead, Asked, Answered, Refused, Handled, Clear
<1>2. CASE Slave!Issue
  <2>1. /\ slave_pc = "issue" /\ slave_pc' = "wait" /\ slave_bus' = "address"
        /\ UNCHANGED <<reads, slave_data, handler, i2c_slave_data, rd_req, tx_abrt, fifo, answer>>
    BY <1>2 DEF Slave!Issue, Slave!Main, Slave!isr, Slave!intr
  <2>2. NoRead
    BY <2>1 DEF SInv, Asked, Answered, Refused, Handled
  <2> QED  BY <2>1, <2>2 DEF SInv, NoRead, Asked, Clear
<1>3. CASE Slave!Return
  <2>1. /\ slave_pc = "wait" /\ slave_pc' = "print" /\ handler = "none" /\ answer # <<>>
        /\ slave_data' = answer[1] /\ answer' = <<>>
        /\ UNCHANGED <<reads, handler, i2c_slave_data, rd_req, tx_abrt, fifo, slave_bus>>
    BY <1>3 DEF Slave!Return, Slave!Main, Slave!isr, Slave!intr
  <2>2. Answered /\ slave_bus = "idle"
    BY <2>1 DEF SInv, NoRead, Asked, Answered, Refused
  <2> QED  BY <2>1, <2>2 DEF SInv, NoRead, Answered, Handled, Clear
<1>4. CASE Slave!PrintAndDelay
  <2>1. /\ slave_pc = "print" /\ slave_pc' = "issue" /\ reads' = reads + 1
        /\ UNCHANGED <<slave_data, handler, i2c_slave_data, rd_req, tx_abrt, fifo,
                       slave_bus, answer>>
    BY <1>4 DEF Slave!PrintAndDelay, Slave!Main, Slave!isr, Slave!intr
  <2>2. NoRead
    BY <2>1 DEF SInv, Asked, Answered, Refused, Handled
  <2> QED  BY <2>1, <2>2 DEF SInv, NoRead, Clear
<1> QED  BY <1>1, <1>2, <1>3, <1>4 DEF Slave!MainStep

\* The handler answers the request it was raised for, once.
LEMMA HandlerSInv ==
    ASSUME SInv, Slave!HandlerStep
    PROVE  SInv'
<1>1. CASE Slave!Interrupt
  <2>1. /\ handler = "none" /\ (rd_req \/ tx_abrt) /\ handler' = "write"
        /\ UNCHANGED <<slave_pc, reads, slave_data, i2c_slave_data, rd_req, tx_abrt, fifo,
                       slave_bus, answer>>
    BY <1>1 DEF Slave!Interrupt, Slave!Line, Slave!main, Slave!intr
  <2>2. Asked /\ slave_bus = "held"
    BY <2>1 DEF SInv, NoRead, Asked, Answered, Refused, Handled, Clear
  <2> QED  BY <2>1, <2>2 DEF SInv, Asked
<1>2. CASE Slave!WriteData
  <2>1. /\ handler = "write" /\ handler' = "clear" /\ i2c_slave_data' = i2c_slave_data + 1
        /\ fifo' = <<>> \/ fifo' = Append(fifo, i2c_slave_data % 256)
        /\ UNCHANGED <<slave_pc, reads, slave_data, rd_req, slave_bus, answer>>
    BY <1>2 DEF Slave!WriteData, Slave!main
  <2>2. Asked /\ slave_bus = "held"
    BY <2>1 DEF SInv, NoRead, Asked, Answered, Refused, Handled
  <2>3. fifo' = <<>> \/ fifo' = <<reads % 256>>
    BY <2>1, <2>2 DEF Asked
  <2> QED  BY <2>1, <2>2, <2>3 DEF SInv, Asked, Answered, Refused, Handled
<1>3. CASE Slave!ClearIntr
  <2>1. /\ handler = "clear" /\ handler' = "none" /\ rd_req' = FALSE /\ tx_abrt' = FALSE
        /\ UNCHANGED <<slave_pc, reads, slave_data, i2c_slave_data, fifo, slave_bus, answer>>
    BY <1>3 DEF Slave!ClearIntr, Slave!main
  <2>2. Answered \/ Refused
    BY <2>1 DEF SInv, NoRead, Asked
  <2> QED  BY <2>1, <2>2 DEF SInv, Answered, Refused, Handled, Clear
<1> QED  BY <1>1, <1>2, <1>3 DEF Slave!HandlerStep

\* The bus asks once for a read, and the byte goes to the read it was asked for.
LEMMA BusSInv ==
    ASSUME SInv, Slave!BusStep
    PROVE  SInv'
<1>1. CASE Slave!ReadRequest
  <2>1. /\ slave_bus = "address" /\ slave_bus' = "held" /\ rd_req' = TRUE
        /\ tx_abrt' = (tx_abrt \/ fifo # <<>>) /\ fifo' = <<>>
        /\ UNCHANGED <<slave_pc, reads, slave_data, handler, i2c_slave_data, answer>>
    BY <1>1 DEF Slave!ReadRequest, Slave!main, Slave!isr
  <2>2. Asked
    BY <2>1 DEF SInv, NoRead, Answered, Refused
  <2>3. tx_abrt' = FALSE
    BY <2>1, <2>2, Zenon DEF Asked
  <2> QED  BY <2>1, <2>2, <2>3 DEF SInv, Asked
<1>2. CASE Slave!Transmit
  <2>1. /\ slave_bus = "held" /\ slave_bus' = "idle" /\ fifo # <<>>
        /\ answer' = <<Head(fifo)>> /\ fifo' = Tail(fifo)
        /\ UNCHANGED <<slave_pc, reads, slave_data, handler, i2c_slave_data, rd_req, tx_abrt>>
    BY <1>2 DEF Slave!Transmit, Slave!main, Slave!isr, Slave!intr
  <2>2. Answered /\ fifo = <<reads % 256>>
    BY <2>1 DEF SInv, NoRead, Asked, Answered, Refused
  <2>3. answer' = <<reads % 256>> /\ fifo' = <<>>
    BY <2>1, <2>2
  <2> QED  BY <2>1, <2>2, <2>3 DEF SInv, Answered, Handled, Clear
<1> QED  BY <1>1, <1>2 DEF Slave!BusStep

\* Every step keeps the invariant.
LEMMA NextSInv == SInv /\ [Slave!Next]_(Slave!vars) => SInv'
<1> SUFFICES ASSUME SInv, [Slave!Next]_(Slave!vars) PROVE SInv'
  OBVIOUS
<1>1. CASE Slave!Over \/ UNCHANGED Slave!vars
  <2>1. UNCHANGED <<slave_pc, reads, slave_data, handler, i2c_slave_data, rd_req, tx_abrt, fifo,
                       slave_bus, answer>>
    BY <1>1 DEF Slave!Over, Slave!vars, Slave!main, Slave!isr, Slave!intr
  <2> QED  BY <2>1 DEF SInv, NoRead, Asked, Answered, Refused, Handled, Clear
<1> QED  BY <1>1, MainSInv, HandlerSInv, BusSInv DEF Slave!Next

\* Each read of test_i2c_slave() has at most one answer under way, which is its own.
THEOREM SlaveInvariant == I2cSpec => [](part = "slave" => SInv)
<1>1. I2cInit => (part = "slave" => SInv)
  BY InitSInv DEF I2cInit
<1>2. (part = "slave" => SInv) /\ [I2cNext]_i2cVars => (part = "slave" => SInv)'
  <2> SUFFICES ASSUME part = "slave" => SInv, [I2cNext]_i2cVars, (part = "slave")'
               PROVE  SInv'
    OBVIOUS
  <2>1. CASE InSlave(Slave!Next)
    BY <2>1, NextSInv DEF InSlave
  <2>2. CASE UNCHANGED i2cVars
    BY <2>2, NextSInv DEF i2cVars, slaveVars, Slave!vars, Slave!main, Slave!isr, Slave!intr
  <2>3. CASE InMaster(Next)
    BY <2>3 DEF InMaster
  <2> QED
    BY <2>1, <2>2, <2>3 DEF I2cNext, InSlave, Slave!Next
<1> QED  BY <1>1, <1>2, PTL DEF I2cSpec

\* What test_i2c_slave() prints counts up from 0, however often it reads; that it goes on
\* printing is another matter.
THEOREM BytesCountUp == I2cSpec => []ReadsCountUp
<1>1. (part = "slave" => SInv) => ReadsCountUp
  BY DEF SInv, NoRead, Asked, Answered, Refused, Handled, ReadsCountUp, Slave!ReadsCountUp
<1> QED  BY <1>1, SlaveInvariant, PTL

-----------------------------------------------------------------------------
\* The SPI demos.

\* What the controller holds that has not arrived
InFlight(queue, wire) == txfifo = queue /\ shifting = wire
Nothing == InFlight(<<>>, <<>>)

\* The byte b was written and not more.
Under(b) == InFlight(<<b>>, <<>>) \/ InFlight(<<>>, <<b>>) \/ Nothing

SetUpSteps == {"disable", "ctrl0", "ser", "enable", "dir", "reset", "work"}

\* The byte of the last call of oled_write() is still on the wire.
LastOnWire == nth > 1 /\ shifting = <<Script[nth - 1]>>

\* test_spi_oled(): the next call of oled_write() finds the last byte of this one at most on the
\* wire, and waits until its own byte is there: TXFLR is 0 only then.
KindInv ==
    ~loop =>
        /\ nth \in Nat \ {0} /\ spi_pc \in SetUpSteps \cup {"dc", "dr", "drain", "done"}
        /\ spi_pc \in {"dir", "reset", "work", "dc", "dr", "drain", "done"} => enr = TRUE
        /\ spi_pc \in SetUpSteps => Nothing
        /\ spi_pc \in {"dc", "dr", "done"} => txfifo = <<>> /\ (shifting = <<>> \/ LastOnWire)
        /\ spi_pc \in {"dc", "done"} /\ LastOnWire => dc = (Script[nth - 1].kind = "data")
        /\ spi_pc \in {"dr", "drain"} => dc = (Script[nth].kind = "data")
        /\ spi_pc = "drain" => Under(Script[nth]) \/ (LastOnWire /\ txfifo = <<Script[nth]>>)

\* Nothing is on the way when the program starts.
LEMMA KindInit == DemoInit => KindInv
BY DEF DemoInit, SpiInit, KindInv, SetUpSteps, Nothing, InFlight

\* LOOP is a build option.
LEMMA LoopKept == [DemoNext]_demoVars => loop' = loop
BY DEF DemoNext, test_spi, Controller, Finished, demoVars, prog, InitOff, Ctrl0, Ser, InitOn,
   Dir, Reset, Work, DcSet, Write, Drain, Read, LoadByte, ByteArrives

\* Every step of the panel's program and of the controller keeps it.
LEMMA KindNext == KindInv /\ [DemoNext]_demoVars => KindInv'
<1> SUFFICES ASSUME KindInv, [DemoNext]_demoVars, ~loop, loop' = loop PROVE KindInv'
  BY LoopKept DEF KindInv
<1> USE DEF KindInv, SetUpSteps, Nothing, InFlight, Under, LastOnWire, To, prog, spivars, gpio
<1>1. CASE InitOff \/ Ctrl0 \/ Ser \/ InitOn
  BY <1>1 DEF InitOff, Ctrl0, Ser, InitOn, SpiDisable, SpiConfigure, SpiSelect, SpiEnable
<1>2. CASE Dir \/ Reset \/ Work
  <2>1. /\ txfifo' = <<>> /\ shifting' = <<>> /\ nth' = nth /\ nth \in Nat \ {0} /\ enr' = TRUE
        /\ spi_pc' \in {"reset", "work", "dc"}
    BY <1>2 DEF Dir, Reset, Work
  <2>2. ~LastOnWire'
    BY <2>1
  <2> QED  BY <2>1, <2>2
<1>3. CASE DcSet
  BY <1>3 DEF DcSet
<1>4. CASE Write
  <2>1. Bytes[nth] = Script[nth]
    BY DEF Bytes
  <2>2. txfifo' = <<Script[nth]>>
    BY <1>4, <2>1, FifoAssumption DEF Write, WriteDr
  <2>3. /\ spi_pc' = "drain" /\ UNCHANGED <<enr, nth, shifting, dc>>
        /\ nth \in Nat \ {0} /\ enr = TRUE /\ dc = (Script[nth].kind = "data")
        /\ shifting = <<>> \/ LastOnWire
    BY <1>4 DEF Write, WriteDr
  <2> QED  BY <2>2, <2>3
<1>5. CASE Drain
  <2>1. txfifo = <<>>
    <3>1. Len(<<Script[nth]>>) = 1  OBVIOUS
    <3> QED  BY <1>5, <3>1 DEF Drain, TxLevel
  <2>2. /\ nth' = nth + 1 /\ nth' - 1 = nth /\ nth' > 1 /\ nth' \in Nat \ {0}
        /\ spi_pc' \in {"dc", "done"} /\ UNCHANGED <<enr, txfifo, shifting, dc>>
    BY <1>5 DEF Drain, NextByte
  <2>3. enr = TRUE /\ dc = (Script[nth].kind = "data") /\ (shifting = <<>> \/ shifting = <<Script[nth]>>)
    BY <1>5, <2>1 DEF Drain
  <2> QED  BY <2>1, <2>2, <2>3
<1>6. CASE LoadByte
  <2>1. spi_pc = "drain" /\ txfifo = <<Script[nth]>>
    BY <1>6 DEF LoadByte, SpiLoad
  <2>2. txfifo' = <<>> /\ shifting' = <<Script[nth]>>
    BY <1>6, <2>1 DEF LoadByte, SpiLoad
  <2> QED  BY <1>6, <2>1, <2>2 DEF LoadByte, SpiLoad
<1>7. CASE ByteArrives
  BY <1>7 DEF ByteArrives, Shifted
<1>8. CASE Read \/ Finished \/ UNCHANGED demoVars
  BY <1>8 DEF Read, Finished, demoVars
<1> QED
  BY <1>1, <1>2, <1>3, <1>4, <1>5, <1>6, <1>7, <1>8 DEF DemoNext, test_spi, Controller

\* The wait for TXFLR = 0, without one for the shift register: D/C may change under a byte on
\* the wire, but only under the last one of a run of commands or of data, and not for longer
\* than the wait of the call behind it.  This holds however deep the FIFO is, however slow the
\* controller, and whatever an earlier stage left in it.
THEOREM OnlyLastAtRisk == DemoSpec => []LastOfRunAtRisk
<1>1. KindInv => LastOfRunAtRisk
  <2> SUFFICES ASSUME KindInv, ~loop, shifting # <<>>, dc # (shifting[1].kind = "data")
               PROVE  /\ spi_pc \in {"dr", "drain"} /\ nth > 1
                      /\ shifting[1] = Script[nth - 1]
                      /\ Script[nth].kind # Script[nth - 1].kind
    BY DEF LastOfRunAtRisk
  <2> USE DEF KindInv, SetUpSteps, Nothing, InFlight, Under, LastOnWire
  <2>1. spi_pc \in {"dr", "drain"} /\ dc = (Script[nth].kind = "data")
    OBVIOUS
  <2>2. shifting # <<Script[nth]>>
    BY <2>1
  <2>3. LastOnWire
    BY <2>1, <2>2
  <2> QED  BY <2>1, <2>3
<1> QED  BY <1>1, KindInit, KindNext, PTL DEF DemoSpec

-----------------------------------------------------------------------------
\* test_looptest(): from spi_enable(1) on the FIFOs hold at most the byte that was written last,
\* and what was read is what was written before it.
Fresh == Nothing /\ rxfifo = <<>>

LoopInv ==
    loop =>
        /\ spi_pc \in {"disable", "ctrl0", "ser", "enable", "dr", "drain", "read", "done"}
        /\ nth \in 1 .. 13 /\ (spi_pc # "done" => nth \in 1 .. 12) /\ default_rx \in Seq(Nat)
        /\ Len(default_rx) = nth - 1 /\ \A i \in 1 .. (nth - 1) : default_rx[i] = Tx[i]
        /\ spi_pc = "done" => nth = 13
        /\ spi_pc = "disable" => Nothing
        /\ spi_pc \in {"ctrl0", "ser", "enable"} => Fresh
        /\ spi_pc = "ctrl0" => ~enr
        /\ spi_pc \notin {"disable", "ctrl0"} => ctrl = "set" /\ srl
        /\ spi_pc \in {"ser", "enable"} => ~enr
        /\ spi_pc \notin {"disable", "ctrl0", "ser", "enable"} => enr
        /\ spi_pc \in {"dr", "done"} => Fresh
        /\ spi_pc \in {"drain", "read"} =>
              \/ ~Nothing /\ Under(Datum(Tx[nth])) /\ rxfifo = <<>>
              \/ Nothing /\ rxfifo = <<Tx[nth]>>
        /\ spi_pc = "read" => txfifo = <<>>

\* An earlier stage may have left a byte in the receive FIFO; spi_init() clears it.
LEMMA LoopInit == DemoInit => LoopInv
BY DEF DemoInit, SpiInit, LoopInv, Nothing, InFlight

\* Every step of the loop test and of the controller keeps it.
LEMMA LoopNext == LoopInv /\ [DemoNext]_demoVars => LoopInv'
<1> SUFFICES ASSUME LoopInv, [DemoNext]_demoVars, loop, loop' = loop PROVE LoopInv'
  BY LoopKept DEF LoopInv
<1> USE DEF LoopInv, Fresh, Nothing, InFlight, Under, To, prog, spivars, gpio
<1>1. CASE InitOff \/ Ctrl0 \/ Ser \/ InitOn
  BY <1>1 DEF InitOff, Ctrl0, Ser, InitOn, SpiDisable, SpiConfigure, SpiSelect, SpiEnable
<1>2. CASE Dir \/ Reset \/ Work \/ DcSet
  BY <1>2 DEF Dir, Reset, Work, DcSet
<1>3. CASE Write
  <2>1. Bytes[nth] = Datum(Tx[nth])
    BY <1>3 DEF Bytes, Tx, Write
  <2>2. txfifo' = <<Datum(Tx[nth])>>
    BY <1>3, <2>1, FifoAssumption DEF Write, WriteDr
  <2>3. /\ spi_pc = "dr" /\ spi_pc' = "drain" /\ nth' = nth /\ default_rx' = default_rx
        /\ UNCHANGED <<enr, ctrl, srl, shifting, rxfifo>>
    BY <1>3 DEF Write, WriteDr
  <2> QED  BY <2>2, <2>3
<1>4. CASE Drain
  <2>1. txfifo = <<>>
    <3>1. Len(<<Datum(Tx[nth])>>) = 1  OBVIOUS
    <3> QED  BY <1>4, <3>1 DEF Drain, TxLevel
  <2>2. /\ spi_pc = "drain" /\ spi_pc' = "read" /\ nth' = nth /\ default_rx' = default_rx
        /\ UNCHANGED <<enr, ctrl, srl, txfifo, shifting, rxfifo>>
    BY <1>4 DEF Drain
  <2>5. /\ nth \in 1 .. 12 /\ default_rx \in Seq(Nat) /\ Len(default_rx) = nth - 1
        /\ \A i \in 1 .. (nth - 1) : default_rx[i] = Tx[i]
        /\ ctrl = "set" /\ srl /\ enr
    BY <2>2
  <2>6. nth' = nth /\ default_rx' = default_rx /\ ctrl' = "set" /\ srl' /\ enr' /\ spi_pc' = "read" /\ txfifo' = <<>>
    BY <2>1, <2>2, <2>5
  <2>3. CASE shifting = <<>>
    BY <2>1, <2>2, <2>3, <2>5, <2>6
  <2>4. CASE shifting = <<Datum(Tx[nth])>>
    BY <2>1, <2>2, <2>4, <2>5, <2>6
  <2>7. shifting = <<>> \/ shifting = <<Datum(Tx[nth])>>
    BY <2>1, <2>2
  <2> QED  BY <2>3, <2>4, <2>7
<1>5. CASE Read
  <2>0. spi_pc = "read" /\ Len(rxfifo) # 0 /\ rxfifo' = Tail(rxfifo) /\ nth \in 1 .. 12
    BY <1>5 DEF Read, RxLevel, ReadDr
  <2>1. Nothing /\ rxfifo = <<Tx[nth]>> /\ rxfifo' = <<>>
    <3>1. rxfifo # <<>>  BY <2>0
    <3>2. Nothing /\ rxfifo = <<Tx[nth]>>  BY <2>0, <3>1
    <3> QED  BY <2>0, <3>2
  <2>2. default_rx' = Append(default_rx, Tx[nth]) /\ Tx[nth] \in Nat
    <3>1. Head(rxfifo) = Tx[nth]  BY <2>1
    <3>2. Tx[nth] \in Nat
      <4>1. Tx \in Seq(Nat) /\ Len(Tx) = 12  BY DEF Tx
      <4> HIDE DEF Tx
      <4> QED  BY <2>0, <4>1, ElementOfSeq
    <3> QED  BY <1>5, <3>1, <3>2 DEF Read
  <2>3. Len(Bytes) = 12
    BY DEF Bytes, Tx
  <2>4. nth' = nth + 1 /\ spi_pc' = IF nth = 12 THEN "done" ELSE "dr"
    BY <1>5, <2>3 DEF Read, NextByte
  <2>6. /\ nth \in 1 .. 12 /\ default_rx \in Seq(Nat) /\ Len(default_rx) = nth - 1
        /\ \A i \in 1 .. (nth - 1) : default_rx[i] = Tx[i]
        /\ ctrl = "set" /\ srl /\ enr
    BY <2>0
  <2>5. /\ default_rx' \in Seq(Nat) /\ Len(default_rx') = nth
        /\ \A i \in 1 .. nth : default_rx'[i] = Tx[i]
    <3> DEFINE b == Tx[nth]
    <3> HIDE DEF LoopInv
    <3>1. ASSUME NEW i \in 1 .. nth PROVE Append(default_rx, b)[i] = Tx[i]
      <4>1. CASE i = nth
        BY <2>6, <4>1
      <4>2. CASE i # nth
        BY <2>6, <4>2
      <4> QED  BY <4>1, <4>2
    <3>2. b \in Nat
      BY <2>2
    <3> HIDE DEF b
    <3>3. Append(default_rx, b) \in Seq(Nat) /\ Len(Append(default_rx, b)) = nth
      BY <2>6, <3>2
    <3> QED  BY <2>2, <3>1, <3>3 DEF b
  <2>7. ctrl' = "set" /\ srl' /\ enr' /\ nth' - 1 = nth /\ nth' \in 1 .. 13
    BY <1>5, <2>4, <2>6 DEF Read, ReadDr
  <2>8. txfifo' = <<>> /\ shifting' = <<>>
    BY <1>5, <2>1 DEF Read, ReadDr
  <2> QED  BY <2>1, <2>4, <2>5, <2>6, <2>7, <2>8
<1>6. CASE LoadByte
  <2>1. spi_pc = "drain" /\ txfifo = <<Datum(Tx[nth])>>
    BY <1>6 DEF LoadByte, SpiLoad
  <2>2. txfifo' = <<>> /\ shifting' = <<Datum(Tx[nth])>>
    BY <1>6, <2>1 DEF LoadByte, SpiLoad
  <2> QED  BY <1>6, <2>1, <2>2 DEF LoadByte, SpiLoad
<1>7. CASE ByteArrives
  <2>1. spi_pc \in {"drain", "read"} /\ shifting = <<Datum(Tx[nth])>> /\ rxfifo = <<>> /\ txfifo = <<>>
    BY <1>7 DEF ByteArrives, Shifted
  <2>2. rxfifo' = <<Tx[nth]>>
    BY <1>7, <2>1, FifoAssumption DEF ByteArrives, Shifted, Datum
  <2> QED  BY <1>7, <2>1, <2>2 DEF ByteArrives, Shifted
<1>8. CASE Finished \/ UNCHANGED demoVars
  BY <1>8 DEF Finished, demoVars
<1> QED
  BY <1>1, <1>2, <1>3, <1>4, <1>5, <1>6, <1>7, <1>8 DEF DemoNext, test_spi, Controller

\* The comment at the head of test_spi.c: what is sent comes back.
ReadBack == loop /\ spi_pc = "done" => default_rx = Tx

\* test_looptest(): default_rx is default_tx in the end, for every depth of the FIFOs, in
\* whatever mode an earlier stage left the controller and however slow it is.
THEOREM ReadsBack == DemoSpec => []ReadBack
<1>1. LoopInv => ReadBack
  <2> SUFFICES ASSUME LoopInv, loop, spi_pc = "done" PROVE default_rx = Tx
    BY DEF ReadBack
  <2>1. default_rx \in Seq(Nat) /\ Len(default_rx) = 12 /\ \A i \in 1 .. 12 : default_rx[i] = Tx[i]
    BY DEF LoopInv
  <2>2. Tx \in Seq(Nat) /\ Len(Tx) = 12
    BY DEF Tx
  <2> QED  BY <2>1, <2>2, SeqEqual
<1> QED  BY <1>1, LoopInit, LoopNext, PTL DEF DemoSpec

-----------------------------------------------------------------------------
\* test_spi_oled(): the bytes it sends, by their places.

Cell == [kind : {"cmd", "data"}, val : Nat]

\* The j-th byte of oled_set_pos(x, pg) and data behind it, of a row of oled_clear(), and of a half
\* of oled_show_font_16()
PageByte(pg) == Command(176 + pg)
HighByte(x) == Command(x \div 16 + 16)
LowByte(x) == Command(x % 16)
SendByte(pg, x, v, j) ==
    IF j = 1 THEN PageByte(pg) ELSE IF j = 2 THEN HighByte(x) ELSE IF j = 3 THEN LowByte(x)
    ELSE Datum(v)
RowByte(r, j) == SendByte(r, 0, 0, j)
HalfByte(x, y, idx, half, j) == SendByte(y + half, x, Font(idx, half, j - 4), j)
RowBytes == 131

\* A sequence of n cells, by its cells
IsPart(s, n) == s \in Seq(Cell) /\ Len(s) = n

\* The sequence u is the m cells of s and behind them the n cells of t.
Joined(u, s, m, t, n) ==
    /\ IsPart(u, m + n)
    /\ \A j \in 1 .. m : u[j] = s[j]
    /\ \A j \in 1 .. n : u[m + j] = t[j]

\* One part behind another
LEMMA Behind ==
    ASSUME NEW s, NEW t, NEW m \in Nat, NEW n \in Nat, IsPart(s, m), IsPart(t, n)
    PROVE  Joined(s \o t, s, m, t, n)
<1>1. s \in Seq(Cell) /\ t \in Seq(Cell) /\ Len(s) = m /\ Len(t) = n
  BY DEF IsPart
<1>2. /\ s \o t \in Seq(Cell) /\ Len(s \o t) = m + n
      /\ \A i \in 1 .. m + n : (s \o t)[i] = IF i <= m THEN s[i] ELSE t[i - m]
  BY <1>1, ConcatProperties
<1>3. ASSUME NEW j \in 1 .. n PROVE (s \o t)[m + j] = t[j]
  <2>1. m + j \in 1 .. m + n /\ ~(m + j <= m) /\ m + j - m = j
    OBVIOUS
  <2> QED  BY <1>2, <2>1
<1>4. \A j \in 1 .. m : (s \o t)[j] = s[j]
  BY <1>2
<1> QED  BY <1>2, <1>3, <1>4 DEF IsPart, Joined

\* Cells
LEMMA CellsAre == ASSUME NEW v \in Nat PROVE Command(v) \in Cell /\ Datum(v) \in Cell
BY DEF Command, Datum, Cell

\* oled_set_pos()
LEMMA SetPosIs ==
    ASSUME NEW c \in Cols, NEW r \in Pages
    PROVE  /\ IsPart(SetPos(c, r), 3)
           /\ SetPos(c, r)[1] = PageByte(r) /\ SetPos(c, r)[2] = HighByte(c)
           /\ SetPos(c, r)[3] = LowByte(c)
<1>1. 176 + r \in Nat /\ c \div 16 + 16 \in Nat /\ c % 16 \in Nat
  BY DEF Cols, Pages
<1> DEFINE a == Command(176 + r)
           b == Command(c \div 16 + 16)
           d == Command(c % 16)
<1>2. a \in Cell /\ b \in Cell /\ d \in Cell
  BY <1>1, CellsAre
<1> HIDE DEF a, b, d
<1>3. IsPart(<<a, b, d>>, 3) /\ <<a, b, d>>[1] = a /\ <<a, b, d>>[2] = b /\ <<a, b, d>>[3] = d
  BY <1>2 DEF IsPart
<1> QED  BY <1>3 DEF SetPos, PageByte, HighByte, LowByte, a, b, d

\* One row of oled_clear()
LEMMA RowIs ==
    ASSUME NEW r \in 0 .. 7
    PROVE  /\ IsPart(SetPos(0, r) \o ClearRow(r), 131)
           /\ \A j \in 1 .. 131 : (SetPos(0, r) \o ClearRow(r))[j] = RowByte(r, j)
<1> DEFINE s == SetPos(0, r)
           t == ClearRow(r)
           w == 128
<1>1. /\ IsPart(s, 3) /\ s[1] = PageByte(r) /\ s[2] = HighByte(0) /\ s[3] = LowByte(0)
  <2>1. 0 \in Cols /\ r \in Pages
    BY DEF Cols, Pages
  <2> QED  BY <2>1, SetPosIs, Zenon
<1>2. IsPart(t, w) /\ \A j \in 1 .. w : t[j] = Datum(0)
  <2>1. Datum(0) \in Cell
    BY CellsAre
  <2> QED  BY <2>1 DEF ClearRow, IsPart
<1> HIDE DEF s, t, w
<1>3. Joined(s \o t, s, 3, t, w)
  <2>1. 3 \in Nat /\ w \in Nat
    BY DEF w
  <2> QED  BY <1>1, <1>2, <2>1, Behind
<1>5. IsPart(s \o t, 131)
  BY <1>3 DEF Joined, IsPart, w
<1>6. /\ \A j \in 1 .. 3 : (s \o t)[j] = s[j]
      /\ \A j \in 1 .. w : (s \o t)[3 + j] = t[j]
  BY <1>3, Zenon DEF Joined
<1>4. ASSUME NEW j \in 1 .. 131 PROVE (s \o t)[j] = RowByte(r, j)
  <2>1. CASE j \in 1 .. 3
    <3>1. (s \o t)[j] = s[j]
      BY <1>6, <2>1, Zenon
    <3>2. j = 1 \/ j = 2 \/ j = 3
      BY <2>1
    <3> QED  BY <1>1, <3>1, <3>2 DEF RowByte, SendByte
  <2>2. CASE j \notin 1 .. 3
    <3>1. PICK i \in 1 .. w : j = 3 + i
      <4>1. j - 3 \in 1 .. w /\ j = 3 + (j - 3)
        BY <2>2 DEF w
      <4> QED  BY <4>1
    <3>2. (s \o t)[3 + i] = Datum(0)
      BY <1>2, <1>6, Zenon
    <3>3. j # 1 /\ j # 2 /\ j # 3
      BY <2>2
    <3> QED  BY <3>1, <3>2, <3>3 DEF RowByte, SendByte
  <2> QED  BY <2>1, <2>2
<1> QED  BY <1>4, <1>5 DEF s, t

\* The bytes of the font are numbers.
LEMMA FontIs ==
    ASSUME NEW idx \in 0 .. 3, NEW half \in 0 .. 1, NEW t \in 0 .. 31 PROVE Font(idx, half, t) \in Nat
BY DEF Font

\* A half of a character
LEMMA HalfIs ==
    ASSUME NEW x \in 0 .. 127, NEW y \in 0 .. 6, NEW idx \in 0 .. 3, NEW half \in 0 .. 1
    PROVE  /\ IsPart(ShowHalf(x, y, idx, half), 35)
           /\ \A j \in 1 .. 35 : ShowHalf(x, y, idx, half)[j] = HalfByte(x, y, idx, half, j)
<1> DEFINE s == SetPos(x, y + half)
           t == [i \in 1..32 |-> Datum(Font(idx, half, i - 1))]
<1>1. /\ IsPart(s, 3) /\ s[1] = PageByte(y + half) /\ s[2] = HighByte(x) /\ s[3] = LowByte(x)
  <2>1. x \in Cols /\ y + half \in Pages
    BY DEF Cols, Pages
  <2> QED  BY <2>1, SetPosIs, Zenon
<1>2. IsPart(t, 32) /\ \A j \in 1 .. 32 : t[j] = Datum(Font(idx, half, j - 1))
  <2>1. ASSUME NEW i \in 1 .. 32 PROVE Datum(Font(idx, half, i - 1)) \in Cell
    <3>1. i - 1 \in 0 .. 31
      OBVIOUS
    <3>2. Font(idx, half, i - 1) \in Nat
      BY <3>1, FontIs, Zenon
    <3> QED  BY <3>2, CellsAre
  <2> QED  BY <2>1 DEF IsPart
<1>3. ShowHalf(x, y, idx, half) = s \o t
  BY DEF ShowHalf
<1> HIDE DEF s, t
<1>4. /\ IsPart(s \o t, 35) /\ \A j \in 1 .. 3 : (s \o t)[j] = s[j]
      /\ \A j \in 1 .. 32 : (s \o t)[3 + j] = t[j]
  <2>1. 3 \in Nat /\ 32 \in Nat
    OBVIOUS
  <2>2. Joined(s \o t, s, 3, t, 32)
    BY <1>1, <1>2, <2>1, Behind
  <2>3. IsPart(s \o t, 35)
    BY <2>2 DEF Joined, IsPart
  <2> QED  BY <2>2, <2>3, Zenon DEF Joined
<1>5. ASSUME NEW j \in 1 .. 35 PROVE (s \o t)[j] = HalfByte(x, y, idx, half, j)
  <2>1. CASE j \in 1 .. 3
    <3>1. (s \o t)[j] = s[j]
      BY <1>4, <2>1, Zenon
    <3>2. j = 1 \/ j = 2 \/ j = 3
      BY <2>1
    <3> QED  BY <1>1, <3>1, <3>2 DEF HalfByte, SendByte
  <2>2. CASE j \notin 1 .. 3
    <3>1. PICK i \in 1 .. 32 : j = 3 + i
      <4>1. j - 3 \in 1 .. 32 /\ j = 3 + (j - 3)
        BY <2>2
      <4> QED  BY <4>1
    <3>2. (s \o t)[3 + i] = Datum(Font(idx, half, i - 1))
      BY <1>2, <1>4
    <3>3. i - 1 = j - 4
      BY <3>1
    <3>4. (s \o t)[j] = Datum(Font(idx, half, j - 4))
      BY <3>1, <3>2, <3>3
    <3>5. j # 1 /\ j # 2 /\ j # 3
      BY <2>2
    <3> QED  BY <3>4, <3>5 DEF HalfByte, SendByte
  <2> QED  BY <2>1, <2>2
<1> QED  BY <1>3, <1>4, <1>5

\* The first i rows of oled_clear()
Rows(u, i) ==
    /\ IsPart(u, 131 * i)
    /\ \A r \in 0 .. 7 : r < i => \A j \in 1 .. 131 : u[131 * r + j] = RowByte(r, j)

\* One row more
LEMMA NextRow ==
    ASSUME NEW u, NEW i \in 0 .. 7, Rows(u, i)
    PROVE  Rows(u \o (SetPos(0, i) \o ClearRow(i)), i + 1)
<1> DEFINE row == SetPos(0, i) \o ClearRow(i)
           m == 131 * i
<1>1. IsPart(row, 131) /\ \A j \in 1 .. 131 : row[j] = RowByte(i, j)
  BY RowIs, Zenon
<1>2. m \in Nat /\ 131 \in Nat /\ m + 131 = 131 * (i + 1)
  OBVIOUS
<1>3. IsPart(u, m)
  BY Zenon DEF Rows
<1> HIDE DEF row, m
<1>4. Joined(u \o row, u, m, row, 131)
  BY <1>1, <1>2, <1>3, Behind
<1>5. IsPart(u \o row, 131 * (i + 1))
  BY <1>2, <1>4 DEF Joined, IsPart
<1>6. ASSUME NEW r \in 0 .. 7, r < i + 1, NEW j \in 1 .. 131
      PROVE  (u \o row)[131 * r + j] = RowByte(r, j)
  <2>1. CASE r = i
    <3>1. (u \o row)[m + j] = row[j]
      BY <1>4, Zenon DEF Joined
    <3>2. m + j = 131 * r + j
      BY <2>1 DEF m
    <3>3. row[j] = RowByte(r, j)
      BY <1>1, <2>1, Zenon
    <3> QED  BY <3>1, <3>2, <3>3
  <2>2. CASE r < i
    <3>1. 131 * r + j \in 1 .. m
      BY <2>2 DEF m
    <3>2. (u \o row)[131 * r + j] = u[131 * r + j]
      BY <1>4, <3>1, Zenon DEF Joined
    <3>3. u[131 * r + j] = RowByte(r, j)
      BY <2>2, Zenon DEF Rows
    <3> QED  BY <3>2, <3>3, Zenon
  <2>3. r = i \/ r < i
    BY <1>6
  <2> QED  BY <2>1, <2>2, <2>3
<1> QED  BY <1>5, <1>6, Zenon DEF Rows, row

\* What FlattenSeq has put together when it has come to the i-th row
Flat(s, g) == g = [i \in 1 .. Len(s) |-> IF i = 1 THEN s[i] ELSE g[i - 1] \o s[i]]

\* oled_clear()
LEMMA ClearIs == Rows(oled_clear, 8)
<1> DEFINE Row(i) == SetPos(0, i - 1) \o ClearRow(i - 1)
           rows == [i \in 1 .. 8 |-> Row(i)]
<1>1. \A i \in 1 .. 8 : rows[i] = Row(i)
  OBVIOUS
<1>2. Len(rows) = 8
  OBVIOUS
<1>3. oled_clear = FlattenSeq(rows)
  BY Zenon DEF oled_clear
<1> DEFINE g1 == rows[1]
           g2 == g1 \o rows[2]
           g3 == g2 \o rows[3]
           g4 == g3 \o rows[4]
           g5 == g4 \o rows[5]
           g6 == g5 \o rows[6]
           g7 == g6 \o rows[7]
           g8 == g7 \o rows[8]
           f == [i \in 1 .. 8 |-> IF i = 1 THEN g1 ELSE IF i = 2 THEN g2 ELSE IF i = 3 THEN g3
                    ELSE IF i = 4 THEN g4 ELSE IF i = 5 THEN g5 ELSE IF i = 6 THEN g6
                    ELSE IF i = 7 THEN g7 ELSE g8]
<1> HIDE DEF Row, rows
<1>4. Flat(rows, f)
  <2> DEFINE h == [i \in 1 .. 8 |-> IF i = 1 THEN rows[i] ELSE f[i - 1] \o rows[i]]
  <2>1. ASSUME NEW i \in 1 .. 8 PROVE f[i] = h[i]
    <3>1. CASE i = 1
      BY <3>1
    <3>2. CASE i # 1
      <4>1. i = 2 \/ i = 3 \/ i = 4 \/ i = 5 \/ i = 6 \/ i = 7 \/ i = 8
        BY <3>2
      <4> HIDE DEF g1, g2, g3, g4, g5, g6, g7, g8
      <4>2. /\ f[1] = g1 /\ f[2] = g2 /\ f[3] = g3 /\ f[4] = g4 /\ f[5] = g5 /\ f[6] = g6
            /\ f[7] = g7 /\ f[8] = g8
        OBVIOUS
      <4>3. h[i] = f[i - 1] \o rows[i]
        BY <3>2
      <4>4. /\ g2 = g1 \o rows[2] /\ g3 = g2 \o rows[3] /\ g4 = g3 \o rows[4] /\ g5 = g4 \o rows[5]
            /\ g6 = g5 \o rows[6] /\ g7 = g6 \o rows[7] /\ g8 = g7 \o rows[8]
        BY Zenon DEF g1, g2, g3, g4, g5, g6, g7, g8
      <4> HIDE DEF f, h
      <4>5. /\ f[2] = f[1] \o rows[2] /\ f[3] = f[2] \o rows[3] /\ f[4] = f[3] \o rows[4]
            /\ f[5] = f[4] \o rows[5] /\ f[6] = f[5] \o rows[6] /\ f[7] = f[6] \o rows[7]
            /\ f[8] = f[7] \o rows[8]
        BY <4>2, <4>4, Zenon
      <4>6. f[i] = f[i - 1] \o rows[i]
        BY <4>1, <4>5, 2 - 1 = 1, 3 - 1 = 2, 4 - 1 = 3, 5 - 1 = 4, 6 - 1 = 5, 7 - 1 = 6, 8 - 1 = 7
      <4> QED  BY <4>3, <4>6, Zenon
    <3> QED  BY <3>1, <3>2
  <2>2. f = h
    <3>1. /\ f = [i \in 1 .. 8 |-> f[i]]
          /\ h = [i \in 1 .. 8 |-> h[i]]
      OBVIOUS
    <3> HIDE DEF f, h
    <3>2. [i \in 1 .. 8 |-> f[i]] = [i \in 1 .. 8 |-> h[i]]
      BY <2>1, Zenon
    <3> QED  BY <3>1, <3>2, Zenon
  <2> HIDE DEF f
  <2> QED  BY <1>2, <2>2, Zenon DEF Flat
<1> HIDE DEF f, g1, g2, g3, g4, g5, g6, g7, g8
<1>5. PICK g : Flat(rows, g) /\ FlattenSeq(rows) = g[8]
  <2>0. Len(rows) # 0
    BY <1>2
  <2>1. FlattenSeq(rows) = (CHOOSE g : Flat(rows, g))[Len(rows)]
    BY <2>0, Zenon DEF FlattenSeq, Flat
  <2>2. Flat(rows, CHOOSE g : Flat(rows, g))
    BY <1>4, Zenon
  <2> QED  BY <1>2, <2>1, <2>2, Zenon
<1>6. \A i \in 1 .. 8 : g[i] = IF i = 1 THEN rows[i] ELSE g[i - 1] \o rows[i]
  BY <1>2, <1>5, Zenon DEF Flat
<1>7. Rows(g[1], 1)
  <2>1. g[1] = SetPos(0, 0) \o ClearRow(0)
    <3>1. 1 \in 1 .. 8 /\ 1 - 1 = 0
      OBVIOUS
    <3>2. g[1] = Row(1)
      BY <1>1, <1>6, <3>1, Zenon
    <3> QED  BY <3>1, <3>2 DEF Row
  <2>2. IsPart(g[1], 131) /\ \A j \in 1 .. 131 : g[1][j] = RowByte(0, j)
    <3>1. 0 \in 0 .. 7
      OBVIOUS
    <3> QED  BY <2>1, <3>1, RowIs, Zenon
  <2>3. 131 * 1 = 131
    OBVIOUS
  <2>4. ASSUME NEW r \in 0 .. 7, r < 1, NEW j \in 1 .. 131 PROVE g[1][131 * r + j] = RowByte(r, j)
    <3>1. r = 0 /\ 131 * r + j = j
      BY <2>4
    <3> QED  BY <2>2, <3>1, Zenon
  <2> QED  BY <2>2, <2>3, <2>4, Zenon DEF Rows
<1>8. ASSUME NEW i \in 1 .. 7, Rows(g[i], i) PROVE Rows(g[i + 1], i + 1)
  <2>1. i + 1 \in 1 .. 8 /\ (i + 1) - 1 = i /\ i + 1 # 1 /\ i \in 0 .. 7
    OBVIOUS
  <2>2. g[i + 1] = g[i] \o Row(i + 1)
    <3>1. g[i + 1] = g[(i + 1) - 1] \o rows[i + 1]
      BY <1>6, <2>1, Zenon
    <3>2. g[(i + 1) - 1] = g[i] /\ rows[i + 1] = Row(i + 1)
      BY <1>1, <2>1
    <3> QED  BY <3>1, <3>2, Zenon
  <2>3. Row(i + 1) = SetPos(0, i) \o ClearRow(i)
    BY <2>1, Zenon DEF Row
  <2> QED  BY <1>8, <2>1, <2>2, <2>3, NextRow, Zenon
<1>9. Rows(g[2], 2)
  <2>1. 1 \in 1 .. 7 /\ 1 + 1 = 2
    OBVIOUS
  <2> QED  BY <1>7, <1>8, <2>1
<1>10. Rows(g[4], 4)
  <2>1. 2 \in 1 .. 7 /\ 2 + 1 = 3 /\ 3 \in 1 .. 7 /\ 3 + 1 = 4
    OBVIOUS
  <2> QED  BY <1>9, <1>8, <2>1
<1>11. Rows(g[6], 6)
  <2>1. 4 \in 1 .. 7 /\ 4 + 1 = 5 /\ 5 \in 1 .. 7 /\ 5 + 1 = 6
    OBVIOUS
  <2> QED  BY <1>10, <1>8, <2>1
<1>12. Rows(g[8], 8)
  <2>1. 6 \in 1 .. 7 /\ 6 + 1 = 7 /\ 7 \in 1 .. 7 /\ 7 + 1 = 8
    OBVIOUS
  <2> QED  BY <1>11, <1>8, <2>1
<1> QED  BY <1>3, <1>5, <1>12, Zenon

\* The bytes of oled_init() before oled_clear()
Opening == <<174, 64, 176, 16, 0, 161, 166, 164, 200, 213, 128, 141, 20, 129, 207, 175>>

\* Where the j-th byte of row r of oled_clear() is, of the oled_set_pos() behind it, and of the
\* half s of the picture; and how many bytes there are up to the k-th character
ClearAt(r, j) == 16 + 131 * r + j
HomeAt(j) == 1064 + j
PartAt(s, j) == 1067 + 35 * s + j
ShownAt(k) == 1067 + 70 * k

\* u begins with what oled_init() sends.
Opens(u) ==
    /\ \A n \in 1 .. 16 : u[n] = Command(Opening[n])
    /\ \A r \in 0 .. 7 : \A j \in 1 .. 131 : u[ClearAt(r, j)] = RowByte(r, j)
    /\ \A j \in 1 .. 3 : u[HomeAt(j)] = RowByte(0, j)

\* oled_init()
LEMMA OpensPanel == IsPart(InitPanel, ShownAt(0)) /\ Opens(InitPanel)
<1> DEFINE a == [n \in 1..16 |-> Command(Opening[n])]
           b == oled_clear
           c == SetPos(0, 0)
           l == 1048
           m == 1064
<1>0. l \in Nat /\ m \in Nat /\ l = 131 * 8 /\ m = 16 + l /\ m + 3 = ShownAt(0)
  BY DEF ShownAt
<1> HIDE DEF l, m
<1>1. InitPanel = (a \o b) \o c
  <2>1. Len(Opening) = 16
    BY DEF Opening
  <2> QED  BY <2>1, Zenon DEF InitPanel, Opening
<1>2. IsPart(a, 16) /\ \A n \in 1 .. 16 : a[n] = Command(Opening[n])
  <2>1. Opening \in Seq(Nat) /\ Len(Opening) = 16
    BY DEF Opening
  <2> HIDE DEF Opening
  <2>2. ASSUME NEW n \in 1 .. 16 PROVE Command(Opening[n]) \in Cell
    <3>1. Opening[n] \in Nat
      BY <2>1, ElementOfSeq
    <3> QED  BY <3>1, CellsAre, Zenon
  <2> QED  BY <2>2 DEF IsPart
<1>3. IsPart(b, l) /\ \A r \in 0 .. 7 : \A j \in 1 .. 131 : b[131 * r + j] = RowByte(r, j)
  <2>1. \A r \in 0 .. 7 : r < 8
    OBVIOUS
  <2> QED  BY <1>0, <2>1, ClearIs, Zenon DEF Rows
<1>4. IsPart(c, 3) /\ \A j \in 1 .. 3 : c[j] = RowByte(0, j)
  <2>1. 0 \in Cols /\ 0 \in Pages /\ \A j \in 1 .. 3 : j = 1 \/ j = 2 \/ j = 3
    BY DEF Cols, Pages
  <2>2. IsPart(c, 3) /\ c[1] = PageByte(0) /\ c[2] = HighByte(0) /\ c[3] = LowByte(0)
    BY <2>1, SetPosIs, Zenon
  <2>3. ASSUME NEW j \in 1 .. 3 PROVE c[j] = RowByte(0, j)
    <3> HIDE DEF c
    <3>1. j = 1 \/ j = 2 \/ j = 3
      BY <2>1
    <3> QED  BY <2>2, <3>1 DEF RowByte, SendByte
  <2> QED  BY <2>2, <2>3, Zenon
<1> HIDE DEF a, b, c
<1>5. Joined(a \o b, a, 16, b, l)
  <2>1. 16 \in Nat
    OBVIOUS
  <2> QED  BY <1>0, <1>2, <1>3, <2>1, Behind, Zenon
<1>6. Joined((a \o b) \o c, a \o b, m, c, 3)
  <2>1. 3 \in Nat
    OBVIOUS
  <2>2. IsPart(a \o b, m)
    BY <1>0, <1>5, Zenon DEF Joined
  <2> QED  BY <1>0, <1>4, <2>1, <2>2, Behind, Zenon
<1>7. IsPart((a \o b) \o c, ShownAt(0))
  BY <1>0, <1>6, Zenon DEF Joined
<1>8. \A j \in 1 .. m : ((a \o b) \o c)[j] = (a \o b)[j]
  BY <1>6, Zenon DEF Joined
<1>9. ASSUME NEW n \in 1 .. 16 PROVE ((a \o b) \o c)[n] = Command(Opening[n])
  <2>1. n \in 1 .. m
    BY <1>0
  <2>2. (a \o b)[n] = a[n]
    BY <1>5, Zenon DEF Joined
  <2> QED  BY <1>2, <1>8, <2>1, <2>2, Zenon
<1>10. ASSUME NEW r \in 0 .. 7, NEW j \in 1 .. 131
       PROVE  ((a \o b) \o c)[ClearAt(r, j)] = RowByte(r, j)
  <2>1. PICK i \in 1 .. l : i = 131 * r + j
    BY <1>0
  <2>2. 16 + i = ClearAt(r, j) /\ 16 + i \in 1 .. m
    BY <1>0, <2>1 DEF ClearAt
  <2>3. (a \o b)[16 + i] = b[i]
    BY <1>5, Zenon DEF Joined
  <2>4. b[i] = RowByte(r, j)
    BY <1>3, <2>1, Zenon
  <2> QED  BY <1>8, <2>2, <2>3, <2>4, Zenon
<1>11. ASSUME NEW j \in 1 .. 3 PROVE ((a \o b) \o c)[HomeAt(j)] = RowByte(0, j)
  <2>1. HomeAt(j) = m + j
    BY DEF HomeAt, m
  <2> QED  BY <1>4, <1>6, <2>1, Zenon DEF Joined
<1> QED  BY <1>1, <1>7, <1>9, <1>10, <1>11, Zenon DEF Opens

\* Half s of the picture: the halves of the characters come one after the other.
PartByte(s, j) == HalfByte(10 + 30 * (s \div 2), 4, s \div 2, s % 2, j)

\* A character
LEMMA ShowIs ==
    ASSUME NEW k \in 0 .. 3
    PROVE  /\ IsPart(Show(10 + 30 * k, 4, k), 70)
           /\ \A j \in 1 .. 35 : Show(10 + 30 * k, 4, k)[j] = PartByte(2 * k, j)
           /\ \A j \in 1 .. 35 : Show(10 + 30 * k, 4, k)[35 + j] = PartByte(2 * k + 1, j)
<1> DEFINE x == 10 + 30 * k
           a == ShowHalf(x, 4, k, 0)
           b == ShowHalf(x, 4, k, 1)
<1>1. x \in 0 .. 127 /\ 4 \in 0 .. 6 /\ 0 \in 0 .. 1 /\ 1 \in 0 .. 1 /\ 35 \in Nat
  OBVIOUS
<1> HIDE DEF x
<1>2. IsPart(a, 35) /\ \A j \in 1 .. 35 : a[j] = HalfByte(x, 4, k, 0, j)
  BY <1>1, HalfIs, Zenon
<1>3. IsPart(b, 35) /\ \A j \in 1 .. 35 : b[j] = HalfByte(x, 4, k, 1, j)
  BY <1>1, HalfIs, Zenon
<1>4. /\ (2 * k) \div 2 = k /\ (2 * k) % 2 = 0
      /\ (2 * k + 1) \div 2 = k /\ (2 * k + 1) % 2 = 1
  OBVIOUS
<1>5. \A j : PartByte(2 * k, j) = HalfByte(x, 4, k, 0, j) /\ PartByte(2 * k + 1, j) = HalfByte(x, 4, k, 1, j)
  BY <1>4, Zenon DEF PartByte, x
<1>6. Show(x, 4, k) = a \o b
  BY Zenon DEF Show
<1> HIDE DEF a, b
<1>7. Joined(a \o b, a, 35, b, 35)
  BY <1>1, <1>2, <1>3, Behind, Zenon
<1>8. IsPart(a \o b, 70)
  BY <1>7 DEF Joined, IsPart
<1>9. \A j \in 1 .. 35 : (a \o b)[j] = PartByte(2 * k, j)
  BY <1>2, <1>5, <1>7, Zenon DEF Joined
<1>10. \A j \in 1 .. 35 : (a \o b)[35 + j] = PartByte(2 * k + 1, j)
  BY <1>3, <1>5, <1>7, Zenon DEF Joined
<1> QED  BY <1>6, <1>8, <1>9, <1>10, Zenon DEF x

\* u is what is sent up to the end of the k-th character.
Halves(u, k) ==
    /\ IsPart(u, ShownAt(k)) /\ Opens(u)
    /\ \A s \in 0 .. 7 : s < 2 * k => \A j \in 1 .. 35 : u[PartAt(s, j)] = PartByte(s, j)

\* One character more
LEMMA NextShown ==
    ASSUME NEW u, NEW k \in 0 .. 3, Halves(u, k)
    PROVE  Halves(u \o Show(10 + 30 * k, 4, k), k + 1)
<1> DEFINE t == Show(10 + 30 * k, 4, k)
           m == ShownAt(k)
<1>1. /\ IsPart(t, 70)
      /\ \A j \in 1 .. 35 : t[j] = PartByte(2 * k, j)
      /\ \A j \in 1 .. 35 : t[35 + j] = PartByte(2 * k + 1, j)
  BY ShowIs, Zenon
<1>2. m \in Nat /\ 70 \in Nat /\ m + 70 = ShownAt(k + 1)
  BY DEF ShownAt
<1>3. IsPart(u, m)
  BY Zenon DEF Halves
<1> HIDE DEF t, m
<1>4. Joined(u \o t, u, m, t, 70)
  BY <1>1, <1>2, <1>3, Behind, Zenon
<1>5. IsPart(u \o t, ShownAt(k + 1))
  BY <1>2, <1>4, Zenon DEF Joined
<1>6. \A j \in 1 .. m : (u \o t)[j] = u[j]
  BY <1>4, Zenon DEF Joined
<1>7. Opens(u \o t)
  <2>1. Opens(u)
    BY Zenon DEF Halves
  <2>2. \A n \in 1 .. 16 : n \in 1 .. m
    BY DEF m, ShownAt
  <2>3. \A r \in 0 .. 7 : \A j \in 1 .. 131 : ClearAt(r, j) \in 1 .. m
    BY DEF m, ShownAt, ClearAt
  <2>4. \A j \in 1 .. 3 : HomeAt(j) \in 1 .. m
    BY DEF m, ShownAt, HomeAt
  <2> QED  BY <1>6, <2>1, <2>2, <2>3, <2>4, Zenon DEF Opens
<1>8. ASSUME NEW s \in 0 .. 7, s < 2 * (k + 1), NEW j \in 1 .. 35
      PROVE  (u \o t)[PartAt(s, j)] = PartByte(s, j)
  <2>1. CASE s < 2 * k
    <3>1. PartAt(s, j) \in 1 .. m
      BY <2>1 DEF m, PartAt, ShownAt
    <3>2. (u \o t)[PartAt(s, j)] = u[PartAt(s, j)]
      BY <1>6, <3>1, Zenon
    <3> QED  BY <2>1, <3>2, Zenon DEF Halves
  <2>2. CASE s = 2 * k
    <3>1. PartAt(s, j) = m + j /\ j \in 1 .. 70
      BY <2>2 DEF m, PartAt, ShownAt
    <3>2. (u \o t)[m + j] = t[j]
      BY <1>4, <3>1, Zenon DEF Joined
    <3> QED  BY <1>1, <2>2, <3>1, <3>2, Zenon
  <2>3. CASE s = 2 * k + 1
    <3>1. PICK i \in 1 .. 70 : i = 35 + j
      OBVIOUS
    <3>2. PartAt(s, j) = m + i
      BY <2>3, <3>1 DEF m, PartAt, ShownAt
    <3>3. (u \o t)[m + i] = t[i]
      BY <1>4, Zenon DEF Joined
    <3> QED  BY <1>1, <2>3, <3>1, <3>2, <3>3, Zenon
  <2>4. s < 2 * k \/ s = 2 * k \/ s = 2 * k + 1
    BY <1>8
  <2> QED  BY <2>1, <2>2, <2>3, <2>4
<1> QED  BY <1>5, <1>7, <1>8, Zenon DEF Halves, t

\* The bytes of test_spi_oled()
LEMMA ScriptIs == Halves(Script, 4)
<1>1. Halves(InitPanel, 0)
  <2>1. \A s \in 0 .. 7 : ~(s < 2 * 0)
    OBVIOUS
  <2> QED  BY <2>1, OpensPanel, Zenon DEF Halves
<1> DEFINE S1 == InitPanel \o Show(10, 4, 0)
           S2 == S1 \o Show(40, 4, 1)
           S3 == S2 \o Show(70, 4, 2)
<1>2. Halves(S1, 1)
  <2>1. 0 \in 0 .. 3 /\ 10 + 30 * 0 = 10 /\ 0 + 1 = 1
    OBVIOUS
  <2>2. Halves(InitPanel \o Show(10 + 30 * 0, 4, 0), 0 + 1)
    BY <1>1, <2>1, NextShown, Zenon
  <2> QED  BY <2>1, <2>2
<1>3. Halves(S2, 2)
  <2>1. 1 \in 0 .. 3 /\ 10 + 30 * 1 = 40 /\ 1 + 1 = 2
    OBVIOUS
  <2> HIDE DEF S1
  <2>2. Halves(S1 \o Show(10 + 30 * 1, 4, 1), 1 + 1)
    BY <1>2, <2>1, NextShown, Zenon
  <2> QED  BY <2>1, <2>2
<1>4. Halves(S3, 3)
  <2>1. 2 \in 0 .. 3 /\ 10 + 30 * 2 = 70 /\ 2 + 1 = 3
    OBVIOUS
  <2> HIDE DEF S2
  <2>2. Halves(S2 \o Show(10 + 30 * 2, 4, 2), 2 + 1)
    BY <1>3, <2>1, NextShown, Zenon
  <2> QED  BY <2>1, <2>2
<1>5. Halves(Script, 4)
  <2>1. 3 \in 0 .. 3 /\ 10 + 30 * 3 = 100 /\ 3 + 1 = 4
    OBVIOUS
  <2> HIDE DEF S3
  <2>2. Halves(S3 \o Show(10 + 30 * 3, 4, 3), 3 + 1)
    BY <1>4, <2>1, NextShown, Zenon
  <2>3. Script = S3 \o Show(100, 4, 3)
    BY Zenon DEF Script, S3
  <2> QED  BY <2>1, <2>2, <2>3
<1> QED  BY <1>5

\* ... and how many they are
LEMMA ScriptLen == Len(Script) = 1347
<1>1. Len(Script) = ShownAt(4)
  BY ScriptIs, Zenon DEF Halves, IsPart
<1> QED  BY <1>1 DEF ShownAt

-----------------------------------------------------------------------------
\* The panel, after each byte of test_spi_oled().

Ram == [Pages -> [Cols -> Nat]]

\* The RAM when oled_clear() has written k columns of row r
Rubbed(p, c, r, k) == IF p < r \/ (p = r /\ c < k) THEN 0 ELSE Unknown
Rub(r, k) == [p \in Pages |-> [c \in Cols |-> Rubbed(p, c, r, k)]]

\* The RAM when oled_show_font_16() has written k columns of the half s of the picture
Drawn(p, c, s, k) ==
    LET idx == (c + 20) \div 30 - 1
        t == (c + 20) % 30
        at == 2 * idx + (p - 4)
    IN IF p \in {4, 5} /\ t < 16 /\ (at < s \/ (at = s /\ t < k)) THEN Font(idx, p - 4, t) ELSE 0
Draw(s, k) == [p \in Pages |-> [c \in Cols |-> Drawn(p, c, s, k)]]

\* Where the panel's pointer is after j bytes of which three are oled_set_pos(x, pg)
Pos(pg, x, j) ==
    /\ page \in Pages /\ col \in Cols
    /\ j >= 1 => page = pg
    /\ j = 2 => col \div 16 = x \div 16
    /\ j >= 3 => col = (x + (j - 3)) % 128

SwitchedOn == on = TRUE /\ arg = FALSE

\* The panel after n bytes of oled_init(), after j of a row, of the last oled_set_pos(), and of
\* half h of a character
InitPhase(n) ==
    /\ page = 0 /\ col = 0 /\ ram = Rub(0, 0) /\ on \in BOOLEAN /\ arg \in BOOLEAN
    /\ n > 0 => (on <=> n = 16)
    /\ arg <=> n \in {10, 12, 14}
RowPhase(r, j) == Pos(r, 0, j) /\ SwitchedOn /\ ram = Rub(r, j - 3)
HomePhase(j) == Pos(0, 0, j) /\ SwitchedOn /\ ram = Rub(8, 0)
PartPhase(i, h, j) == Pos(4 + h, 10 + 30 * i, j) /\ SwitchedOn /\ ram = Draw(2 * i + h, j - 3)

\* The first n bytes of the program have arrived: there may be a choice of the phase between two.
Shows(n) ==
    \/ n \in 0 .. 16 /\ InitPhase(n)
    \/ \E r \in 0 .. 7 : \E j \in 0 .. 131 : n = ClearAt(r, j) /\ RowPhase(r, j)
    \/ \E j \in 0 .. 3 : n = HomeAt(j) /\ HomePhase(j)
    \/ \E i \in 0 .. 3 : \E h \in 0 .. 1 : \E j \in 0 .. 35 : n = PartAt(2 * i + h, j) /\ PartPhase(i, h, j)

\* ... and of two the one that goes on
Ahead(n) ==
    \/ n \in 0 .. 15 /\ InitPhase(n)
    \/ \E r \in 0 .. 7 : \E j \in Nat : j < RowBytes /\ n = ClearAt(r, j) /\ RowPhase(r, j)
    \/ \E j \in 0 .. 2 : n = HomeAt(j) /\ HomePhase(j)
    \/ \E i \in 0 .. 3 : \E h \in 0 .. 1 : \E j \in 0 .. 34 : n = PartAt(2 * i + h, j) /\ PartPhase(i, h, j)

\* The panel takes the byte b with the D/C pin at its level.
TakeByte(b) == IF b.kind = "data" THEN TakeData(b.val) ELSE TakeCmd(b.val)

\* Both pictures are contents of the RAM.
LEMMA RamIs == \A s, k \in Int : Rub(s, k) \in Ram /\ (s \in 0 .. 8 => Draw(s, k) \in Ram)
<1> SUFFICES ASSUME NEW s \in Int, NEW k \in Int
             PROVE  Rub(s, k) \in Ram /\ (s \in 0 .. 8 => Draw(s, k) \in Ram)
  OBVIOUS
<1>1. \A p \in Pages : \A c \in Cols : Rubbed(p, c, s, k) \in Nat
  BY DEF Rubbed, Unknown
<1>2. ASSUME NEW p \in Pages, NEW c \in Cols PROVE Drawn(p, c, s, k) \in Nat
  BY DEF Drawn, Font, Pages, Cols
<1> QED  BY <1>1, <1>2 DEF Rub, Draw, Ram

\* A pixel more
LEMMA PixelSet ==
    ASSUME NEW f \in Ram, NEW g \in Ram, NEW a \in Pages, NEW b \in Cols, NEW v,
           \A p \in Pages : \A c \in Cols : g[p][c] = IF p = a /\ c = b THEN v ELSE f[p][c]
    PROVE  g = [f EXCEPT ![a][b] = v]
<1> DEFINE u == [f EXCEPT ![a][b] = v]
<1>1. ASSUME NEW p \in Pages PROVE g[p] = u[p]
  <2>1. g[p] \in [Cols -> Nat] /\ f[p] \in [Cols -> Nat]
    BY DEF Ram
  <2>2. CASE p = a
    <3>1. u[p] = [f[p] EXCEPT ![b] = v]
      BY <2>2 DEF Ram
    <3>2. \A c \in Cols : g[p][c] = [f[p] EXCEPT ![b] = v][c]
      BY <2>1, <2>2
    <3> QED  BY <2>1, <3>1, <3>2
  <2>3. CASE p # a
    <3>1. u[p] = f[p]
      BY <2>3 DEF Ram
    <3>2. \A c \in Cols : g[p][c] = f[p][c]
      BY <2>3
    <3> QED  BY <2>1, <3>1, <3>2
  <2> QED  BY <2>2, <2>3
<1>2. g = [p \in Pages |-> g[p]] /\ u = [p \in Pages |-> u[p]]
  BY DEF Ram
<1> HIDE DEF u
<1>3. [p \in Pages |-> g[p]] = [p \in Pages |-> u[p]]
  BY <1>1, Zenon
<1>4. g = u
  BY <1>2, <1>3, Zenon
<1> QED  BY <1>4, Zenon DEF u

\* A column more of a row
LEMMA RubNext ==
    ASSUME NEW r \in 0 .. 7, NEW k \in 0 .. 127
    PROVE  Rub(r, k + 1) = [Rub(r, k) EXCEPT ![r][k] = 0]
<1>1. ASSUME NEW p \in Pages, NEW c \in Cols
      PROVE Rubbed(p, c, r, k + 1) = IF p = r /\ c = k THEN 0 ELSE Rubbed(p, c, r, k)
  <2>1. p \in 0 .. 7 /\ c \in 0 .. 127
    BY DEF Pages, Cols
  <2>2. (p = r /\ c < k + 1) <=> (p = r /\ c < k) \/ (p = r /\ c = k)
    BY <2>1
  <2> QED  BY <2>1, <2>2 DEF Rubbed
<1>2. r \in Pages /\ k \in Cols
  BY DEF Pages, Cols
<1> QED  BY <1>1, <1>2 DEF Rub

\* No byte of data, no change; the end of a row and of oled_clear()
LEMMA RubSame ==
    /\ \A r \in 0 .. 8 : \A k \in -3 .. 0 : Rub(r, k) = Rub(r, 0)
    /\ \A r \in 0 .. 7 : Rub(r, 128) = Rub(r + 1, -3)
    /\ Rub(8, 0) = Draw(0, -3)
<1>1. ASSUME NEW r \in 0 .. 8, NEW k \in -3 .. 0 PROVE Rub(r, k) = Rub(r, 0)
  <2>1. \A p \in Pages : \A c \in Cols : Rubbed(p, c, r, k) = Rubbed(p, c, r, 0)
    BY DEF Rubbed, Pages, Cols
  <2> QED  BY <2>1, Zenon DEF Rub
<1>2. ASSUME NEW r \in 0 .. 7 PROVE Rub(r, 128) = Rub(r + 1, -3)
  <2>1. \A p \in Pages : \A c \in Cols : Rubbed(p, c, r, 128) = Rubbed(p, c, r + 1, -3)
    BY DEF Rubbed, Pages, Cols
  <2> QED  BY <2>1, Zenon DEF Rub
<1>3. Rub(8, 0) = Draw(0, -3)
  <2>1. \A p \in Pages : \A c \in Cols : Rubbed(p, c, 8, 0) = 0
    BY DEF Rubbed, Pages, Cols
  <2>2. ASSUME NEW p \in Pages, NEW c \in Cols PROVE Drawn(p, c, 0, -3) = 0
    BY DEF Drawn, Pages, Cols
  <2>3. \A p \in Pages : \A c \in Cols : Rubbed(p, c, 8, 0) = Drawn(p, c, 0, -3)
    BY <2>1, <2>2
  <2> QED  BY <2>3, Zenon DEF Rub, Draw
<1> QED  BY <1>1, <1>2, <1>3

\* A column more of a half
Grows(i, h, k) ==
    Draw(2 * i + h, k + 1) =
        [Draw(2 * i + h, k) EXCEPT ![4 + h][(10 + 30 * i + k) % 128] = Font(i, h, k)]

\* A column of a character is drawn; one of its blank half was blank before.
LEMMA DrawNext == ASSUME NEW i \in 0 .. 3, NEW h \in 0 .. 1, NEW k \in 0 .. 31 PROVE Grows(i, h, k)
<1> DEFINE s == 2 * i + h
           x == (10 + 30 * i + k) % 128
<1>1. ASSUME NEW p \in Pages, NEW c \in Cols
      PROVE Drawn(p, c, s, k + 1) = IF p = 4 + h /\ c = x THEN Font(i, h, k) ELSE Drawn(p, c, s, k)
  <2> DEFINE idx == (c + 20) \div 30 - 1
             t == (c + 20) % 30
             at == 2 * idx + (p - 4)
  <2>1. c + 20 = 30 * (idx + 1) + t /\ t \in 0 .. 29 /\ idx \in -1 .. 3 /\ c \in 0 .. 127
    BY DEF Cols
  <2>2. p \in 0 .. 7 /\ at \in Int
    BY <2>1 DEF Pages
  <2>3. /\ 10 + 30 * i + k < 128 => x = 10 + 30 * i + k
        /\ 10 + 30 * i + k >= 128 => x = 10 + 30 * i + k - 128
    OBVIOUS
  <2>4. CASE p = 4 + h /\ c = x /\ k < 16
    <3>1. idx = i /\ t = k /\ at = s
      BY <2>1, <2>3, <2>4
    <3>2. p \in {4, 5} /\ p - 4 = h
      BY <2>4
    <3> HIDE DEF idx, t, at
    <3>3. Drawn(p, c, s, k + 1) = Font(idx, p - 4, t)
      BY <2>1, <2>4, <3>1, <3>2 DEF Drawn, idx, t, at
    <3> QED  BY <2>4, <3>1, <3>2, <3>3
  <2>5. CASE p = 4 + h /\ c = x /\ k >= 16
    <3>1. Font(i, h, k) = 0
      BY <2>5 DEF Font
    <3>2. ~(t < 16 /\ (at < s \/ (at = s /\ t < k + 1)))
      BY <2>1, <2>3, <2>5
    <3> QED  BY <2>5, <3>1, <3>2 DEF Drawn
  <2>6. CASE ~(p = 4 + h /\ c = x)
    <3>1. p \in {4, 5} /\ t < 16 /\ at = s => ~(t = k)
      BY <2>1, <2>2, <2>3, <2>6
    <3>2. p \in {4, 5} /\ t < 16 => ((at < s \/ (at = s /\ t < k + 1)) <=> (at < s \/ (at = s /\ t < k)))
      BY <2>1, <2>2, <3>1
    <3> QED  BY <2>6, <3>2 DEF Drawn
  <2> QED  BY <2>4, <2>5, <2>6
<1>2. 4 + h \in Pages /\ x \in Cols
  BY DEF Pages, Cols
<1> HIDE DEF s, x
<1>3. /\ \A p \in Pages : \A c \in Cols : Draw(s, k + 1)[p][c] = Drawn(p, c, s, k + 1)
      /\ \A p \in Pages : \A c \in Cols : Draw(s, k)[p][c] = Drawn(p, c, s, k)
  BY Zenon DEF Draw
<1>4. Draw(s, k) \in Ram /\ Draw(s, k + 1) \in Ram
  <2>1. s \in Int /\ s \in 0 .. 8 /\ k \in Int /\ k + 1 \in Int
    BY DEF s
  <2> QED  BY <2>1, RamIs, Zenon
<1>5. Draw(s, k + 1) = [Draw(s, k) EXCEPT ![4 + h][x] = Font(i, h, k)]
  BY <1>1, <1>2, <1>3, <1>4, PixelSet
<1> QED  BY <1>5, Zenon DEF Grows, s, x

\* No byte of data, no change; the end of a half, and of the last one
LEMMA DrawSame ==
    /\ \A s \in 0 .. 7 : \A k \in -3 .. 0 : Draw(s, k) = Draw(s, 0)
    /\ \A s \in 0 .. 7 : Draw(s, 32) = Draw(s + 1, -3)
    /\ Draw(7, 32) = Picture
<1>1. ASSUME NEW s \in 0 .. 7, NEW k \in -3 .. 0 PROVE Draw(s, k) = Draw(s, 0)
  <2>1. ASSUME NEW p \in Pages, NEW c \in Cols PROVE Drawn(p, c, s, k) = Drawn(p, c, s, 0)
    BY DEF Drawn, Pages, Cols
  <2> QED  BY <2>1, Zenon DEF Draw
<1>2. ASSUME NEW s \in 0 .. 7 PROVE Draw(s, 32) = Draw(s + 1, -3)
  <2>1. ASSUME NEW p \in Pages, NEW c \in Cols PROVE Drawn(p, c, s, 32) = Drawn(p, c, s + 1, -3)
    BY DEF Drawn, Pages, Cols
  <2> QED  BY <2>1, Zenon DEF Draw
<1>3. Draw(7, 32) = Picture
  <2> DEFINE Pixel(p, c) == IF p \in {4, 5} /\ \E idx \in 0..3 : c - 10 - 30 * idx \in 0..15
                            THEN LET idx == (c - 10) \div 30 IN Font(idx, p - 4, c - 10 - 30 * idx)
                            ELSE 0
  <2>1. ASSUME NEW p \in Pages, NEW c \in Cols PROVE Drawn(p, c, 7, 32) = Pixel(p, c)
    <3> DEFINE i == (c + 20) \div 30 - 1
               t == (c + 20) % 30
    <3>1. c + 20 = 30 * (i + 1) + t /\ t \in 0 .. 29 /\ i \in -1 .. 3 /\ c \in 0 .. 127
      BY DEF Cols
    <3>2. CASE t < 16 /\ p \in {4, 5}
      <4>1. i \in 0 .. 3 /\ c - 10 - 30 * i = t /\ (c - 10) \div 30 = i
        BY <3>1, <3>2
      <4> HIDE DEF i, t
      <4>2. 2 * i + (p - 4) < 7 \/ (2 * i + (p - 4) = 7 /\ t < 32)
        <5>1. (p = 4 \/ p = 5) /\ t \in 0 .. 29
          BY <3>1, <3>2
        <5> QED  BY <3>2, <4>1, <5>1
      <4>3. Drawn(p, c, 7, 32) = Font(i, p - 4, t)
        BY <3>2, <4>2 DEF Drawn, i, t
      <4>4. Pixel(p, c) = Font(i, p - 4, t)
        <5>1. \E idx \in 0..3 : c - 10 - 30 * idx \in 0..15
          BY <3>1, <3>2, <4>1
        <5> QED  BY <3>2, <4>1, <5>1
      <4> QED  BY <4>3, <4>4
    <3>3. CASE ~(t < 16 /\ p \in {4, 5})
      <4>1. t >= 16 => ~ \E idx \in 0..3 : c - 10 - 30 * idx \in 0..15
        BY <3>1
      <4> QED  BY <3>1, <3>3, <4>1 DEF Drawn
    <3> QED  BY <3>2, <3>3
  <2> QED  BY <2>1, Zenon DEF Draw, Picture
<1> QED  BY <1>1, <1>2, <1>3

\* What a command does when none is waiting for its argument
Obeyed(b) ==
    /\ page' = IF b \in 176..183 THEN b - 176 ELSE page
    /\ col' = IF b \in 0..15 THEN 16 * (col \div 16) + b
              ELSE IF b \in 16..23 THEN 16 * (b - 16) + (col % 16) ELSE col
    /\ on' = IF b \in {174, 175} THEN b = 175 ELSE on
    /\ arg' = (~arg /\ b \in {213, 141, 129})
    /\ ram' = ram

LEMMA CmdTaken ==
    ASSUME NEW b, TakeCmd(b), arg = FALSE
    PROVE  Obeyed(b)
<1>1. page' = IF ~arg /\ b \in 176..183 THEN b - 176 ELSE page
  BY Zenon DEF TakeCmd
<1>2. col' = IF arg THEN col
             ELSE IF b \in 0..15 THEN 16 * (col \div 16) + b
             ELSE IF b \in 16..23 THEN 16 * (b - 16) + (col % 16) ELSE col
  BY Zenon DEF TakeCmd
<1>3. on' = IF ~arg /\ b \in {174, 175} THEN b = 175 ELSE on
  BY Zenon DEF TakeCmd
<1>4. arg' = (~arg /\ b \in {213, 141, 129})
  BY Zenon DEF TakeCmd
<1>5. ram' = ram
  BY Zenon DEF TakeCmd
<1>6. page' = IF b \in 176..183 THEN b - 176 ELSE page
  BY <1>1, Zenon
<1>7. col' = IF b \in 0..15 THEN 16 * (col \div 16) + b
             ELSE IF b \in 16..23 THEN 16 * (b - 16) + (col % 16) ELSE col
  BY <1>2, Zenon
<1>8. on' = IF b \in {174, 175} THEN b = 175 ELSE on
  BY <1>3, Zenon
<1> QED  BY <1>4, <1>5, <1>6, <1>7, <1>8, Zenon DEF Obeyed

\* What the commands of oled_set_pos() do to the panel: the page ...
LEMMA PageTaken ==
    ASSUME NEW r \in Pages, TakeCmd(176 + r), arg = FALSE
    PROVE  page' = r /\ col' = col /\ on' = on /\ arg' = FALSE /\ ram' = ram
<1> DEFINE b == 176 + r
<1>0. b \notin {174, 175} /\ b \notin {213, 141, 129}
  BY DEF Pages
<1>1. b \in 176 .. 183 /\ b \notin 0 .. 15 /\ b \notin 16 .. 23 /\ b - 176 = r
  BY DEF Pages
<1> HIDE DEF b
<1>2. TakeCmd(b)
  BY Zenon DEF b
<1>3. /\ page' = IF b \in 176..183 THEN b - 176 ELSE page
      /\ col' = IF b \in 0..15 THEN 16 * (col \div 16) + b
                ELSE IF b \in 16..23 THEN 16 * (b - 16) + (col % 16) ELSE col
      /\ on' = IF b \in {174, 175} THEN b = 175 ELSE on
      /\ arg' = (~arg /\ b \in {213, 141, 129})
      /\ ram' = ram
  <2>1. Obeyed(b)
    BY <1>2, CmdTaken, Zenon
  <2> QED  BY <2>1, Zenon DEF Obeyed
<1>4. page' = b - 176
  BY <1>1, <1>3, Zenon
<1>5. col' = col
  BY <1>1, <1>3, Zenon
<1>6. on' = on
  BY <1>0, <1>3, Zenon
<1>7. arg' = FALSE
  BY <1>0, <1>3, Zenon
<1> QED  BY <1>1, <1>3, <1>4, <1>5, <1>6, <1>7, Zenon

\* ... the high half of the column ...
LEMMA HighTaken ==
    ASSUME NEW q \in 0 .. 7, TakeCmd(q + 16), arg = FALSE
    PROVE  page' = page /\ col' = 16 * q + (col % 16) /\ on' = on /\ arg' = FALSE /\ ram' = ram
<1> DEFINE b == q + 16
<1>1. /\ b \notin 176 .. 183 /\ b \notin 0 .. 15 /\ b \in 16 .. 23 /\ b \notin {174, 175}
      /\ b \notin {213, 141, 129} /\ b - 16 = q
  OBVIOUS
<1> HIDE DEF b
<1>2. TakeCmd(b)
  BY Zenon DEF b
<1>3. /\ page' = IF b \in 176..183 THEN b - 176 ELSE page
      /\ col' = IF b \in 0..15 THEN 16 * (col \div 16) + b
                ELSE IF b \in 16..23 THEN 16 * (b - 16) + (col % 16) ELSE col
      /\ on' = IF b \in {174, 175} THEN b = 175 ELSE on
      /\ arg' = (~arg /\ b \in {213, 141, 129})
      /\ ram' = ram
  <2>1. Obeyed(b)
    BY <1>2, CmdTaken, Zenon
  <2> QED  BY <2>1, Zenon DEF Obeyed
<1>4. page' = page
  BY <1>1, <1>3, Zenon
<1>5. col' = 16 * (b - 16) + (col % 16)
  BY <1>1, <1>3, Zenon
<1>6. on' = on
  BY <1>1, <1>3, Zenon
<1>7. arg' = FALSE
  BY <1>1, <1>3, Zenon
<1> QED  BY <1>1, <1>3, <1>4, <1>5, <1>6, <1>7, Zenon

\* ... and the low half
LEMMA LowTaken ==
    ASSUME NEW q \in 0 .. 15, TakeCmd(q), arg = FALSE
    PROVE  page' = page /\ col' = 16 * (col \div 16) + q /\ on' = on /\ arg' = FALSE /\ ram' = ram
<1>1. q \notin 176 .. 183 /\ q \notin {174, 175} /\ q \notin {213, 141, 129}
  OBVIOUS
<1>2. /\ page' = IF q \in 176..183 THEN q - 176 ELSE page
      /\ col' = IF q \in 0..15 THEN 16 * (col \div 16) + q
                ELSE IF q \in 16..23 THEN 16 * (q - 16) + (col % 16) ELSE col
      /\ on' = IF q \in {174, 175} THEN q = 175 ELSE on
      /\ arg' = (~arg /\ q \in {213, 141, 129})
      /\ ram' = ram
  <2>1. Obeyed(q)
    BY CmdTaken, Zenon
  <2> QED  BY <2>1, Zenon DEF Obeyed
<1>3. page' = page /\ col' = 16 * (col \div 16) + q
  BY <1>1, <1>2, Zenon
<1>4. on' = on
  BY <1>1, <1>2, Zenon
<1>5. arg' = FALSE
  BY <1>1, <1>2, Zenon
<1> QED  BY <1>2, <1>3, <1>4, <1>5, Zenon

\* The panel took the byte j.
Took(pg, x, v, j) ==
    /\ Pos(pg, x, j)' /\ SwitchedOn'
    /\ j <= 3 => ram' = ram
    /\ j > 3 => ram' = [ram EXCEPT ![pg][(x + (j - 4)) % 128] = v]

\* The panel moves its pointer where oled_set_pos() says and along the page.
LEMMA PosTaken ==
    ASSUME NEW pg \in Pages, NEW x \in Cols, NEW v \in Nat, NEW j \in Nat, j >= 1,
           Pos(pg, x, j - 1), SwitchedOn, ram \in Ram, TakeByte(SendByte(pg, x, v, j))
    PROVE  Took(pg, x, v, j)
<1>0. pg \in 0 .. 7 /\ x \in 0 .. 127
  BY DEF Pages, Cols
<1>1. page \in 0 .. 7 /\ col \in 0 .. 127 /\ on = TRUE /\ arg = FALSE
  BY DEF Pos, Pages, Cols, SwitchedOn
<1>2. CASE j = 1
  <2>1. TakeCmd(176 + pg)
    BY <1>0, <1>2 DEF TakeByte, SendByte, PageByte, HighByte, LowByte, Command
  <2>2. page' = pg /\ col' = col /\ on' = TRUE /\ arg' = FALSE /\ ram' = ram
    BY <1>1, <2>1, PageTaken, Zenon
  <2> QED  BY <1>0, <1>1, <1>2, <2>2 DEF Took, Pos, Pages, Cols, SwitchedOn
<1>3. CASE j = 2
  <2>1. TakeCmd(x \div 16 + 16)
    BY <1>3 DEF TakeByte, SendByte, PageByte, HighByte, LowByte, Command
  <2>2. x \div 16 \in 0 .. 7
    BY <1>0
  <2>3. page' = page /\ col' = 16 * (x \div 16) + (col % 16) /\ on' = TRUE /\ arg' = FALSE /\ ram' = ram
    BY <1>1, <2>1, <2>2, HighTaken, Zenon
  <2>4. col' \div 16 = x \div 16 /\ col' \in 0 .. 127
    BY <1>0, <1>1, <2>2, <2>3
  <2>5. page = pg
    BY <1>3 DEF Pos
  <2> QED  BY <1>0, <1>1, <1>3, <2>3, <2>4, <2>5 DEF Took, Pos, Pages, Cols, SwitchedOn
<1>4. CASE j = 3
  <2>1. TakeCmd(x % 16)
    BY <1>4 DEF TakeByte, SendByte, PageByte, HighByte, LowByte, Command
  <2>2. page = pg /\ col \div 16 = x \div 16
    BY <1>4 DEF Pos
  <2>3. page' = page /\ col' = 16 * (col \div 16) + (x % 16) /\ on' = TRUE /\ arg' = FALSE /\ ram' = ram
    <3>1. x % 16 \in 0 .. 15
      BY <1>0
    <3> QED  BY <1>1, <2>1, <3>1, LowTaken, Zenon
  <2>4. col' = x /\ (x + (3 - 3)) % 128 = x
    <3>1. x = 16 * (x \div 16) + (x % 16)
      BY <1>0
    <3>2. col' = x
      BY <2>2, <2>3, <3>1
    <3>3. x + (3 - 3) = x /\ x % 128 = x
      BY <1>0
    <3> QED  BY <3>2, <3>3
  <2> QED  BY <1>0, <1>1, <1>4, <2>2, <2>3, <2>4 DEF Took, Pos, Pages, Cols, SwitchedOn
<1>5. CASE j > 3
  <2>1. TakeData(v)
    BY <1>5 DEF TakeByte, SendByte, Datum
  <2>2. page = pg /\ col = (x + (j - 4)) % 128
    BY <1>5 DEF Pos
  <2>3. /\ page' = page /\ col' = (col + 1) % 128 /\ on' = TRUE /\ arg' = FALSE
        /\ ram' = [ram EXCEPT ![page][col] = v]
    BY <1>1, <2>1 DEF TakeData
  <2>4. col' = (x + (j - 3)) % 128 /\ col' \in 0 .. 127
    <3>1. PICK a \in Nat : a = x + (j - 4)
      BY <1>0, <1>5
    <3>2. ((a % 128) + 1) % 128 = (a + 1) % 128 /\ (a + 1) % 128 \in 0 .. 127
      OBVIOUS
    <3>3. a + 1 = x + (j - 3)
      BY <1>0, <3>1
    <3> QED  BY <2>2, <2>3, <3>1, <3>2, <3>3
  <2>5. Pos(pg, x, j)'
    BY <1>1, <1>5, <2>2, <2>3, <2>4 DEF Pos, Pages, Cols
  <2> QED  BY <1>5, <2>2, <2>3, <2>5 DEF Took, SwitchedOn
<1>6. j = 1 \/ j = 2 \/ j = 3 \/ j > 3
  OBVIOUS
<1> QED  BY <1>2, <1>3, <1>4, <1>5, <1>6

\* What oled_init() says to the panel
OpeningByte(v, n) ==
    /\ v \in Nat
    /\ n \notin {11, 13, 15} =>
          /\ v \in 176 .. 183 => v = 176
          /\ v \in 0 .. 15 => v = 0
          /\ v \in 16 .. 23 => v = 16
          /\ v \in {213, 141, 129} <=> n \in {10, 12, 14}
          /\ v = 174 <=> n = 1
          /\ v = 175 <=> n = 16

LEMMA OpeningIs == \A n \in 1 .. 16 : OpeningByte(Opening[n], n)
<1> SUFFICES ASSUME NEW n \in 1 .. 16 PROVE OpeningByte(Opening[n], n)
  OBVIOUS
<1>1. \/ n = 1 \/ n = 2 \/ n = 3 \/ n = 4 \/ n = 5 \/ n = 6 \/ n = 7 \/ n = 8
      \/ n = 9 \/ n = 10 \/ n = 11 \/ n = 12 \/ n = 13 \/ n = 14 \/ n = 15 \/ n = 16
  OBVIOUS
<1>2. /\ Opening[1] = 174 /\ Opening[2] = 64 /\ Opening[3] = 176 /\ Opening[4] = 16
      /\ Opening[5] = 0 /\ Opening[6] = 161 /\ Opening[7] = 166 /\ Opening[8] = 164
      /\ Opening[9] = 200 /\ Opening[10] = 213 /\ Opening[11] = 128 /\ Opening[12] = 141
      /\ Opening[13] = 20 /\ Opening[14] = 129 /\ Opening[15] = 207 /\ Opening[16] = 175
  BY DEF Opening
<1> QED  BY <1>1, <1>2 DEF OpeningByte

\* A byte of oled_init() before oled_clear()
LEMMA InitTaken ==
    ASSUME NEW n \in 0 .. 15, InitPhase(n), TakeByte(Command(Opening[n + 1]))
    PROVE  InitPhase(n + 1)'
<1> DEFINE v == Opening[n + 1]
<1>1. TakeCmd(v)
  BY DEF TakeByte, Command
<1>2. n + 1 \in 1 .. 16
  OBVIOUS
<1>3. /\ v \in Nat
      /\ n + 1 \notin {11, 13, 15} =>
            /\ v \in 176 .. 183 => v = 176
            /\ v \in 0 .. 15 => v = 0
            /\ v \in 16 .. 23 => v = 16
            /\ v \in {213, 141, 129} <=> n + 1 \in {10, 12, 14}
            /\ v = 174 <=> n + 1 = 1
            /\ v = 175 <=> n + 1 = 16
  <2>1. OpeningByte(v, n + 1)
    BY <1>2, OpeningIs, Zenon
  <2> HIDE DEF v
  <2> QED  BY <2>1, Zenon DEF OpeningByte
<1> HIDE DEF v
<1>4. /\ page = 0 /\ col = 0 /\ ram = Rub(0, 0) /\ arg \in BOOLEAN /\ on \in BOOLEAN
      /\ (arg <=> n \in {10, 12, 14}) /\ (n > 0 => (on <=> n = 16))
  BY DEF InitPhase
<1>5. ram' = Rub(0, 0)
  BY <1>1, <1>4 DEF TakeCmd
<1>6. CASE n + 1 \in {11, 13, 15}
  <2>0. n \in {10, 12, 14} /\ n > 0 /\ n # 16 /\ n + 1 # 16 /\ n + 1 \notin {10, 12, 14} /\ n + 1 > 0
    BY <1>6
  <2>1. arg
    BY <1>4, <2>0, Zenon
  <2>2. page' = page /\ col' = col /\ on' = on /\ arg' = FALSE
    BY <1>1, <2>1 DEF TakeCmd
  <2>3. ~on
    BY <1>4, <2>0, Zenon
  <2>4. on' \in BOOLEAN /\ arg' \in BOOLEAN /\ (on' <=> n + 1 = 16) /\ (arg' <=> n + 1 \in {10, 12, 14})
    BY <1>4, <2>0, <2>2, <2>3, Zenon
  <2> QED  BY <1>4, <1>5, <2>2, <2>4 DEF InitPhase
<1>7. CASE n + 1 \notin {11, 13, 15}
  <2>0. n \notin {10, 12, 14}
    BY <1>7
  <2>1. ~arg
    BY <1>4, <2>0, Zenon
  <2>2. page' = 0 /\ col' = 0
    BY <1>1, <1>3, <1>4, <1>7, <2>1 DEF TakeCmd
  <2>3. arg' \in BOOLEAN /\ (arg' <=> n + 1 \in {10, 12, 14})
    BY <1>1, <1>3, <1>7, <2>1, Zenon DEF TakeCmd
  <2>4. on' \in BOOLEAN /\ (on' <=> n + 1 = 16)
    <3>1. on' = IF v \in {174, 175} THEN v = 175 ELSE on
      BY <1>1, <2>1, Zenon DEF TakeCmd
    <3>2. CASE n = 0
      <4>1. n + 1 = 1 /\ n + 1 # 16
        BY <3>2
      <4>2. v = 174 /\ v # 175
        BY <1>3, <1>7, <4>1
      <4> QED  BY <3>1, <4>1, <4>2, Zenon
    <3>3. CASE n # 0
      <4>1. n > 0 /\ n # 16 /\ n + 1 # 1
        BY <3>3
      <4>2. v # 174 /\ ~on /\ (v = 175 <=> n + 1 = 16)
        BY <1>3, <1>4, <1>7, <4>1, Zenon
      <4>3. v \in {174, 175} <=> v = 175
        BY <4>2, Zenon
      <4>4. on' = (v = 175)
        <5>1. CASE v = 175
          BY <3>1, <4>3, <5>1, Zenon
        <5>2. CASE v # 175
          <6>1. on' = on
            BY <3>1, <4>3, <5>2, Zenon
          <6> QED  BY <1>4, <4>2, <5>2, <6>1, Zenon
        <5> QED  BY <5>1, <5>2, Zenon
      <4> QED  BY <4>2, <4>4, Zenon
    <3> QED  BY <3>2, <3>3
  <2> QED  BY <1>5, <2>2, <2>3, <2>4 DEF InitPhase
<1> QED  BY <1>6, <1>7

\* Between two phases
LEMMA Turns == ASSUME NEW n \in Nat, n < Len(Script), Shows(n) PROVE Ahead(n)
<1>1. ASSUME n = ClearAt(0, 0), RowPhase(0, 0) PROVE Ahead(n)
  <2>1. 0 \in 0 .. 7 /\ 0 \in Nat /\ 0 < RowBytes
    BY DEF RowBytes
  <2> QED  BY <1>1, <2>1, Zenon DEF Ahead
<1>2. ASSUME n = HomeAt(0), HomePhase(0) PROVE Ahead(n)
  <2>1. 0 \in 0 .. 2
    OBVIOUS
  <2> QED  BY <1>2, <2>1, Zenon DEF Ahead
<1>3. ASSUME NEW i \in 0 .. 3, NEW h \in 0 .. 1, n = PartAt(2 * i + h, 0), PartPhase(i, h, 0) PROVE Ahead(n)
  <2>1. 0 \in 0 .. 34
    OBVIOUS
  <2> QED  BY <1>3, <2>1, Zenon DEF Ahead
<1>4. CASE n \in 0 .. 16 /\ InitPhase(n)
  <2>1. CASE n \in 0 .. 15
    BY <1>4, <2>1 DEF Ahead
  <2>2. CASE n = 16
    <3>1. n = ClearAt(0, 0)
      BY <2>2 DEF ClearAt
    <3>2. page = 0 /\ col = 0 /\ on = TRUE /\ arg = FALSE /\ ram = Rub(0, 0)
      <4>1. n > 0 /\ n \notin {10, 12, 14}
        BY <2>2
      <4> QED  BY <1>4, <2>2, <4>1, Zenon DEF InitPhase
    <3>3. Rub(0, 0 - 3) = Rub(0, 0)
      BY RubSame
    <3>4. RowPhase(0, 0)
      BY <3>2, <3>3 DEF RowPhase, Pos, SwitchedOn, Pages, Cols
    <3> QED  BY <1>1, <3>1, <3>4
  <2> QED  BY <1>4, <2>1, <2>2
<1>5. ASSUME NEW r \in 0 .. 7, NEW j \in 0 .. 131, n = ClearAt(r, j), RowPhase(r, j) PROVE Ahead(n)
  <2>1. CASE j \in 0 .. 130
    <3>1. j \in Nat /\ j < RowBytes
      BY <2>1 DEF RowBytes
    <3> QED  BY <1>5, <3>1, Zenon DEF Ahead
  <2>2. CASE j = 131
    <3>1. page \in Pages /\ col \in Cols /\ SwitchedOn /\ ram = Rub(r + 1, -3)
      <4>1. ram = Rub(r, 128)
        BY <1>5, <2>2 DEF RowPhase
      <4> QED  BY <1>5, <4>1, RubSame DEF RowPhase, Pos
    <3>2. CASE r = 7
      <4>1. n = HomeAt(0)
        BY <1>5, <2>2, <3>2 DEF ClearAt, HomeAt
      <4>2. ram = Rub(8, 0)
        <5>1. r + 1 = 8 /\ 8 \in 0 .. 8 /\ -3 \in -3 .. 0
          BY <3>2
        <5> QED  BY <3>1, <5>1, RubSame
      <4>3. HomePhase(0)
        BY <3>1, <4>2 DEF HomePhase, Pos
      <4> QED  BY <1>2, <4>1, <4>3
    <3>3. CASE r # 7
      <4>1. PICK q \in 0 .. 7 : q = r + 1
        BY <3>3
      <4>2. n = ClearAt(q, 0)
        BY <1>5, <2>2, <4>1 DEF ClearAt
      <4>3. 0 - 3 = -3
        OBVIOUS
      <4>4. RowPhase(q, 0)
        BY <3>1, <4>1, <4>3 DEF RowPhase, Pos
      <4>5. 0 \in Nat /\ 0 < RowBytes
        BY DEF RowBytes
      <4> QED  BY <4>2, <4>4, <4>5, Zenon DEF Ahead
    <3> QED  BY <3>2, <3>3
  <2> QED  BY <2>1, <2>2
<1>6. ASSUME NEW j \in 0 .. 3, n = HomeAt(j), HomePhase(j) PROVE Ahead(n)
  <2>1. CASE j \in 0 .. 2
    BY <1>6, <2>1, Zenon DEF Ahead
  <2>2. CASE j = 3
    <3>1. n = PartAt(2 * 0 + 0, 0)
      BY <1>6, <2>2 DEF HomeAt, PartAt
    <3>2. page \in Pages /\ col \in Cols /\ SwitchedOn /\ ram = Draw(0, -3)
      BY <1>6, RubSame DEF HomePhase, Pos
    <3>3. PartPhase(0, 0, 0)
      <4>1. 2 * 0 + 0 = 0 /\ 0 - 3 = -3
        OBVIOUS
      <4> QED  BY <3>2, <4>1 DEF PartPhase, Pos
    <3> QED  BY <1>3, <3>1, <3>3
  <2> QED  BY <2>1, <2>2
<1>7. ASSUME NEW i \in 0 .. 3, NEW h \in 0 .. 1, NEW j \in 0 .. 35, n = PartAt(2 * i + h, j), PartPhase(i, h, j)
      PROVE  Ahead(n)
  <2>1. CASE j \in 0 .. 34
    BY <1>7, <2>1, Zenon DEF Ahead
  <2>2. CASE j = 35
    <3>1. PICK g \in 0 .. 3 : \E f \in 0 .. 1 : 2 * g + f = 2 * i + h + 1
      <4>1. 2 * i + h < 7
        BY <1>7, <2>2, ScriptLen DEF PartAt
      <4>2. CASE h = 0
        BY <4>2
      <4>3. CASE h = 1
        <5>1. i + 1 \in 0 .. 3 /\ 2 * (i + 1) + 0 = 2 * i + h + 1
          BY <4>1, <4>3
        <5> QED  BY <5>1
      <4> QED  BY <4>2, <4>3
    <3>2. PICK f \in 0 .. 1 : 2 * g + f = 2 * i + h + 1
      BY <3>1
    <3>3. n = PartAt(2 * g + f, 0)
      BY <1>7, <2>2, <3>2 DEF PartAt
    <3>4. ram = Draw(2 * g + f, 0 - 3)
      <4>1. ram = Draw(2 * i + h, 32)
        BY <1>7, <2>2 DEF PartPhase
      <4>2. 2 * i + h \in 0 .. 7 /\ 0 - 3 = -3
        OBVIOUS
      <4> QED  BY <3>2, <4>1, <4>2, DrawSame
    <3>5. PartPhase(g, f, 0)
      BY <1>7, <3>4 DEF PartPhase, Pos
    <3> QED  BY <1>3, <3>3, <3>5
  <2> QED  BY <2>1, <2>2
<1> QED  BY <1>4, <1>5, <1>6, <1>7 DEF Shows

\* One byte more
LEMMA NextByteShown ==
    ASSUME NEW n \in Nat, n < Len(Script), Shows(n), TakeByte(Script[n + 1])
    PROVE  Shows(n + 1)'
<1>1. Ahead(n)
  BY Turns, Zenon
<1>2. Opens(Script) /\ \A s \in 0 .. 7 : \A j \in 1 .. 35 : Script[PartAt(s, j)] = PartByte(s, j)
  <2>1. \A s \in 0 .. 7 : s < 2 * 4
    OBVIOUS
  <2>2. Opens(Script)
    BY ScriptIs, Zenon DEF Halves
  <2>3. \A s \in 0 .. 7 : s < 2 * 4 => \A j \in 1 .. 35 : Script[PartAt(s, j)] = PartByte(s, j)
    BY ScriptIs, Zenon DEF Halves
  <2> QED  BY <2>1, <2>2, <2>3, Zenon
<1>3. CASE n \in 0 .. 15 /\ InitPhase(n)
  <2>1. n + 1 \in 1 .. 16 /\ n + 1 \in 0 .. 16
    BY <1>3
  <2>2. Script[n + 1] = Command(Opening[n + 1])
    BY <1>2, <2>1, Zenon DEF Opens
  <2>3. InitPhase(n + 1)'
    BY <1>3, <2>2, InitTaken, Zenon
  <2> QED  BY <2>1, <2>3, Zenon DEF Shows
<1>4. ASSUME NEW r \in 0 .. 7, NEW i \in Nat, i < RowBytes, n = ClearAt(r, i), RowPhase(r, i) PROVE Shows(n + 1)'
  <2>1. PICK j \in Nat : j = i + 1
    OBVIOUS
  <2>a. j - 1 = i /\ j >= 1
    BY <2>1
  <2>2. n + 1 = ClearAt(r, j)
    BY <1>4, <2>1 DEF ClearAt
  <2>b. j \in 1 .. 131
    BY <1>4, <2>1 DEF RowBytes
  <2>3. Script[n + 1] = RowByte(r, j)
    BY <1>2, <2>2, <2>b, Zenon DEF Opens
  <2>4. RowByte(r, j) = SendByte(r, 0, 0, j)
    BY Zenon DEF RowByte
  <2>5. Pos(r, 0, j - 1) /\ SwitchedOn /\ ram = Rub(r, i - 3)
    BY <1>4, <2>a DEF RowPhase
  <2>6. r \in Int /\ i - 3 \in Int /\ 0 \in Nat /\ 0 \in Cols /\ r \in Pages
    BY DEF Cols, Pages
  <2>7. ram \in Ram
    BY <2>5, <2>6, RamIs
  <2>8. TakeByte(SendByte(r, 0, 0, j))
    BY <2>3, <2>4, Zenon
  <2>c. Took(r, 0, 0, j)
    BY <2>a, <2>5, <2>6, <2>7, <2>8, PosTaken, Zenon
  <2>9. /\ Pos(r, 0, j)' /\ SwitchedOn'
        /\ j <= 3 => ram' = ram
        /\ j > 3 => ram' = [ram EXCEPT ![r][(0 + (j - 4)) % 128] = 0]
    BY <2>c, Zenon DEF Took
  <2>10. ram' = Rub(r, j - 3)
    <3>1. CASE j <= 3
      <4>1. i - 3 \in -3 .. 0 /\ j - 3 \in -3 .. 0 /\ r \in 0 .. 8
        BY <2>1, <3>1
      <4>2. Rub(r, i - 3) = Rub(r, 0) /\ Rub(r, j - 3) = Rub(r, 0)
        BY <4>1, RubSame, Zenon
      <4> QED  BY <2>5, <2>9, <3>1, <4>2, Zenon
    <3>2. CASE j > 3
      <4>1. PICK k \in 0 .. 127 : k = j - 4
        BY <2>b, <3>2
      <4>2. i - 3 = k /\ k + 1 = j - 3 /\ (0 + (j - 4)) % 128 = k
        <5>1. i - 3 = k /\ k + 1 = j - 3 /\ 0 + (j - 4) = k
          BY <2>1, <4>1
        <5>2. k % 128 = k
          OBVIOUS
        <5> QED  BY <5>1, <5>2, Zenon
      <4>3. Rub(r, k + 1) = [Rub(r, k) EXCEPT ![r][k] = 0]
        BY RubNext
      <4>4. ram = Rub(r, k) /\ ram' = [ram EXCEPT ![r][k] = 0]
        BY <2>5, <2>9, <3>2, <4>2
      <4> QED  BY <4>2, <4>3, <4>4
    <3>3. j <= 3 \/ j > 3
      OBVIOUS
    <3> QED  BY <3>1, <3>2, <3>3
  <2>11. RowPhase(r, j)'
    BY <2>9, <2>10, Zenon DEF RowPhase
  <2>12. j \in 0 .. 131
    BY <2>b
  <2> QED  BY <2>2, <2>11, <2>12, Zenon DEF Shows
<1>5. ASSUME NEW i \in 0 .. 2, n = HomeAt(i), HomePhase(i) PROVE Shows(n + 1)'
  <2>1. PICK j \in 1 .. 3 : j = i + 1 /\ j - 1 = i
    OBVIOUS
  <2>2. n + 1 = HomeAt(j) /\ j \in 1 .. 131 /\ j \in Nat /\ j >= 1 /\ j <= 3 /\ j \in 0 .. 3
    BY <1>5, <2>1 DEF HomeAt
  <2>3. Script[n + 1] = RowByte(0, j)
    BY <1>2, <2>2, Zenon DEF Opens
  <2>4. RowByte(0, j) = SendByte(0, 0, 0, j)
    BY Zenon DEF RowByte
  <2>5. Pos(0, 0, j - 1) /\ SwitchedOn /\ ram = Rub(8, 0)
    BY <1>5, <2>1 DEF HomePhase
  <2>6. 8 \in Int /\ 0 \in Int /\ 0 \in Nat /\ 0 \in Cols /\ 0 \in Pages
    BY DEF Cols, Pages
  <2>7. ram \in Ram
    BY <2>5, <2>6, RamIs
  <2>8. TakeByte(SendByte(0, 0, 0, j))
    BY <2>3, <2>4, Zenon
  <2>9. Pos(0, 0, j)' /\ SwitchedOn' /\ ram' = ram
    <3>1. Took(0, 0, 0, j)
      BY <2>2, <2>5, <2>6, <2>7, <2>8, PosTaken, Zenon
    <3> QED  BY <2>2, <3>1, Zenon DEF Took
  <2>10. HomePhase(j)'
    BY <2>5, <2>9, Zenon DEF HomePhase
  <2> QED  BY <2>2, <2>10, Zenon DEF Shows
<1>6. ASSUME NEW a \in 0 .. 3, NEW h \in 0 .. 1, NEW i \in 0 .. 34,
             n = PartAt(2 * a + h, i), PartPhase(a, h, i)
      PROVE  Shows(n + 1)'
  <2> DEFINE pg == 4 + h
             x == 10 + 30 * a
             v == IF i >= 3 THEN Font(a, h, i - 3) ELSE 0
             s == 2 * a + h
  <2>1. PICK j \in 1 .. 35 : j = i + 1 /\ j - 1 = i
    OBVIOUS
  <2>2. n + 1 = PartAt(s, j) /\ j \in Nat /\ j >= 1 /\ j \in 0 .. 35 /\ s \in 0 .. 7
    BY <1>6, <2>1 DEF PartAt
  <2>3. Script[n + 1] = PartByte(s, j)
    BY <1>2, <2>2, Zenon
  <2>4. PartByte(s, j) = SendByte(pg, x, v, j)
    <3>1. s \div 2 = a /\ s % 2 = h
      OBVIOUS
    <3>2. 4 + h = pg
      OBVIOUS
    <3>3. j # 1 /\ j # 2 /\ j # 3 => v = Font(a, h, j - 4)
      <4>1. j # 1 /\ j # 2 /\ j # 3 => i >= 3 /\ i - 3 = j - 4
        BY <2>1
      <4> QED  BY <4>1
    <3> HIDE DEF s, pg, v
    <3>4. PartByte(s, j) = HalfByte(x, 4, a, h, j)
      BY <3>1, Zenon DEF PartByte
    <3> HIDE DEF x
    <3> QED  BY <3>2, <3>3, <3>4, Zenon DEF HalfByte, SendByte
  <2>5. Pos(pg, x, j - 1) /\ SwitchedOn /\ ram = Draw(s, i - 3)
    BY <1>6, <2>1 DEF PartPhase
  <2>6. s \in Int /\ s \in 0 .. 8 /\ i - 3 \in Int /\ x \in Cols /\ pg \in Pages
    BY DEF Cols, Pages
  <2>7. ram \in Ram
    BY <2>5, <2>6, RamIs
  <2>8. v \in Nat
    <3>1. CASE i >= 3
      <4>1. PICK t \in 0 .. 31 : t = i - 3
        BY <3>1
      <4>2. Font(a, h, t) \in Nat
        BY FontIs, Zenon
      <4>3. v = Font(a, h, t)
        BY <3>1, <4>1
      <4> HIDE DEF v
      <4> QED  BY <4>2, <4>3, Zenon
    <3>2. CASE ~(i >= 3)
      BY <3>2
    <3> QED  BY <3>1, <3>2, Zenon
  <2> HIDE DEF pg, x, v, s
  <2>9. TakeByte(SendByte(pg, x, v, j))
    BY <2>3, <2>4, Zenon
  <2>a. Took(pg, x, v, j)
    BY <2>2, <2>5, <2>6, <2>7, <2>8, <2>9, PosTaken, Zenon
  <2>10. /\ Pos(pg, x, j)' /\ SwitchedOn'
         /\ j <= 3 => ram' = ram
         /\ j > 3 => ram' = [ram EXCEPT ![pg][(x + (j - 4)) % 128] = v]
    BY <2>a, Zenon DEF Took
  <2>11. ram' = Draw(s, j - 3)
    <3>1. CASE j <= 3
      <4>1. i - 3 \in -3 .. 0 /\ j - 3 \in -3 .. 0
        BY <2>1, <3>1
      <4>2. Draw(s, i - 3) = Draw(s, 0) /\ Draw(s, j - 3) = Draw(s, 0)
        BY <2>2, <4>1, DrawSame, Zenon
      <4> QED  BY <2>5, <2>10, <3>1, <4>2, Zenon
    <3>2. CASE j > 3
      <4>1. PICK k \in 0 .. 31 : k = j - 4
        BY <3>2
      <4>2. i - 3 = k /\ k + 1 = j - 3 /\ j - 4 = k /\ i >= 3
        BY <2>1, <3>2, <4>1
      <4>3. Draw(s, k + 1) = [Draw(s, k) EXCEPT ![pg][(x + k) % 128] = v]
        <5>1. v = Font(a, h, k)
          BY <4>2 DEF v
        <5>2. Grows(a, h, k)
          BY DrawNext, Zenon
        <5> QED  BY <5>1, <5>2, Zenon DEF Grows, s, pg, x
      <4>4. ram = Draw(s, k)
        BY <2>5, <4>2, Zenon
      <4>5. ram' = [ram EXCEPT ![pg][(x + k) % 128] = v]
        BY <2>10, <3>2, <4>2, Zenon
      <4> QED  BY <4>2, <4>3, <4>4, <4>5, Zenon
    <3>3. j <= 3 \/ j > 3
      OBVIOUS
    <3> QED  BY <3>1, <3>2, <3>3
  <2>12. PartPhase(a, h, j)'
    BY <2>10, <2>11, Zenon DEF PartPhase, pg, x, s
  <2> QED  BY <2>2, <2>12, Zenon DEF Shows, s
<1> QED  BY <1>1, <1>3, <1>4, <1>5, <1>6, Zenon DEF Ahead

\* The program has come so far when the first n bytes have arrived.
OnItsWay(b) == InFlight(<<b>>, <<>>) \/ InFlight(<<>>, <<b>>)

Progress(n) ==
    /\ spi_pc \in SetUpSteps \cup {"dc", "dr", "drain", "done"}
    /\ nth \in 1 .. Len(Script) + 1 /\ (spi_pc = "done" <=> nth = Len(Script) + 1)
    /\ spi_pc \in SetUpSteps => n = 0 /\ nth = 1 /\ Nothing /\ InitPhase(0)
    /\ spi_pc \notin {"disable", "ctrl0", "ser", "enable"} => enr = TRUE
    /\ spi_pc \in {"dc", "dr", "drain", "done"} => res = TRUE
    /\ spi_pc \in {"dc", "dr", "done"} =>
          /\ txfifo = <<>>
          /\ \/ shifting = <<>> /\ n = nth - 1
             \/ shifting = <<Script[n + 1]>> /\ n = nth - 2
    /\ spi_pc = "drain" => \/ Nothing /\ n = nth
                           \/ OnItsWay(Script[n + 1]) /\ n = nth - 1
                           \/ InFlight(<<Script[n + 2]>>, <<Script[n + 1]>>) /\ n = nth - 2

\* While no byte was misread the panel shows what has arrived, and that is all but at most the
\* two bytes on their way.
PicInv == ~loop /\ ~misread => \E n \in Nat : Shows(n) /\ Progress(n)

\* The panel has the contents of its RAM from before and its pointer at the beginning.
LEMMA PicInit == DemoInit => PicInv
<1> SUFFICES ASSUME DemoInit PROVE Shows(0) /\ Progress(0)
  BY DEF PicInv
<1>1. ram = Rub(0, 0)
  <2>1. \A p \in Pages : \A c \in Cols : Rubbed(p, c, 0, 0) = Unknown
    BY DEF Rubbed, Pages, Cols
  <2>2. ram = [p \in Pages |-> [c \in Cols |-> Unknown]]
    BY DEF DemoInit
  <2> QED  BY <2>1, <2>2, Zenon DEF Rub
<1>2. InitPhase(0)
  <2>1. ~(0 > 0) /\ 0 \notin {10, 12, 14}
    OBVIOUS
  <2> QED  BY <1>1, <2>1, Zenon DEF DemoInit, InitPhase
<1>3. Shows(0)
  <2>1. 0 \in 0 .. 16
    OBVIOUS
  <2> QED  BY <1>2, <2>1, Zenon DEF Shows
<1>4. Progress(0)
  <2>1. spi_pc = "disable" /\ nth = 1 /\ Nothing
    BY DEF DemoInit, SpiInit, Nothing, InFlight
  <2>2. Len(Script) = 1347
    BY ScriptLen
  <2>3. nth \in 1 .. Len(Script) + 1 /\ nth # Len(Script) + 1
    BY <2>1, <2>2
  <2> QED  BY <1>2, <2>1, <2>3 DEF Progress, SetUpSteps
<1> QED  BY <1>3, <1>4

\* What the panel shows is in the panel.
LEMMA ShowsSame ==
    ASSUME NEW n, UNCHANGED panel PROVE (Shows(n) => Shows(n)') /\ (InitPhase(n) => InitPhase(n)')
<1>1. page' = page /\ col' = col /\ on' = on /\ arg' = arg /\ ram' = ram
  BY DEF panel
<1>2. InitPhase(n) => InitPhase(n)'
  BY <1>1 DEF InitPhase
<1>3. \A pg, x, j : Pos(pg, x, j) => Pos(pg, x, j)'
  BY <1>1 DEF Pos
<1>4. SwitchedOn => SwitchedOn'
  BY <1>1 DEF SwitchedOn
<1>5. \A r, j : RowPhase(r, j) => RowPhase(r, j)'
  BY <1>1, <1>3, <1>4, Zenon DEF RowPhase
<1>6. \A j : HomePhase(j) => HomePhase(j)'
  BY <1>1, <1>3, <1>4, Zenon DEF HomePhase
<1>7. \A i, h, j : PartPhase(i, h, j) => PartPhase(i, h, j)'
  BY <1>1, <1>3, <1>4, Zenon DEF PartPhase
<1> QED  BY <1>2, <1>5, <1>6, <1>7, Zenon DEF Shows

\* What was misread is not read again.
LEMMA MisreadKept == [DemoNext]_demoVars => (misread => misread')
<1>1. ByteArrives => (misread => misread')
  BY DEF ByteArrives, Take
<1> QED
  BY <1>1 DEF DemoNext, test_spi, Controller, Finished, demoVars, panel, InitOff, Ctrl0, Ser,
     InitOn, Dir, Reset, Work, DcSet, Write, Drain, Read, LoadByte

\* Every step of the panel's program and of the controller keeps it.
LEMMA PicNext == PicInv /\ [DemoNext]_demoVars => PicInv'
<1> SUFFICES ASSUME PicInv, [DemoNext]_demoVars, ~loop, loop' = loop, ~misread, ~misread' PROVE PicInv'
  BY LoopKept, MisreadKept DEF PicInv
<1>0. PICK n \in Nat : Shows(n) /\ Progress(n)
  BY DEF PicInv
<1>a. Len(Script) = 1347
  BY ScriptLen
<1>e. Bytes = Script
  BY DEF Bytes
<1>b. ASSUME UNCHANGED panel, Progress(n)' PROVE PicInv'
  <2>1. Shows(n)'
    BY <1>0, <1>b, ShowsSame
  <2> QED  BY <1>b, <2>1 DEF PicInv
<1>c. UNCHANGED panel /\ InitPhase(0) => InitPhase(0)'
  BY ShowsSame
<1>d. SetUpSteps = {"disable", "ctrl0", "ser", "enable", "dir", "reset", "work"}
  BY DEF SetUpSteps
<1> HIDE DEF SetUpSteps
<1>1. CASE InitOff \/ Ctrl0 \/ Ser \/ InitOn \/ Dir \/ Work
  <2>1. UNCHANGED panel
    BY <1>1 DEF InitOff, Ctrl0, Ser, InitOn, Dir, Work
  <2>2. spi_pc \in SetUpSteps /\ spi_pc # "reset"
    BY <1>1, <1>d DEF InitOff, Ctrl0, Ser, InitOn, Dir, Work, To
  <2>3. n = 0 /\ nth = 1 /\ Nothing /\ InitPhase(0)
    BY <1>0, <2>2 DEF Progress
  <2>4. nth' = 1 /\ Nothing' /\ InitPhase(0)'
    BY <1>1, <1>c, <2>1, <2>3 DEF InitOff, Ctrl0, Ser, InitOn, Dir, Work, spivars,
       SpiDisable, SpiConfigure, SpiSelect, SpiEnable, Nothing, InFlight
  <2>5. spi_pc' \in SetUpSteps \cup {"dc"}
    BY <1>1, <1>d DEF InitOff, Ctrl0, Ser, InitOn, Dir, Work, To
  <2>6. spi_pc' \notin {"disable", "ctrl0", "ser", "enable"} => enr' = TRUE
    BY <1>0, <1>1, <1>d DEF Progress, InitOff, Ctrl0, Ser, InitOn, Dir, Work, To, SpiEnable, spivars
  <2>7. spi_pc' = "dc" => res' = TRUE
    BY <1>1 DEF InitOff, Ctrl0, Ser, InitOn, Dir, Work, To
  <2>9. nth' \in 1 .. Len(Script) + 1 /\ nth' # Len(Script) + 1 /\ n = nth' - 1
    BY <1>a, <2>3, <2>4
  <2>10. txfifo' = <<>> /\ shifting' = <<>>
    BY <2>4 DEF Nothing, InFlight
  <2>8. Progress(n)'
    <3>1. CASE spi_pc' = "dc"
      BY <1>d, <2>6, <2>7, <2>9, <2>10, <3>1 DEF Progress
    <3>2. CASE spi_pc' \in SetUpSteps
      <4>1. spi_pc' \notin {"dc", "dr", "drain", "done"}
        BY <1>d, <3>2
      <4> QED  BY <2>3, <2>4, <2>6, <2>9, <3>2, <4>1, Zenon DEF Progress
    <3> QED  BY <2>5, <3>1, <3>2
  <2> QED  BY <1>b, <2>1, <2>8
<1>2. CASE Reset
  <2>1. spi_pc = "reset" /\ spi_pc' = "work" /\ UNCHANGED <<spivars, nth, ram>>
    BY <1>2 DEF Reset, To
  <2>2. n = 0 /\ nth = 1 /\ Nothing /\ InitPhase(0) /\ enr = TRUE
    BY <1>0, <1>d, <2>1 DEF Progress
  <2>3. InitPhase(0)'
    <3>1. CASE dir
      <4>1. page' = 0 /\ col' = 0 /\ on' = FALSE /\ arg' = FALSE /\ ram' = ram
        BY <1>2, <3>1 DEF Reset
      <4>2. ~(0 > 0) /\ 0 \notin {10, 12, 14}
        OBVIOUS
      <4> QED  BY <2>2, <4>1, <4>2, Zenon DEF InitPhase
    <3>2. CASE ~dir
      <4>1. UNCHANGED panel
        BY <1>2, <3>2 DEF Reset, panel
      <4> QED  BY <1>c, <2>2, <4>1
    <3> QED  BY <3>1, <3>2
  <2>4. Shows(n)'
    <3>1. 0 \in 0 .. 16
      OBVIOUS
    <3> QED  BY <2>2, <2>3, <3>1, Zenon DEF Shows
  <2>5. Progress(n)'
    BY <1>a, <1>d, <2>1, <2>2, <2>3 DEF Progress, Nothing, InFlight, spivars
  <2> QED  BY <2>4, <2>5 DEF PicInv
<1>3. CASE DcSet
  <2>1. spi_pc = "dc" /\ spi_pc' = "dr" /\ UNCHANGED <<spivars, nth, res, panel>>
    BY <1>3 DEF DcSet, To
  <2>2. /\ txfifo = <<>> /\ enr = TRUE /\ res = TRUE /\ nth \in 1 .. Len(Script)
        /\ \/ shifting = <<>> /\ n = nth - 1
           \/ shifting = <<Script[n + 1]>> /\ n = nth - 2
    BY <1>0, <1>a, <1>d, <2>1 DEF Progress
  <2>3. Progress(n)'
    BY <1>a, <1>d, <2>1, <2>2 DEF Progress, Nothing, InFlight, spivars
  <2> QED  BY <1>b, <2>1, <2>3
<1>4. CASE Write
  <2>1. /\ spi_pc = "dr" /\ spi_pc' = "drain" /\ UNCHANGED <<enr, shifting, nth, res, panel>>
        /\ txfifo' = IF enr /\ Len(txfifo) < FifoDepth THEN Append(txfifo, Script[nth]) ELSE txfifo
    BY <1>4, <1>e DEF Write, WriteDr, To, gpio
  <2>2. /\ txfifo = <<>> /\ enr = TRUE /\ res = TRUE /\ nth \in 1 .. Len(Script)
        /\ \/ shifting = <<>> /\ n = nth - 1
           \/ shifting = <<Script[n + 1]>> /\ n = nth - 2
    BY <1>0, <1>a, <1>d, <2>1 DEF Progress
  <2>3. txfifo' = <<Script[nth]>>
    <3>1. Len(<<>>) < FifoDepth
      BY FifoAssumption
    <3> QED  BY <2>1, <2>2, <3>1
  <2>4. Progress(n)'
    <3>1. nth' \in 1 .. Len(Script) + 1 /\ nth' # Len(Script) + 1
      BY <1>a, <2>1, <2>2
    <3>2. \/ OnItsWay(Script[n + 1])' /\ n = nth' - 1
          \/ InFlight(<<Script[n + 2]>>, <<Script[n + 1]>>)' /\ n = nth' - 2
      <4>1. CASE shifting = <<>> /\ n = nth - 1
        <5>1. n + 1 = nth  BY <4>1, <2>2
        <5> QED  BY <2>1, <2>3, <4>1, <5>1 DEF OnItsWay, InFlight
      <4>2. CASE shifting = <<Script[n + 1]>> /\ n = nth - 2
        <5>1. n + 2 = nth  BY <4>2, <2>2
        <5> QED  BY <2>1, <2>3, <4>2, <5>1 DEF InFlight
      <4> QED  BY <2>2, <4>1, <4>2
    <3>3. enr' = TRUE /\ res' = TRUE
      BY <2>1, <2>2
    <3> QED  BY <1>d, <2>1, <3>1, <3>2, <3>3 DEF Progress
  <2> QED  BY <1>b, <2>1, <2>4
<1>5. CASE Drain
  <2>1. /\ spi_pc = "drain" /\ Len(txfifo) = 0 /\ nth' = nth + 1
        /\ spi_pc' = IF nth = Len(Script) THEN "done" ELSE "dc"
        /\ UNCHANGED <<spivars, res, panel>>
    <3>1. /\ spi_pc = "drain" /\ Len(txfifo) = 0
          /\ UNCHANGED spivars /\ UNCHANGED res /\ UNCHANGED panel
      BY <1>5 DEF Drain, TxLevel, gpio
    <3>2. NextByte
      BY <1>5, Zenon DEF Drain
    <3>3. nth' = nth + 1 /\ spi_pc' = IF nth = Len(Script) THEN "done" ELSE "dc"
      BY <1>e, <3>2, Zenon DEF NextByte
    <3> QED  BY <3>1, <3>3, Zenon
  <2>2. enr = TRUE /\ res = TRUE /\ nth \in 1 .. Len(Script)
    BY <1>0, <1>a, <1>d, <2>1 DEF Progress
  <2>3. /\ txfifo = <<>>
        /\ \/ shifting = <<>> /\ n = nth
           \/ shifting = <<Script[n + 1]>> /\ n = nth - 1
    <3>1. Len(<<Script[n + 1]>>) # 0 /\ Len(<<Script[n + 2]>>) # 0
      OBVIOUS
    <3> QED  BY <1>0, <2>1, <3>1 DEF Progress, OnItsWay, Nothing, InFlight
  <2>4. Progress(n)'
    <3>1. nth' - 1 = nth /\ nth' - 2 = nth - 1 /\ nth' \in 1 .. Len(Script) + 1
          /\ (spi_pc' = "done" <=> nth' = Len(Script) + 1)
      BY <1>a, <2>1, <2>2
    <3>2. /\ txfifo' = <<>>
          /\ \/ shifting' = <<>> /\ n = nth' - 1
             \/ shifting' = <<Script[n + 1]>> /\ n = nth' - 2
      BY <2>1, <2>3, <3>1 DEF spivars
    <3>3. enr' = TRUE /\ res' = TRUE /\ spi_pc' \in {"dc", "done"}
      BY <2>1, <2>2 DEF spivars
    <3> QED  BY <1>d, <3>1, <3>2, <3>3 DEF Progress
  <2> QED  BY <1>b, <2>1, <2>4
<1>6. CASE LoadByte
  <2>1. /\ txfifo # <<>> /\ shifting' = <<Head(txfifo)>> /\ txfifo' = Tail(txfifo)
        /\ UNCHANGED <<enr, spi_pc, nth, res, panel>>
    BY <1>6 DEF LoadByte, SpiLoad, gpio
  <2>0. shifting = <<>>
    BY <1>6 DEF LoadByte, SpiLoad
  <2>2. spi_pc = "drain" /\ txfifo = <<Script[n + 1]>> /\ n = nth - 1
    BY <1>0, <2>0, <2>1 DEF Progress, OnItsWay, Nothing, InFlight
  <2>3. shifting' = <<Script[n + 1]>> /\ txfifo' = <<>>
    BY <2>1, <2>2
  <2>4. Progress(n)'
    BY <1>0, <1>a, <1>d, <2>1, <2>2, <2>3 DEF Progress, OnItsWay, InFlight
  <2> QED  BY <1>b, <2>1, <2>4
<1>7. CASE ByteArrives
  <2>1. /\ shifting # <<>> /\ shifting' = <<>> /\ Take(shifting[1])
        /\ UNCHANGED <<enr, txfifo, spi_pc, nth, res>>
    BY <1>7 DEF ByteArrives, Shifted, gpio
  <2>2. /\ spi_pc \in {"dc", "dr", "done", "drain"} /\ shifting = <<Script[n + 1]>>
        /\ \/ txfifo = <<>> /\ spi_pc = "drain" /\ n = nth - 1
           \/ txfifo = <<Script[n + 2]>> /\ spi_pc = "drain" /\ n = nth - 2
           \/ txfifo = <<>> /\ spi_pc # "drain" /\ n = nth - 2
    BY <1>0, <1>d, <2>1 DEF Progress, OnItsWay, Nothing, InFlight
  <2>3. enr = TRUE /\ res = TRUE /\ nth \in 1 .. Len(Script) + 1 /\ (spi_pc = "done" <=> nth = Len(Script) + 1)
    BY <1>0, <1>d, <2>2 DEF Progress
  <2>4. n < Len(Script)
    BY <1>a, <2>2, <2>3
  <2>5. shifting[1] = Script[n + 1]
    BY <2>2
  <2>6. dc = (Script[n + 1].kind = "data")
    BY <2>1, <2>3, <2>5 DEF Take
  <2>7. TakeByte(Script[n + 1])
    BY <2>1, <2>3, <2>5, <2>6, Zenon DEF Take, TakeByte
  <2>8. Shows(n + 1)'
    BY <1>0, <2>4, <2>7, NextByteShown
  <2>9. Progress(n + 1)'
    <3>1. \/ txfifo' = <<>> /\ spi_pc' = "drain" /\ n + 1 = nth'
          \/ txfifo' = <<Script[n + 2]>> /\ spi_pc' = "drain" /\ n + 1 = nth' - 1
          \/ txfifo' = <<>> /\ spi_pc' # "drain" /\ n + 1 = nth' - 1
      BY <2>1, <2>2, <2>3
    <3>2. (n + 1) + 1 = n + 2
      OBVIOUS
    <3>3. spi_pc' \in {"dc", "dr", "done", "drain"} /\ enr' = TRUE /\ res' = TRUE /\ shifting' = <<>>
          /\ nth' \in 1 .. Len(Script) + 1 /\ (spi_pc' = "done" <=> nth' = Len(Script) + 1)
      BY <2>1, <2>2, <2>3
    <3> QED  BY <1>d, <3>1, <3>2, <3>3 DEF Progress, Nothing, InFlight, OnItsWay
  <2> QED  BY <2>8, <2>9 DEF PicInv
<1>8. CASE Read \/ Finished \/ UNCHANGED demoVars
  <2>1. spi_pc # "read"
    BY <1>0, <1>d DEF Progress
  <2>2. UNCHANGED demoVars
    BY <1>8, <2>1 DEF Read, Finished
  <2>3. UNCHANGED panel /\ UNCHANGED <<spivars, spi_pc, nth, res>>
    BY <2>2 DEF demoVars, gpio
  <2>4. Progress(n)'
    BY <1>0, <1>c, <2>3 DEF Progress, OnItsWay, Nothing, InFlight, spivars
  <2> QED  BY <1>b, <2>3, <2>4
<1> QED
  BY <1>1, <1>2, <1>3, <1>4, <1>5, <1>6, <1>7, <1>8 DEF DemoNext, test_spi, Controller

\* test_spi_oled(): in the end the display is on and shows the four characters and nothing else,
\* whatever the RAM held at power-on, however deep the FIFO and whatever an earlier stage left in
\* the controller, unless a byte was misread.
THEOREM ShowsPicture == DemoSpec => []PictureShown
<1>1. PicInv => PictureShown
  <2> SUFFICES ASSUME PicInv, ~loop, ~misread, spi_pc = "done", shifting = <<>> PROVE on /\ ram = Picture
    BY DEF PictureShown
  <2>1. PICK n \in Nat : Shows(n) /\ Progress(n)
    BY DEF PicInv
  <2>2. n = 1347
    <3>1. shifting # <<Script[n + 1]>>
      OBVIOUS
    <3>2. n = nth - 1 /\ nth = Len(Script) + 1
      BY <2>1, <3>1 DEF Progress
    <3>3. Len(Script) = 1347
      BY ScriptLen
    <3> QED  BY <3>2, <3>3
  <2>3. PartPhase(3, 1, 35)
    <3>1. ~(n \in 0 .. 16)
      BY <2>2
    <3>2. \A r \in 0 .. 7 : \A j \in 0 .. 131 : n # ClearAt(r, j)
      BY <2>2 DEF ClearAt
    <3>3. \A j \in 0 .. 3 : n # HomeAt(j)
      BY <2>2 DEF HomeAt
    <3>4. PICK i \in 0 .. 3, h \in 0 .. 1, j \in 0 .. 35 : n = PartAt(2 * i + h, j) /\ PartPhase(i, h, j)
      BY <2>1, <3>1, <3>2, <3>3, Zenon DEF Shows
    <3>5. i = 3 /\ h = 1 /\ j = 35
      BY <2>2, <3>4 DEF PartAt
    <3> QED  BY <3>4, <3>5
  <2>4. on = TRUE /\ ram = Draw(7, 32)
    <3>1. 2 * 3 + 1 = 7 /\ 35 - 3 = 32
      OBVIOUS
    <3> QED  BY <2>3, <3>1 DEF PartPhase, SwitchedOn
  <2> QED  BY <2>4, DrawSame
<1> QED  BY <1>1, PicInit, PicNext, PTL DEF DemoSpec
=============================================================================
