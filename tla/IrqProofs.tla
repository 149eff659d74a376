----------------------------- MODULE IrqProofs ------------------------------
(***************************************************************************)
(* Proofs about Irq, for every set of lines, handlers, requests and bounds. *)
(***************************************************************************)
EXTENDS Irq, TLAPS

\* The enable bit of a line lies in the words irq_init() clears ...
LEMMA EnableBit ==
    ASSUME NEW i \in 1 .. 255
    PROVE  i \div 32 \in 0 .. 7 /\ i % 32 \in 0 .. 31
  OBVIOUS

\* ... and no two lines share it.
LEMMA OwnBit ==
    ASSUME NEW i \in 1 .. 255, NEW j \in 1 .. 255, i \div 32 = j \div 32, i % 32 = j % 32
    PROVE  i = j
  OBVIOUS

\* The same of the lines of the model, which are among those 255.
LEMMA LineBits ==
    ASSUME NEW i \in Irqn, NEW j \in Irqn
    PROVE  /\ WordOf(i) \in 0 .. 7 /\ WordOf(i) \in Word /\ BitOf(i) \in Bit
           /\ WordOf(i) = WordOf(j) /\ BitOf(i) = BitOf(j) => i = j
<1>1. i \in 1 .. 255 /\ j \in 1 .. 255
  BY IrqAssumption DEF NUM_IRQ
<1>2. /\ WordOf(i) = i \div 32 /\ BitOf(i) = i % 32 /\ WordOf(j) = j \div 32 /\ BitOf(j) = j % 32
      /\ 0 .. 7 \subseteq Word /\ Bit = 0 .. 31
  BY DEF WordOf, BitOf, Word, Bit, NUM_IRQ
<1>3. i \div 32 \in 0 .. 7 /\ i % 32 \in 0 .. 31
  BY <1>1, EnableBit, Zenon
<1>4. i \div 32 = j \div 32 /\ i % 32 = j % 32 => i = j
  BY <1>1, OwnBit, Zenon
<1> QED  BY <1>2, <1>3, <1>4

\* The inductive invariant holds in every initial state.
LEMMA InitEstablishes == Init => IInv
  <1> SUFFICES ASSUME Init PROVE IInv
    OBVIOUS
  <1> USE IrqAssumption DEF Init
  <1>1. TypeOK
    <2>1. enable \in [Word -> SUBSET Bit]
      BY DEF WordsOf
    <2>2. prio \in [Irqn -> 0 .. 7]
      OBVIOUS
    <2>3. k \in Word
      BY DEF Word, NUM_IRQ
    <2>4. Zeroed \in Entry /\ NoCall \in Entry
      BY DEF Zeroed, NoCall, Entry
    <2>5. arg \in [handler : Handlers \cup {NULL}, irqn : Nat, priv : Privs \cup {NULL}]
      BY DEF Zeroed
    <2>6. action \in [Irqn -> Entry] /\ asked \in [Irqn -> Entry]
      BY <2>4
    <2>7. mie \in BOOLEAN /\ meie \in BOOLEAN /\ frame \in BOOLEAN
      BY Zenon
    <2>8. /\ pc \in Pc /\ value \in SUBSET Bit /\ irqn \in Irqn \cup {0} /\ call \in Entry
          /\ ipc \in {"idle", "claim", "dispatch", "handler", "eoi", "exit"}
          /\ threshold \in {0, 7}
          /\ pending \in SUBSET Irqn /\ inflight \in SUBSET Irqn /\ line \in SUBSET Irqn
          /\ calls \in 0 .. MaxCalls /\ raises \in 0 .. MaxRaises
      BY <2>4 DEF Pc, InitPc
    <2> HIDE DEF Init
    <2> QED
      BY <2>1, <2>2, <2>3, <2>5, <2>6, <2>7, <2>8 DEF TypeOK
  <1>2. InitInv
    <2>1. \A i \in Irqn : ~ WordOf(i) < 0
      BY LineBits
    <2> QED
      BY <2>1 DEF InitInv, InitPc
  <1>3. TableInv /\ MaskInv /\ TrapInv
    BY DEF TableInv, MaskInv, TrapInv, ClaimsCompleted, RequestPc, MaskPc, InitPc
  <1> QED
    BY <1>1, <1>2, <1>3 DEF IInv

\* Every step keeps the types: the loop counter within its words, the stores within the table.
LEMMA TypeStep == IInv /\ [Next]_vars => TypeOK'
  <1> SUFFICES ASSUME IInv, [Next]_vars PROVE TypeOK'
    OBVIOUS
  <1> USE IrqAssumption , LineBits DEF IInv, TypeOK, Entry, Zeroed, NoCall, Pc, InitPc,
         RequestPc, MaskPc, CpuPc, TableInv, MaskInv, TrapInv, At, Goto, main, csrs, trap, plic,
         bounds, vars
  <1>1. CASE InitMie
    <2>1. mie' \in BOOLEAN /\ meie' \in BOOLEAN /\ frame' \in BOOLEAN
      BY <1>1, Zenon DEF InitMie
    <2>2. pc' \in Pc /\ UNCHANGED <<arg, k, value, plic, action, asked, line, ipc, irqn, call, bounds>>
      BY <1>1, SMT DEF InitMie
    <2> QED
      BY <2>1, <2>2
  <1>2. CASE InitPriorities
    <2>1. k' \in Word
      BY <1>2 DEF InitPriorities, Word, NUM_IRQ
    <2> QED
      BY <1>2, <2>1 DEF InitPriorities
  <1>3. CASE InitPendingWord
    BY <1>3 DEF InitPendingWord
  <1>4. CASE InitEnableWord
    <2>1. k' \in Word /\ enable' \in [Word -> SUBSET Bit]
      BY <1>4 DEF InitEnableWord, Word, NUM_IRQ
    <2> QED
      BY <1>4, <2>1 DEF InitEnableWord
  <1>5. CASE InitTable
    BY <1>5 DEF InitTable
  <1>6. CASE InitThreshold
    BY <1>6 DEF InitThreshold
  <1>7. CASE EnableMie
    <2>1. mie' \in BOOLEAN /\ meie' \in BOOLEAN /\ frame' \in BOOLEAN
      BY <1>7, Zenon DEF EnableMie
    <2>2. pc' \in Pc /\ UNCHANGED <<arg, k, value, plic, action, asked, line, ipc, irqn, call, bounds>>
      BY <1>7, SMT DEF EnableMie
    <2> QED
      BY <2>1, <2>2
  <1>8. CASE EnableMeie
    <2>1. mie' \in BOOLEAN /\ meie' \in BOOLEAN /\ frame' \in BOOLEAN
      BY <1>8, Zenon DEF EnableMeie
    <2>2. pc' \in Pc /\ UNCHANGED <<arg, k, value, plic, action, asked, line, ipc, irqn, call, bounds>>
      BY <1>8, SMT DEF EnableMeie
    <2> QED
      BY <2>1, <2>2
  <1>9. CASE DisableMie
    <2>1. mie' \in BOOLEAN /\ meie' \in BOOLEAN /\ frame' \in BOOLEAN
      BY <1>9, Zenon DEF DisableMie
    <2>2. pc' \in Pc /\ UNCHANGED <<arg, k, value, plic, action, asked, line, ipc, irqn, call, bounds>>
      BY <1>9, SMT DEF DisableMie
    <2> QED
      BY <2>1, <2>2
  <1>10. CASE DisableMeie
    <2>1. mie' \in BOOLEAN /\ meie' \in BOOLEAN /\ frame' \in BOOLEAN
      BY <1>10, Zenon DEF DisableMeie
    <2>2. pc' \in Pc /\ UNCHANGED <<arg, k, value, plic, action, asked, line, ipc, irqn, call, bounds>>
      BY <1>10, SMT DEF DisableMeie
    <2> QED
      BY <2>1, <2>2
  <1>11. CASE StoreHandler
    BY <1>11 DEF StoreHandler, Store
  <1>12. CASE StoreIrqn
    BY <1>12 DEF StoreIrqn, Store
  <1>13. CASE StorePriv
    BY <1>13 DEF StorePriv, Store
  <1>14. CASE SetPriority
    BY <1>14 DEF SetPriority
  <1>15. CASE UnmaskRead
    <2>1. value' \in SUBSET Bit
      BY <1>15 DEF UnmaskRead, ReadWord
    <2> QED
      BY <1>15, <2>1 DEF UnmaskRead, ReadWord
  <1>16. CASE UnmaskWrite
    BY <1>16 DEF UnmaskWrite, WriteWord
  <1>17. CASE MaskRead
    <2>1. value' \in SUBSET Bit
      BY <1>17 DEF MaskRead, ReadWord
    <2> QED
      BY <1>17, <2>1 DEF MaskRead, ReadWord
  <1>18. CASE MaskWrite
    BY <1>18 DEF MaskWrite, WriteWord
  <1>19. CASE \E r \in Requests : Request(r)
    <2>1. PICK r \in Requests : Request(r)
      BY <1>19
    <2>2. r \in [handler : Handlers \cup {NULL}, irqn : Nat, priv : Privs]
      OBVIOUS
    <2>3. asked' \in [Irqn -> Entry]
      BY <2>1, <2>2 DEF Request, Call, InRange
    <2>4. arg' = r /\ pc' \in Pc /\ calls' = calls + 1 /\ calls < MaxCalls
      BY <2>1 DEF Request, Call, InRange
    <2>5. UNCHANGED <<k, value, csrs, trap, plic, action, line, raises>>
      BY <2>1 DEF Request, Call, InRange
    <2> QED
      BY <2>2, <2>3, <2>4, <2>5
  <1>20. CASE \E i \in Irqn : EnableIrq(i)
    BY <1>20 DEF EnableIrq, Call
  <1>21. CASE \E i \in Irqn : DisableIrq(i)
    BY <1>21 DEF DisableIrq, Call
  <1>22. CASE CpuEnable
    BY <1>22 DEF CpuEnable, Call
  <1>23. CASE CpuDisable
    BY <1>23 DEF CpuDisable, Call
  <1>24. CASE Rest
    BY <1>24 DEF Rest
  <1>25. CASE TrapEnter
    <2>1. mie' \in BOOLEAN /\ frame' \in BOOLEAN /\ meie' \in BOOLEAN
      BY <1>25, Zenon DEF TrapEnter
    <2>2. ipc' = "claim"
      BY <1>25 DEF TrapEnter
    <2>3. UNCHANGED <<main, irqn, call, plic, action, line, asked, bounds>>
      BY <1>25 DEF TrapEnter
    <2> QED
      BY <2>1, <2>2, <2>3
  <1>26. CASE Claim
    <2>1. irqn' \in Irqn \cup {0} /\ pending' \in SUBSET Irqn /\ inflight' \in SUBSET Irqn
      BY <1>26 DEF Claim, Claimable
    <2> QED
      BY <1>26, <2>1 DEF Claim
  <1>27. CASE Dispatch
    BY <1>27 DEF Dispatch
  <1>28. CASE HandlerReturns
    BY <1>28 DEF HandlerReturns
  <1>29. CASE Eoi
    BY <1>29 DEF Eoi
  <1>30. CASE TrapExit
    <2>1. mie' \in BOOLEAN /\ frame' \in BOOLEAN /\ meie' \in BOOLEAN
      BY <1>30, Zenon DEF TrapExit
    <2>2. ipc' = "idle"
      BY <1>30 DEF TrapExit
    <2>3. UNCHANGED <<main, irqn, call, plic, action, line, asked, bounds>>
      BY <1>30 DEF TrapExit
    <2> QED
      BY <2>1, <2>2, <2>3
  <1>31. CASE \E i \in Irqn : Raise(i)
    BY <1>31 DEF Raise
  <1>32. CASE \E i \in Irqn : Gateway(i)
    BY <1>32 DEF Gateway
  <1>33. CASE UNCHANGED vars
    BY <1>33
  <1> QED
    BY <1>1, <1>2, <1>3, <1>4, <1>5, <1>6, <1>7, <1>8, <1>9, <1>10, <1>11, <1>12, <1>13,
       <1>14, <1>15, <1>16, <1>17, <1>18, <1>19, <1>20, <1>21, <1>22, <1>23, <1>24, <1>25, <1>26,
       <1>27, <1>28, <1>29, <1>30, <1>31, <1>32, <1>33 DEF Next, MainStep, MainCall, TrapStep

\* Every step keeps the state of irq_init(): words cleared so far, no trap, nothing asked.
LEMMA InitInvStep == IInv /\ [Next]_vars => InitInv'
  <1> SUFFICES ASSUME IInv, [Next]_vars PROVE InitInv'
    OBVIOUS
  <1> USE IrqAssumption DEF IInv, TypeOK, InitInv, TrapInv, InitPc, RequestPc, MaskPc, CpuPc,
         Enabled, Open, At, Goto, main, csrs, trap, plic, bounds, vars
  <1>1. CASE InitMie
    BY <1>1 DEF InitMie
  <1>2. CASE InitPriorities
    <2>1. k' = 0 /\ \A i \in Irqn : ~ WordOf(i) < 0
      BY <1>2, LineBits DEF InitPriorities
    <2> QED
      BY <1>2, <2>1 DEF InitPriorities
  <1>3. CASE InitPendingWord
    BY <1>3 DEF InitPendingWord
  <1>4. CASE InitEnableWord
    <2>1. \A i \in Irqn : WordOf(i) \in 0 .. 7 /\ WordOf(i) \in Word
      BY LineBits
    <2>2. \A i \in Irqn : WordOf(i) < k + 1 => ~Enabled(i)'
      BY <1>4, <2>1 DEF InitEnableWord, Word, NUM_IRQ
    <2>3. k < 8 => k' = k + 1 /\ pc' = "i_pending"
      BY <1>4 DEF InitEnableWord, NUM_IRQ
    <2>4. ~ k < 8 => pc' = "i_memset" /\ \A i \in Irqn : ~Enabled(i)'
      BY <1>4, <2>1, <2>2 DEF InitEnableWord, Word, NUM_IRQ
    <2> QED
      BY <1>4, <2>2, <2>3, <2>4 DEF InitEnableWord
  <1>5. CASE InitTable
    BY <1>5 DEF InitTable
  <1>6. CASE InitThreshold
    BY <1>6 DEF InitThreshold
  <1>7. CASE EnableMie
    BY <1>7 DEF EnableMie
  <1>8. CASE EnableMeie
    BY <1>8 DEF EnableMeie
  <1>9. CASE DisableMie
    BY <1>9 DEF DisableMie
  <1>10. CASE DisableMeie
    BY <1>10 DEF DisableMeie
  <1>11. CASE StoreHandler
    BY <1>11 DEF StoreHandler, Store
  <1>12. CASE StoreIrqn
    BY <1>12 DEF StoreIrqn, Store
  <1>13. CASE StorePriv
    BY <1>13 DEF StorePriv, Store
  <1>14. CASE SetPriority
    BY <1>14 DEF SetPriority
  <1>15. CASE UnmaskRead
    BY <1>15 DEF UnmaskRead, ReadWord
  <1>16. CASE UnmaskWrite
    BY <1>16 DEF UnmaskWrite, WriteWord
  <1>17. CASE MaskRead
    BY <1>17 DEF MaskRead, ReadWord
  <1>18. CASE MaskWrite
    BY <1>18 DEF MaskWrite, WriteWord
  <1>19. CASE \E r \in Requests : Request(r)
    BY <1>19 DEF Request, Call, InRange
  <1>20. CASE \E i \in Irqn : EnableIrq(i)
    BY <1>20 DEF EnableIrq, Call
  <1>21. CASE \E i \in Irqn : DisableIrq(i)
    BY <1>21 DEF DisableIrq, Call
  <1>22. CASE CpuEnable
    BY <1>22 DEF CpuEnable, Call
  <1>23. CASE CpuDisable
    BY <1>23 DEF CpuDisable, Call
  <1>24. CASE Rest
    BY <1>24 DEF Rest
  <1>25. CASE TrapEnter
    BY <1>25 DEF TrapEnter
  <1>26. CASE Claim
    BY <1>26 DEF Claim, Claimable
  <1>27. CASE Dispatch
    BY <1>27 DEF Dispatch
  <1>28. CASE HandlerReturns
    BY <1>28 DEF HandlerReturns
  <1>29. CASE Eoi
    BY <1>29 DEF Eoi
  <1>30. CASE TrapExit
    BY <1>30 DEF TrapExit
  <1>31. CASE \E i \in Irqn : Raise(i)
    BY <1>31 DEF Raise
  <1>32. CASE \E i \in Irqn : Gateway(i)
    BY <1>32 DEF Gateway
  <1>33. CASE UNCHANGED vars
    BY <1>33
  <1> QED
    BY <1>1, <1>2, <1>3, <1>4, <1>5, <1>6, <1>7, <1>8, <1>9, <1>10, <1>11, <1>12, <1>13,
       <1>14, <1>15, <1>16, <1>17, <1>18, <1>19, <1>20, <1>21, <1>22, <1>23, <1>24, <1>25, <1>26,
       <1>27, <1>28, <1>29, <1>30, <1>31, <1>32, <1>33 DEF Next, MainStep, MainCall, TrapStep

\* Every step keeps the table equal to what was asked, up to the entry being written.
LEMMA TableInvStep == IInv /\ [Next]_vars => TableInv'
  <1> SUFFICES ASSUME IInv, [Next]_vars PROVE TableInv'
    OBVIOUS
  <1> USE IrqAssumption DEF IInv, TypeOK, TableInv, Entry, InitPc, RequestPc, MaskPc, CpuPc,
         Enabled, Open, Zeroed, At, Goto, main, csrs, trap, plic, bounds, vars
  <1>1. CASE InitMie
    BY <1>1 DEF InitMie
  <1>2. CASE InitPriorities
    BY <1>2 DEF InitPriorities
  <1>3. CASE InitPendingWord
    BY <1>3 DEF InitPendingWord
  <1>4. CASE InitEnableWord
    BY <1>4 DEF InitEnableWord
  <1>5. CASE InitTable
    <2>1. \A i \in Irqn : asked[i] = Zeroed
      BY <1>5 DEF InitTable, InitInv
    <2> QED
      BY <1>5, <2>1 DEF InitTable
  <1>6. CASE InitThreshold
    BY <1>6 DEF InitThreshold
  <1>7. CASE EnableMie
    BY <1>7 DEF EnableMie
  <1>8. CASE EnableMeie
    BY <1>8 DEF EnableMeie
  <1>9. CASE DisableMie
    BY <1>9 DEF DisableMie
  <1>10. CASE DisableMeie
    BY <1>10 DEF DisableMeie
  <1>11. CASE StoreHandler
    BY <1>11 DEF StoreHandler, Store
  <1>12. CASE StoreIrqn
    BY <1>12 DEF StoreIrqn, Store
  <1>13. CASE StorePriv
    BY <1>13 DEF StorePriv, Store
  <1>14. CASE SetPriority
    BY <1>14 DEF SetPriority
  <1>15. CASE UnmaskRead
    BY <1>15 DEF UnmaskRead, ReadWord
  <1>16. CASE UnmaskWrite
    BY <1>16 DEF UnmaskWrite, WriteWord
  <1>17. CASE MaskRead
    BY <1>17 DEF MaskRead, ReadWord
  <1>18. CASE MaskWrite
    BY <1>18 DEF MaskWrite, WriteWord
  <1>19. CASE \E r \in Requests : Request(r)
    BY <1>19 DEF Request, Call, InRange
  <1>20. CASE \E i \in Irqn : EnableIrq(i)
    BY <1>20 DEF EnableIrq, Call
  <1>21. CASE \E i \in Irqn : DisableIrq(i)
    BY <1>21 DEF DisableIrq, Call
  <1>22. CASE CpuEnable
    BY <1>22 DEF CpuEnable, Call
  <1>23. CASE CpuDisable
    BY <1>23 DEF CpuDisable, Call
  <1>24. CASE Rest
    BY <1>24 DEF Rest
  <1>25. CASE TrapEnter
    BY <1>25 DEF TrapEnter
  <1>26. CASE Claim
    BY <1>26 DEF Claim, Claimable
  <1>27. CASE Dispatch
    BY <1>27 DEF Dispatch
  <1>28. CASE HandlerReturns
    BY <1>28 DEF HandlerReturns
  <1>29. CASE Eoi
    BY <1>29 DEF Eoi
  <1>30. CASE TrapExit
    BY <1>30 DEF TrapExit
  <1>31. CASE \E i \in Irqn : Raise(i)
    BY <1>31 DEF Raise
  <1>32. CASE \E i \in Irqn : Gateway(i)
    BY <1>32 DEF Gateway
  <1>33. CASE UNCHANGED vars
    BY <1>33
  <1> QED
    BY <1>1, <1>2, <1>3, <1>4, <1>5, <1>6, <1>7, <1>8, <1>9, <1>10, <1>11, <1>12, <1>13,
       <1>14, <1>15, <1>16, <1>17, <1>18, <1>19, <1>20, <1>21, <1>22, <1>23, <1>24, <1>25, <1>26,
       <1>27, <1>28, <1>29, <1>30, <1>31, <1>32, <1>33 DEF Next, MainStep, MainCall, TrapStep

\* Every step keeps the words and priorities in line with what was asked; an interrupt between
\* the read and the write of a word leaves the word alone.
LEMMA MaskInvStep == IInv /\ [Next]_vars => MaskInv'
  <1> SUFFICES ASSUME IInv, [Next]_vars PROVE MaskInv'
    OBVIOUS
  <1> USE IrqAssumption DEF IInv, TypeOK, InitInv, MaskInv, InitPc, RequestPc, MaskPc, CpuPc,
         Enabled, Open, At, Goto, main, csrs, trap, plic, bounds, vars
  <1>1. CASE InitMie
    BY <1>1 DEF InitMie
  <1>2. CASE InitPriorities
    BY <1>2 DEF InitPriorities
  <1>3. CASE InitPendingWord
    BY <1>3 DEF InitPendingWord
  <1>4. CASE InitEnableWord
    BY <1>4 DEF InitEnableWord
  <1>5. CASE InitTable
    BY <1>5 DEF InitTable
  <1>6. CASE InitThreshold
    BY <1>6 DEF InitThreshold
  <1>7. CASE EnableMie
    BY <1>7 DEF EnableMie
  <1>8. CASE EnableMeie
    BY <1>8 DEF EnableMeie
  <1>9. CASE DisableMie
    BY <1>9 DEF DisableMie
  <1>10. CASE DisableMeie
    BY <1>10 DEF DisableMeie
  <1>11. CASE StoreHandler
    BY <1>11 DEF StoreHandler, Store
  <1>12. CASE StoreIrqn
    BY <1>12 DEF StoreIrqn, Store
  <1>13. CASE StorePriv
    BY <1>13 DEF StorePriv, Store
  <1>14. CASE SetPriority
    <2>1. arg.irqn \in Irqn /\ asked[arg.irqn] # Zeroed
      BY <1>14 DEF SetPriority, TableInv, Zeroed
    <2> QED
      BY <1>14, <2>1 DEF SetPriority
  <1>15. CASE UnmaskRead
    BY <1>15 DEF UnmaskRead, ReadWord
  <1>16. CASE UnmaskWrite
    <2>1. \A i \in Irqn : Enabled(i)' => Enabled(i) \/ i = arg.irqn
      BY <1>16, LineBits DEF UnmaskWrite, WriteWord
    <2> QED
      BY <1>16, <2>1 DEF UnmaskWrite, WriteWord
  <1>17. CASE MaskRead
    BY <1>17 DEF MaskRead, ReadWord
  <1>18. CASE MaskWrite
    BY <1>18 DEF MaskWrite, WriteWord
  <1>19. CASE \E r \in Requests : Request(r)
    <2>1. PICK r \in Requests : Request(r)
      BY <1>19
    <2>2. \A i \in Irqn : asked[i] # Zeroed => asked'[i] # Zeroed
      BY <2>1 DEF Request, Call, InRange, Zeroed
    <2> QED
      BY <2>1, <2>2 DEF Request, Call, InRange
  <1>20. CASE \E i \in Irqn : EnableIrq(i)
    BY <1>20 DEF EnableIrq, Call
  <1>21. CASE \E i \in Irqn : DisableIrq(i)
    BY <1>21 DEF DisableIrq, Call
  <1>22. CASE CpuEnable
    BY <1>22 DEF CpuEnable, Call
  <1>23. CASE CpuDisable
    BY <1>23 DEF CpuDisable, Call
  <1>24. CASE Rest
    BY <1>24 DEF Rest
  <1>25. CASE TrapEnter
    BY <1>25 DEF TrapEnter
  <1>26. CASE Claim
    BY <1>26 DEF Claim, Claimable
  <1>27. CASE Dispatch
    BY <1>27 DEF Dispatch
  <1>28. CASE HandlerReturns
    BY <1>28 DEF HandlerReturns
  <1>29. CASE Eoi
    BY <1>29 DEF Eoi
  <1>30. CASE TrapExit
    BY <1>30 DEF TrapExit
  <1>31. CASE \E i \in Irqn : Raise(i)
    BY <1>31 DEF Raise
  <1>32. CASE \E i \in Irqn : Gateway(i)
    BY <1>32 DEF Gateway
  <1>33. CASE UNCHANGED vars
    BY <1>33
  <1> QED
    BY <1>1, <1>2, <1>3, <1>4, <1>5, <1>6, <1>7, <1>8, <1>9, <1>10, <1>11, <1>12, <1>13,
       <1>14, <1>15, <1>16, <1>17, <1>18, <1>19, <1>20, <1>21, <1>22, <1>23, <1>24, <1>25, <1>26,
       <1>27, <1>28, <1>29, <1>30, <1>31, <1>32, <1>33 DEF Next, MainStep, MainCall, TrapStep

\* Every step keeps at most one claim open, on an open line, inside the trap.
LEMMA TrapInvStep == IInv /\ [Next]_vars => TrapInv'
  <1> SUFFICES ASSUME IInv, [Next]_vars PROVE TrapInv'
    OBVIOUS
  <1> USE IrqAssumption DEF IInv, TypeOK, TrapInv, ClaimsCompleted, Enabled, Open, At, Goto,
         main, csrs, trap, plic, bounds, vars
  <1>1. CASE InitMie
    BY <1>1 DEF InitMie
  <1>2. CASE InitPriorities
    BY <1>2 DEF InitPriorities
  <1>3. CASE InitPendingWord
    BY <1>3 DEF InitPendingWord
  <1>4. CASE InitEnableWord
    BY <1>4 DEF InitEnableWord
  <1>5. CASE InitTable
    BY <1>5 DEF InitTable
  <1>6. CASE InitThreshold
    BY <1>6 DEF InitThreshold
  <1>7. CASE EnableMie
    BY <1>7 DEF EnableMie
  <1>8. CASE EnableMeie
    BY <1>8 DEF EnableMeie
  <1>9. CASE DisableMie
    BY <1>9 DEF DisableMie
  <1>10. CASE DisableMeie
    BY <1>10 DEF DisableMeie
  <1>11. CASE StoreHandler
    BY <1>11 DEF StoreHandler, Store
  <1>12. CASE StoreIrqn
    BY <1>12 DEF StoreIrqn, Store
  <1>13. CASE StorePriv
    BY <1>13 DEF StorePriv, Store
  <1>14. CASE SetPriority
    BY <1>14 DEF SetPriority
  <1>15. CASE UnmaskRead
    BY <1>15 DEF UnmaskRead, ReadWord
  <1>16. CASE UnmaskWrite
    BY <1>16 DEF UnmaskWrite, WriteWord
  <1>17. CASE MaskRead
    BY <1>17 DEF MaskRead, ReadWord
  <1>18. CASE MaskWrite
    BY <1>18 DEF MaskWrite, WriteWord
  <1>19. CASE \E r \in Requests : Request(r)
    <2>1. PICK r \in Requests : Request(r)
      BY <1>19
    <2>2. \A i \in Irqn : asked[i] # Zeroed => asked'[i] # Zeroed
      BY <2>1 DEF Request, Call, InRange, Zeroed
    <2> QED
      BY <2>1, <2>2 DEF Request, Call, InRange
  <1>20. CASE \E i \in Irqn : EnableIrq(i)
    BY <1>20 DEF EnableIrq, Call
  <1>21. CASE \E i \in Irqn : DisableIrq(i)
    BY <1>21 DEF DisableIrq, Call
  <1>22. CASE CpuEnable
    BY <1>22 DEF CpuEnable, Call
  <1>23. CASE CpuDisable
    BY <1>23 DEF CpuDisable, Call
  <1>24. CASE Rest
    BY <1>24 DEF Rest
  <1>25. CASE TrapEnter
    BY <1>25 DEF TrapEnter
  <1>26. CASE Claim
    <2>1. CASE Claimable = {}
      BY <1>26, <2>1 DEF Claim, Claimable
    <2>2. CASE Claimable # {}
      <3>1. PICK i \in Claimable : irqn' = i /\ inflight' = inflight \cup {i}
        BY <1>26, <2>2 DEF Claim
      <3>2. i \in Irqn /\ Open(i) /\ Open(i)' /\ inflight = {} /\ ipc' = "dispatch"
        BY <1>26, <3>1 DEF Claim, Claimable
      <3>3. i >= 16 /\ asked[i] # Zeroed
        BY <1>26, <3>2 DEF Claim, MaskInv, InitInv, InitPc
      <3> QED
        BY <1>26, <3>1, <3>2, <3>3 DEF Claim
    <2> QED
      BY <2>1, <2>2
  <1>27. CASE Dispatch
    BY <1>27 DEF Dispatch
  <1>28. CASE HandlerReturns
    BY <1>28 DEF HandlerReturns
  <1>29. CASE Eoi
    BY <1>29 DEF Eoi
  <1>30. CASE TrapExit
    BY <1>30 DEF TrapExit
  <1>31. CASE \E i \in Irqn : Raise(i)
    BY <1>31 DEF Raise
  <1>32. CASE \E i \in Irqn : Gateway(i)
    BY <1>32 DEF Gateway
  <1>33. CASE UNCHANGED vars
    BY <1>33
  <1> QED
    BY <1>1, <1>2, <1>3, <1>4, <1>5, <1>6, <1>7, <1>8, <1>9, <1>10, <1>11, <1>12, <1>13,
       <1>14, <1>15, <1>16, <1>17, <1>18, <1>19, <1>20, <1>21, <1>22, <1>23, <1>24, <1>25, <1>26,
       <1>27, <1>28, <1>29, <1>30, <1>31, <1>32, <1>33 DEF Next, MainStep, MainCall, TrapStep

\* The inductive invariant holds throughout.
LEMMA Inductive == Spec => []IInv
  <1>1. IInv /\ [Next]_vars => IInv'
    BY TypeStep, InitInvStep, TableInvStep, MaskInvStep, TrapInvStep DEF IInv
  <1> QED
    BY InitEstablishes, <1>1, PTL DEF Spec

\* Every variable keeps its type, for any set of lines and any bounds.
THEOREM TypeCorrect == Spec => []TypeOK
  <1>1. IInv => TypeOK
    BY DEF IInv
  <1> QED
    BY <1>1, Inductive, PTL

\* do_irq() never runs a half-written table entry: between any two accesses of
\* request_irq() an interrupt finds the line either masked or with its whole entry.
THEOREM DispatchIsWhole == Spec => []DispatchWhole
  <1>1. IInv => DispatchWhole
    <2> SUFFICES ASSUME IInv, ipc = "handler" PROVE call = asked[irqn] /\ call.handler # NULL
      BY DEF DispatchWhole
    <2>1. irqn \in Irqn /\ Open(irqn) /\ call = action[irqn] /\ call.handler # NULL
      BY DEF IInv, TypeOK, TrapInv, ClaimsCompleted
    <2>2. ~(pc \in RequestPc /\ irqn = arg.irqn)
      BY <2>1 DEF IInv, TableInv
    <2> QED
      BY <2>1, <2>2 DEF IInv, TableInv
  <1> QED
    BY <1>1, Inductive, PTL

\* do_irq() never returns to the main program with a claim open, and what it completes is
\* always still unmasked, so the PLIC never ignores the completion.
THEOREM ClaimsAreCompleted == Spec => []ClaimsCompleted
  <1>1. IInv => ClaimsCompleted
    BY DEF IInv, TrapInv
  <1> QED
    BY <1>1, Inductive, PTL

\* Whatever lines the program unmasks and whatever it found in the PLIC, do_irq() serves only
\* lines that were requested, and nothing at all before irq_init() is over.
THEOREM OnlyAskedServed == Spec => []OnlyAskedLinesServed
  <1>1. IInv => OnlyAskedLinesServed
    BY DEF IInv, InitInv, TrapInv, OnlyAskedLinesServed
  <1> QED
    BY <1>1, Inductive, PTL

-----------------------------------------------------------------------------
(***************************************************************************)
(* Irq implements IrqService                                                *)
(***************************************************************************)
\* Irq starts where the service starts.
LEMMA InitRefines == Init => Service!Init
  <1> SUFFICES ASSUME Init PROVE Service!Init
    OBVIOUS
  <1>1. Serving = Zeroed
    BY DEF Init, Serving
  <1> QED
    BY <1>1 DEF Init, Service!Init

\* While the main program runs, nothing is being served; steps that leave the words, the
\* requests and the wishes alone are invisible to the service.
LEMMA MainInvisible ==
    ASSUME ipc = "idle", ipc' = "idle", UNCHANGED <<asked, enable, prio, pending>>
    PROVE  UNCHANGED Service!vars
  BY DEF Service!vars, Serving, Open, Enabled

\* Every step of irq.c and the PLIC is a step of the service or invisible to it.
LEMMA StepRefines == IInv /\ [Next]_vars => [Service!Next]_(Service!vars)
  <1> SUFFICES ASSUME IInv, [Next]_vars
               PROVE  [Service!Next]_(Service!vars)
    OBVIOUS
  <1> USE DEF At, Goto, main, csrs, trap, plic, bounds
  <1>1. CASE InitPendingWord
    <2>1. ipc = "idle" /\ ipc' = "idle" /\ UNCHANGED <<asked, enable, prio>>
      BY <1>1 DEF InitPendingWord
    <2>2. \A i \in Irqn : asked[i] = Zeroed
      BY <1>1 DEF InitPendingWord, IInv, InitInv, InitPc
    <2>3. PICK S \in SUBSET Irqn : pending' = pending \ S
      <3>1. pending \in SUBSET Irqn
        BY DEF IInv, TypeOK
      <3>2. CASE pending' = pending
        BY <3>2
      <3>3. CASE pending' = {i \in pending : WordOf(i) # k}
        <4>1. pending' = pending \ {i \in pending : WordOf(i) = k}
          BY <3>3
        <4> QED
          BY <3>1, <4>1
      <3> QED
        BY <1>1, <3>2, <3>3 DEF InitPendingWord
    <2>4. Service!Forget(S)
      BY <2>1, <2>2, <2>3 DEF Service!Forget, Serving, Open, Enabled
    <2> QED
      BY <2>4 DEF Service!Next
  <1>2. CASE InitPriorities
    <2>1. ipc = "idle" /\ ipc' = "idle" /\ UNCHANGED <<asked, pending>>
      BY <1>2 DEF InitPriorities
    <2>2. \A i \in Irqn : asked[i] = Zeroed
      BY <1>2 DEF InitPriorities, IInv, InitInv, InitPc
    <2>3. \A i \in Irqn : ~Open(i)'
      BY <1>2 DEF InitPriorities, Open
    <2>4. Service!CloseAll(Irqn)
      BY <2>1, <2>3 DEF Service!CloseAll, Serving
    <2> QED
      BY <2>2, <2>4 DEF Service!Next
  <1>15. CASE InitEnableWord
    <2>1. ipc = "idle" /\ ipc' = "idle" /\ UNCHANGED <<asked, prio, pending>>
      BY <1>15 DEF InitEnableWord
    <2>2. \A i \in Irqn : ~(prio[i] > 0)
      BY <1>15 DEF InitEnableWord, IInv, InitInv, MaskInv, InitPc
    <2> QED
      BY <2>1, <2>2 DEF Service!vars, Serving, Open
  <1>3. CASE \E r \in Requests : Request(r)
    <2>1. PICK r \in Requests : Request(r)
      BY <1>3
    <2>2. ipc = "idle" /\ ipc' = "idle" /\ UNCHANGED <<enable, prio, pending>>
      BY <2>1 DEF Request, Call
    <2>3. CASE InRange(r.irqn)
      <3>1. r.irqn \in Irqn /\ ~Open(r.irqn) /\ asked' = [asked EXCEPT ![r.irqn] = r]
        BY <2>1, <2>3, IrqAssumption DEF Request, InRange
      <3>2. Service!Ask(r.irqn)
        BY <2>2, <3>1 DEF Service!Ask, Serving, Open, Enabled
      <3> QED
        BY <3>1, <3>2 DEF Service!Next
    <2>4. CASE ~InRange(r.irqn)
      BY <2>1, <2>2, <2>4, MainInvisible DEF Request
    <2> QED
      BY <2>3, <2>4
  <1>4. CASE UnmaskWrite
    <2>1. ipc = "idle" /\ ipc' = "idle" /\ UNCHANGED <<asked, prio, pending>>
      BY <1>4 DEF UnmaskWrite, WriteWord
    <2>2. arg.irqn \in Irqn
      BY <1>4 DEF UnmaskWrite, WriteWord, IInv, MaskInv, MaskPc
    <2>3. \A i \in Irqn : Enabled(i)' <=> Enabled(i) \/ i = arg.irqn
      BY <1>4, <2>2, LineBits DEF UnmaskWrite, WriteWord, Enabled, IInv, MaskInv, TypeOK
    <2>4. CASE prio[arg.irqn] > 0
      <3>1. asked[arg.irqn] # Zeroed
        BY <1>4, <2>2, <2>4 DEF UnmaskWrite, WriteWord, IInv, MaskInv
      <3>2. Service!Open(arg.irqn)
        BY <2>1, <2>2, <2>3, <2>4, <3>1 DEF Service!Open, Serving, Open
      <3> QED
        BY <2>2, <3>2 DEF Service!Next
    <2>5. CASE ~(prio[arg.irqn] > 0)
      BY <2>1, <2>3, <2>5 DEF Service!vars, Serving, Open
    <2> QED
      BY <2>4, <2>5
  <1>5. CASE MaskWrite
    <2>1. ipc = "idle" /\ ipc' = "idle" /\ UNCHANGED <<asked, prio, pending>>
      BY <1>5 DEF MaskWrite, WriteWord
    <2>2. arg.irqn \in Irqn
      BY <1>5 DEF MaskWrite, WriteWord, IInv, MaskInv, MaskPc
    <2>3. \A i \in Irqn : Enabled(i)' <=> Enabled(i) /\ i # arg.irqn
      BY <1>5, <2>2, LineBits DEF MaskWrite, WriteWord, Enabled, IInv, MaskInv, TypeOK
    <2>4. Service!Close(arg.irqn)
      BY <2>1, <2>2, <2>3 DEF Service!Close, Service!CloseAll, Serving, Open
    <2> QED
      BY <2>2, <2>4 DEF Service!Next
  <1>16. CASE SetPriority
    <2>1. ipc = "idle" /\ ipc' = "idle" /\ UNCHANGED <<asked, enable, pending>>
      BY <1>16 DEF SetPriority
    <2>2. arg.irqn \in Irqn /\ asked[arg.irqn] # Zeroed
      BY <1>16, IrqAssumption DEF SetPriority, IInv, TableInv, RequestPc, Zeroed
    <2>3. /\ prio' = [prio EXCEPT ![arg.irqn] = 7] /\ prio \in [Irqn -> 0 .. 7]
          /\ \A i \in Irqn : Enabled(i)' <=> Enabled(i)
      BY <1>16 DEF SetPriority, IInv, TypeOK, Enabled
    <2>4. CASE Enabled(arg.irqn)
      <3>1. \A i \in Irqn : Open(i)' <=> Open(i) \/ i = arg.irqn
        BY <2>3, <2>4 DEF Open
      <3>2. Service!Open(arg.irqn)
        BY <2>1, <2>2, <3>1 DEF Service!Open, Serving
      <3> QED
        BY <2>2, <3>2 DEF Service!Next
    <2>5. CASE ~Enabled(arg.irqn)
      <3>1. \A i \in Irqn : Open(i)' <=> Open(i)
        BY <2>3, <2>5 DEF Open
      <3> QED
        BY <2>1, <3>1 DEF Service!vars, Serving
    <2> QED
      BY <2>4, <2>5
  <1>6. CASE \/ InitMie \/ InitTable \/ InitThreshold
             \/ EnableMie \/ EnableMeie \/ DisableMie \/ DisableMeie
             \/ StoreHandler \/ StoreIrqn \/ StorePriv
             \/ UnmaskRead \/ MaskRead
             \/ \E i \in Irqn : EnableIrq(i) \/ DisableIrq(i)
             \/ CpuEnable \/ CpuDisable
    <2>1. ipc = "idle" /\ ipc' = "idle" /\ UNCHANGED <<asked, enable, prio, pending>>
      BY <1>6 DEF InitMie, InitTable, InitThreshold, EnableMie, EnableMeie, DisableMie, DisableMeie,
                  StoreHandler, StoreIrqn, StorePriv, UnmaskRead, MaskRead, CpuEnable, CpuDisable,
                  Store, ReadWord, EnableIrq, DisableIrq, Call
    <2> QED
      BY <2>1, MainInvisible
  <1>7. CASE Rest \/ UNCHANGED vars
    BY <1>7 DEF Rest, vars, Service!vars, Serving, Open, Enabled
  <1>8. CASE TrapEnter \/ TrapExit
    BY <1>8 DEF TrapEnter, TrapExit, Service!vars, Serving, Open, Enabled
  <1>9. CASE Claim
    <2>1. ipc = "claim" /\ ipc' = "dispatch" /\ UNCHANGED <<asked, action, enable, prio>>
      BY <1>9 DEF Claim
    <2>2. \A i \in Irqn : Open(i)' <=> Open(i)
      BY <2>1 DEF Open, Enabled
    <2>3. CASE Claimable = {}
      BY <1>9, <2>1, <2>2, <2>3 DEF Claim, Service!vars, Serving
    <2>4. CASE Claimable # {}
      <3>1. PICK i \in Claimable : irqn' = i /\ pending' = pending \ {i}
        BY <1>9, <2>4 DEF Claim
      <3>2. i \in Irqn /\ i # 0 /\ i \in pending /\ Open(i)
        BY <3>1, IrqAssumption DEF Claimable, IInv, TypeOK
      <3>3. asked[i] # Zeroed
        BY <2>1, <3>2 DEF IInv, MaskInv, InitInv, InitPc, Open
      <3>4. action[i] = asked[i]
        BY <3>2 DEF IInv, TableInv
      <3>5. Serving = Zeroed /\ Serving' = asked[i]
        BY <2>1, <3>1, <3>2, <3>4 DEF Serving
      <3>6. Service!Take(i)
        BY <2>1, <2>2, <3>1, <3>2, <3>3, <3>5 DEF Service!Take
      <3> QED
        BY <3>2, <3>6 DEF Service!Next
    <2> QED
      BY <2>3, <2>4
  <1>10. CASE Dispatch
    <2>1. ipc = "dispatch" /\ UNCHANGED <<asked, action, enable, prio, pending, irqn>>
      BY <1>10 DEF Dispatch
    <2>2. Serving' = Serving
      BY <1>10, <2>1 DEF Dispatch, Serving
    <2> QED
      BY <2>1, <2>2 DEF Service!vars, Open, Enabled
  <1>11. CASE HandlerReturns
        <2>1. ipc = "handler" /\ ipc' = "eoi" /\ UNCHANGED <<asked, action, enable, prio, pending,
           irqn>>
      BY <1>11 DEF HandlerReturns
    <2>2. Serving' = Serving
      BY <2>1 DEF Serving, IInv, TrapInv
    <2> QED
      BY <2>1, <2>2 DEF Service!vars, Open, Enabled
  <1>12. CASE Eoi
    <2>1. ipc = "eoi" /\ ipc' = "claim" /\ UNCHANGED <<asked, action, enable, prio, pending, irqn>>
      BY <1>12 DEF Eoi
    <2>2. irqn \in Irqn /\ Open(irqn) /\ asked[irqn] # Zeroed
      BY <2>1 DEF IInv, TypeOK, TrapInv, ClaimsCompleted
    <2>3. action[irqn] = asked[irqn]
      BY <2>2 DEF IInv, TableInv
    <2>4. Serving # Zeroed /\ Serving' = Zeroed
      BY <2>1, <2>2, <2>3, IrqAssumption DEF Serving, IInv, TrapInv
    <2>5. Service!Done
      BY <2>1, <2>4 DEF Service!Done, Open, Enabled
    <2> QED
      BY <2>5 DEF Service!Next
  <1>13. CASE \E i \in Irqn : Gateway(i)
    <2>1. PICK i \in Irqn : Gateway(i)
      BY <1>13
    <2>2. Service!Arrive(i)
      BY <2>1 DEF Gateway, Service!Arrive, Serving, Open, Enabled
    <2> QED
      BY <2>2 DEF Service!Next
  <1>14. CASE \E i \in Irqn : Raise(i)
    BY <1>14 DEF Raise, Service!vars, Serving, Open, Enabled
  <1> QED
    BY <1>1, <1>2, <1>3, <1>4, <1>5, <1>6, <1>7, <1>8, <1>9, <1>10, <1>11, <1>12, <1>13,
       <1>14, <1>15,
       <1>16
    DEF Next, MainStep, MainCall, TrapStep

\* irq.c keeps the promise of IrqService: each request of an unmasked line is served once, by
\* the whole entry its program asked for last, and masking one line disturbs no other.
THEOREM IrqImplementsService == Spec => ImplementsService
  <1>1. IInv /\ [Next]_vars => [Service!Next]_(Service!vars)
    BY StepRefines
  <1> QED
    BY InitRefines, <1>1, Inductive, PTL DEF Spec, ImplementsService, Service!Spec
=============================================================================
