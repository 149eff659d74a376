-------------------------------- MODULE Trap --------------------------------
(***************************************************************************)
(* trap_entry of start.S and handle_trap() of trap.c: the way into and out  *)
(* of an interrupt or an exception, in the registers and on the stack.      *)
(* Addresses count 8-byte words and the stack grows down.  What a handler   *)
(* does besides using registers, stack and further traps is module Irq.     *)
(***************************************************************************)
EXTENDS Integers, Sequences, SequencesExt

CONSTANTS StackSize,    \* words of stack
          MaxDepth      \* bound on the traps that are open at a time

FaultFrame == 34        \* a seeded fault: no room for mcause
FRAME == 35             \* words of trap_entry's frame
BODY == 3               \* words of handle_trap()'s frame: ra, s0, and the cause it is given

ASSUME TrapAssumption ==
    /\ StackSize \in Nat /\ MaxDepth \in Nat
    /\ StackSize > MaxDepth * (FRAME + BODY)

X == 1..31              \* the integer registers
ra == 1
sp == 2
t0 == 5
t1 == 6
s0 == 8
a0 == 10
a1 == 11
a2 == 12
CalleeSaved == {sp, 3, 4, s0, 9} \cup 18..27

\* Places in the code, and what registers may hold, are all numbers.  At fault, store and
\* body_fault is an instruction that traps whenever it is executed, for store with a store
\* access fault.
here == 101
there == 102
fault == 103
store == 104
trap_entry == 105
body == 106
body_fault == 107
MainCode == {here, there, fault, store}
HandlerCode == {body, body_fault}
badaddr == 108
junk == 109

\* mcause
Irq == 16
LoadFault == 5
StoreFault == 7

\* mstatus: bits 3 and 7
Mstatus(m, p) == (IF m THEN 8 ELSE 0) + (IF p THEN 128 ELSE 0)
Mie(mstatus) == (mstatus \div 8) % 2 = 1
Mpie(mstatus) == (mstatus \div 128) % 2 = 1

VARIABLES
    step,       \* "run" C code; "save", "csrs", "call" the way in; "mstatus", "restore",
                \* "mret" the way out; "hung"
    pc, regs, mie, mpie, mepc, mcause,  \* the hart; mie and mpie are bits of mstatus
    mem,        \* the stack
    open        \* what was interrupted, innermost last: its context, as it was

csrs == <<mie, mpie, mepc, mcause>>
vars == <<step, pc, regs, csrs, mem, open>>

\* What the code that runs relies on: where it is, its registers, whether interrupts are on,
\* and the words of its stack.
Context ==
    [pc |-> pc, regs |-> regs, mie |-> mie,
     stack |-> [a \in regs[sp]..(StackSize - 1) |-> mem[a]]]

Init ==
    /\ step = "run" /\ pc = here /\ mie \in BOOLEAN /\ mpie = FALSE
    /\ regs = [r \in X |-> IF r = sp THEN StackSize - 1 ELSE 0]
    /\ mepc = here /\ mcause = Irq
    /\ mem = [a \in 0..(StackSize - 1) |-> 0]
    /\ open = <<>>

Go(from, to) == step = from /\ step' = to

\* The interrupted program, in as far as it matters: it moves on, changes a register of either
\* kind, and after irq_init() or enable_irq() interrupts are on.
Work ==
    /\ Go("run", "run") /\ open = <<>> /\ pc \in {here, there}
    /\ pc' \in MainCode \ {pc}
    /\ regs' \in {[regs EXCEPT ![t0] = v, ![s0] = 1 - v] : v \in {0, 1}}
    /\ mie' \in {mie, TRUE}
    /\ UNCHANGED <<mpie, mepc, mcause, mem, open>>

-----------------------------------------------------------------------------
(* The hart *)
Take(cause) ==
    /\ mpie' = mie /\ mie' = FALSE
    /\ mepc' = pc /\ mcause' = cause
    /\ pc' = trap_entry /\ step' = "save"
    /\ open' = Append(open, Context)
    /\ UNCHANGED <<regs, mem>>

\* An interrupt comes wherever it is let in ...
Interrupt == mie /\ step # "hung" /\ Len(open) < MaxDepth /\ Take(Irq)

\* ... an exception at its instruction.
Exception ==
    /\ step = "run" /\ Len(open) < MaxDepth
    /\ pc \in {fault, body_fault, store}
    /\ Take(IF pc = store THEN StoreFault ELSE LoadFault)

Mret ==
    /\ Go("mret", "run")
    /\ pc' = mepc /\ mie' = mpie /\ mpie' = TRUE
    /\ open' = Front(open)
    /\ UNCHANGED <<regs, mepc, mcause, mem>>

-----------------------------------------------------------------------------
(* Seeded faults *)
FaultMieOn ==
    /\ Go("mstatus", "restore")
    /\ mie' = TRUE /\ mpie' = Mpie(mem[regs[sp] + 32])
    /\ mepc' = mem[regs[sp]]
    /\ regs' = [regs EXCEPT ![t0] = mem[regs[sp] + 32], ![a1] = mem[regs[sp]]]
    /\ UNCHANGED <<pc, mcause, mem, open>>

\* trap_entry: addi sp, then SREG x1 .. x31; the sp that is saved is the lowered one.
SaveRegs ==
    /\ Go("save", "csrs")
    /\ LET low == regs[sp] - FRAME
           saved == [regs EXCEPT ![sp] = low]
       IN /\ regs' = saved
          /\ mem' = [a \in DOMAIN mem |-> IF a - low \in X THEN saved[a - low] ELSE mem[a]]
    /\ UNCHANGED <<pc, csrs, open>>

\* mepc, mstatus, mbadaddr and mcause go to the words 0, 32, 33 and 34, and the arguments of
\* handle_trap() into their registers.
SaveCsrs ==
    /\ Go("csrs", "call")
    /\ LET frame == regs[sp]
           mstatus == Mstatus(mie, mpie)
       IN /\ regs' = [regs EXCEPT ![a0] = mcause, ![a1] = mepc, ![a2] = frame,
                                  ![t0] = mstatus, ![t1] = badaddr]
          /\ mem' = [mem EXCEPT ![frame] = mepc, ![frame + 32] = mstatus,
                                ![frame + 33] = badaddr, ![frame + 34] = mcause]
    /\ UNCHANGED <<pc, csrs, open>>

\* handle_trap() is called: C code with a frame of its own that uses the registers as the
\* calling convention lets it.  It may come to a faulty instruction.
HandleTrap ==
    /\ Go("call", "run")
    /\ pc' \in HandlerCode
    /\ LET low == regs[sp] - BODY
       IN /\ regs' = [r \in X |-> IF r = sp THEN low
                                  ELSE IF r \in CalleeSaved \ {s0} THEN regs[r] ELSE junk]
          /\ mem' = [mem EXCEPT ![low] = trap_entry, ![low + 1] = regs[s0], ![low + 2] = regs[a0]]
    /\ UNCHANGED <<csrs, open>>

\* _exit_trap(): after a store access fault the program stops here.
Hang ==
    /\ Go("run", "hung") /\ pc = body
    /\ mem[regs[sp] + 2] = StoreFault
    /\ UNCHANGED <<pc, regs, csrs, mem, open>>

\* Otherwise handle_trap() returns, and what it returns is not used.
HandlerReturns ==
    /\ Go("run", "mstatus") /\ pc = body
    /\ mem[regs[sp] + 2] # StoreFault
    /\ pc' = trap_entry
    /\ regs' = [regs EXCEPT ![sp] = @ + BODY, ![s0] = mem[regs[sp] + 1], ![ra] = mem[regs[sp]]]
    /\ UNCHANGED <<csrs, mem, open>>

\* mstatus and mepc come back from the frame: the trap may have been interrupted by another.
RestoreCsrs ==
    /\ Go("mstatus", "restore")
    /\ mie' = Mie(mem[regs[sp] + 32]) /\ mpie' = Mpie(mem[regs[sp] + 32])
    /\ mepc' = mem[regs[sp]]
    /\ regs' = [regs EXCEPT ![t0] = mem[regs[sp] + 32], ![a1] = mem[regs[sp]]]
    /\ UNCHANGED <<pc, mcause, mem, open>>

\* LREG x1 .. x31 and addi sp
RestoreRegs ==
    /\ Go("restore", "mret")
    /\ regs' = [r \in X |-> IF r = sp THEN mem[regs[sp] + sp] + FRAME ELSE mem[regs[sp] + r]]
    /\ UNCHANGED <<pc, csrs, mem, open>>

Hung == step = "hung" /\ UNCHANGED vars

\* The bound is reached at an instruction that would trap once more.
Over ==
    /\ step = "run" /\ pc \in {fault, body_fault, store} /\ Len(open) = MaxDepth
    /\ UNCHANGED vars

Next ==
    \/ Work \/ Interrupt \/ Exception \/ Mret
    \/ SaveRegs \/ SaveCsrs \/ HandleTrap \/ HandlerReturns \/ Hang
    \/ RestoreCsrs \/ RestoreRegs
    \/ Hung \/ Over

Spec == Init /\ [][Next]_vars

-----------------------------------------------------------------------------
TypeOK ==
    /\ step \in {"run", "save", "csrs", "call", "mstatus", "restore", "mret", "hung"}
    /\ pc \in MainCode \cup HandlerCode \cup {trap_entry}
    /\ DOMAIN regs = X /\ regs[sp] \in 0..(StackSize - 1)
    /\ mie \in BOOLEAN /\ mpie \in BOOLEAN
    /\ Len(open) <= MaxDepth

\* Code that was interrupted goes on where it was, with the registers, the stack and the
\* interrupt enable it had, however deep the traps went and whatever their handlers used.  An
\* exception thus comes back to the instruction that caused it.
Transparent ==
    [][Mret => LET before == Last(open)
               IN /\ pc' = before.pc /\ regs' = before.regs /\ mie' = before.mie
                  /\ \A a \in DOMAIN before.stack : mem'[a] = before.stack[a]]_vars

\* No interrupt is taken from the time an interrupt or an exception is taken until its mret:
\* do_irq(), claim to complete, is not interrupted by itself.
NeverNested == open # <<>> => ~mie
=============================================================================
