----------------------------- MODULE TrapProofs -----------------------------
(***************************************************************************)
(* The way into and out of a trap (Trap) loses nothing and is not           *)
(* interrupted, for every stack and every depth of traps that fits it.      *)
(***************************************************************************)
EXTENDS Trap, SequenceTheorems, TLAPS

\* The stack pointer of the code that the k-th of the open traps interrupts, and the trap's
\* frame; handle_trap()'s frame is the words below, down to Base(k + 1).
Base(k) == StackSize - 1 - (k - 1) * 38
Frame(k) == Base(k) - FRAME

Depth == Len(open)
Addresses == 0 .. (StackSize - 1)
Stacks == UNION {[A -> Int] : A \in SUBSET Int}
Contexts == [pc : Int, regs : [X -> Int], mie : BOOLEAN, stack : Stacks]

Types ==
    /\ step \in {"run", "save", "csrs", "call", "mstatus", "restore", "mret", "hung"}
    /\ pc \in Int /\ regs \in [X -> Int] /\ mepc \in Int /\ mcause \in Int
    /\ mie \in BOOLEAN /\ mpie \in BOOLEAN
    /\ mem \in [Addresses -> Int]
    /\ open \in Seq(Contexts) /\ Depth <= MaxDepth

\* What was interrupted: only main code had interrupts on, and its stack is as it was.
Interrupted ==
    \A k \in 1..Depth :
      /\ open[k].regs[sp] = Base(k)
      /\ k > 1 => open[k].mie = FALSE
      /\ DOMAIN open[k].stack = Base(k) .. (StackSize - 1)
      /\ \A a \in Base(k) .. (StackSize - 1) : open[k].stack[a] = mem[a]

\* The frame of the k-th trap holds the registers, the sp in its lowered form, ...
SavedRegs(k) ==
    /\ mem[Frame(k) + sp] = Frame(k)
    /\ \A r \in X \ {sp} : mem[Frame(k) + r] = open[k].regs[r]

\* ... and mepc and mstatus, in which interrupts are off and the bit MPIE says what they were.
Saved(k) ==
    /\ SavedRegs(k)
    /\ mem[Frame(k)] = open[k].pc
    /\ mem[Frame(k) + 32] = Mstatus(FALSE, open[k].mie)

\* The traps below the innermost are saved as a whole; that one is, too, while C code runs.
Frames ==
    \A k \in 1..Depth : k < Depth \/ step \in {"call", "run", "mstatus"} => Saved(k)

InHart == mpie = open[Depth].mie /\ mepc = open[Depth].pc

\* Where the innermost trap is
Innermost ==
    /\ Depth = 0 => step = "run" /\ regs[sp] = Base(1)
    /\ Depth > 0 =>
         /\ mie = FALSE
         /\ step \in {"save", "mret"} => regs = open[Depth].regs /\ InHart
         /\ step \in {"csrs", "restore"} => regs[sp] = Frame(Depth) /\ SavedRegs(Depth) /\ InHart
         /\ step \in {"call", "mstatus"} => regs[sp] = Frame(Depth)
         /\ step = "run" => regs[sp] = Base(Depth + 1)

\* handle_trap() runs in a trap only.
Main ==
    /\ Depth = 0 => pc \in MainCode
    /\ Depth > 0 => open[1].pc \in MainCode

IInv == Types /\ Interrupted /\ Frames /\ Innermost /\ Main

-----------------------------------------------------------------------------
\* The frames of all open traps and one more are on the stack, one below the other.
LEMMA Places ==
    ASSUME IInv, NEW k \in 1..Depth
    PROVE  /\ Depth \in Nat /\ k \in Nat
           /\ Base(k) \in Int /\ Frame(k) \in Int /\ Base(Depth) \in Int
           /\ Frame(k) = Base(k) - 35 /\ Base(k + 1) = Base(k) - 38
           /\ Base(k) >= Base(Depth) /\ (k < Depth => Base(k) >= Base(Depth) + 38)
           /\ Base(Depth) - 38 >= 0 /\ Base(k) <= StackSize - 1
           /\ StackSize \in Nat
<1>1. Depth \in Nat /\ Depth <= MaxDepth
  BY DEF IInv, Types, Depth
<1>2. StackSize \in Nat /\ MaxDepth \in Nat /\ StackSize > MaxDepth * 38
  BY TrapAssumption DEF FRAME, BODY
<1> QED  BY <1>1, <1>2 DEF Base, Frame, FRAME

\* mstatus of a trap: MIE is off, MPIE what it was put together from.
LEMMA MstatusOfTrap ==
    ASSUME NEW p \in BOOLEAN
    PROVE  /\ Mstatus(FALSE, p) \in Int
           /\ ~Mie(Mstatus(FALSE, p))
           /\ Mpie(Mstatus(FALSE, p)) <=> p
<1>1. CASE p
  <2>1. Mstatus(FALSE, p) = 128
    BY <1>1 DEF Mstatus
  <2>2. ~Mie(128) /\ Mpie(128) /\ 128 \in Int
    BY DEF Mie, Mpie
  <2> QED  BY <1>1, <2>1, <2>2, Zenon
<1>2. CASE ~p
  <2>1. Mstatus(FALSE, p) = 0
    BY <1>2 DEF Mstatus
  <2>2. ~Mie(0) /\ ~Mpie(0) /\ 0 \in Int
    BY DEF Mie, Mpie
  <2> QED  BY <1>2, <2>1, <2>2, Zenon
<1> QED  BY <1>1, <1>2

\* What a step writes below the sp of the innermost interrupted code touches neither what was
\* interrupted nor the frames of the traps it is in.
LEMMA Below ==
    ASSUME IInv, UNCHANGED open, \A a \in Addresses : a >= Base(Depth) => mem'[a] = mem[a]
    PROVE  /\ Interrupted'
           /\ \A k \in 1..Depth : k < Depth => Saved(k)'
<1>1. Interrupted'
  <2> SUFFICES ASSUME NEW k \in 1..Depth
               PROVE  /\ open[k].regs[sp] = Base(k)
                      /\ k > 1 => open[k].mie = FALSE
                      /\ DOMAIN open[k].stack = Base(k) .. (StackSize - 1)
                      /\ \A a \in Base(k) .. (StackSize - 1) : open[k].stack[a] = mem'[a]
    BY DEF Interrupted, Depth, Base
  <2>1. \A a \in Base(k) .. (StackSize - 1) : a \in Addresses /\ a >= Base(Depth)
    BY Places DEF Addresses
  <2> QED  BY <2>1 DEF IInv, Interrupted
<1>2. ASSUME NEW k \in 1..Depth, k < Depth
      PROVE  Saved(k)'
  <2>1. Saved(k)
    BY <1>2 DEF IInv, Frames
  <2>2. \A j \in 0..34 : Frame(k) + j \in Addresses /\ Frame(k) + j >= Base(Depth)
    BY <1>2, Places DEF Addresses
  <2>3. \A j \in 0..34 : mem'[Frame(k) + j] = mem[Frame(k) + j]
    BY <2>2
  <2>4. mem'[Frame(k)] = mem[Frame(k)]
    BY <2>3, <1>2, Places
  <2>5. open' = open /\ Frame(k)' = Frame(k)
    BY DEF Frame, Base
  <2>6. mem'[Frame(k) + sp] = Frame(k)
    BY <2>1, <2>3 DEF Saved, SavedRegs, sp
  <2>7. \A r \in X \ {sp} : mem'[Frame(k) + r] = open[k].regs[r]
    <3> SUFFICES ASSUME NEW r \in X \ {sp} PROVE mem'[Frame(k) + r] = open[k].regs[r]
      OBVIOUS
    <3>1. r \in 0..34
      BY DEF X
    <3> QED  BY <2>1, <2>3, <3>1 DEF Saved, SavedRegs
  <2>8. mem'[Frame(k) + 32] = Mstatus(FALSE, open[k].mie) /\ mem'[Frame(k)] = open[k].pc
    <3>1. mem'[Frame(k) + 32] = mem[Frame(k) + 32]
      BY <2>3
    <3> QED  BY <2>1, <2>4, <3>1, Zenon DEF Saved
  <2> QED  BY <2>5, <2>6, <2>7, <2>8, Zenon DEF Saved, SavedRegs
<1> QED  BY <1>1, <1>2

\* At the start no trap is open.
LEMMA InitIInv == Init => IInv
<1> SUFFICES ASSUME Init PROVE IInv
  OBVIOUS
<1>1. StackSize \in Nat /\ MaxDepth \in Nat
  BY TrapAssumption
<1>2. open = <<>> /\ Depth = 0
  BY DEF Init, Depth
<1>3. Types
  <2>1. regs \in [X -> Int]
    BY <1>1 DEF Init
  <2>2. mem \in [Addresses -> Int]
    BY DEF Init, Addresses
  <2>3. open \in Seq(Contexts)
    BY <1>2
  <2>4. mie \in BOOLEAN /\ mpie \in BOOLEAN
    BY Zenon DEF Init
  <2>5. pc \in Int /\ mepc \in Int /\ mcause \in Int
    BY DEF Init, here, Irq
  <2> QED  BY <1>1, <1>2, <2>1, <2>2, <2>3, <2>4, <2>5 DEF Init, Types
<1>4. Innermost
  BY <1>1, <1>2 DEF Init, Innermost, X, sp, Base
<1>5. Interrupted /\ Frames
  BY <1>2 DEF Interrupted, Frames
<1>6. Main
  BY <1>2 DEF Init, Main, MainCode
<1> QED  BY <1>3, <1>4, <1>5, <1>6 DEF IInv

\* Main code works while no trap is open.
LEMMA Working == IInv /\ Work => IInv'
<1> SUFFICES ASSUME IInv, Work PROVE IInv'
  OBVIOUS
<1>1. open = <<>> /\ open' = <<>> /\ Depth = 0 /\ Depth' = 0 /\ mem' = mem
      /\ UNCHANGED <<mpie, mepc, mcause>> /\ step = "run" /\ step' = "run"
  BY DEF Work, Go, Depth
<1>2. regs' \in [X -> Int] /\ regs'[sp] = regs[sp]
  <2>1. PICK v \in {0, 1} : regs' = [regs EXCEPT ![t0] = v, ![s0] = 1 - v]
    BY DEF Work
  <2>2. regs \in [X -> Int] /\ v \in Int /\ 1 - v \in Int
    BY DEF IInv, Types
  <2>3. sp # t0 /\ sp # s0 /\ sp \in X
    BY DEF sp, t0, s0, X
  <2> QED  BY <2>1, <2>2, <2>3
<1>3. pc' \in Int
  BY DEF Work, MainCode, here, there, fault, store
<1>4. mie' \in BOOLEAN
  BY DEF Work, IInv, Types
<1>5. Types'
  BY <1>1, <1>2, <1>3, <1>4 DEF IInv, Types, Addresses
<1>6. Innermost'
  BY <1>1, <1>2 DEF IInv, Innermost, Base
<1>7. Interrupted' /\ Frames'
  BY <1>1 DEF Interrupted, Frames
<1>8. Main'
  BY <1>1 DEF Work, Main
<1> QED  BY <1>5, <1>6, <1>7, <1>8 DEF IInv

\* Interrupts are on and exceptions come only where C code runs, so the context that is put
\* aside is that of main code or of a handler whose trap is saved.
LEMMA Taking ==
    ASSUME IInv, NEW cause \in Int, Take(cause), Depth < MaxDepth, mie \/ step = "run", step # "hung"
    PROVE  IInv'
<1>1. step = "run" /\ (Depth > 0 => mie = FALSE) /\ regs[sp] = Base(Depth + 1) /\ Depth \in Nat
  <2>1. Depth \in Nat
    BY DEF IInv, Types, Depth
  <2> QED  BY <2>1 DEF IInv, Innermost
<1> DEFINE c == Context
<1>2. /\ open' = Append(open, c) /\ UNCHANGED <<regs, mem>> /\ step' = "save"
      /\ mpie' = mie /\ mie' = FALSE /\ mepc' = pc /\ mcause' = cause /\ pc' = trap_entry
  BY DEF Take
<1>3. c.pc = pc /\ c.regs = regs /\ c.mie = mie
      /\ c.stack = [a \in regs[sp] .. (StackSize - 1) |-> mem[a]]
  BY DEF Context
<1>4. StackSize \in Nat /\ MaxDepth \in Nat /\ StackSize > MaxDepth * 38
  BY TrapAssumption DEF FRAME, BODY
<1>5. Base(Depth + 1) \in Nat /\ Base(Depth + 1) .. (StackSize - 1) \subseteq Addresses
  BY <1>1, <1>4 DEF Base, Addresses
<1>6. c \in Contexts
  <2>1. c.stack \in [Base(Depth + 1) .. (StackSize - 1) -> Int]
    BY <1>1, <1>3, <1>5 DEF IInv, Types
  <2>2. Base(Depth + 1) .. (StackSize - 1) \in SUBSET Int
    OBVIOUS
  <2>3. c.stack \in Stacks
    BY <2>1, <2>2 DEF Stacks
  <2> QED  BY <2>3 DEF Context, Contexts, IInv, Types
<1> HIDE DEF c
<1>7. /\ open' \in Seq(Contexts) /\ Depth' = Depth + 1 /\ open'[Depth + 1] = c
      /\ \A k \in 1..Depth : open'[k] = open[k]
  BY <1>1, <1>2, <1>6 DEF IInv, Types, Depth
<1>8. Types'
  <2>1. mpie' \in BOOLEAN /\ mie' \in BOOLEAN
    BY <1>2, Zenon DEF IInv, Types
  <2>2. Depth' <= MaxDepth
    BY <1>1, <1>4, <1>7
  <2> QED  BY <1>2, <1>7, <2>1, <2>2 DEF IInv, Types, trap_entry
<1>9. Interrupted'
  <2> SUFFICES ASSUME NEW k \in 1..(Depth + 1)
               PROVE  /\ open'[k].regs[sp] = Base(k)
                      /\ k > 1 => open'[k].mie = FALSE
                      /\ DOMAIN open'[k].stack = Base(k) .. (StackSize - 1)
                      /\ \A a \in Base(k) .. (StackSize - 1) : open'[k].stack[a] = mem[a]
    BY <1>2, <1>7 DEF Interrupted, Base
  <2>1. CASE k \in 1..Depth
    BY <1>7, <2>1 DEF IInv, Interrupted
  <2>2. CASE k = Depth + 1
    <3>1. open'[k] = c /\ (k > 1 => mie = FALSE) /\ regs[sp] = Base(k)
      BY <1>1, <1>7, <2>2
    <3> QED  BY <1>3, <3>1
  <2>3. k \in 1..Depth \/ k = Depth + 1
    BY <1>1
  <2> QED  BY <2>1, <2>2, <2>3
<1>10. Frames'
  <2> SUFFICES ASSUME NEW k \in 1..(Depth + 1), k < Depth + 1
               PROVE  Saved(k)'
    BY <1>2, <1>7 DEF Frames
  <2>1. k \in 1..Depth /\ Saved(k)
    BY <1>1 DEF IInv, Frames
  <2> QED  BY <1>2, <1>7, <2>1 DEF Saved, SavedRegs, Frame, Base
<1>11. Innermost'
  BY <1>1, <1>2, <1>3, <1>7 DEF Innermost, InHart
<1>12. Main'
  BY <1>1, <1>3, <1>7 DEF IInv, Main
<1> QED  BY <1>8, <1>9, <1>10, <1>11, <1>12 DEF IInv

\* mret continues what was interrupted last: with its registers, and with interrupts off if
\* that was a handler.
LEMMA Returning == IInv /\ Mret => IInv'
<1> SUFFICES ASSUME IInv, Mret PROVE IInv'
  OBVIOUS
<1>1. /\ step = "mret" /\ step' = "run" /\ pc' = mepc /\ mie' = mpie /\ mpie' = TRUE
      /\ open' = Front(open) /\ UNCHANGED <<regs, mepc, mcause, mem>>
  BY DEF Mret, Go
<1>2. Depth \in Nat /\ Depth > 0 /\ Depth <= MaxDepth /\ MaxDepth \in Nat
  <2>1. Depth \in Nat
    BY DEF IInv, Types, Depth
  <2> QED  BY <1>1, <2>1, TrapAssumption DEF IInv, Innermost, Types
<1>3. regs = open[Depth].regs /\ InHart
  BY <1>1, <1>2 DEF IInv, Innermost
<1>4. /\ open' \in Seq(Contexts) /\ Depth' = Depth - 1
      /\ \A k \in 1..(Depth - 1) : open'[k] = open[k]
  <2>1. open \in Seq(Contexts) /\ Depth - 1 <= Len(open)
    BY <1>2 DEF IInv, Types, Depth
  <2>2. open' = SubSeq(open, 1, Depth - 1)
    BY <1>1 DEF Front, Depth
  <2>3. /\ open' \in Seq(Contexts) /\ Len(open') = Depth - 1
        /\ \A k \in 1..(Depth - 1) : open'[k] = open[k]
    <3>1. \A k \in 1..(Depth - 1) : open[k] \in Contexts
      BY <1>2, <2>1
    <3>2. 1 \in Int /\ Depth - 1 \in Int
      BY <1>2
    <3>3. /\ SubSeq(open, 1, Depth - 1) \in Seq(Contexts)
          /\ Len(SubSeq(open, 1, Depth - 1))
                = IF 1 <= Depth - 1 THEN (Depth - 1) - 1 + 1 ELSE 0
          /\ \A k \in 1..((Depth - 1) - 1 + 1) : SubSeq(open, 1, Depth - 1)[k] = open[1 + k - 1]
      BY <3>1, <3>2, SubSeqProperties
    <3> HIDE DEF Depth
    <3> QED  BY <1>2, <2>2, <3>3
  <2> QED  BY <2>3 DEF Depth
<1>5. Types'
  <2>1. mpie' \in BOOLEAN /\ mie' \in BOOLEAN
    BY <1>1, Zenon DEF IInv, Types
  <2>2. Depth' <= MaxDepth
    BY <1>2, <1>4
  <2>3. pc' \in Int /\ mem' \in [Addresses -> Int]
    BY <1>1 DEF IInv, Types
  <2> QED  BY <1>1, <1>4, <2>1, <2>2, <2>3 DEF IInv, Types, Addresses
<1>6. Interrupted'
  BY <1>1, <1>2, <1>4 DEF IInv, Interrupted, Base
<1>7. Frames'
  <2> SUFFICES ASSUME NEW k \in 1..(Depth - 1) PROVE Saved(k)'
    BY <1>4 DEF Frames
  <2>1. k \in 1..Depth /\ Saved(k)
    BY <1>2 DEF IInv, Frames
  <2> QED  BY <1>1, <1>4, <2>1 DEF Saved, SavedRegs, Frame, Base
<1>8. Innermost'
  <2>1. regs'[sp] = Base(Depth)
    BY <1>1, <1>2, <1>3 DEF IInv, Interrupted
  <2>2. Depth > 1 => mie' = FALSE
    BY <1>1, <1>2, <1>3 DEF IInv, Interrupted, InHart
  <2> QED  BY <1>1, <1>2, <1>4, <2>1, <2>2 DEF Innermost, Base
<1>9. Main'
  BY <1>1, <1>2, <1>3, <1>4 DEF IInv, Main, InHart
<1> QED  BY <1>5, <1>6, <1>7, <1>8, <1>9 DEF IInv

\* Steps of the way in or out leave the stack of what was interrupted alone, and the frame of
\* the innermost trap once it is there.
LEMMA Kept ==
    ASSUME IInv, Depth > 0, Saved(Depth), UNCHANGED open,
           \A a \in Addresses : a >= Frame(Depth) => mem'[a] = mem[a]
    PROVE  Saved(Depth)'
<1>1. Depth \in 1..Depth
  BY DEF IInv, Types, Depth
<1>2. \A j \in 0..34 : Frame(Depth) + j \in Addresses /\ Frame(Depth) + j >= Frame(Depth)
  BY <1>1, Places DEF Addresses
<1>3. \A j \in 0..34 : mem'[Frame(Depth) + j] = mem[Frame(Depth) + j]
  BY <1>2
<1>4. mem'[Frame(Depth)] = mem[Frame(Depth)] /\ mem'[Frame(Depth) + 32] = mem[Frame(Depth) + 32]
  BY <1>1, <1>3, Places
<1>5. Depth' = Depth /\ Frame(Depth)' = Frame(Depth)
  BY DEF Depth, Frame, Base
<1>6. mem'[Frame(Depth) + sp] = Frame(Depth)
  BY <1>3 DEF Saved, SavedRegs, sp
<1>7. \A r \in X \ {sp} : mem'[Frame(Depth) + r] = open[Depth].regs[r]
  <2> SUFFICES ASSUME NEW r \in X \ {sp} PROVE mem'[Frame(Depth) + r] = open[Depth].regs[r]
    OBVIOUS
  <2>1. r \in 0..34
    BY DEF X
  <2> QED  BY <1>3, <2>1 DEF Saved, SavedRegs
<1>8. mem'[Frame(Depth) + 32] = Mstatus(FALSE, open[Depth].mie) /\ mem'[Frame(Depth)] = open[Depth].pc
  BY <1>4, Zenon DEF Saved
<1> QED  BY <1>5, <1>6, <1>7, <1>8, Zenon DEF Saved, SavedRegs

\* In a trap interrupts are off until mret, and the innermost trap is one of those open.
LEMMA InTrap ==
    ASSUME IInv, step # "run" \/ pc = body
    PROVE  Depth \in Nat /\ Depth > 0 /\ mie = FALSE /\ Depth \in 1..Depth
<1>1. Depth \in Nat
  BY DEF IInv, Types, Depth
<1>2. body \notin MainCode
  BY DEF body, MainCode, here, there, fault, store
<1>3. Depth # 0
  BY <1>2 DEF IInv, Innermost, Main
<1> QED  BY <1>1, <1>3 DEF IInv, Innermost

\* The innermost trap has its frames on the stack.
LEMMA Room ==
    ASSUME IInv, Depth \in Nat, Depth > 0
    PROVE  /\ Base(Depth) \in Int /\ Frame(Depth) \in Int /\ Frame(Depth) = Base(Depth) - 35
           /\ Base(Depth + 1) = Frame(Depth) - 3 /\ Frame(Depth) >= 3
           /\ Base(Depth) <= StackSize - 1 /\ StackSize \in Nat
<1>1. Depth \in 1..Depth
  OBVIOUS
<1> QED  BY <1>1, Places

\* The registers go to the frame as they were, but for sp.
LEMMA SavingRegs == IInv /\ SaveRegs => IInv'
<1> SUFFICES ASSUME IInv, SaveRegs PROVE IInv'
  OBVIOUS
<1> DEFINE low == regs[sp] - FRAME
           saved == [regs EXCEPT ![sp] = low]
<1>1. /\ step = "save" /\ step' = "csrs" /\ UNCHANGED <<pc, mie, mpie, mepc, mcause, open>>
      /\ regs' = saved
      /\ mem' = [a \in DOMAIN mem |-> IF a - low \in X THEN saved[a - low] ELSE mem[a]]
  BY DEF SaveRegs, Go, csrs
<1>2. Depth \in Nat /\ Depth > 0 /\ mie = FALSE /\ Depth \in 1..Depth
  BY <1>1, InTrap
<1>3. regs = open[Depth].regs /\ InHart /\ regs[sp] = Base(Depth) /\ low = Frame(Depth)
  BY <1>1, <1>2 DEF IInv, Innermost, Interrupted, Frame
<1>4. low \in Int /\ regs \in [X -> Int] /\ mem \in [Addresses -> Int] /\ sp \in X
  <2>1. low \in Int
    BY <1>2, <1>3, Room
  <2> QED  BY <2>1 DEF IInv, Types, sp, X
<1>5. saved \in [X -> Int] /\ saved[sp] = low /\ \A r \in X \ {sp} : saved[r] = regs[r]
  BY <1>4
<1>6. mem' \in [Addresses -> Int]
  BY <1>1, <1>4, <1>5
<1>7. \A a \in Addresses : a >= Base(Depth) => mem'[a] = mem[a]
  <2> SUFFICES ASSUME NEW a \in Addresses, a >= Base(Depth) PROVE mem'[a] = mem[a]
    OBVIOUS
  <2> HIDE DEF low, saved
  <2>1. a - low \notin X /\ a \in DOMAIN mem
    <3>1. a \in Int /\ a >= low + 35
      BY <1>2, <1>3, <1>4, Room DEF Addresses
    <3> QED  BY <1>4, <3>1 DEF X
  <2> QED  BY <1>1, <2>1
<1>8. \A r \in X : mem'[low + r] = saved[r]
  <2> SUFFICES ASSUME NEW r \in X PROVE mem'[low + r] = saved[r]
    OBVIOUS
  <2>1. low + r \in Addresses /\ (low + r) - low = r
    <3>1. low \in Int /\ low = Frame(Depth) /\ r \in 1..31
      BY <1>3, <1>4 DEF X
    <3> HIDE DEF low
    <3> QED  BY <1>2, <3>1, Room DEF Addresses
  <2>2. low + r \in DOMAIN mem
    BY <1>4, <2>1
  <2> HIDE DEF low, saved
  <2> QED  BY <1>1, <2>1, <2>2
<1> HIDE DEF low, saved
<1>9. Depth' = Depth /\ Frame(Depth)' = Frame(Depth)
  BY <1>1 DEF Depth, Frame, Base
<1>10. SavedRegs(Depth)'
  <2>1. mem'[Frame(Depth) + sp] = Frame(Depth)
    BY <1>3, <1>4, <1>5, <1>8
  <2>2. \A r \in X \ {sp} : mem'[Frame(Depth) + r] = open[Depth].regs[r]
    BY <1>3, <1>5, <1>8
  <2> QED  BY <1>1, <1>9, <2>1, <2>2, Zenon DEF SavedRegs
<1>11. Types'
  BY <1>1, <1>5, <1>6, <1>9 DEF IInv, Types, Addresses
<1>12. Interrupted' /\ Frames'
  <2>1. Interrupted' /\ \A k \in 1..Depth : k < Depth => Saved(k)'
    BY <1>1, <1>7, Below
  <2> QED  BY <1>1, <1>9, <2>1 DEF Frames
<1>13. Innermost'
  <2>1. InHart'
    BY <1>1, <1>3, <1>9 DEF InHart
  <2>2. regs'[sp] = Frame(Depth)'
    BY <1>1, <1>3, <1>5, <1>9
  <2> QED  BY <1>1, <1>2, <1>9, <1>10, <2>1, <2>2 DEF Innermost
<1>14. Main'
  BY <1>1, <1>9 DEF IInv, Main
<1> QED  BY <1>11, <1>12, <1>13, <1>14 DEF IInv

\* mepc and mstatus go to the words of the frame that no register has.
LEMMA SavingCsrs == IInv /\ SaveCsrs => IInv'
<1> SUFFICES ASSUME IInv, SaveCsrs PROVE IInv'
  OBVIOUS
<1> DEFINE frame == regs[sp]
           mstatus == Mstatus(mie, mpie)
<1>1. /\ step = "csrs" /\ step' = "call" /\ UNCHANGED <<pc, mie, mpie, mepc, mcause, open>>
      /\ regs' = [regs EXCEPT ![a0] = mcause, ![a1] = mepc, ![a2] = frame,
                              ![t0] = mstatus, ![t1] = badaddr]
      /\ mem' = [mem EXCEPT ![frame] = mepc, ![frame + 32] = mstatus,
                            ![frame + 33] = badaddr, ![frame + 34] = mcause]
  BY DEF SaveCsrs, Go, csrs
<1>2. Depth \in Nat /\ Depth > 0 /\ mie = FALSE /\ Depth \in 1..Depth
  BY <1>1, InTrap
<1>3. frame = Frame(Depth) /\ SavedRegs(Depth) /\ InHart
  BY <1>1, <1>2 DEF IInv, Innermost
<1>4. regs \in [X -> Int] /\ mem \in [Addresses -> Int] /\ mepc \in Int /\ mcause \in Int
      /\ mpie \in BOOLEAN
  BY DEF IInv, Types
<1>5. mstatus = Mstatus(FALSE, mpie) /\ mstatus \in Int /\ badaddr \in Int
  <2>1. mstatus = Mstatus(FALSE, mpie)
    BY <1>2
  <2> HIDE DEF mstatus
  <2>2. Mstatus(FALSE, mpie) \in Int
    BY <1>4, MstatusOfTrap
  <2>3. mstatus \in Int
    BY <2>1, <2>2, Zenon
  <2>4. badaddr \in Int
    BY DEF badaddr
  <2> QED  BY <2>1, <2>3, <2>4
<1> HIDE DEF mstatus
<1>6. frame \in Int /\ \A j \in 0..34 : frame + j \in Addresses
  BY <1>2, <1>3, Room DEF Addresses
<1>7. regs' \in [X -> Int] /\ regs'[sp] = frame
  <2>1. sp \in X /\ sp \notin {a0, a1, a2, t0, t1}
    BY DEF X, sp, a0, a1, a2, t0, t1
  <2> HIDE DEF frame
  <2>2. regs' \in [X -> Int]
    BY <1>1, <1>4, <1>5, <1>6
  <2>3. regs'[sp] = regs[sp]
    BY <1>1, <1>4, <2>1
  <2> QED  BY <2>2, <2>3 DEF frame
<1>8. mem' \in [Addresses -> Int]
  BY <1>1, <1>4, <1>5, <1>6
<1>9. \A j \in 0..34 : j \notin {0, 32, 33, 34} => mem'[frame + j] = mem[frame + j]
  BY <1>1, <1>4, <1>6
<1>10. mem'[frame] = mepc /\ mem'[frame + 32] = mstatus
  <2>1. frame \in Addresses /\ frame + 32 \in Addresses
    <3>1. frame + 0 \in Addresses /\ frame + 32 \in Addresses
      BY <1>6
    <3> QED  BY <1>6, <3>1
  <2> QED  BY <1>1, <1>4, <1>6, <2>1
<1> HIDE DEF frame
<1>11. \A a \in Addresses : a >= Base(Depth) => mem'[a] = mem[a]
  <2>1. \A a \in Addresses : a >= Base(Depth) => a \notin {frame, frame + 32, frame + 33, frame + 34}
    BY <1>2, <1>3, <1>6, Room DEF Addresses
  <2> QED  BY <1>1, <1>4, <2>1
<1>12. Depth' = Depth /\ Frame(Depth)' = Frame(Depth)
  BY <1>1 DEF Depth, Frame, Base
<1>13. Saved(Depth)'
  <2>1. mem'[Frame(Depth) + sp] = Frame(Depth)
    BY <1>3, <1>9 DEF SavedRegs, sp
  <2>2. \A r \in X \ {sp} : mem'[Frame(Depth) + r] = open[Depth].regs[r]
    <3> SUFFICES ASSUME NEW r \in X \ {sp} PROVE mem'[Frame(Depth) + r] = open[Depth].regs[r]
      OBVIOUS
    <3>1. r \in 0..34 /\ r \notin {0, 32, 33, 34}
      BY DEF X
    <3> QED  BY <1>3, <1>9, <3>1 DEF SavedRegs
  <2>3. mem'[Frame(Depth)] = open[Depth].pc
    BY <1>3, <1>10 DEF InHart
  <2>4. mem'[Frame(Depth) + 32] = Mstatus(FALSE, open[Depth].mie)
    BY <1>3, <1>5, <1>10, Zenon DEF InHart
  <2> QED  BY <1>1, <1>12, <2>1, <2>2, <2>3, <2>4, Zenon DEF Saved, SavedRegs
<1>14. Types'
  BY <1>1, <1>7, <1>8, <1>12 DEF IInv, Types, Addresses
<1>15. Interrupted' /\ Frames'
  <2>1. Interrupted' /\ \A k \in 1..Depth : k < Depth => Saved(k)'
    BY <1>1, <1>11, Below
  <2> QED  BY <1>1, <1>2, <1>12, <1>13, <2>1 DEF Frames
<1>16. Innermost'
  BY <1>1, <1>2, <1>3, <1>7, <1>12 DEF Innermost
<1>17. Main'
  BY <1>1, <1>12 DEF IInv, Main
<1> QED  BY <1>14, <1>15, <1>16, <1>17 DEF IInv

\* handle_trap() has its own frame below the one of trap_entry.
LEMMA Calling == IInv /\ HandleTrap => IInv'
<1> SUFFICES ASSUME IInv, HandleTrap PROVE IInv'
  OBVIOUS
<1> DEFINE low == regs[sp] - BODY
<1>1. /\ step = "call" /\ step' = "run" /\ pc' \in HandlerCode
      /\ UNCHANGED <<mie, mpie, mepc, mcause, open>>
      /\ regs' = [r \in X |-> IF r = sp THEN low
                              ELSE IF r \in CalleeSaved \ {s0} THEN regs[r] ELSE junk]
      /\ mem' = [mem EXCEPT ![low] = trap_entry, ![low + 1] = regs[s0], ![low + 2] = regs[a0]]
  BY DEF HandleTrap, Go, csrs
<1>2. Depth \in Nat /\ Depth > 0 /\ mie = FALSE /\ Depth \in 1..Depth
  BY <1>1, InTrap
<1>3. regs[sp] = Frame(Depth) /\ Saved(Depth)
  BY <1>1, <1>2 DEF IInv, Innermost, Frames
<1>4. regs \in [X -> Int] /\ mem \in [Addresses -> Int]
  BY DEF IInv, Types
<1>5. low = Frame(Depth) - 3 /\ low = Base(Depth + 1) /\ low \in Int /\ Frame(Depth) \in Int
  BY <1>2, <1>3, Room DEF BODY
<1>6. pc' \in Int /\ junk \in Int /\ trap_entry \in Int
  BY <1>1 DEF HandlerCode, body, body_fault, junk, trap_entry
<1> HIDE DEF low
<1>7. regs' \in [X -> Int] /\ regs'[sp] = low
  BY <1>1, <1>4, <1>5, <1>6 DEF X, sp
<1>8. mem' \in [Addresses -> Int]
  <2>1. regs[s0] \in Int /\ regs[a0] \in Int
    BY <1>4 DEF s0, a0, X
  <2> QED  BY <1>1, <1>4, <1>6, <2>1
<1>9. \A a \in Addresses : a >= Frame(Depth) => mem'[a] = mem[a]
  BY <1>1, <1>4, <1>5 DEF Addresses
<1>10. \A a \in Addresses : a >= Base(Depth) => mem'[a] = mem[a]
  BY <1>2, <1>9, Room DEF Addresses
<1>11. Depth' = Depth
  BY <1>1 DEF Depth
<1>12. Types'
  BY <1>1, <1>6, <1>7, <1>8, <1>11 DEF IInv, Types, Addresses
<1>13. Interrupted' /\ Frames'
  <2>1. Interrupted' /\ \A k \in 1..Depth : k < Depth => Saved(k)'
    BY <1>1, <1>10, Below
  <2>2. Saved(Depth)'
    BY <1>1, <1>2, <1>3, <1>9, Kept
  <2> QED  BY <1>1, <1>2, <1>11, <2>1, <2>2 DEF Frames
<1>14. Innermost'
  BY <1>1, <1>2, <1>5, <1>7, <1>11 DEF Innermost, Base
<1>15. Main'
  BY <1>1, <1>2, <1>11 DEF IInv, Main
<1> QED  BY <1>12, <1>13, <1>14, <1>15 DEF IInv

\* handle_trap() gives its frame back.
LEMMA HandlerReturning == IInv /\ HandlerReturns => IInv'
<1> SUFFICES ASSUME IInv, HandlerReturns PROVE IInv'
  OBVIOUS
<1>1. /\ step = "run" /\ step' = "mstatus" /\ pc = body /\ pc' = trap_entry
      /\ UNCHANGED <<mie, mpie, mepc, mcause, mem, open>>
      /\ regs' = [regs EXCEPT ![sp] = @ + BODY, ![s0] = mem[regs[sp] + 1], ![ra] = mem[regs[sp]]]
  BY DEF HandlerReturns, Go, csrs
<1>2. Depth \in Nat /\ Depth > 0 /\ mie = FALSE /\ Depth \in 1..Depth
  BY <1>1, InTrap
<1>3. regs[sp] = Base(Depth + 1) /\ Saved(Depth)
  BY <1>1, <1>2 DEF IInv, Innermost, Frames
<1>4. regs \in [X -> Int] /\ mem \in [Addresses -> Int] /\ trap_entry \in Int
  BY DEF IInv, Types, trap_entry
<1>5. regs[sp] + BODY = Frame(Depth) /\ regs[sp] \in Addresses /\ regs[sp] + 1 \in Addresses
      /\ Frame(Depth) \in Int
  BY <1>2, <1>3, Room DEF BODY, Addresses
<1>6. regs' \in [X -> Int] /\ regs'[sp] = Frame(Depth)
  <2>1. mem[regs[sp] + 1] \in Int /\ mem[regs[sp]] \in Int
    BY <1>4, <1>5
  <2>2. sp \in X /\ sp # s0 /\ sp # ra
    BY DEF X, sp, s0, ra
  <2> QED  BY <1>1, <1>4, <1>5, <2>1, <2>2
<1>7. Depth' = Depth /\ Frame(Depth)' = Frame(Depth)
  BY <1>1 DEF Depth, Frame, Base
<1>8. Types'
  BY <1>1, <1>4, <1>6, <1>7 DEF IInv, Types, Addresses
<1>9. Interrupted' /\ \A k \in 1..Depth : k < Depth => Saved(k)'
  BY <1>1, Below
<1>10. Frames'
  <2>1. Saved(Depth)'
    BY <1>1, <1>2, <1>3, Kept
  <2> QED  BY <1>1, <1>2, <1>7, <1>9, <2>1 DEF Frames
<1>11. Innermost'
  BY <1>1, <1>2, <1>6, <1>7 DEF Innermost
<1>12. Main'
  BY <1>1, <1>2, <1>7 DEF IInv, Main
<1> QED  BY <1>8, <1>9, <1>10, <1>11, <1>12 DEF IInv

\* After a store access fault the handler stays.
LEMMA Hanging == IInv /\ Hang => IInv'
<1> SUFFICES ASSUME IInv, Hang PROVE IInv'
  OBVIOUS
<1>1. /\ step = "run" /\ step' = "hung" /\ pc = body
      /\ UNCHANGED <<pc, regs, mie, mpie, mepc, mcause, mem, open>>
  BY DEF Hang, Go, csrs
<1>2. Depth \in Nat /\ Depth > 0 /\ mie = FALSE /\ Depth \in 1..Depth
  BY <1>1, InTrap
<1>3. Depth' = Depth
  BY <1>1 DEF Depth
<1>4. Types'
  BY <1>1, <1>3 DEF IInv, Types, Addresses
<1>5. Interrupted' /\ Frames'
  <2>1. Interrupted' /\ \A k \in 1..Depth : k < Depth => Saved(k)'
    BY <1>1, Below
  <2> QED  BY <1>1, <1>3, <2>1 DEF Frames
<1>6. Innermost' /\ Main'
  BY <1>1, <1>2, <1>3 DEF IInv, Innermost, Main
<1> QED  BY <1>4, <1>5, <1>6 DEF IInv

\* mstatus and mepc are those of the innermost trap again, whatever traps there were since.
LEMMA RestoringCsrs == IInv /\ RestoreCsrs => IInv'
<1> SUFFICES ASSUME IInv, RestoreCsrs PROVE IInv'
  OBVIOUS
<1> DEFINE mstatus == mem[regs[sp] + 32]
<1>1. /\ step = "mstatus" /\ step' = "restore" /\ UNCHANGED <<pc, mcause, mem, open>>
      /\ mepc' = mem[regs[sp]]
      /\ regs' = [regs EXCEPT ![t0] = mstatus, ![a1] = mem[regs[sp]]]
  BY DEF RestoreCsrs, Go
<1>2. Depth \in Nat /\ Depth > 0 /\ mie = FALSE /\ Depth \in 1..Depth
  BY <1>1, InTrap
<1>3. regs[sp] = Frame(Depth) /\ Saved(Depth)
  BY <1>1, <1>2 DEF IInv, Innermost, Frames
<1>4. mstatus = Mstatus(FALSE, open[Depth].mie) /\ mem[regs[sp]] = open[Depth].pc
  BY <1>3, Zenon DEF Saved
<1>5. open[Depth] \in Contexts
  BY <1>2 DEF IInv, Types, Depth
<1>6. open[Depth].mie \in BOOLEAN /\ open[Depth].pc \in Int
  BY <1>5 DEF Contexts
<1>7. mstatus \in Int /\ ~Mie(mstatus) /\ (Mpie(mstatus) <=> open[Depth].mie)
  BY <1>4, <1>6, MstatusOfTrap
<1>8. mie' = Mie(mstatus) /\ mpie' = Mpie(mstatus)
  BY Zenon DEF RestoreCsrs
<1> HIDE DEF mstatus
<1>9. mie' = FALSE
  BY <1>7, <1>8, Zenon DEF Mie
<1>10. mpie' = open[Depth].mie
  <2>1. Mpie(mstatus) \in BOOLEAN
    BY Zenon DEF Mpie
  <2> QED  BY <1>6, <1>7, <1>8, <2>1, Zenon
<1>11. Depth' = Depth /\ Frame(Depth)' = Frame(Depth)
  BY <1>1 DEF Depth, Frame, Base
<1>12. regs' \in [X -> Int] /\ regs'[sp] = Frame(Depth)
  <2>1. regs \in [X -> Int] /\ sp \in X /\ sp # t0 /\ sp # a1
    BY DEF IInv, Types, X, sp, t0, a1
  <2> QED  BY <1>1, <1>3, <1>4, <1>6, <1>7, <2>1
<1>13. Types'
  <2>1. mie' \in BOOLEAN /\ mpie' \in BOOLEAN
    BY <1>6, <1>9, <1>10, Zenon
  <2>2. mepc' \in Int
    BY <1>1, <1>4, <1>6
  <2> QED  BY <1>1, <1>11, <1>12, <2>1, <2>2 DEF IInv, Types, Addresses
<1>14. Interrupted' /\ \A k \in 1..Depth : k < Depth => Saved(k)'
  BY <1>1, Below
<1>15. Saved(Depth)'
  BY <1>1, <1>2, <1>3, Kept
<1>16. Frames'
  BY <1>1, <1>2, <1>11, <1>14 DEF Frames
<1>17. Innermost'
  <2>1. InHart'
    <3>1. mepc' = open[Depth].pc
      BY <1>1, <1>4
    <3> QED  BY <1>1, <1>10, <1>11, <3>1, Zenon DEF InHart
  <2>2. SavedRegs(Depth)'
    BY <1>11, <1>15 DEF Saved
  <2> QED  BY <1>1, <1>2, <1>9, <1>11, <1>12, <2>1, <2>2 DEF Innermost
<1>18. Main'
  BY <1>1, <1>11 DEF IInv, Main
<1> QED  BY <1>13, <1>14, <1>16, <1>17, <1>18 DEF IInv

\* The registers are those of the interrupted code again.
LEMMA RestoringRegs == IInv /\ RestoreRegs => IInv'
<1> SUFFICES ASSUME IInv, RestoreRegs PROVE IInv'
  OBVIOUS
<1>1. /\ step = "restore" /\ step' = "mret"
      /\ UNCHANGED <<pc, mie, mpie, mepc, mcause, mem, open>>
      /\ regs' = [r \in X |-> IF r = sp THEN mem[regs[sp] + sp] + FRAME ELSE mem[regs[sp] + r]]
  BY DEF RestoreRegs, Go, csrs
<1>2. Depth \in Nat /\ Depth > 0 /\ mie = FALSE /\ Depth \in 1..Depth
  BY <1>1, InTrap
<1>3. regs[sp] = Frame(Depth) /\ SavedRegs(Depth) /\ InHart
  BY <1>1, <1>2 DEF IInv, Innermost
<1>4. open[Depth].regs \in [X -> Int]
  <2>1. open[Depth] \in Contexts
    BY <1>2 DEF IInv, Types, Depth
  <2> QED  BY <2>1 DEF Contexts
<1>5. Frame(Depth) + FRAME = open[Depth].regs[sp]
  <2>1. open[Depth].regs[sp] = Base(Depth)
    BY <1>2 DEF IInv, Interrupted
  <2> QED  BY <1>2, <2>1, Room DEF FRAME
<1>6. \A r \in X : regs'[r] = open[Depth].regs[r]
  BY <1>1, <1>3, <1>5 DEF SavedRegs
<1>7. regs' = open[Depth].regs
  BY <1>1, <1>4, <1>6
<1>8. Depth' = Depth
  BY <1>1 DEF Depth
<1>9. Types'
  BY <1>1, <1>4, <1>7, <1>8 DEF IInv, Types, Addresses
<1>10. Interrupted' /\ Frames'
  <2>1. Interrupted' /\ \A k \in 1..Depth : k < Depth => Saved(k)'
    BY <1>1, Below
  <2> QED  BY <1>1, <1>8, <2>1 DEF Frames
<1>11. Innermost'
  <2>1. InHart'
    BY <1>1, <1>3, <1>8 DEF InHart
  <2> QED  BY <1>1, <1>2, <1>7, <1>8, <2>1 DEF Innermost
<1>12. Main'
  BY <1>1, <1>8 DEF IInv, Main
<1> QED  BY <1>9, <1>10, <1>11, <1>12 DEF IInv

\* Nothing changes, the innermost place of the code included.
LEMMA Stuttering == IInv /\ UNCHANGED vars => IInv'
<1> SUFFICES ASSUME IInv, UNCHANGED vars PROVE IInv'
  OBVIOUS
<1>1. UNCHANGED <<step, pc, regs, mie, mpie, mepc, mcause, mem, open>>
  BY DEF vars, csrs
<1>2. Depth' = Depth
  BY <1>1 DEF Depth
<1>3. \A k : (Saved(k) <=> Saved(k)') /\ (SavedRegs(k) <=> SavedRegs(k)')
  BY <1>1 DEF Saved, SavedRegs, Frame, Base
<1>4. Types'
  BY <1>1, <1>2 DEF IInv, Types, Addresses
<1>5. Interrupted'
  BY <1>1, <1>2 DEF IInv, Interrupted, Base
<1>6. Frames'
  BY <1>1, <1>2, <1>3 DEF IInv, Frames
<1>7. Innermost'
  BY <1>1, <1>2 DEF IInv, Innermost, InHart, SavedRegs, Frame, Base
<1>8. Main'
  BY <1>1, <1>2 DEF IInv, Main
<1> QED  BY <1>4, <1>5, <1>6, <1>7, <1>8 DEF IInv

\* Every step keeps the invariant.
LEMMA NextIInv == IInv /\ [Next]_vars => IInv'
<1> SUFFICES ASSUME IInv, [Next]_vars PROVE IInv'
  OBVIOUS
<1>1. CASE Work
  BY <1>1, Working
<1>2. CASE Interrupt
  <2>1. mie /\ step # "hung" /\ Depth < MaxDepth /\ Take(Irq) /\ Irq \in Int
    BY <1>2 DEF Interrupt, Depth, Irq
  <2> QED  BY <2>1, Taking
<1>3. CASE Exception
  <2>1. PICK cause \in {StoreFault, LoadFault} : Take(cause)
    BY <1>3, Zenon DEF Exception
  <2>2. step = "run" /\ Depth < MaxDepth
    BY <1>3 DEF Exception, Depth
  <2>3. cause \in Int
    BY DEF StoreFault, LoadFault
  <2> QED  BY <2>1, <2>2, <2>3, Taking
<1>4. CASE Mret
  BY <1>4, Returning
<1>5. CASE SaveRegs \/ SaveCsrs \/ HandleTrap
  BY <1>5, SavingRegs, SavingCsrs, Calling
<1>6. CASE HandlerReturns \/ Hang
  BY <1>6, HandlerReturning, Hanging
<1>7. CASE RestoreCsrs \/ RestoreRegs
  BY <1>7, RestoringCsrs, RestoringRegs
<1>8. CASE Hung \/ Over \/ UNCHANGED vars
  BY <1>8, Stuttering DEF Hung, Over
<1> QED  BY <1>1, <1>2, <1>3, <1>4, <1>5, <1>6, <1>7, <1>8 DEF Next

\* What was interrupted is kept on the stack, trap by trap, at every point of start.S.
THEOREM Invariant == Spec => []IInv
BY InitIInv, NextIInv, PTL DEF Spec

\* No interrupt is taken between a trap and its mret (trap_entry sets no MIE before it).
THEOREM TrapsNotInterrupted == Spec => []NeverNested
<1>1. IInv => NeverNested
  <2> SUFFICES ASSUME IInv, open # <<>> PROVE mie = FALSE
    BY DEF NeverNested
  <2>1. Depth \in Nat /\ Depth > 0
    BY DEF IInv, Types, Depth
  <2> QED  BY <2>1 DEF IInv, Innermost
<1> QED  BY <1>1, Invariant, PTL

\* mret of start.S gives the interrupted code its registers, stack and interrupt enable back.
THEOREM TrapsAreTransparent == Spec => Transparent
<1> DEFINE Back == Mret => LET before == Last(open)
                           IN /\ pc' = before.pc /\ regs' = before.regs /\ mie' = before.mie
                              /\ \A a \in DOMAIN before.stack : mem'[a] = before.stack[a]
<1>1. IInv => Back
  <2> SUFFICES ASSUME IInv, Mret
               PROVE  /\ pc' = open[Depth].pc /\ regs' = open[Depth].regs /\ mie' = open[Depth].mie
                      /\ \A a \in DOMAIN open[Depth].stack : mem'[a] = open[Depth].stack[a]
    BY DEF Last, Depth
  <2>1. step = "mret" /\ pc' = mepc /\ mie' = mpie /\ regs' = regs /\ mem' = mem
    BY DEF Mret, Go
  <2>2. Depth \in Nat /\ Depth > 0 /\ Depth \in 1..Depth
    BY <2>1, InTrap
  <2>3. regs = open[Depth].regs /\ mpie = open[Depth].mie /\ mepc = open[Depth].pc
    BY <2>1, <2>2 DEF IInv, Innermost, InHart
  <2>4. \A a \in DOMAIN open[Depth].stack : mem'[a] = open[Depth].stack[a]
    BY <2>1, <2>2 DEF IInv, Interrupted
  <2> QED  BY <2>1, <2>3, <2>4, Zenon
<1>2. IInv /\ [Next]_vars => [Back]_vars
  BY <1>1
<1> QED  BY <1>2, Invariant, PTL DEF Spec, Transparent
=============================================================================
