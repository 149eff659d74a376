---------------------------- MODULE BootProofs -----------------------------
(***************************************************************************)
(* From the boot image to main().  genfip (Fip) writes a file in which      *)
(* both parameter blocks are sealed and every image and field given is      *)
(* found by them, for every sequence of command lines.  The pin multiplexer *)
(* of Startup is a pad map for every word an earlier boot stage may have    *)
(* left in its registers and any number of calls; the signals of the test   *)
(* case and of the console are on their pads when they are driven; and      *)
(* test_adc() averages fresh samples.  Of the tables only PadTables and     *)
(* WiringTables are used.                                                   *)
(***************************************************************************)
EXTENDS Board, Fip, FiniteSetTheorems, SequenceTheorems, TLAPS

\* The registers of a board
RegisterSet(b) == {RegisterOf[b][p] : p \in PadSet[b]}

Inv ==
    /\ board \in Boards /\ test \in Tests
    /\ todo \in Seq(Selections(board))
    /\ funcsel \in [RegisterSet(board) -> Nat]

\* A selection names a pad of the board, and its value in the register stands for its function.
LEMMA SelectionOk ==
    ASSUME NEW b \in Boards, NEW s \in Selections(b)
    PROVE  /\ s[1] \in PadSet[b]
           /\ Value(b, s[1], s[2]) \in 0..7
           /\ Value(b, s[1], s[2]) + 1 \in DOMAIN Functions[b][s[1]]
           /\ Functions[b][s[1]][Value(b, s[1], s[2]) + 1] = s[2] /\ s[2] # ""
<1>1. PICK p \in PadSet[b] :
         s \in {<<p, f>> : f \in {Functions[b][p][v] : v \in DOMAIN Functions[b][p]} \ {""}}
  BY DEF Selections
<1>2. PICK v \in DOMAIN Functions[b][p] : s = <<p, Functions[b][p][v]>> /\ Functions[b][p][v] # ""
  BY <1>1
<1>3. s[1] = p /\ s[2] = Functions[b][p][v] /\ s[2] # ""
  BY <1>2
<1> DEFINE w == CHOOSE w \in DOMAIN Functions[b][s[1]] : Functions[b][s[1]][w] = s[2]
<1>4. w \in DOMAIN Functions[b][s[1]] /\ Functions[b][s[1]][w] = s[2]
  BY <1>2, <1>3
<1>5. w \in 1..8
  BY <1>3, <1>4, PadTables
<1>6. Value(b, s[1], s[2]) = w - 1
  BY DEF Value
<1> HIDE DEF w
<1>7. w - 1 \in 0..7 /\ w - 1 + 1 = w
  BY <1>5
<1> QED  BY <1>3, <1>4, <1>6, <1>7

\* Two pads have two registers.
LEMMA OwnRegister ==
    ASSUME NEW b \in Boards, NEW p \in PadSet[b], NEW q \in PadSet[b],
           RegisterOf[b][p] = RegisterOf[b][q]
    PROVE  p = q
<1> DEFINE j(r) == CHOOSE i \in DOMAIN Pads[b] : Pads[b][i] = r
<1>1. j(p) \in DOMAIN Pads[b] /\ Pads[b][j(p)] = p /\ j(q) \in DOMAIN Pads[b] /\ Pads[b][j(q)] = q
  BY PadTables
<1>2. RegisterOf[b][p] = 4 * (j(p) - 1) /\ RegisterOf[b][q] = 4 * (j(q) - 1)
  BY DEF RegisterOf, Register
<1>3. j(p) \in Nat /\ j(q) \in Nat
  BY <1>1, PadTables
<1> HIDE DEF j
<1>4. \A m, n \in Nat : 4 * (m - 1) = 4 * (n - 1) => m = n
  OBVIOUS
<1>5. j(p) = j(q)
  BY <1>2, <1>3, <1>4, Zenon
<1> QED  BY <1>1, <1>5

\* The word that mmio_clrsetbits_32() leaves selects the function, and is a word.
LEMMA SelectedFunction ==
    ASSUME NEW b \in Boards, NEW s \in Selections(b), NEW w \in Nat
    PROVE  LET word == ClrSetBits(w, Value(b, s[1], s[2]))
           IN  word \in Nat /\ Selected(b, s[1], word) = s[2]
<1> DEFINE v == Value(b, s[1], s[2])
           word == ClrSetBits(w, v)
<1>1. /\ v \in 0..7 /\ v + 1 \in DOMAIN Functions[b][s[1]]
      /\ Functions[b][s[1]][v + 1] = s[2] /\ s[2] # ""
  BY SelectionOk
<1> HIDE DEF v
<1>2. word \in Nat /\ word % 8 = v
  <2>1. \A d \in Nat, n \in 0..7 : 8 * d + n \in Nat /\ (8 * d + n) % 8 = n
    OBVIOUS
  <2>2. w \div 8 \in Nat
    OBVIOUS
  <2> QED  BY <1>1, <2>1, <2>2, Zenon DEF ClrSetBits
<1> HIDE DEF word
<1>3. Selected(b, s[1], word) = s[2]
  BY <1>1, <1>2 DEF Selected
<1> QED  BY <1>2, <1>3 DEF word, v

\* Every step but Select leaves the registers alone, and only asks when nothing is left to do.
LEMMA OtherSteps ==
    ASSUME Next, ~Select
    PROVE  /\ UNCHANGED <<build, funcsel>>
           /\ (todo = <<>> \/ UNCHANGED todo)
BY DEF Next, InitSteps, MainSteps, ConsolePins, UartPort, LatchOpen, DivisorLow, DivisorHigh,
       LatchClosed, ReceiveIrq, Format, IrqInit, Newline, Banner, testcase_main, TestCasePins,
       OwnPins, Drive, LastLine, Rest, Printf, At, build, console, vars

\* What a step asks for can be selected.
LEMMA Requests ==
    ASSUME Inv, Next, ~Select
    PROVE  todo' \in Seq(Selections(board))
<1>1. CASE UNCHANGED todo
  BY <1>1 DEF Inv
<1>2. CASE ConsolePins
  <2>1. "UART1" \in IoTypes
    BY DEF IoTypes
  <2> QED  BY <1>2, <2>1, PadTables DEF ConsolePins, Inv
<1>3. CASE TestCasePins
  BY <1>3, PadTables DEF TestCasePins, Inv
<1>4. CASE OwnPins
  <2>1. CASE \E io \in IoTypes : todo' = pinmux_config(board, io)
    BY <2>1, PadTables DEF Inv
  <2>2. CASE \E s \in Selections(board) : todo' = <<s>>
    BY <2>2
  <2> QED  BY <1>4, <2>1, <2>2 DEF OwnPins
<1> QED
  BY <1>1, <1>2, <1>3, <1>4
  DEF Next, InitSteps, MainSteps, UartPort, LatchOpen, DivisorLow, DivisorHigh,
      LatchClosed, ReceiveIrq, Format, IrqInit, Newline, Banner, testcase_main,
      Drive, LastLine, Rest, Printf, At, build, console, vars

\* Select gives the pad its function and no other pad another.
LEMMA Selecting ==
    ASSUME Inv, Select
    PROVE  Inv' /\ PadMapOf!Serve
<1> DEFINE s == Head(todo)
           r == RegisterOf[board][s[1]]
           word == ClrSetBits(funcsel[r], Value(board, s[1], s[2]))
<1>1. /\ todo # <<>> /\ todo' = Tail(todo) /\ board' = board /\ test' = test
      /\ funcsel' = [funcsel EXCEPT ![r] = word]
  BY DEF Select, PINMUX_CONFIG, build
<1>2. s \in Selections(board) /\ todo' \in Seq(Selections(board)) /\ board \in Boards
  BY <1>1 DEF Inv
<1>3. s[1] \in PadSet[board]
  BY <1>2, SelectionOk
<1>4. r \in RegisterSet(board) /\ funcsel[r] \in Nat
  BY <1>3 DEF RegisterSet, Inv
<1>5. word \in Nat /\ Selected(board, s[1], word) = s[2]
  BY <1>2, <1>4, SelectedFunction
<1> HIDE DEF word
<1>6. Inv'
  BY <1>1, <1>2, <1>4, <1>5 DEF Inv, RegisterSet
<1>7. ASSUME NEW p \in PadSet[board]
      PROVE  Carries(p)' = IF p = s[1] THEN s[2] ELSE Carries(p)
  <2>1. RegisterOf[board][p] \in RegisterSet(board)
    BY DEF RegisterSet
  <2>2. CASE p = s[1]
    BY <1>1, <1>4, <1>5, <2>2 DEF Carries, Inv
  <2>3. CASE p # s[1]
    <3>1. RegisterOf[board][p] # r
      BY <1>2, <1>3, <2>3, OwnRegister
    <3> QED  BY <1>1, <2>1, <2>3, <3>1 DEF Carries, Inv
  <2> QED  BY <2>2, <2>3
<1>8. [p \in PadSet[board] |-> Carries(p)]'
        = [[p \in PadSet[board] |-> Carries(p)] EXCEPT ![s[1]] = s[2]]
  BY <1>1, <1>3, <1>7
<1> QED  BY <1>1, <1>6, <1>8 DEF PadMapOf!Serve

\* In every initial state nothing is asked for and the registers hold words.
LEMMA InitInv == Init => Inv
<1> SUFFICES ASSUME Init PROVE Inv
  OBVIOUS
<1>1. PICK w \in Words : funcsel = [r \in RegisterSet(board) |-> w]
  BY DEF Init, RegisterSet
<1>2. w \in Nat
  BY StartupAssumption
<1> QED  BY <1>1, <1>2 DEF Init, Inv

\* Every step keeps the invariant and is a step of the pad map.
LEMMA NextInv == Inv /\ [Next]_vars => Inv' /\ [PadMapOf!Next]_<<[p \in PadSet[board] |-> Carries(p)], todo>>
<1> SUFFICES ASSUME Inv, [Next]_vars
             PROVE  Inv' /\ [PadMapOf!Next]_<<[p \in PadSet[board] |-> Carries(p)], todo>>
  OBVIOUS
<1>1. CASE Select
  BY <1>1, Selecting DEF PadMapOf!Next
<1>2. CASE ~Select
  <2>1. UNCHANGED <<board, test, funcsel>> /\ (todo = <<>> \/ UNCHANGED todo)
        /\ todo' \in Seq(Selections(board))
    BY <1>2, OtherSteps, Requests DEF vars, build, Inv
  <2>2. Inv'
    BY <2>1 DEF Inv
  <2>3. UNCHANGED [p \in PadSet[board] |-> Carries(p)]
    BY <2>1 DEF Carries
  <2> QED  BY <2>1, <2>2, <2>3 DEF PadMapOf!Next, PadMapOf!Ask
<1> QED  BY <1>1, <1>2

\* Beside test_adc() and the converter, the board does what Startup does.
LEMMA BoardSteps == (BoardInit => Init) /\ ([BoardNext]_boardVars => [Next]_vars)
BY DEF BoardInit, BoardNext, boardVars, test_adc, Converter, Others

\* pinmux_config() and PINMUX_CONFIG(): each selection gives its pad the function asked for,
\* and no other pad loses the one it has, whatever was in the registers.
THEOREM PinsAreAPadMap == BoardSpec => ImplementsPadMap
<1>1. Init => PadMapOf!Init
  BY DEF Init, PadMapOf!Init
<1> QED
  BY <1>1, BoardSteps, InitInv, NextInv, PTL DEF BoardSpec, ImplementsPadMap, PadMapOf!Spec

-----------------------------------------------------------------------------
\* The selections that the program has asked for: those of the console from the start of
\* uart_init() on, those of the test case once it drives its peripheral.
Wanted ==
    IF pc = "system_init" THEN <<>>
    ELSE IF pc \in {"drive", "returned", "stop"} THEN Configured(board, test)
    ELSE pinmux_config(board, "UART1")

Begun == {"testcase", "drive", "returned", "stop"}

\* All but the last of them, which are still to be made, are on their pads.  A program of one's
\* own may ask for anything once it runs.
PinsInv ==
    /\ test = "own" => pc \notin Begun
    /\ pc = "system_init" => todo = <<>>
    /\ ~(test = "own" /\ pc = "pins") =>
        /\ Len(todo) <= Len(Wanted)
        /\ \A j \in 1 .. Len(todo) : todo[j] = Wanted[Len(Wanted) - Len(todo) + j]
        /\ \A i \in 1 .. (Len(Wanted) - Len(todo)) : Carries(Wanted[i][1]) = Wanted[i][2]

Early == {"system_init", "uart_init"}

\* What uart_init() has done, whatever was in the registers.
PortInv ==
    /\ port \in [Ports -> Registers]
    /\ pc \notin Early => uart = 1
    /\ pc \in {"dll", "dlh", "latch"} => port[1].dlab
    /\ pc \notin Early \cup {"dlab", "dll", "dlh", "latch"} => ~port[1].dlab
    /\ pc \notin Early \cup {"dlab", "dll"} => port[1].dll = 14
    /\ pc \notin Early \cup {"dlab", "dll", "dlh"} => port[1].dlh = 0
    /\ pc \notin Early \cup {"dlab", "dll", "dlh", "latch", "ier", "format"} => port[1].format = "8N1"

\* The selections wanted are selections of the board, and no two of them for the same pad.
LEMMA WantedOk ==
    ASSUME Inv
    PROVE  /\ Wanted \in Seq(Selections(board))
           /\ \A i, j \in 1 .. Len(Wanted) : Wanted[i][1] = Wanted[j][1] => i = j
<1> DEFINE u == pinmux_config(board, "UART1")
           t == TestPins(board, test)
<1>1. u \in Seq(Selections(board)) /\ t \in Seq(Selections(board))
  <2>1. "UART1" \in IoTypes  BY DEF IoTypes
  <2> QED  BY <2>1, PadTables DEF Inv
<1>2. Configured(board, test) = u \o t
  BY DEF Configured
<1> HIDE DEF u, t
<1>3. \A i, j \in DOMAIN (u \o t) : (u \o t)[i][1] = (u \o t)[j][1] => i = j
  BY <1>2, WiringTables DEF Inv
<1>4. CASE Wanted = u \o t
  <2>1. Wanted \in Seq(Selections(board))
    BY <1>1, <1>4
  <2>2. DOMAIN Wanted = 1 .. Len(Wanted)
    BY <2>1
  <2> QED  BY <1>3, <1>4, <2>1, <2>2
<1>5. CASE Wanted = u
  <2>1. \A i \in 1 .. Len(u) : i \in DOMAIN (u \o t) /\ (u \o t)[i] = u[i]
    BY <1>1
  <2>2. \A i, j \in 1 .. Len(u) : u[i][1] = u[j][1] => i = j
    BY <1>3, <2>1
  <2> QED  BY <1>1, <1>5, <2>2
<1>6. CASE Wanted = <<>>
  BY <1>6
<1>7. Wanted = <<>> \/ Wanted = u \o t \/ Wanted = u
  BY <1>2 DEF Wanted, u
<1> QED  BY <1>4, <1>5, <1>6, <1>7

\* The pads after a selection.
LEMMA Selected1 ==
    ASSUME Inv, Select
    PROVE  \A p \in PadSet[board] :
              Carries(p)' = IF p = Head(todo)[1] THEN Head(todo)[2] ELSE Carries(p)
<1> SUFFICES ASSUME NEW p \in PadSet[board]
             PROVE  Carries(p)' = IF p = Head(todo)[1] THEN Head(todo)[2] ELSE Carries(p)
  OBVIOUS
<1> DEFINE now == [q \in PadSet[board] |-> Carries(q)]
<1>1. now' = [now EXCEPT ![Head(todo)[1]] = Head(todo)[2]] /\ board' = board
  BY Selecting DEF PadMapOf!Serve, Select, build
<1>2. now'[p] = Carries(p)' /\ now[p] = Carries(p)
  BY <1>1
<1>3. now \in [PadSet[board] -> {Carries(q) : q \in PadSet[board]}]
  OBVIOUS
<1> QED  BY <1>1, <1>2, <1>3

\* The selection made is the next of those wanted, and leaves those made before as they are.
LEMMA SelectKeepsPins ==
    ASSUME Inv, PinsInv, Select
    PROVE  PinsInv'
<1>1. /\ todo # <<>> /\ todo' = Tail(todo) /\ board' = board /\ test' = test /\ pc' = pc
      /\ todo \in Seq(Selections(board))
  BY DEF Select, build, Inv
<1>2. Wanted' = Wanted
  BY <1>1 DEF Wanted
<1>3. CASE test = "own" /\ pc = "pins"
  BY <1>1, <1>3 DEF PinsInv, Begun
<1>4. CASE ~(test = "own" /\ pc = "pins")
  <2> PICK W : W = Wanted
    OBVIOUS
  <2> DEFINE n == Len(W) - Len(todo)
  <2>1. /\ Len(todo) \in Nat /\ Len(todo) > 0 /\ Len(todo') = Len(todo) - 1
        /\ \A j \in 1 .. Len(todo') : todo'[j] = todo[j + 1]
        /\ Head(todo) = todo[1]
    BY <1>1
  <2>2. /\ Len(todo) <= Len(W) /\ Len(W) \in Nat
        /\ \A j \in 1 .. Len(todo) : todo[j] = W[n + j]
        /\ \A i \in 1 .. n : Carries(W[i][1]) = W[i][2]
    BY <1>4, WantedOk DEF PinsInv
  <2>3. n \in Nat /\ n + 1 \in 1 .. Len(W) /\ Len(W) - Len(todo') = n + 1
    BY <2>1, <2>2
  <2>4. Head(todo) = W[n + 1]
    BY <2>1, <2>2
  <2> HIDE DEF n
  <2>5. \A p \in PadSet[board] :
          Carries(p)' = IF p = W[n + 1][1] THEN W[n + 1][2] ELSE Carries(p)
    BY <2>4, Selected1
  <2>6. \A i \in 1 .. Len(W) : W[i][1] \in PadSet[board]
    <3>1. \A i \in 1 .. Len(W) : W[i] \in Selections(board)
      BY WantedOk
    <3> QED  BY <3>1, SelectionOk DEF Inv
  <2>7. ASSUME NEW i \in 1 .. (n + 1) PROVE Carries(W[i][1])' = W[i][2]
    <3>0. i \in 1 .. Len(W)  BY <2>2, <2>3
    <3>1. CASE i = n + 1
      BY <2>3, <2>5, <2>6, <3>1
    <3>2. CASE i # n + 1
      <4>1. i \in 1 .. n  BY <2>3, <3>2
      <4>2. W[i][1] # W[n + 1][1]  BY <2>3, <3>0, <3>2, WantedOk
      <4> QED  BY <2>2, <2>5, <2>6, <3>0, <4>1, <4>2
    <3> QED  BY <3>1, <3>2
  <2>8. \A j \in 1 .. Len(todo') : todo'[j] = W[(n + 1) + j]
    <3>1. ASSUME NEW j \in 1 .. Len(todo') PROVE todo'[j] = W[(n + 1) + j]
      <4>1. j + 1 \in 1 .. Len(todo) /\ n + (j + 1) = (n + 1) + j
        BY <2>1, <2>3
      <4>2. todo[j + 1] = W[n + (j + 1)]
        BY <2>2, <4>1 DEF n
      <4> QED  BY <2>1, <4>1, <4>2
    <3> QED  BY <3>1
  <2>9. \A i \in 1 .. (n + 1) : Carries(W[i][1])' = W[i][2]
    BY <2>7
  <2>10. W = Wanted /\ W = Wanted' /\ Len(todo') <= Len(W) /\ Len(W) - Len(todo') = n + 1
    BY <1>2, <2>1, <2>2, <2>3
  <2>11. pc # "system_init" /\ (test = "own" => pc \notin Begun)
    BY <1>1 DEF PinsInv
  <2>12. \A i \in 1 .. (n + 1) : Carries(Wanted[i][1])' = Wanted'[i][2]
    BY <2>9, <2>10 DEF Carries
  <2> QED  BY <1>1, <2>8, <2>10, <2>11, <2>12 DEF PinsInv
<1> QED  BY <1>3, <1>4

\* The other steps ask for the next selections when those before are made, and leave the
\* registers alone.
LEMMA OthersKeepPins ==
    ASSUME Inv, PinsInv, Next, ~Select
    PROVE  PinsInv'
<1>1. /\ board' = board /\ test' = test /\ funcsel' = funcsel
      /\ \A p : Carries(p)' = Carries(p)
  BY OtherSteps DEF build, Carries
<1>2. ASSUME todo = <<>>, ~(test = "own" /\ pc = "pins")
      PROVE  \A i \in 1 .. Len(Wanted) : Carries(Wanted[i][1]) = Wanted[i][2]
  BY <1>2, WantedOk DEF PinsInv
<1>3. ASSUME UNCHANGED <<pc, todo>> PROVE PinsInv'
  BY <1>1, <1>3 DEF PinsInv, Wanted
<1>4. CASE ConsolePins
  <2>1. todo' = pinmux_config(board, "UART1") /\ pc' = "uart_init" /\ Wanted' = todo'
    BY <1>1, <1>4 DEF ConsolePins, At, Wanted
  <2>2. todo' \in Seq(Selections(board))
    BY Requests
  <2> QED  BY <1>1, <2>1, <2>2 DEF PinsInv, Begun
<1>5. CASE TestCasePins
  <2> DEFINE u == pinmux_config(board, "UART1")
             t == TestPins(board, test)
  <2>1. test # "own" /\ pc = "pins" /\ todo = <<>> /\ pc' = "drive" /\ todo' = t /\ Wanted = u
        /\ Wanted' = u \o t
    BY <1>1, <1>5 DEF TestCasePins, At, Wanted, Configured
  <2>2. u \in Seq(Selections(board)) /\ t \in Seq(Selections(board))
    BY <2>1, WantedOk, Requests
  <2>3. \A i \in 1 .. Len(u) : Carries(u[i][1]) = u[i][2]
    BY <1>2, <2>1
  <2> HIDE DEF u, t
  <2> PICK W : W = u \o t
    OBVIOUS
  <2>4. /\ Len(W) = Len(u) + Len(t) /\ Len(u) \in Nat /\ Len(t) \in Nat
        /\ \A i \in 1 .. Len(u) : W[i] = u[i]
        /\ \A j \in 1 .. Len(t) : W[Len(u) + j] = t[j]
    BY <2>2
  <2>5. \A i \in 1 .. Len(u) : Carries(W[i][1])' = W[i][2]
    BY <1>1, <2>3, <2>4
  <2>6. \A i \in 1 .. Len(u) : Carries(Wanted[i][1])' = Wanted'[i][2]
    BY <2>1, <2>5 DEF Carries
  <2> QED  BY <1>1, <2>1, <2>4, <2>6 DEF PinsInv
<1>6. CASE OwnPins
  BY <1>1, <1>6 DEF OwnPins, At, PinsInv, Begun
<1>7. ASSUME todo = <<>>, todo' = <<>>, pc # "system_init", pc' # "system_init", Wanted' = Wanted,
             ~(test = "own" /\ pc = "pins"), test = "own" => pc' \notin Begun
      PROVE  PinsInv'
  <2> PICK W : W = Wanted
    OBVIOUS
  <2>1. \A i \in 1 .. Len(W) : Carries(W[i][1])' = W[i][2]
    BY <1>1, <1>2, <1>7
  <2>2. \A i \in 1 .. Len(W) : Carries(Wanted[i][1])' = Wanted'[i][2]
    BY <1>7, <2>1 DEF Carries
  <2>3. Len(W) \in Nat
    BY WantedOk
  <2> QED  BY <1>1, <1>7, <2>2, <2>3 DEF PinsInv
<1>8. CASE InitSteps /\ ~ConsolePins
  <2>1. /\ todo = <<>> /\ todo' = <<>>
        /\ pc \in {"uart_init", "dlab", "dll", "dlh", "latch", "ier", "format", "irq_init"}
        /\ pc' \in {"dlab", "dll", "dlh", "latch", "ier", "format", "irq_init", "newline"}
    BY <1>8 DEF InitSteps, UartPort, LatchOpen, DivisorLow, DivisorHigh, LatchClosed, ReceiveIrq,
       Format, IrqInit, At
  <2> QED  BY <1>1, <1>7, <2>1 DEF Wanted, Begun
<1>9. CASE Newline \/ Banner \/ testcase_main
  <2>1. /\ todo = <<>> /\ todo' = <<>> /\ pc \in {"newline", "main", "testcase"}
        /\ pc' \in {"main", "testcase", "pins"} /\ (test = "own" => pc' # "testcase")
    BY <1>9 DEF Newline, Banner, testcase_main, At, PinsInv, Begun
  <2> QED  BY <1>1, <1>7, <2>1 DEF Wanted, Begun
<1>10. CASE Drive \/ LastLine
  <2>1. /\ todo = <<>> /\ todo' = <<>> /\ pc \in {"drive", "returned"} /\ pc' \in {"returned", "stop"}
    BY <1>10 DEF Drive, LastLine, At
  <2>2. test # "own"
    BY <2>1 DEF PinsInv, Begun
  <2> QED  BY <1>1, <1>7, <2>1, <2>2 DEF Wanted
<1>11. CASE Rest
  BY <1>3, <1>11 DEF Rest, vars
<1> QED
  BY <1>4, <1>5, <1>6, <1>8, <1>9, <1>10, <1>11 DEF Next, MainSteps

\* q is what the ports p become when one byte is written to UART1: its divisor is then lo, hi.
ByteIs(q, p, lo, hi) ==
    q \in [Ports -> Registers] /\ q[1].dlab = p[1].dlab /\ q[1].dll = lo /\ q[1].dlh = hi

\* ... and when its LCR is
LcrIs(q, p, dlab, format) ==
    /\ q \in [Ports -> Registers] /\ q[1].dlab = dlab /\ q[1].format = format
    /\ q[1].dll = p[1].dll /\ q[1].dlh = p[1].dlh

\* The registers of UART1 are what is written there.
LEMMA PortWritten ==
    ASSUME NEW p \in [Ports -> Registers], NEW r \in Registers
    PROVE  [p EXCEPT ![1] = r] \in [Ports -> Registers] /\ [p EXCEPT ![1] = r][1] = r
<1>1. 1 \in Ports
  BY DEF Ports
<1> QED  BY <1>1

\* Registers one by one
LEMMA RegistersAre ==
    ASSUME NEW r \in Registers
    PROVE  /\ r.dll \in 0 .. 255 /\ r.dlh \in 0 .. 255 /\ r.dlab \in BOOLEAN
           /\ r.format \in {"8N1", "other"} /\ r.rda \in BOOLEAN
           /\ r = [dll |-> r.dll, dlh |-> r.dlh, dlab |-> r.dlab, format |-> r.format,
                   rda |-> r.rda]
BY DEF Registers

\* The divisor's low byte is written, ...
LEMMA DllWrite ==
    ASSUME NEW p \in [Ports -> Registers], NEW n \in 0 .. 255,
           NEW q, q = [p EXCEPT ![1] = [p[1] EXCEPT !.dll = n]]
    PROVE  ByteIs(q, p, n, p[1].dlh)
<1>1. PICK r \in Registers : r = p[1]
  BY DEF Ports
<1>2. PICK w : w = [r EXCEPT !.dll = n]
  OBVIOUS
<1>3. w = [dll |-> n, dlh |-> r.dlh, dlab |-> r.dlab, format |-> r.format, rda |-> r.rda]
  BY <1>2, RegistersAre
<1>4. w \in Registers /\ w.dlab = r.dlab /\ w.dll = n /\ w.dlh = r.dlh
  BY <1>3, RegistersAre DEF Registers
<1> QED  BY <1>1, <1>2, <1>4, PortWritten DEF ByteIs

\* ... its high byte, ...
LEMMA DlhWrite ==
    ASSUME NEW p \in [Ports -> Registers], NEW n \in 0 .. 255,
           NEW q, q = [p EXCEPT ![1] = [p[1] EXCEPT !.dlh = n]]
    PROVE  ByteIs(q, p, p[1].dll, n)
<1>1. PICK r \in Registers : r = p[1]
  BY DEF Ports
<1>2. PICK w : w = [r EXCEPT !.dlh = n]
  OBVIOUS
<1>3. w = [dll |-> r.dll, dlh |-> n, dlab |-> r.dlab, format |-> r.format, rda |-> r.rda]
  BY <1>2, RegistersAre
<1>4. w \in Registers /\ w.dlab = r.dlab /\ w.dll = r.dll /\ w.dlh = n
  BY <1>3, RegistersAre DEF Registers
<1> QED  BY <1>1, <1>2, <1>4, PortWritten DEF ByteIs

\* ... or the interrupt enable.
LEMMA RdaWrite ==
    ASSUME NEW p \in [Ports -> Registers], NEW n \in BOOLEAN,
           NEW q, q = [p EXCEPT ![1] = [p[1] EXCEPT !.rda = n]]
    PROVE  ByteIs(q, p, p[1].dll, p[1].dlh)
<1>1. PICK r \in Registers : r = p[1]
  BY DEF Ports
<1>2. PICK w : w = [r EXCEPT !.rda = n]
  OBVIOUS
<1>3. w = [dll |-> r.dll, dlh |-> r.dlh, dlab |-> r.dlab, format |-> r.format, rda |-> n]
  BY <1>2, RegistersAre
<1>4. w \in Registers /\ w.dlab = r.dlab /\ w.dll = r.dll /\ w.dlh = r.dlh
  BY <1>3, RegistersAre DEF Registers
<1> QED  BY <1>1, <1>2, <1>4, PortWritten DEF ByteIs

\* LCR is written in one: the latch and the format of one and the same port.
LEMMA LcrWrite ==
    ASSUME NEW p \in [Ports -> Registers], NEW d \in BOOLEAN, NEW f \in {"8N1", "other"},
           NEW q, q = [p EXCEPT ![1].dlab = d, ![1].format = f]
    PROVE  LcrIs(q, p, d, f)
<1>1. PICK r \in Registers : r = p[1]
  BY DEF Ports
<1>2. 1 \in DOMAIN p
  BY DEF Ports
<1>3. PICK u : u = [r EXCEPT !.dlab = d]
  OBVIOUS
<1>4. PICK v : v = [p EXCEPT ![1] = u]
  OBVIOUS
<1>5. v[1] = u /\ DOMAIN v = DOMAIN p /\ \A i \in DOMAIN p : i # 1 => v[i] = p[i]
  BY <1>2, <1>4
<1>6. u = [dll |-> r.dll, dlh |-> r.dlh, dlab |-> d, format |-> r.format, rda |-> r.rda]
  BY <1>3, RegistersAre
<1>7. PICK w : w = [u EXCEPT !.format = f]
  OBVIOUS
<1>8. w = [dll |-> r.dll, dlh |-> r.dlh, dlab |-> d, format |-> f, rda |-> r.rda]
  BY <1>6, <1>7
<1>9. w \in Registers /\ w.dlab = d /\ w.format = f /\ w.dll = r.dll /\ w.dlh = r.dlh
  BY <1>8, RegistersAre DEF Registers
<1>10. q = [v EXCEPT ![1] = w]
  BY <1>1, <1>3, <1>4, <1>5, <1>7
<1>11. [v EXCEPT ![1] = w] = [p EXCEPT ![1] = w]
  BY <1>5
<1> QED  BY <1>1, <1>9, <1>10, <1>11, PortWritten DEF LcrIs

\* uart_init() step by step: the divisor goes into the latch and not to the line, and the
\* format comes last; what is printed then changes no register.
LEMMA PortNext == PortInv /\ [Next]_vars => PortInv'
<1> SUFFICES ASSUME PortInv, [Next]_vars PROVE PortInv'
  OBVIOUS
<1>1. /\ 1 \in Ports /\ 14 % 256 = 14 /\ 14 \div 256 = 0 /\ 1 % 2 = 1 /\ 14 \in 0 .. 255 /\ 0 \in 0 .. 255
  BY DEF Ports
<1>3. port \in [Ports -> Registers]
  BY DEF PortInv
<1>0. port[1] \in Registers
  BY <1>1, <1>3
<1>2. ASSUME uart = 1, NEW d \in BOOLEAN, NEW f \in {"8N1", "other"}, SetLcr(d, f)
      PROVE  LcrIs(port', port, d, f)
  <2>1. port' = [port EXCEPT ![1].dlab = d, ![1].format = f]
    BY <1>2 DEF SetLcr
  <2> QED  BY <1>2, <1>3, <2>1, LcrWrite, Zenon
<1> USE DEF PortInv, Early, At
<1>4. ASSUME UNCHANGED port, pc \notin Early \cup {"dlab", "dll", "dlh", "latch", "ier", "format"},
             pc' \notin Early \cup {"dlab", "dll", "dlh", "latch", "ier", "format"}, uart' = uart
      PROVE  PortInv'
  BY <1>4
<1>5. CASE Select \/ UNCHANGED vars
  BY <1>5 DEF Select, vars, console
<1>6. CASE ConsolePins
  BY <1>6 DEF ConsolePins, console
<1>7. CASE UartPort
  BY <1>7 DEF UartPort
<1>8. CASE LatchOpen
  <2>1. port[1].format \in {"8N1", "other"}
    BY <1>0, RegistersAre
  <2>2. LcrIs(port', port, TRUE, port[1].format)
    BY <1>2, <1>8, <2>1 DEF LatchOpen
  <2> QED  BY <1>8, <2>2 DEF LatchOpen, LcrIs
<1>9. CASE DivisorLow
  <2>1. port' = [port EXCEPT ![1] = [port[1] EXCEPT !.dll = 14]]
    BY <1>1, <1>9 DEF DivisorLow, WriteRbr
  <2>2. ByteIs(port', port, 14, port[1].dlh)
    <3>1. 14 \in 0 .. 255
      OBVIOUS
    <3> QED  BY <1>3, <2>1, <3>1, DllWrite, Zenon
  <2> QED  BY <1>9, <2>2 DEF DivisorLow, ByteIs
<1>10. CASE DivisorHigh
  <2>1. port' = [port EXCEPT ![1] = [port[1] EXCEPT !.dlh = 0]]
    BY <1>1, <1>10 DEF DivisorHigh, WriteIer
  <2>2. ByteIs(port', port, port[1].dll, 0)
    <3>1. 0 \in 0 .. 255
      OBVIOUS
    <3> QED  BY <1>3, <2>1, <3>1, DlhWrite, Zenon
  <2> QED  BY <1>10, <2>2 DEF DivisorHigh, ByteIs
<1>11. CASE LatchClosed
  <2>1. port[1].format \in {"8N1", "other"}
    BY <1>0, RegistersAre
  <2>2. LcrIs(port', port, FALSE, port[1].format)
    BY <1>2, <1>11, <2>1 DEF LatchClosed
  <2> QED  BY <1>11, <2>2 DEF LatchClosed, LcrIs
<1>12. CASE ReceiveIrq
  <2>1. port' = [port EXCEPT ![1] = [port[1] EXCEPT !.rda = TRUE]]
    BY <1>1, <1>12 DEF ReceiveIrq, WriteIer
  <2>2. ByteIs(port', port, port[1].dll, port[1].dlh)
    BY <1>3, <2>1, RdaWrite, Zenon
  <2> QED  BY <1>12, <2>2 DEF ReceiveIrq, ByteIs
<1>13. CASE Format
  <2>1. LcrIs(port', port, FALSE, "8N1")
    BY <1>2, <1>13 DEF Format
  <2> QED  BY <1>13, <2>1 DEF Format, LcrIs
<1>14. CASE IrqInit
  BY <1>14 DEF IrqInit, console
<1>15. CASE Newline \/ Banner \/ testcase_main \/ LastLine
  <2>1. /\ uart' = uart /\ Printf
        /\ pc \in {"newline", "main", "testcase", "returned"}
        /\ pc' \in {"main", "testcase", "pins", "stop"}
    BY <1>15 DEF Newline, Banner, testcase_main, LastLine, Printf
  <2>2. port' = port
    BY <2>1 DEF Printf, WriteRbr
  <2> QED  BY <2>1, <2>2
<1>16. CASE TestCasePins \/ OwnPins \/ Drive \/ Rest
  BY <1>16 DEF TestCasePins, OwnPins, Drive, Rest, vars, console
<1> QED
  BY <1>5, <1>6, <1>7, <1>8, <1>9, <1>10, <1>11, <1>12, <1>13, <1>14, <1>15, <1>16
  DEF Next, InitSteps, MainSteps

\* The invariant of start-up, pins and console
StartInv == Inv /\ PinsInv /\ PortInv

\* It holds whatever an earlier stage left behind,
LEMMA StartInit == Init => StartInv
<1> SUFFICES ASSUME Init PROVE StartInv
  OBVIOUS
<1>1. PinsInv
  BY DEF Init, PinsInv, Begun, Wanted
<1>2. PortInv
  <2>1. [dll : {1, 14}, dlh : {0, 1}, dlab : BOOLEAN, format : {"8N1", "other"}, rda : {FALSE}]
          \subseteq Registers
    <3>1. {1, 14} \subseteq 0 .. 255 /\ {0, 1} \subseteq 0 .. 255 /\ {FALSE} \subseteq BOOLEAN
      OBVIOUS
    <3> QED
      <4> SUFFICES ASSUME NEW r \in [dll : {1, 14}, dlh : {0, 1}, dlab : BOOLEAN,
                                     format : {"8N1", "other"}, rda : {FALSE}]
                   PROVE  r \in Registers
        OBVIOUS
      <4>1. r.dll \in 0 .. 255 /\ r.dlh \in 0 .. 255 /\ r.rda \in BOOLEAN
        BY <3>1
      <4> QED  BY <4>1 DEF Registers
  <2>2. Reset \in Registers
    BY DEF Reset, Registers
  <2>3. port \in [Ports -> Registers]
    BY <2>1, <2>2 DEF Init
  <2> QED  BY <2>3 DEF Init, PortInv, Early
<1> QED  BY <1>1, <1>2, InitInv DEF StartInv

\* and every step keeps it.
LEMMA StartNext == StartInv /\ [Next]_vars => StartInv'
<1> SUFFICES ASSUME StartInv, [Next]_vars PROVE StartInv'
  OBVIOUS
<1>1. PinsInv'
  <2>1. CASE UNCHANGED vars
    BY <2>1 DEF StartInv, PinsInv, Wanted, Carries, vars, build
  <2> QED  BY <2>1, SelectKeepsPins, OthersKeepPins DEF StartInv
<1> QED  BY <1>1, NextInv, PortNext DEF StartInv

\* The invariant holds in every state, for every word in the registers.
THEOREM StartsUp == BoardSpec => []StartInv
BY StartInit, StartNext, BoardSteps, PTL DEF BoardSpec

\* Once the program has configured its pads, each signal it needs is on exactly one of them.
LEMMA OnePad ==
    ASSUME StartInv, todo = <<>>, pc = "drive", NEW signal \in Driven(board, test) \cup UartSignals(1)
    PROVE  Cardinality({p \in {s[1] : s \in Range(Configured(board, test))} : Carries(p) = signal}) = 1
<1> DEFINE C == Configured(board, test)
<1>1. C = Wanted /\ test # "own"
  BY DEF StartInv, PinsInv, Wanted, Begun
<1>2. /\ C \in Seq(Selections(board)) /\ DOMAIN C = 1 .. Len(C) /\ Len(C) \in Nat
      /\ \A i, j \in 1 .. Len(C) : C[i][1] = C[j][1] => i = j
  BY <1>1, WantedOk DEF StartInv
<1>3. \A i \in 1 .. Len(C) : Carries(C[i][1]) = C[i][2]
  BY <1>1, <1>2 DEF StartInv, PinsInv
<1>4. PICK i \in DOMAIN C : \A j \in DOMAIN C : C[j][2] = signal <=> j = i
  BY WiringTables DEF StartInv, Inv
<1>5. Range(C) = {C[j] : j \in DOMAIN C}
  BY DEF Range
<1> HIDE DEF C
<1>6. {p \in {s[1] : s \in Range(C)} : Carries(p) = signal} = {C[i][1]}
  <2>1. \A p \in {s[1] : s \in Range(C)} : \E j \in DOMAIN C : p = C[j][1]
    BY <1>5
  <2>2. ASSUME NEW p \in {s[1] : s \in Range(C)}, Carries(p) = signal PROVE p = C[i][1]
    <3>1. PICK j \in DOMAIN C : p = C[j][1]
      BY <2>1
    <3>2. C[j][2] = signal
      BY <1>2, <1>3, <2>2, <3>1
    <3> QED  BY <1>4, <3>1, <3>2
  <2>3. C[i][1] \in {s[1] : s \in Range(C)} /\ Carries(C[i][1]) = signal
    BY <1>2, <1>3, <1>4, <1>5
  <2> QED  BY <2>2, <2>3
<1> QED  BY <1>6, FS_Singleton DEF C

\* pinmux_config() and the test cases: when a test case starts to drive its peripheral, each
\* signal it drives and each of the console is on exactly one pad that was configured, for
\* every word an earlier stage may have left in the registers.
THEOREM IsWired == BoardSpec => []Wired
<1>1. StartInv => Wired
  BY OnePad DEF Wired
<1> QED  BY <1>1, StartsUp, PTL

\* Whatever is printed after uart_init() finds the pads of UART1 configured.
LEMMA ConsolePads ==
    ASSUME StartInv, todo = <<>>, pc \in {"newline", "main", "testcase", "returned"},
           NEW signal \in UartSignals(1)
    PROVE  \E p \in PadSet[board] : Carries(p) = signal
<1> DEFINE u == pinmux_config(board, "UART1")
<1>1. /\ Wanted \in Seq(Selections(board))
      /\ \A i \in 1 .. Len(Wanted) : Carries(Wanted[i][1]) = Wanted[i][2]
  <2>1. Wanted \in Seq(Selections(board))
    BY WantedOk DEF StartInv
  <2> QED  BY <2>1 DEF StartInv, PinsInv
<1>2. \E i \in DOMAIN Wanted : Wanted[i][2] = signal
  <2>1. CASE pc = "returned"
    <3>1. Wanted = Configured(board, test)
      BY <2>1 DEF Wanted
    <3> QED  BY <3>1, WiringTables DEF StartInv, Inv
  <2>2. CASE pc # "returned"
    <3>1. Wanted = pinmux_config(board, "UART1")
      BY <2>2 DEF Wanted
    <3>2. "none" \in Tests /\ TestPins(board, "none") = <<>>
      BY DEF Tests, TestPins
    <3>3. Configured(board, "none") = Wanted
      BY <1>1, <3>1, <3>2 DEF Configured
    <3> QED  BY <3>2, <3>3, WiringTables DEF StartInv, Inv
  <2> QED  BY <2>1, <2>2
<1>3. PICK i \in 1 .. Len(Wanted) : Wanted[i][2] = signal
  BY <1>1, <1>2
<1>4. Wanted[i] \in Selections(board)
  BY <1>1
<1>5. Wanted[i][1] \in PadSet[board]
  BY <1>4, SelectionOk DEF StartInv, Inv
<1> QED  BY <1>1, <1>3, <1>5

\* uart_init() and every printf: a character is sent only by UART1, at its speed and in its
\* format, and over pads that carry it, in whatever state the UART was left.
THEOREM ConsoleIsReadable == BoardSpec => ConsoleReadable
<1> DEFINE Send == sent' # sent =>
             /\ uart = 1
             /\ port[1].dll = 14 /\ port[1].dlh = 0 /\ port[1].format = "8N1" /\ ~port[1].dlab
             /\ \A s \in UartSignals(1) : \E p \in PadSet[board] : Carries(p) = s
<1>1. StartInv /\ [Next]_vars => Send
  <2> SUFFICES ASSUME StartInv, [Next]_vars, sent' # sent PROVE Send
    BY Zenon
  <2>1. Newline \/ Banner \/ testcase_main \/ LastLine
    <3>1. ~DivisorLow
      <4>1. DivisorLow => uart = 1 /\ port[1].dlab
        BY DEF DivisorLow, At, StartInv, PortInv, Early
      <4> QED  BY <4>1 DEF DivisorLow, WriteRbr
    <3> QED
      BY <3>1 DEF Next, InitSteps, MainSteps, vars, ConsolePins, UartPort, LatchOpen, DivisorHigh,
         LatchClosed, ReceiveIrq, Format, IrqInit, Select, TestCasePins, OwnPins, Drive, Rest
  <2>2. todo = <<>> /\ pc \in {"newline", "main", "testcase", "returned"}
    BY <2>1 DEF Newline, Banner, testcase_main, LastLine, At
  <2>3. /\ uart = 1
        /\ port[1].dll = 14 /\ port[1].dlh = 0 /\ port[1].format = "8N1" /\ ~port[1].dlab
    BY <2>2 DEF StartInv, PortInv, Early
  <2>4. \A s \in UartSignals(1) : \E p \in PadSet[board] : Carries(p) = s
    BY <2>2, ConsolePads
  <2> QED  BY <2>3, <2>4
<1>2. StartInv /\ [Next]_vars => [Send]_vars
  BY <1>1
<1> HIDE DEF Send
<1>3. [][Send]_vars => ConsoleReadable
  BY PTL DEF Send, ConsoleReadable
<1> QED  BY <1>2, <1>3, StartsUp, BoardSteps, PTL DEF BoardSpec

-----------------------------------------------------------------------------
\* test_adc(): the samples read so far are the first conversions, in order; the one read next
\* is the present one, finished or under way.
AdcTypeOK ==
    /\ val_ch1 \in Seq([value : Values, valid : BOOLEAN])
    /\ conversions \in Seq([value : Values, settled : BOOLEAN])
    /\ ch1 \in [value : Values, valid : BOOLEAN]
    /\ busy \in BOOLEAN /\ selected \in BOOLEAN /\ trim \in BOOLEAN
    /\ apc \in {"select", "test", "trim", "start", "poll", "read", "again", "average", "done"}

SampleInv ==
    /\ \A i \in 1..Len(val_ch1) :
          val_ch1[i].valid /\ val_ch1[i].value = conversions[i].value
    /\ \A i \in 1..Len(conversions) : conversions[i].settled
    /\ Len(val_ch1) <= Len(conversions)
    /\ apc \in {"select", "test", "trim", "start"} => ~busy /\ conversions = <<>>

SetUp ==
    /\ apc # "select" => selected
    /\ apc \notin {"select", "test"} => reference = "external"
    /\ apc \notin {"select", "test", "trim"} => trim

NextSample ==
    /\ apc \in {"poll", "read"} => Len(val_ch1) < NUM
    /\ (apc = "poll" /\ busy) \/ apc = "again" => Len(conversions) = Len(val_ch1)
    /\ (apc = "poll" /\ ~busy) \/ apc = "read" =>
          /\ Len(conversions) = Len(val_ch1) + 1
          /\ ch1.valid /\ ch1.value = conversions[Len(conversions)].value
    /\ apc \in {"read", "again"} => ~busy
    /\ apc = "again" => Len(val_ch1) \in 1..NUM
    /\ apc \in {"average", "done"} => Len(val_ch1) = NUM
    /\ apc = "done" => num = NUM

AdcInv == AdcTypeOK /\ SampleInv /\ SetUp /\ NextSample

\* The channel is selected, the reference chosen and trimmed before the first conversion.
LEMMA AdcSetUp ==
    ASSUME AdcInv, Adc!SelectChannel \/ Adc!Reference \/ Adc!TrimReference \/ Adc!Start
    PROVE  AdcInv'
<1> USE BoardAssumption DEF AdcInv, AdcTypeOK, SampleInv, SetUp, NextSample, Adc!To
<1>1. CASE Adc!SelectChannel
  BY <1>1 DEF Adc!SelectChannel, Adc!converter
<1>2. CASE Adc!Reference
  BY <1>2 DEF Adc!Reference, Adc!converter
<1>3. CASE Adc!TrimReference
  BY <1>3 DEF Adc!TrimReference, Adc!converter
<1>4. CASE Adc!Start
  BY <1>4 DEF Adc!Start, Adc!Started, Adc!registers
<1> QED  BY <1>1, <1>2, <1>3, <1>4

\* A sample is read once its conversion has finished, and the next one started.
LEMMA AdcSampling ==
    ASSUME AdcInv, Adc!PollIdle \/ Adc!ReadSample \/ Adc!Restart
    PROVE  AdcInv'
<1> USE BoardAssumption DEF AdcInv, AdcTypeOK, SampleInv, SetUp, NextSample, Adc!To
<1>1. CASE Adc!PollIdle
  BY <1>1 DEF Adc!PollIdle, Adc!converter, Adc!registers
<1>2. CASE Adc!ReadSample
  BY <1>2 DEF Adc!ReadSample, Adc!converter, Adc!registers
<1>3. CASE Adc!Restart
  BY <1>3 DEF Adc!Restart, Adc!Started, Adc!registers
<1> QED  BY <1>1, <1>2, <1>3

\* Every sample is valid, so all are counted.
LEMMA AdcAverage ==
    ASSUME AdcInv, Adc!Average
    PROVE  AdcInv'
<1>1. {i \in 1..NUM : val_ch1[i].valid} = 1..NUM
  BY BoardAssumption DEF AdcInv, SampleInv, NextSample, Adc!Average, Adc!To
<1>2. Adc!Cardinality(1..NUM) = NUM
  <2>1. Adc!Cardinality(1..NUM) = Cardinality(1..NUM)
    BY DEF Adc!Cardinality, Cardinality
  <2>2. Cardinality(1..NUM) = NUM
    BY FS_Interval, BoardAssumption
  <2> QED  BY <2>1, <2>2
<1>3. num' = NUM
  BY <1>1, <1>2 DEF Adc!Average
<1>4. apc = "average" /\ apc' = "done"
      /\ UNCHANGED <<val_ch1, selected, reference, trim, busy, ch1, conversions>>
  BY DEF Adc!Average, Adc!To, Adc!registers, Adc!converter
<1> QED
  BY <1>3, <1>4 DEF AdcInv, AdcTypeOK, SampleInv, SetUp, NextSample

\* A conversion that finishes was started after the set-up.
LEMMA AdcConvert ==
    ASSUME AdcInv, Adc!Convert
    PROVE  AdcInv'
<1>1. PICK v \in Values :
        /\ ch1' = [value |-> v, valid |-> selected]
        /\ conversions' = Append(conversions, [value |-> v, settled |-> reference = "external" /\ trim])
        /\ busy /\ busy' = FALSE /\ UNCHANGED <<apc, val_ch1, num, sum, selected, reference, trim>>
  BY DEF Adc!Convert, Adc!registers
<1>2. apc \notin {"select", "test", "trim", "start"} /\ selected = TRUE /\ trim = TRUE
      /\ reference = "external"
  BY <1>1 DEF AdcInv, SampleInv, SetUp, AdcTypeOK
<1>3. conversions' = Append(conversions, [value |-> v, settled |-> TRUE])
      /\ ch1' = [value |-> v, valid |-> TRUE]
  BY <1>1, <1>2
<1>4. AdcTypeOK'
  <2>1. conversions' \in Seq([value : Values, settled : BOOLEAN])
    BY <1>3 DEF AdcInv, AdcTypeOK
  <2>2. ch1' \in [value : Values, valid : BOOLEAN]
    BY <1>3
  <2> QED  BY <1>1, <2>1, <2>2 DEF AdcInv, AdcTypeOK
<1>5. /\ Len(conversions') = Len(conversions) + 1 /\ Len(conversions) \in Nat
      /\ \A i \in 1..Len(conversions) : conversions'[i] = conversions[i]
      /\ conversions'[Len(conversions) + 1] = [value |-> v, settled |-> TRUE]
  BY <1>3 DEF AdcInv, AdcTypeOK
<1>6. Len(val_ch1) \in Nat /\ Len(val_ch1) <= Len(conversions)
  BY DEF AdcInv, AdcTypeOK, SampleInv
<1>7. SampleInv'
  BY <1>1, <1>2, <1>5, <1>6 DEF AdcInv, SampleInv
<1>8. SetUp' /\ NextSample'
  BY <1>1, <1>2, <1>3, <1>5, <1>6, BoardAssumption DEF AdcInv, SampleInv, SetUp, NextSample
<1> QED  BY <1>4, <1>7, <1>8 DEF AdcInv

\* At the start nothing has been converted.
LEMMA BoardInitInv == BoardInit => (test = "ADC" => AdcInv)
<1> SUFFICES ASSUME BoardInit, test = "ADC" PROVE AdcInv
  OBVIOUS
<1>1. Adc!Init
  BY DEF BoardInit
<1>2. AdcTypeOK
  <2>1. trim \in BOOLEAN /\ busy \in BOOLEAN /\ selected \in BOOLEAN
    BY <1>1, Zenon DEF Adc!Init
  <2> QED  BY <1>1, <2>1 DEF Adc!Init, AdcTypeOK
<1>3. SampleInv /\ SetUp /\ NextSample
  BY <1>1, BoardAssumption DEF Adc!Init, SampleInv, SetUp, NextSample
<1> QED  BY <1>2, <1>3 DEF AdcInv

\* Whatever the board does, the test case stays the one built, and test_adc() keeps its
\* invariant.
LEMMA BoardNextInv ==
    Inv /\ (test = "ADC" => AdcInv) /\ [BoardNext]_boardVars => (test = "ADC" => AdcInv)'
<1> SUFFICES ASSUME Inv, test = "ADC" => AdcInv, [BoardNext]_boardVars, test' = "ADC"
             PROVE  AdcInv'
  OBVIOUS
<1>1. test' = test
  <2>1. [Next]_vars
    BY BoardSteps
  <2>2. CASE Select
    BY <2>2 DEF Select, build
  <2>3. CASE Next /\ ~Select
    BY <2>3, OtherSteps DEF build
  <2>4. CASE UNCHANGED vars
    BY <2>4 DEF vars, build
  <2> QED  BY <2>1, <2>2, <2>3, <2>4
<1>2. AdcInv
  BY <1>1
<1>3. CASE test_adc
  BY <1>2, <1>3, AdcSetUp, AdcSampling, AdcAverage DEF test_adc, Adc!Program
<1>4. CASE Converter
  BY <1>2, <1>4, AdcConvert DEF Converter
<1>5. CASE Others \/ UNCHANGED boardVars
  <2>1. UNCHANGED <<apc, val_ch1, num, selected, reference, trim, busy, ch1, conversions>>
    BY <1>5 DEF Others, boardVars, adc
  <2> QED  BY <1>2, <2>1 DEF AdcInv, AdcTypeOK, SampleInv, SetUp, NextSample
<1> QED  BY <1>3, <1>4, <1>5 DEF BoardNext

\* test_adc(): the samples averaged are those of the first NUM conversions, each once, all
\* valid and taken after the reference was set, however many and however long they take.
THEOREM AdcSamplesFresh == BoardSpec => []SamplesFresh
<1>1. Inv /\ (test = "ADC" => AdcInv) => SamplesFresh
  <2> SUFFICES ASSUME AdcInv, apc = "done"
               PROVE  /\ num = NUM /\ NUM <= Len(conversions)
                      /\ \A i \in 1..NUM : /\ val_ch1[i].value = conversions[i].value
                                           /\ conversions[i].settled
    BY DEF SamplesFresh, Adc!SamplesFresh
  <2>1. num = NUM /\ Len(val_ch1) = NUM /\ NUM <= Len(conversions) /\ Len(conversions) \in Nat
    BY DEF AdcInv, NextSample, SampleInv, AdcTypeOK
  <2> QED  BY <2>1, BoardAssumption DEF AdcInv, SampleInv
<1> QED
  BY <1>1, BoardInitInv, BoardNextInv, BoardSteps, InitInv, NextInv, PTL DEF BoardSpec

-----------------------------------------------------------------------------
\* The boot image.

\* image is in cells behind addr.
Lies(cells, addr, image) ==
    addr + Len(image) <= Len(cells) /\ \A i \in 1 .. Len(image) : cells[addr + i] = image[i]

Begins(cells, image) == Lies(cells, 0, image)

\* A whole number of blocks
Blocks(cells) == IsSeq(cells) /\ Len(cells) % Align = 0

\* The two parameter blocks, by their fields; g is what was given.
IsParam1(cell, g) ==
    /\ cell = [k |-> "param1", magic |-> "CVBL01", cksum |-> cell.cksum,
               param2_loadaddr |-> cell.param2_loadaddr, info |-> cell.info,
               conf_size |-> cell.conf_size, blcp_runaddr |-> cell.blcp_runaddr,
               img |-> cell.img]
    /\ cell.param2_loadaddr \in Nat
    /\ cell.info = [n \in Infos |-> g[n] \o Zeros(InfoSize - Len(g[n]))]

IsParam2(cell) ==
    /\ cell = [k |-> "param2", magic |-> "CVLD02", cksum |-> cell.cksum,
               loader_2nd |-> cell.loader_2nd, img |-> cell.img]
    /\ cell.loader_2nd \in Nat
    /\ cell.img = [n \in Body2 |-> cell.img[n]]
    /\ \A n \in Body2 : cell.img[n].loadaddr \in Nat /\ cell.img[n].size \in Nat

\* What the second loader is when it is unpacked, without its header
Unpacked(cells) == IF cells[1].magic = "BL33" THEN Tail(cells) ELSE cells[2].of

\* A second loader made from the one that was given
IsLoader(cells, image) ==
    /\ IsSeq(cells) /\ cells # <<>> /\ IsHeader(cells[1]) /\ cells[1].magic \in Magics
    /\ cells[1].magic # "BL33" => Len(cells) > 1
    /\ IsSeq(Unpacked(cells)) /\ Begins(Unpacked(cells), Tail(image))

\* The file holds at addr the blocks whose checksum img has, which begin with image.
Holds(cells, addr, img, image) ==
    /\ addr \in Nat /\ addr % Align = 0
    /\ Lies(cells, addr, img.cksum) /\ Len(img.cksum) = img.size
    /\ Blocks(img.cksum) /\ Begins(img.cksum, image)

\* The same of the second loader, whose size and checksum are in its header
HoldsLoader(cells, addr, ld, image) ==
    /\ addr \in Nat \ {0} /\ addr % Align = 0 /\ Lies(cells, addr, ld)
    /\ IsLoader(ld, image) /\ Blocks(ld)
    /\ ld[1].size = Len(ld)
    /\ ld[1].cksum = Crc(<<[ld[1] EXCEPT !.cksum = <<>>]>> \o Tail(ld))

\* The first block and the images behind it
EndOfFirst(cell) == ParamSize + cell.img["BLCP"].size + cell.img["BL2"].size
FirstPart(cells, p1, g) ==
    /\ IsSeq(cells) /\ cells # <<>> /\ cells[1] = p1 /\ IsParam1(p1, g) /\ IsSealed(p1)
    /\ Holds(cells, ParamSize, p1.img["BLCP"], g["BLCP"])
    /\ Holds(cells, ParamSize + p1.img["BLCP"].size, p1.img["BL2"], g["BL2"])

\* The second block and the images behind it
SecondPart(cells, p2, g) ==
    /\ IsParam2(p2) /\ IsSealed(p2)
    /\ \A n \in Body2 : g[n] # <<>> => Holds(cells, p2.img[n].loadaddr, p2.img[n], g[n])
    /\ IF g["LOADER_2ND"] = <<>> THEN p2.loader_2nd = 0
       ELSE HoldsLoader(cells, p2.loader_2nd,
                        Slice(cells, p2.loader_2nd, cells[p2.loader_2nd + 1].size),
                        g["LOADER_2ND"])

Complete(cells, g) ==
    /\ FirstPart(cells, cells[1], g)
    /\ cells[1].param2_loadaddr < Len(cells)
    /\ SecondPart(cells, cells[cells[1].param2_loadaddr + 1], g)

\* What was given, as far as the file goes
GivenInv ==
    /\ args \in Args
    /\ \A n \in Methods : IsSeq(given[n])
    /\ \A n \in Infos : Len(given[n]) <= InfoSize
    /\ given["DDR_PARAM"] = <<>> => ~args.old /\ stage \in {"start", "add"}

\* The FIP object before its images are packed
Images1(b1, g) == \A n \in Body1 : Blocks(b1[n]) /\ Begins(b1[n], g[n])
Images2(b2, g) == \A n \in Body2 : IsSeq(b2[n]) /\ Begins(b2[n], g[n])
LoaderKept(p2, ld, g) ==
    IF g["LOADER_2ND"] = <<>> THEN ld = <<>> /\ p2.loader_2nd = 0 ELSE IsLoader(ld, g["LOADER_2ND"])

ObjectInv ==
    /\ IsParam1(param1, given) /\ IsParam2(param2)
    /\ Images1(body1, given) /\ Images2(body2, given) /\ LoaderKept(param2, loader, given)

\* Room for the second block
Room(cells, p1) ==
    EndOfFirst(p1) <= p1.param2_loadaddr /\ p1.param2_loadaddr + ParamSize <= Len(cells)

\* Images that are packed, none of which reaches into the room
Packed(cells, p1, p2, g, names) ==
    \A n \in names : g[n] # <<>> =>
        /\ Holds(cells, p2.img[n].loadaddr, p2.img[n], g[n])
        /\ p2.img[n].loadaddr >= p1.param2_loadaddr + ParamSize

LoaderPacked(cells, p1, p2, ld, g) ==
    g["LOADER_2ND"] # <<>> =>
        /\ HoldsLoader(cells, p2.loader_2nd, ld, g["LOADER_2ND"])
        /\ p2.loader_2nd >= p1.param2_loadaddr + ParamSize

Filling2 == {"ddr", "blcp_2nd", "monitor", "loader", "param2"}
Making == {"add", "fip1", "insert"} \cup Filling2

BeginInv ==
    /\ stage = "start" => loader = <<>>
    /\ stage = "start" /\ ~args.old => ObjectInv

PackingInv ==
    /\ stage \in Making => ObjectInv
    /\ stage \in {"insert"} \cup Filling2 => FirstPart(fip_bin, param1, given)
    /\ stage \in Filling2 => Room(fip_bin, param1)
    /\ stage \in {"blcp_2nd", "monitor", "loader", "param2"} =>
          Packed(fip_bin, param1, param2, given, {"DDR_PARAM"})
    /\ stage \in {"monitor", "loader", "param2"} =>
          Packed(fip_bin, param1, param2, given, {"BLCP_2ND"})
    /\ stage \in {"loader", "param2"} => Packed(fip_bin, param1, param2, given, {"MONITOR"})
    /\ stage = "param2" => LoaderPacked(fip_bin, param1, param2, loader, given)

FileInv ==
    /\ stage = "start" /\ args.old => Complete(file, given)
    /\ stage = "write" => Complete(fip_bin, given)
    /\ stage = "written" => Complete(file, given)

FipInv ==
    /\ stage \in Making \cup {"start", "write", "written"}
    /\ GivenInv /\ BeginInv /\ PackingInv /\ FileInv

-----------------------------------------------------------------------------
\* Sequences of cells.

\* A sequence over any set is one over its own cells.
LEMMA SeqOfCells == ASSUME NEW S, NEW s \in Seq(S) PROVE IsSeq(s)
<1>1. s \in [1 .. Len(s) -> S] /\ Len(s) \in Nat /\ DOMAIN s = 1 .. Len(s)
  BY LenProperties
<1>2. s \in [1 .. Len(s) -> Range(s)]
  BY <1>1 DEF Range
<1> QED  BY <1>1, <1>2, SeqDef DEF IsSeq

\* A sequence is known by its length and its cells.
LEMMA CellsOf ==
    ASSUME NEW s, IsSeq(s)
    PROVE  Len(s) \in Nat /\ DOMAIN s = 1 .. Len(s) /\ (s = <<>> <=> Len(s) = 0)
<1>1. Len(s) \in Nat /\ DOMAIN s = 1 .. Len(s)
  BY LenProperties DEF IsSeq
<1>2. s # <<>> => Len(s) # 0
  BY EmptySeq DEF IsSeq
<1>3. Len(<<>>) = 0
  BY EmptySeq
<1> QED  BY <1>1, <1>2, <1>3

\* A sequence over a larger set than its own cells
LEMMA Wider == ASSUME NEW s, NEW S, IsSeq(s), Range(s) \subseteq S PROVE s \in Seq(S)
BY SeqMonotonic DEF IsSeq

\* Equality of sequences of cells
LEMMA SameCells ==
    ASSUME NEW s, NEW t, IsSeq(s), IsSeq(t), Len(s) = Len(t), \A i \in 1 .. Len(s) : s[i] = t[i]
    PROVE  s = t
<1> DEFINE S == Range(s) \cup Range(t)
<1>1. s \in Seq(S) /\ t \in Seq(S)
  BY Wider
<1> HIDE DEF S
<1> QED  BY <1>1, SeqEqual

\* Concatenation
LEMMA Joined ==
    ASSUME NEW s, NEW t, IsSeq(s), IsSeq(t)
    PROVE  /\ IsSeq(s \o t) /\ Len(s \o t) = Len(s) + Len(t)
           /\ \A i \in 1 .. Len(s) : (s \o t)[i] = s[i]
           /\ \A i \in 1 .. Len(t) : (s \o t)[Len(s) + i] = t[i]
<1> DEFINE S == Range(s) \cup Range(t)
<1>1. s \in Seq(S) /\ t \in Seq(S)
  BY Wider
<1> HIDE DEF S
<1>2. /\ s \o t \in Seq(S) /\ Len(s \o t) = Len(s) + Len(t)
      /\ \A i \in 1 .. Len(s) + Len(t) : (s \o t)[i] = IF i <= Len(s) THEN s[i] ELSE t[i - Len(s)]
  BY <1>1, ConcatProperties
<1>3. Len(s) \in Nat /\ Len(t) \in Nat
  BY CellsOf
<1>4. ASSUME NEW i \in 1 .. Len(t) PROVE (s \o t)[Len(s) + i] = t[i]
  <2>1. Len(s) + i \in 1 .. Len(s) + Len(t) /\ ~(Len(s) + i <= Len(s)) /\ Len(s) + i - Len(s) = i
    BY <1>3
  <2> QED  BY <2>1, <1>2
<1>5. \A i \in 1 .. Len(s) : (s \o t)[i] = s[i]
  BY <1>2, <1>3
<1>6. IsSeq(s \o t)
  BY <1>2, SeqOfCells
<1> QED  BY <1>2, <1>4, <1>5, <1>6

\* Zeros
LEMMA ZerosAre == ASSUME NEW n \in Nat PROVE IsSeq(Zeros(n)) /\ Len(Zeros(n)) = n
<1>1. Zeros(n) \in Seq({Zero})
  BY DEF Zeros
<1>2. Len(Zeros(n)) = n
  BY DEF Zeros
<1> QED  BY <1>1, <1>2, SeqOfCells

\* One cell
LEMMA OneCell == ASSUME NEW c PROVE IsSeq(<<c>>) /\ Len(<<c>>) = 1 /\ <<c>>[1] = c
<1>1. <<c>> \in Seq({c})
  OBVIOUS
<1> QED  BY <1>1, SeqOfCells

\* One cell is written over.
LEMMA Written ==
    ASSUME NEW s, NEW c, IsSeq(s), NEW i \in 1 .. Len(s)
    PROVE  /\ IsSeq([s EXCEPT ![i] = c]) /\ Len([s EXCEPT ![i] = c]) = Len(s)
           /\ [s EXCEPT ![i] = c][i] = c
           /\ \A j \in 1 .. Len(s) : j # i => [s EXCEPT ![i] = c][j] = s[j]
<1> DEFINE S == Range(s) \cup {c}
<1>1. s \in Seq(S) /\ c \in S
  BY Wider
<1> HIDE DEF S
<1>2. /\ [s EXCEPT ![i] = c] \in Seq(S) /\ Len([s EXCEPT ![i] = c]) = Len(s)
      /\ \A j \in 1 .. Len(s) : [s EXCEPT ![i] = c][j] = IF j = i THEN c ELSE s[j]
  BY <1>1, ExceptSeq
<1> QED  BY <1>2, SeqOfCells

\* Only the first cell is written over.
FirstIs(u, c, s) ==
    /\ IsSeq(u) /\ Len(u) = Len(s) /\ u[1] = c
    /\ \A j \in 1 .. Len(s) : j # 1 => u[j] = s[j]

LEMMA WrittenFirst ==
    ASSUME NEW s, NEW c, IsSeq(s), s # <<>>
    PROVE  FirstIs([s EXCEPT ![1] = c], c, s)
<1>1. PICK i \in 1 .. Len(s) : i = 1
  BY CellsOf
<1>2. /\ IsSeq([s EXCEPT ![i] = c]) /\ Len([s EXCEPT ![i] = c]) = Len(s)
      /\ [s EXCEPT ![i] = c][i] = c
      /\ \A j \in 1 .. Len(s) : j # i => [s EXCEPT ![i] = c][j] = s[j]
  BY Written
<1> QED  BY <1>1, <1>2 DEF FirstIs

\* All cells but the first
LEMMA TailOf ==
    ASSUME NEW s, IsSeq(s), s # <<>>
    PROVE  /\ IsSeq(Tail(s)) /\ Len(Tail(s)) = Len(s) - 1 /\ Len(s) >= 1
           /\ \A i \in 1 .. Len(Tail(s)) : Tail(s)[i] = s[i + 1]
<1>1. s \in Seq(Range(s))
  BY DEF IsSeq
<1>2. /\ Tail(s) \in Seq(Range(s)) /\ Len(Tail(s)) = Len(s) - 1
      /\ \A i \in 1 .. Len(Tail(s)) : Tail(s)[i] = s[i + 1]
  BY <1>1, HeadTailProperties
<1>3. IsSeq(Tail(s))
  BY <1>2, SeqOfCells
<1> QED  BY <1>2, <1>3, CellsOf

\* Python's slices
LEMMA Sliced ==
    ASSUME NEW s, IsSeq(s), NEW addr \in Nat, NEW size \in Nat
    PROVE  /\ IsSeq(Slice(s, addr, size))
           /\ addr + size <= Len(s) => Len(Slice(s, addr, size)) = size
           /\ \A i \in 1 .. Len(Slice(s, addr, size)) : Slice(s, addr, size)[i] = s[addr + i]
<1> DEFINE n == IF addr + size < Len(s) THEN addr + size ELSE Len(s)
<1>1. Len(s) \in Nat /\ n \in Nat /\ n <= Len(s)
  BY CellsOf
<1>2. \A i \in (addr + 1) .. n : s[i] \in Range(s)
  BY <1>1, CellsOf DEF Range
<1>3. Slice(s, addr, size) = SubSeq(s, addr + 1, n)
  BY DEF Slice
<1>4. addr + size <= Len(s) => n = addr + size
  BY <1>1
<1> HIDE DEF n
<1>5. /\ SubSeq(s, addr + 1, n) \in Seq(Range(s))
      /\ Len(SubSeq(s, addr + 1, n)) = IF addr + 1 <= n THEN n - (addr + 1) + 1 ELSE 0
      /\ \A i \in 1 .. (n - (addr + 1) + 1) :
            SubSeq(s, addr + 1, n)[i] = s[(addr + 1) + i - 1]
  <2>1. addr + 1 \in Int /\ n \in Int
    BY <1>1
  <2> QED  BY <2>1, <1>2, SubSeqProperties
<1>6. ASSUME NEW i \in 1 .. Len(Slice(s, addr, size)) PROVE Slice(s, addr, size)[i] = s[addr + i]
  <2>1. i \in 1 .. (n - (addr + 1) + 1) /\ (addr + 1) + i - 1 = addr + i
    BY <1>1, <1>3, <1>5
  <2> QED  BY <2>1, <1>3, <1>5
<1>7. IsSeq(Slice(s, addr, size))
  BY <1>3, <1>5, SeqOfCells
<1>8. addr + size <= Len(s) => Len(Slice(s, addr, size)) = size
  BY <1>1, <1>3, <1>4, <1>5
<1> QED  BY <1>6, <1>7, <1>8

-----------------------------------------------------------------------------
\* Blocks of Align cells and padding.

\* Sums of whole blocks are whole blocks.
LEMMA SumOfBlocks ==
    ASSUME NEW a \in Nat, NEW b \in Nat, a % Align = 0, b % Align = 0
    PROVE  (a + b) % Align = 0
<1>1. Align \in Nat /\ Align > 0
  BY FipAssumption
<1> DEFINE p == a \div Align
           q == b \div Align
<1>2. p \in Nat /\ q \in Nat /\ a = Align * p /\ b = Align * q
  BY <1>1
<1> HIDE DEF p, q
<1>3. a + b = Align * (p + q)
  BY <1>1, <1>2
<1>4. \A n \in Nat : (Align * n) % Align = 0
  BY <1>1
<1> QED  BY <1>2, <1>3, <1>4

\* What pad() adds makes whole blocks.
LEMMA RestOfBlock ==
    ASSUME NEW a \in Nat, a % Align # 0
    PROVE  Align - (a % Align) \in Nat /\ (a + (Align - (a % Align))) % Align = 0
<1>1. Align \in Nat /\ Align > 0
  BY FipAssumption
<1> DEFINE p == a \div Align
           r == a % Align
<1>2. p \in Nat /\ r \in Nat /\ r < Align /\ a = Align * p + r
  BY <1>1
<1> HIDE DEF p, r
<1>3. a + (Align - r) = Align * (p + 1)
  BY <1>1, <1>2
<1>4. \A n \in Nat : (Align * n) % Align = 0
  BY <1>1
<1>5. p + 1 \in Nat /\ Align - r \in Nat
  BY <1>1, <1>2
<1> QED  BY <1>3, <1>4, <1>5 DEF r

\* pad()
LEMMA Padded ==
    ASSUME NEW s, IsSeq(s)
    PROVE  \E n \in Nat : Pad(s) = s \o Zeros(n) /\ Blocks(Pad(s)) /\ Len(Pad(s)) = Len(s) + n
<1>1. Len(s) \in Nat
  BY CellsOf
<1> DEFINE n == IF Len(s) % Align = 0 THEN 0 ELSE Align - (Len(s) % Align)
<1>2. n \in Nat /\ (Len(s) + n) % Align = 0
  BY <1>1, RestOfBlock
<1>3. Pad(s) = s \o Zeros(n)
  BY DEF Pad
<1> HIDE DEF n
<1>4. IsSeq(Pad(s)) /\ Len(Pad(s)) = Len(s) + n
  BY <1>2, <1>3, ZerosAre, Joined
<1> QED  BY <1>2, <1>3, <1>4 DEF Blocks

\* What lies in the beginning of a sequence lies in the whole.
LEMMA LiesIn ==
    ASSUME NEW s, NEW u, IsSeq(s), IsSeq(u), Begins(u, s),
           NEW addr \in Nat, NEW image, IsSeq(image), Lies(s, addr, image)
    PROVE  Lies(u, addr, image)
<1>1. Len(s) \in Nat /\ Len(u) \in Nat /\ Len(image) \in Nat
  BY CellsOf
<1>2. addr + Len(image) <= Len(s) /\ \A i \in 1 .. Len(image) : s[addr + i] = image[i]
  BY DEF Lies
<1>3. Len(s) <= Len(u) /\ \A i \in 1 .. Len(s) : u[i] = s[i]
  BY <1>1 DEF Begins, Lies
<1>4. \A i \in 1 .. Len(image) : addr + i \in 1 .. Len(s)
  BY <1>1, <1>2
<1> QED  BY <1>1, <1>2, <1>3, <1>4 DEF Lies

\* A concatenation begins with its first part, and behind that lies the second.
LEMMA BeginsJoined ==
    ASSUME NEW s, NEW t, IsSeq(s), IsSeq(t)
    PROVE  Begins(s \o t, s) /\ Lies(s \o t, Len(s), t)
BY Joined, CellsOf DEF Begins, Lies

\* What begins a sequence begins every one that it begins.
LEMMA BeginsOn ==
    ASSUME NEW s, NEW t, NEW u, IsSeq(s), IsSeq(t), IsSeq(u), Begins(s, t), Begins(t, u)
    PROVE  Begins(s, u)
BY CellsOf DEF Begins, Lies

\* A sequence begins with itself, and so does what pad() makes of it.
LEMMA BeginsSelf == ASSUME NEW s, IsSeq(s) PROVE Begins(s, s) /\ Begins(s, <<>>) /\ Begins(Pad(s), s)
<1>1. Begins(s, s)
  BY CellsOf DEF Begins, Lies
<1>2. Begins(s, <<>>)
  BY CellsOf DEF Begins, Lies
<1>3. Begins(Pad(s), s)
  <2>1. PICK n \in Nat : Pad(s) = s \o Zeros(n)
    BY Padded
  <2> QED  BY <2>1, ZerosAre, BeginsJoined
<1> QED  BY <1>1, <1>2, <1>3

\* A slice is what lies there.
LEMMA SliceIs ==
    ASSUME NEW s, IsSeq(s), NEW addr \in Nat, NEW image, IsSeq(image), Lies(s, addr, image)
    PROVE  Slice(s, addr, Len(image)) = image
<1>1. Len(image) \in Nat /\ addr + Len(image) <= Len(s)
  BY CellsOf DEF Lies
<1>2. \A i \in 1 .. Len(image) : s[addr + i] = image[i]
  BY DEF Lies
<1>3. /\ IsSeq(Slice(s, addr, Len(image))) /\ Len(Slice(s, addr, Len(image))) = Len(image)
      /\ \A i \in 1 .. Len(image) : Slice(s, addr, Len(image))[i] = s[addr + i]
  BY <1>1, Sliced
<1> QED  BY <1>2, <1>3, SameCells

\* A prefix, as ImagesFound has it
LEMMA PrefixIs ==
    ASSUME NEW s, NEW image, IsSeq(s), IsSeq(image), Begins(s, image)
    PROVE  SubSeq(s, 1, Len(image)) = image
<1>1. Len(image) \in Nat /\ Len(s) \in Nat /\ Len(image) <= Len(s)
  BY CellsOf DEF Begins, Lies
<1>2. Slice(s, 0, Len(image)) = SubSeq(s, 1, Len(image))
  BY <1>1 DEF Slice
<1> QED  BY <1>2, SliceIs DEF Begins

\* A cell is written over that is not part of the image.
LEMMA WrittenBeside ==
    ASSUME NEW s, IsSeq(s), NEW at \in 1 .. Len(s), NEW c, NEW addr \in Nat, NEW image, IsSeq(image),
           Lies(s, addr, image), at <= addr \/ at > addr + Len(image)
    PROVE  Lies([s EXCEPT ![at] = c], addr, image)
<1>1. Len(image) \in Nat /\ addr + Len(image) <= Len(s) /\ Len(s) \in Nat
  BY CellsOf DEF Lies
<1>2. \A i \in 1 .. Len(image) : s[addr + i] = image[i]
  BY DEF Lies
<1>3. \A i \in 1 .. Len(image) : addr + i \in 1 .. Len(s) /\ addr + i # at
  BY <1>1
<1> DEFINE new == [s EXCEPT ![at] = c]
<1>4. Len(new) = Len(s) /\ \A j \in 1 .. Len(s) : j # at => new[j] = s[j]
  BY Written
<1> HIDE DEF new
<1>5. Lies(new, addr, image)
  BY <1>1, <1>2, <1>3, <1>4 DEF Lies
<1> QED  BY <1>5 DEF new

\* An image packed behind everything else: pad() and the image
LEMMA BeginsPacked ==
    ASSUME NEW s, NEW t, IsSeq(s), IsSeq(t)
    PROVE  /\ IsSeq(Pad(s)) /\ Len(Pad(s)) \in Nat /\ Len(Pad(s)) >= Len(s)
           /\ IsSeq(Pad(s) \o t) /\ Begins(Pad(s) \o t, s) /\ Lies(Pad(s) \o t, Len(Pad(s)), t)
           /\ Len(Pad(s)) % Align = 0
<1>1. PICK n \in Nat : Blocks(Pad(s)) /\ Len(Pad(s)) = Len(s) + n
  BY Padded
<1>2. IsSeq(Pad(s)) /\ Len(Pad(s)) % Align = 0
  BY <1>1 DEF Blocks
<1>3. IsSeq(Pad(s) \o t) /\ Begins(Pad(s) \o t, Pad(s)) /\ Lies(Pad(s) \o t, Len(Pad(s)), t)
  BY <1>2, Joined, BeginsJoined
<1>4. Begins(Pad(s) \o t, s)
  BY <1>2, <1>3, BeginsSelf, BeginsOn
<1> QED  BY <1>1, <1>2, <1>3, <1>4, CellsOf

\* The setter of Entry.content
LEMMA FieldLength ==
    ASSUME NEW s, IsSeq(s), NEW n \in Nat, Len(s) <= n
    PROVE  Len(s \o Zeros(n - Len(s))) = n
<1>1. Len(s) \in Nat /\ n - Len(s) \in Nat
  BY CellsOf
<1>2. IsSeq(Zeros(n - Len(s))) /\ Len(Zeros(n - Len(s))) = n - Len(s)
  BY <1>1, ZerosAre
<1>3. Len(s \o Zeros(n - Len(s))) = Len(s) + (n - Len(s))
  BY <1>2, Joined
<1> QED  BY <1>1, <1>3

-----------------------------------------------------------------------------
\* The parts of the file.

\* Sealing changes the checksum only, and what is sealed is.
LEMMA SealedIs ==
    ASSUME NEW c, "cksum" \in DOMAIN c
    PROVE  /\ IsSealed(Sealed(c)) /\ DOMAIN Sealed(c) = DOMAIN c
           /\ \A f \in DOMAIN c : f # "cksum" => Sealed(c)[f] = c[f]
<1>1. [Sealed(c) EXCEPT !.cksum = <<>>] = [c EXCEPT !.cksum = <<>>]
  BY DEF Sealed
<1>2. Sealed(Sealed(c)) = [Sealed(c) EXCEPT !.cksum = Crc(<<[c EXCEPT !.cksum = <<>>]>>)]
  BY <1>1 DEF Sealed
<1>3. Sealed(Sealed(c)) = Sealed(c)
  BY <1>2 DEF Sealed
<1> QED  BY <1>3 DEF IsSealed, Sealed

\* The fields of the first block
LEMMA Param1Fields ==
    ASSUME NEW c, NEW g, IsParam1(c, g)
    PROVE  /\ DOMAIN c = {"k", "magic", "cksum", "param2_loadaddr", "info", "conf_size",
                          "blcp_runaddr", "img"}
           /\ c.k = "param1" /\ c.magic = "CVBL01"
BY DEF IsParam1

\* A cell with those fields is one.
LEMMA Param1From ==
    ASSUME NEW c, NEW g,
           DOMAIN c = {"k", "magic", "cksum", "param2_loadaddr", "info", "conf_size",
                       "blcp_runaddr", "img"},
           c = [f \in DOMAIN c |-> c[f]],
           c.k = "param1", c.magic = "CVBL01", c.param2_loadaddr \in Nat,
           c.info = [n \in Infos |-> g[n] \o Zeros(InfoSize - Len(g[n]))]
    PROVE  IsParam1(c, g)
BY DEF IsParam1

\* The images of the second block can be written over one by one.
LEMMA Param2With ==
    ASSUME NEW c, IsParam2(c), NEW name \in Body2, NEW record,
           record.loadaddr \in Nat, record.size \in Nat
    PROVE  /\ IsParam2([c EXCEPT !.img[name] = record])
           /\ [c EXCEPT !.img[name] = record].img[name] = record
           /\ \A n \in Body2 : n # name => [c EXCEPT !.img[name] = record].img[n] = c.img[n]
           /\ [c EXCEPT !.img[name] = record].loader_2nd = c.loader_2nd
<1> DEFINE d == [c EXCEPT !.img[name] = record]
<1>1. DOMAIN c.img = Body2 /\ DOMAIN c = {"k", "magic", "cksum", "loader_2nd", "img"}
  BY DEF IsParam2
<1>2. d.img = [c.img EXCEPT ![name] = record] /\ d.loader_2nd = c.loader_2nd
      /\ d.cksum = c.cksum /\ d.k = "param2" /\ d.magic = "CVLD02"
  BY <1>1 DEF IsParam2
<1>3. d = [k |-> "param2", magic |-> "CVLD02", cksum |-> d.cksum,
           loader_2nd |-> d.loader_2nd, img |-> d.img]
  BY <1>1, <1>2
<1>4. d.img[name] = record /\ (\A n \in Body2 : n # name => d.img[n] = c.img[n])
      /\ d.img = [n \in Body2 |-> d.img[n]]
  BY <1>1, <1>2
<1>5. \A n \in Body2 : d.img[n].loadaddr \in Nat /\ d.img[n].size \in Nat
  BY <1>4 DEF IsParam2
<1>6. d.loader_2nd \in Nat
  BY <1>2 DEF IsParam2
<1> HIDE DEF d
<1>7. IsParam2(d)
  BY <1>3, <1>4, <1>5, <1>6 DEF IsParam2
<1> QED  BY <1>2, <1>4, <1>7 DEF d

\* The second block with its checksum
LEMMA Param2Sealed ==
    ASSUME NEW c, IsParam2(c)
    PROVE  /\ IsSealed(Sealed(c)) /\ IsParam2(Sealed(c))
           /\ Sealed(c).img = c.img /\ Sealed(c).loader_2nd = c.loader_2nd
<1> DEFINE d == Sealed(c)
<1>1. DOMAIN c = {"k", "magic", "cksum", "loader_2nd", "img"} /\ c.k = "param2"
      /\ c.magic = "CVLD02"
  BY DEF IsParam2
<1>2. /\ IsSealed(d) /\ DOMAIN d = DOMAIN c /\ d.k = "param2" /\ d.magic = "CVLD02"
      /\ d.img = c.img /\ d.loader_2nd = c.loader_2nd
  BY <1>1, SealedIs
<1>3. d = [f \in DOMAIN d |-> d[f]]
  BY DEF Sealed
<1> HIDE DEF d
<1>4. d = [k |-> "param2", magic |-> "CVLD02", cksum |-> d.cksum, loader_2nd |-> d.loader_2nd,
           img |-> d.img]
  BY <1>1, <1>2, <1>3
<1>5. IsParam2(d)
  BY <1>2, <1>4 DEF IsParam2
<1> QED  BY <1>2, <1>5 DEF d

\* An image stays where it is when the file grows ...
LEMMA HoldsIn ==
    ASSUME NEW s, NEW u, IsSeq(s), IsSeq(u), Begins(u, s), NEW addr, NEW img, NEW image,
           Holds(s, addr, img, image)
    PROVE  Holds(u, addr, img, image)
BY LiesIn DEF Holds, Blocks

\* ... and when a cell beside it is written.
LEMMA HoldsBeside ==
    ASSUME NEW s, IsSeq(s), NEW at \in 1 .. Len(s), NEW c, NEW addr, NEW img, NEW image,
           Holds(s, addr, img, image), at <= addr \/ at > addr + img.size
    PROVE  Holds([s EXCEPT ![at] = c], addr, img, image)
BY WrittenBeside DEF Holds, Blocks

\* So does a second loader that is in them.
LEMMA HoldsLoaderIn ==
    ASSUME NEW s, NEW u, IsSeq(s), IsSeq(u), Begins(u, s), NEW addr, NEW ld, NEW image,
           HoldsLoader(s, addr, ld, image)
    PROVE  HoldsLoader(u, addr, ld, image)
BY LiesIn DEF HoldsLoader, Blocks

\* A cell before the second loader is written, and it stays what it was.
LEMMA HoldsLoaderBeside ==
    ASSUME NEW s, IsSeq(s), NEW at \in 1 .. Len(s), NEW c, NEW addr, NEW ld, NEW image,
           HoldsLoader(s, addr, ld, image), at <= addr
    PROVE  HoldsLoader([s EXCEPT ![at] = c], addr, ld, image)
BY WrittenBeside DEF HoldsLoader, Blocks

\* The first block is one of the cells, and its images are behind it.
LEMMA EndIsIn ==
    ASSUME NEW s, NEW p1, NEW g, FirstPart(s, p1, g)
    PROVE  /\ p1.img["BLCP"].size \in Nat /\ p1.img["BL2"].size \in Nat
           /\ EndOfFirst(p1) \in Nat /\ ParamSize <= EndOfFirst(p1) /\ EndOfFirst(p1) <= Len(s)
           /\ ParamSize + p1.img["BLCP"].size <= EndOfFirst(p1)
           /\ 1 \in 1 .. Len(s) /\ Len(s) \in Nat
<1>1. IsSeq(s) /\ s # <<>>
  BY DEF FirstPart
<1>2. /\ p1.img["BLCP"].size = Len(p1.img["BLCP"].cksum) /\ IsSeq(p1.img["BLCP"].cksum)
      /\ p1.img["BL2"].size = Len(p1.img["BL2"].cksum) /\ IsSeq(p1.img["BL2"].cksum)
      /\ ParamSize + p1.img["BLCP"].size + Len(p1.img["BL2"].cksum) <= Len(s)
  BY DEF FirstPart, Holds, Blocks, Lies
<1>3. p1.img["BLCP"].size \in Nat /\ p1.img["BL2"].size \in Nat
  BY <1>2, CellsOf
<1>4. ParamSize \in Nat
  BY FipAssumption
<1>5. 1 \in 1 .. Len(s) /\ Len(s) \in Nat
  BY <1>1, CellsOf
<1> DEFINE a == p1.img["BLCP"].size
           b == p1.img["BL2"].size
<1>6. a \in Nat /\ b \in Nat /\ ParamSize + a + b <= Len(s) /\ EndOfFirst(p1) = ParamSize + a + b
  BY <1>2, <1>3 DEF EndOfFirst
<1> HIDE DEF a, b
<1>7. /\ EndOfFirst(p1) \in Nat /\ ParamSize <= EndOfFirst(p1) /\ EndOfFirst(p1) <= Len(s)
      /\ ParamSize + a <= EndOfFirst(p1)
  BY <1>4, <1>5, <1>6
<1> QED  BY <1>5, <1>6, <1>7 DEF a, b

\* A file that begins with the first part has it.
LEMMA FirstPartIn ==
    ASSUME NEW s, NEW u, IsSeq(u), Begins(u, s), NEW p1, NEW g, FirstPart(s, p1, g)
    PROVE  FirstPart(u, p1, g)
<1>1. IsSeq(s) /\ s # <<>> /\ s[1] = p1 /\ IsParam1(p1, g) /\ IsSealed(p1)
  BY DEF FirstPart
<1>2. Len(s) <= Len(u) /\ u[1] = s[1] /\ u # <<>>
  <2>1. Len(s) \in Nat \ {0} /\ Len(u) \in Nat
    BY <1>1, CellsOf
  <2>2. Len(s) <= Len(u) /\ \A i \in 1 .. Len(s) : u[0 + i] = s[i]
    BY DEF Begins, Lies
  <2>3. u[0 + 1] = s[1]
    BY <2>1, <2>2
  <2> QED  BY <2>1, <2>2, <2>3, CellsOf
<1>3. /\ Holds(u, ParamSize, p1.img["BLCP"], g["BLCP"])
      /\ Holds(u, ParamSize + p1.img["BLCP"].size, p1.img["BL2"], g["BL2"])
  BY <1>1, HoldsIn DEF FirstPart
<1> QED  BY <1>1, <1>2, <1>3 DEF FirstPart

\* A cell behind the first part is written, and it stays what it was.
LEMMA FirstPartBeside ==
    ASSUME NEW s, NEW p1, NEW g, FirstPart(s, p1, g), NEW at \in 1 .. Len(s), NEW c,
           at > EndOfFirst(p1)
    PROVE  FirstPart([s EXCEPT ![at] = c], p1, g)
<1>1. IsSeq(s) /\ s # <<>> /\ s[1] = p1 /\ IsParam1(p1, g) /\ IsSealed(p1)
  BY DEF FirstPart
<1>2. /\ p1.img["BLCP"].size \in Nat /\ ParamSize <= EndOfFirst(p1) /\ EndOfFirst(p1) \in Nat
      /\ ParamSize + p1.img["BLCP"].size <= EndOfFirst(p1) /\ 1 \in 1 .. Len(s)
      /\ EndOfFirst(p1) = ParamSize + p1.img["BLCP"].size + p1.img["BL2"].size
      /\ ParamSize \in Nat /\ ParamSize > 0
  BY EndIsIn, FipAssumption DEF EndOfFirst
<1> DEFINE u == [s EXCEPT ![at] = c]
<1>3. IsSeq(u) /\ Len(u) = Len(s) /\ u[1] = s[1] /\ u # <<>>
  <2>1. IsSeq(u) /\ Len(u) = Len(s)
    BY <1>1, Written
  <2>2. u[1] = s[1]
    <3>1. 1 # at  BY <1>2
    <3> QED  BY <1>1, <1>2, <3>1, Written
  <2> QED  BY <1>2, <2>1, <2>2, CellsOf
<1>4. /\ Holds(u, ParamSize, p1.img["BLCP"], g["BLCP"])
      /\ Holds(u, ParamSize + p1.img["BLCP"].size, p1.img["BL2"], g["BL2"])
  BY <1>1, <1>2, HoldsBeside DEF FirstPart
<1> HIDE DEF u
<1>5. FirstPart(u, p1, g)
  BY <1>1, <1>3, <1>4 DEF FirstPart
<1> QED  BY <1>5 DEF u

\* What is packed stays packed when the file grows.
LEMMA PackedIn ==
    ASSUME NEW s, NEW u, IsSeq(s), IsSeq(u), Begins(u, s), NEW p1, NEW p2, NEW g, NEW names,
           Packed(s, p1, p2, g, names)
    PROVE  Packed(u, p1, p2, g, names)
BY HoldsIn DEF Packed

\* Cells are added behind, and the room for the second block stays.
LEMMA RoomIn ==
    ASSUME NEW s, NEW u, IsSeq(s), IsSeq(u), Begins(u, s), NEW p1, Room(s, p1),
           p1.param2_loadaddr \in Nat
    PROVE  Room(u, p1)
BY CellsOf, FipAssumption DEF Room, Begins, Lies

\* One more image is packed: pad(), the image, and its record.
LEMMA HoldsPacked ==
    ASSUME NEW s, IsSeq(s), NEW t, IsSeq(t), NEW image, IsSeq(image), Begins(t, image), NEW img,
           img.cksum = Pad(t), img.size = Len(Pad(t))
    PROVE  Holds(Pad(s) \o Pad(t), Len(Pad(s)), img, image)
<1>1. Blocks(Pad(t)) /\ IsSeq(Pad(t)) /\ Begins(Pad(t), t)
  BY Padded, BeginsSelf DEF Blocks
<1>2. Begins(Pad(t), image)
  BY <1>1, BeginsOn
<1>3. Lies(Pad(s) \o Pad(t), Len(Pad(s)), Pad(t)) /\ Len(Pad(s)) \in Nat /\ Len(Pad(s)) % Align = 0
  BY <1>1, BeginsPacked
<1> QED  BY <1>1, <1>2, <1>3 DEF Holds

-----------------------------------------------------------------------------
\* The runs of genfip.

\* FIP.__init__()
LEMMA FipStarts == FipInit => FipInv
<1> SUFFICES ASSUME FipInit PROVE FipInv
  OBVIOUS
<1>1. \A n \in Methods : given[n] = <<>> /\ IsSeq(given[n]) /\ Len(given[n]) = 0
  <2>1. IsSeq(<<>>) /\ Len(<<>>) = 0
    BY EmptySeq, SeqOfCells
  <2> QED  BY <2>1 DEF FipInit
<1>2. InfoSize \in Nat /\ \A a \in Args : Arguments(a)
  BY FipAssumption
<1>3. GivenInv
  BY <1>1, <1>2 DEF GivenInv, FipInit, Infos, Methods
<1>4. IsParam1(param1, given)
  <2>1. \A n \in Infos : given[n] \o Zeros(InfoSize - Len(given[n])) = Zeros(InfoSize)
    <3>1. <<>> \o Zeros(InfoSize) = Zeros(InfoSize)
      <4>1. Zeros(InfoSize) \in Seq({Zero})
        BY <1>2 DEF Zeros
      <4> QED  BY <4>1, ConcatEmptySeq
    <3>2. \A n \in Infos : n \in Methods /\ InfoSize - 0 = InfoSize
      BY <1>2 DEF Infos, Methods
    <3> QED  BY <1>1, <3>1, <3>2
  <2>2. param1 = EmptyParam1
    BY DEF FipInit
  <2> QED  BY <2>1, <2>2 DEF IsParam1, EmptyParam1
<1>5. IsParam2(param2) /\ param2.loader_2nd = 0
  BY DEF FipInit, IsParam2, EmptyParam2
<1>6. Images1(body1, given) /\ Images2(body2, given)
  <2>1. Begins(<<>>, <<>>) /\ Blocks(<<>>)
    <3>1. IsSeq(<<>>) /\ Len(<<>>) = 0
      BY EmptySeq, SeqOfCells
    <3>2. 0 % Align = 0
      BY FipAssumption
    <3> QED  BY <3>1, <3>2, BeginsSelf DEF Blocks
  <2> QED  BY <1>1, <2>1 DEF FipInit, Images1, Images2, Blocks, Methods, Body1, Body2
<1>7. LoaderKept(param2, loader, given)
  BY <1>1, <1>5 DEF FipInit, LoaderKept, Methods
<1>8. ~args.old /\ stage = "start" /\ loader = <<>>
  BY DEF FipInit
<1> QED
  BY <1>3, <1>4, <1>5, <1>6, <1>7, <1>8
     DEF FipInv, ObjectInv, BeginInv, PackingInv, FileInv, Making, Filling2

\* No file is read.
LEMMA NewFipNext == FipInv /\ NewFip => FipInv'
<1> SUFFICES ASSUME FipInv, NewFip PROVE FipInv'
  OBVIOUS
<1>1. /\ stage = "start" /\ stage' = "add" /\ ~args.old
      /\ UNCHANGED <<args, runs, object, fip_bin, file, given>>
  BY DEF NewFip, Step
<1>2. GivenInv'
  BY <1>1 DEF FipInv, GivenInv
<1>3. ObjectInv'
  BY <1>1 DEF FipInv, BeginInv, ObjectInv, object
<1> QED
  BY <1>1, <1>2, <1>3 DEF FipInv, BeginInv, PackingInv, FileInv, Making, Filling2

\* generate_fip() writes what make() returned; genfip is run again.
LEMMA WriteNext == FipInv /\ (Write \/ Again \/ Over \/ UNCHANGED fipVars) => FipInv'
<1> SUFFICES ASSUME FipInv, Write \/ Again \/ Over \/ UNCHANGED fipVars PROVE FipInv'
  OBVIOUS
<1>1. CASE Write
  <2>1. /\ stage = "write" /\ stage' = "written" /\ file' = fip_bin
        /\ UNCHANGED <<args, object, fip_bin, given>>
    BY <1>1 DEF Write, Step
  <2>2. GivenInv'
    BY <2>1 DEF FipInv, GivenInv
  <2> QED
    BY <2>1, <2>2 DEF FipInv, BeginInv, PackingInv, FileInv, Making, Filling2
<1>2. CASE Again
  <2>1. /\ stage = "written" /\ stage' = "start" /\ args' \in Args /\ args'.old /\ loader' = <<>>
        /\ UNCHANGED <<runs, fip_bin, file, given>>
    BY <1>2 DEF Again, Step
  <2>2. GivenInv'
    BY <2>1 DEF FipInv, GivenInv
  <2> QED
    BY <2>1, <2>2 DEF FipInv, BeginInv, PackingInv, FileInv, Making, Filling2
<1>3. CASE Over \/ UNCHANGED fipVars
  <2>1. UNCHANGED fipVars
    BY <1>3 DEF Over
  <2>2. UNCHANGED <<stage, args, runs, object, fip_bin, file, given, param1, body1, param2, body2, loader>>
    BY <2>1 DEF fipVars, object
  <2> QED
    BY <2>2 DEF FipInv, GivenInv, BeginInv, PackingInv, FileInv, ObjectInv
<1> QED  BY <1>1, <1>2, <1>3

\* The methods by their kinds
LEMMA NameSets ==
    /\ Body1 = {"BLCP", "BL2"} /\ Body2 = {"DDR_PARAM", "BLCP_2ND", "MONITOR"}
    /\ Infos = {"CHIP_CONF", "NOR_INFO", "NAND_INFO"}
    /\ \A n \in Methods : n \in Infos \/ n \in Body1 \/ n \in Body2 \/ n = "LOADER_2ND"
    /\ \A n \in Body1 \cup Body2 : n \in Methods /\ n \notin Infos
    /\ \A n \in Infos : n \in Methods
    /\ "LOADER_2ND" \in Methods /\ "LOADER_2ND" \notin Infos
BY DEF Body1, Body2, Infos, Methods

\* read_fip(): every image is read as it was packed.
LEMMA ReadFipNext == FipInv /\ ReadFip => FipInv'
<1> SUFFICES ASSUME FipInv, ReadFip PROVE FipInv'
  OBVIOUS
<1> DEFINE p1 == file[1]
           p2 == file[p1.param2_loadaddr + 1]
<1>1. /\ stage = "start" /\ stage' = "add" /\ args.old /\ param1' = p1
      /\ param2' \in ReadParam2(p2)
      /\ UNCHANGED <<args, runs, fip_bin, file, given>>
  BY DEF ReadFip, Step
<1>2. FirstPart(file, p1, given) /\ SecondPart(file, p2, given)
  BY <1>1 DEF FipInv, FileInv, Complete
<1>3. GivenInv /\ loader = <<>> /\ GivenInv'
  BY <1>1 DEF FipInv, GivenInv, BeginInv
<1>4. IsSeq(file) /\ IsParam1(p1, given) /\ IsParam2(p2)
  BY <1>2 DEF FirstPart, SecondPart
<1>5. param2' = p2
  <2>1. p2.k = "param2"
    BY <1>4 DEF IsParam2
  <2> QED  BY <1>1, <2>1 DEF ReadParam2
<1> HIDE DEF p1, p2
<1>6. Images1(body1', given)
  <2>1. /\ body1'["BLCP"] = Slice(file, ParamSize, p1.img["BLCP"].size)
        /\ body1'["BL2"] = Slice(file, ParamSize + p1.img["BLCP"].size, p1.img["BL2"].size)
    BY DEF ReadFip, Body1, p1
  <2>2. ASSUME NEW addr, NEW img, NEW image, Holds(file, addr, img, image)
        PROVE  Blocks(Slice(file, addr, img.size)) /\ Begins(Slice(file, addr, img.size), image)
    <3>1. Slice(file, addr, img.size) = img.cksum
      BY <1>4, <2>2, SliceIs DEF Holds, Blocks
    <3> QED  BY <2>2, <3>1 DEF Holds
  <2> QED  BY <1>2, <2>1, <2>2 DEF FirstPart, Images1, Body1
<1>7. Images2(body2', given)
  <2> SUFFICES ASSUME NEW n \in Body2 PROVE IsSeq(body2'[n]) /\ Begins(body2'[n], given[n])
    BY DEF Images2
  <2>1. body2'[n] = Slice(file, p2.img[n].loadaddr, p2.img[n].size)
    BY <1>5 DEF ReadFip
  <2>2. p2.img[n].loadaddr \in Nat /\ p2.img[n].size \in Nat
    BY <1>4 DEF IsParam2
  <2>3. IsSeq(body2'[n])
    <3>1. IsSeq(Slice(file, p2.img[n].loadaddr, p2.img[n].size))
      BY <1>4, <2>2, Sliced
    <3> QED  BY <2>1, <3>1
  <2>4. CASE given[n] = <<>>
    <3>1. Begins(body2'[n], <<>>)
      BY <2>3, BeginsSelf, Zenon
    <3> QED  BY <2>3, <2>4, <3>1
  <2>5. CASE given[n] # <<>>
    <3>1. Holds(file, p2.img[n].loadaddr, p2.img[n], given[n])
      BY <1>2, <2>5 DEF SecondPart
    <3>2. body2'[n] = p2.img[n].cksum
      BY <1>4, <2>1, <3>1, SliceIs DEF Holds, Blocks
    <3> QED  BY <2>3, <3>1, <3>2 DEF Holds
  <2> QED  BY <2>3, <2>4, <2>5
<1>8. LoaderKept(p2, loader', given)
  <2>1. loader' = ReadLoader(p2)
    BY <1>5 DEF ReadFip
  <2>2. CASE given["LOADER_2ND"] = <<>>
    BY <1>2, <1>3, <2>1, <2>2 DEF SecondPart, LoaderKept, ReadLoader
  <2>3. CASE given["LOADER_2ND"] # <<>>
    BY <1>2, <2>1, <2>3 DEF SecondPart, LoaderKept, ReadLoader, HoldsLoader
  <2> QED  BY <2>2, <2>3
<1>9. ObjectInv'
  BY <1>1, <1>4, <1>5, <1>6, <1>7, <1>8 DEF ObjectInv
<1> QED
  BY <1>1, <1>3, <1>9 DEF FipInv, BeginInv, PackingInv, FileInv, Making, Filling2

\* add_chip_conf() and the setters of the fields: a field holds what was given and zeros.
LEMMA FieldsNext == FipInv /\ AddImages => IsParam1(param1', given')
<1> SUFFICES ASSUME FipInv, AddImages PROVE IsParam1(param1', given')
  OBVIOUS
<1>1. GivenInv /\ IsParam1(param1, given) /\ InfoSize \in Nat /\ Arguments(args)
  BY FipAssumption DEF FipInv, PackingInv, ObjectInv, AddImages, Step, Making, GivenInv
<1>2. ASSUME NEW n \in Infos
      PROVE  given'[n] = IF n \in Images THEN Stripped(n) ELSE given[n]
  BY NameSets DEF AddImages, Kept
<1>3. ASSUME NEW n \in Infos PROVE Len(param1.info[n]) = InfoSize
  <2>1. IsSeq(given[n]) /\ Len(given[n]) <= InfoSize
    BY <1>1, NameSets DEF GivenInv
  <2>3. Len(given[n] \o Zeros(InfoSize - Len(given[n]))) = InfoSize
    BY <1>1, <2>1, FieldLength
  <2> QED  BY <1>1, <2>3 DEF IsParam1
<1>4. param1'.info = [n \in Infos |-> given'[n] \o Zeros(InfoSize - Len(given'[n]))]
  <2>1. param1'.info = [n \in Infos |-> IF n \in Images THEN Filling(param1.info[n], Stripped(n))
                                        ELSE param1.info[n]]
    BY <1>1 DEF AddImages, WithFields, IsParam1
  <2>2. \A n \in Infos : param1.info[n] = given[n] \o Zeros(InfoSize - Len(given[n]))
    BY <1>1 DEF IsParam1
  <2>3. \A n \in Infos : Filling(param1.info[n], Stripped(n))
                            = Stripped(n) \o Zeros(InfoSize - Len(Stripped(n)))
    BY <1>3 DEF Filling
  <2>4. \A n \in Infos : given'[n] \o Zeros(InfoSize - Len(given'[n]))
            = IF n \in Images THEN Filling(param1.info[n], Stripped(n)) ELSE param1.info[n]
    BY <1>2, <2>2, <2>3
  <2> QED  BY <2>1, <2>4
<1>5. /\ DOMAIN param1' = DOMAIN param1 /\ param1'.k = param1.k /\ param1'.magic = param1.magic
      /\ param1'.param2_loadaddr = param1.param2_loadaddr
  BY <1>1, Param1Fields DEF AddImages, WithFields
<1>6. param1' = [f \in DOMAIN param1' |-> param1'[f]]
  BY DEF AddImages, WithFields
<1>7. param1.param2_loadaddr \in Nat
  BY <1>1 DEF IsParam1
<1> HIDE DEF AddImages
<1>8. /\ DOMAIN param1' = {"k", "magic", "cksum", "param2_loadaddr", "info", "conf_size",
                            "blcp_runaddr", "img"}
      /\ param1'.k = "param1" /\ param1'.magic = "CVBL01" /\ param1'.param2_loadaddr \in Nat
  BY <1>1, <1>5, <1>7, Param1Fields
<1> QED  BY <1>4, <1>6, <1>8, Param1From

\* What is given is a sequence, and fits.
LEMMA GivenNext == FipInv /\ AddImages /\ DdrGiven => GivenInv'
<1> SUFFICES ASSUME FipInv, AddImages, DdrGiven PROVE GivenInv'
  OBVIOUS
<1>1. GivenInv /\ Arguments(args) /\ args \in Args /\ args' = args
  BY FipAssumption DEF FipInv, AddImages, GivenInv
<1>2. ASSUME NEW n \in Methods, n \notin Infos
      PROVE  given'[n] = IF n \in Images THEN args.images[n] ELSE given[n]
  BY <1>2 DEF AddImages, Kept
<1>3. ASSUME NEW n \in Infos
      PROVE  given'[n] = IF n \in Images THEN Stripped(n) ELSE given[n]
  BY NameSets DEF AddImages, Kept
<1>4. ASSUME NEW n \in Infos, n \in Images
      PROVE  IsSeq(Stripped(n)) /\ Len(Stripped(n)) <= InfoSize
  <2>1. IsSeq(args.images[n]) /\ Len(args.images[n]) <= InfoSize /\ Len(args.images[n]) \in Nat
    BY <1>1, <1>4, CellsOf DEF Arguments, Images
  <2>2. InfoSize \in Nat
    BY FipAssumption
  <2> QED  BY <2>1, <2>2, TailOf DEF Stripped
<1>5. \A n \in Infos : IsSeq(given'[n]) /\ Len(given'[n]) <= InfoSize
  BY <1>1, <1>3, <1>4, NameSets DEF GivenInv
<1>6. \A n \in Methods : n \notin Infos => IsSeq(given'[n])
  BY <1>1, <1>2 DEF GivenInv, Arguments, Images
<1>7. given'["DDR_PARAM"] # <<>>
  <2>1. "DDR_PARAM" \in Methods /\ "DDR_PARAM" \notin Infos
    BY NameSets
  <2>2. "DDR_PARAM" \in Images => args.images["DDR_PARAM"] # <<>>
    BY <1>1 DEF DdrGiven, Images
  <2>3. "DDR_PARAM" \notin Images => given["DDR_PARAM"] # <<>>
    BY <1>1 DEF DdrGiven, Images, GivenInv
  <2> QED  BY <1>2, <2>1, <2>2, <2>3
<1> QED  BY <1>1, <1>5, <1>6, <1>7 DEF GivenInv

\* The add_*() of every image given
LEMMA AddImagesNext == FipInv /\ AddImages /\ DdrGiven => FipInv'
<1> SUFFICES ASSUME FipInv, AddImages, DdrGiven PROVE FipInv'
  OBVIOUS
<1>1. /\ stage = "add" /\ stage' = "fip1" /\ GivenInv /\ ObjectInv /\ Arguments(args)
      /\ UNCHANGED <<args, runs, param2, fip_bin, file>>
  BY FipAssumption DEF FipInv, PackingInv, AddImages, Step, Making, GivenInv
<1>2. ASSUME NEW n \in Methods, n \notin Infos
      PROVE  given'[n] = IF n \in Images THEN args.images[n] ELSE given[n]
  BY <1>2 DEF AddImages, Kept
<1>3. Images1(body1', given')
  <2> SUFFICES ASSUME NEW n \in Body1 PROVE Blocks(body1'[n]) /\ Begins(body1'[n], given'[n])
    BY DEF Images1
  <2>1. CASE n \notin Images
    BY <1>1, <1>2, <2>1, NameSets DEF AddImages, ObjectInv, Images1
  <2>2. CASE n \in Images
    <3>1. body1'[n] = Pad(Filled(n)) /\ given'[n] = args.images[n]
      BY <1>2, <2>2, NameSets DEF AddImages
    <3>2. IsSeq(args.images[n]) /\ args.fill \in Nat /\ Len(args.images[n]) \in Nat
      BY <1>1, <2>2, CellsOf DEF Arguments, Images
    <3>3. IsSeq(Filled(n)) /\ Begins(Filled(n), args.images[n])
      <4>1. CASE Filled(n) = args.images[n]
        BY <3>2, <4>1, BeginsSelf
      <4>2. CASE Len(args.images[n]) < args.fill /\ Filled(n) =
                    args.images[n] \o [i \in 1 .. (args.fill - Len(args.images[n])) |-> FillByte]
        <5> DEFINE fill == [i \in 1 .. (args.fill - Len(args.images[n])) |-> FillByte]
        <5>1. fill \in Seq({FillByte})
          BY <3>2, <4>2
        <5>2. Filled(n) = args.images[n] \o fill
          BY <4>2
        <5> HIDE DEF fill
        <5> QED  BY <3>2, <5>1, <5>2, SeqOfCells, Joined, BeginsJoined
      <4> QED  BY <4>1, <4>2 DEF Filled
    <3>4. Blocks(Pad(Filled(n))) /\ IsSeq(Pad(Filled(n))) /\ Begins(Pad(Filled(n)), Filled(n))
      BY <3>3, Padded, BeginsSelf DEF Blocks
    <3> QED  BY <3>1, <3>2, <3>3, <3>4, BeginsOn
  <2> QED  BY <2>1, <2>2
<1>4. Images2(body2', given')
  <2> SUFFICES ASSUME NEW n \in Body2 PROVE IsSeq(body2'[n]) /\ Begins(body2'[n], given'[n])
    BY DEF Images2
  <2>1. body2'[n] = IF n \in Images THEN args.images[n] ELSE body2[n]
    BY DEF AddImages, Kept
  <2>2. CASE n \in Images
    BY <1>1, <1>2, <2>1, <2>2, NameSets, BeginsSelf DEF Arguments, Images
  <2>3. CASE n \notin Images
    BY <1>1, <1>2, <2>1, <2>3, NameSets DEF ObjectInv, Images2
  <2> QED  BY <2>2, <2>3
<1>5. LoaderKept(param2', loader', given')
  <2>1. /\ loader' = IF "LOADER_2ND" \in Images THEN args.images["LOADER_2ND"] ELSE loader
        /\ given'["LOADER_2ND"] = IF "LOADER_2ND" \in Images THEN args.images["LOADER_2ND"]
                                  ELSE given["LOADER_2ND"]
    BY <1>2, NameSets DEF AddImages, Kept
  <2>2. CASE "LOADER_2ND" \notin Images
    BY <1>1, <2>1, <2>2 DEF ObjectInv, LoaderKept
  <2>3. CASE "LOADER_2ND" \in Images
    <3> DEFINE image == args.images["LOADER_2ND"]
    <3>1. IsSeq(image) /\ image # <<>> /\ IsHeader(image[1]) /\ image[1].magic = "BL33"
      BY <1>1, <2>3 DEF Arguments, Images
    <3> HIDE DEF image
    <3>2. IsSeq(Tail(image)) /\ Begins(Tail(image), Tail(image))
      BY <3>1, TailOf, BeginsSelf
    <3>3. IsLoader(image, image)
      BY <3>1, <3>2 DEF IsLoader, Unpacked, Magics
    <3> QED  BY <2>1, <2>3, <3>1, <3>3 DEF LoaderKept, image
  <2> QED  BY <2>2, <2>3
<1>6. ObjectInv'
  BY <1>1, <1>3, <1>4, <1>5, FieldsNext DEF ObjectInv
<1> QED
  BY <1>1, <1>6, GivenNext DEF FipInv, BeginInv, PackingInv, FileInv, Making, Filling2

\* A parameter block and the room behind it
LEMMA BlockIs ==
    ASSUME NEW c
    PROVE  IsSeq(Block(c)) /\ Len(Block(c)) = ParamSize /\ Block(c)[1] = c
<1>1. ParamSize \in Nat /\ ParamSize > 0 /\ ParamSize - 1 \in Nat
  BY FipAssumption
<1>2. IsSeq(Zeros(ParamSize - 1)) /\ Len(Zeros(ParamSize - 1)) = ParamSize - 1
  BY <1>1, ZerosAre
<1>3. IsSeq(<<c>>) /\ Len(<<c>>) = 1 /\ <<c>>[1] = c
  BY OneCell
<1> HIDE DEF Zeros
<1>4. /\ IsSeq(<<c>> \o Zeros(ParamSize - 1))
      /\ Len(<<c>> \o Zeros(ParamSize - 1)) = 1 + (ParamSize - 1)
      /\ (<<c>> \o Zeros(ParamSize - 1))[1] = c
  <2>1. 1 \in 1 .. Len(<<c>>)
    BY <1>3
  <2> QED  BY <1>2, <1>3, <2>1, Joined
<1> QED  BY <1>1, <1>4 DEF Block

\* make_fip1(): the first block and its images
LEMMA MakeFip1Next == FipInv /\ MakeFip1 => FipInv'
<1> SUFFICES ASSUME FipInv, MakeFip1 PROVE FipInv'
  OBVIOUS
<1>1. /\ stage = "fip1" /\ ObjectInv /\ GivenInv
      /\ UNCHANGED <<args, runs, body1, param2, body2, loader, file, given>>
  BY DEF FipInv, PackingInv, MakeFip1, Step, Making
<1>2. stage' = "insert"
  <2>1. given["DDR_PARAM"] # <<>> /\ IsSeq(given["DDR_PARAM"])
    BY <1>1, NameSets DEF GivenInv
  <2>2. IsSeq(body2["DDR_PARAM"]) /\ Begins(body2["DDR_PARAM"], given["DDR_PARAM"])
    BY <1>1 DEF ObjectInv, Images2, Body2
  <2>3. body2["DDR_PARAM"] # <<>>
    BY <2>1, <2>2, CellsOf DEF Begins, Lies
  <2> QED  BY <2>3 DEF MakeFip1, Step
<1> DEFINE a == body1["BLCP"]
           b == body1["BL2"]
           c == [param1 EXCEPT !.conf_size = Len(param1.info["CHIP_CONF"]), !.img =
                    [n \in Body1 |-> [cksum |-> Crc(body1[n]), size |-> Len(body1[n])]]]
<1>3. /\ DOMAIN c = DOMAIN param1 /\ c = [f \in DOMAIN c |-> c[f]]
      /\ c.k = param1.k /\ c.magic = param1.magic /\ c.param2_loadaddr = param1.param2_loadaddr
      /\ c.info = param1.info
      /\ c.img = [n \in Body1 |-> [cksum |-> Crc(body1[n]), size |-> Len(body1[n])]]
  BY <1>1, Param1Fields DEF ObjectInv
<1>4. param1' = Sealed(c) /\ fip_bin' = Block(param1') \o a \o b
  BY DEF MakeFip1
<1> HIDE DEF c
<1>5. "cksum" \in DOMAIN c /\ IsParam1(param1, given)
  BY <1>1, <1>3, Param1Fields DEF ObjectInv
<1>6. /\ IsSealed(param1') /\ DOMAIN param1' = DOMAIN param1
      /\ param1'.k = "param1" /\ param1'.magic = "CVBL01"
      /\ param1'.param2_loadaddr = param1.param2_loadaddr
      /\ param1'.info = param1.info /\ param1'.img = c.img
  BY <1>3, <1>4, <1>5, Param1Fields, SealedIs
<1>7. param1' = [f \in DOMAIN param1' |-> param1'[f]]
  BY <1>4 DEF Sealed
<1>8. IsParam1(param1', given)
  <2>1. param1'.param2_loadaddr \in Nat
    BY <1>5, <1>6 DEF IsParam1
  <2>2. param1'.info = [n \in Infos |-> given[n] \o Zeros(InfoSize - Len(given[n]))]
    BY <1>5, <1>6 DEF IsParam1
  <2>3. DOMAIN param1' = {"k", "magic", "cksum", "param2_loadaddr", "info", "conf_size",
                          "blcp_runaddr", "img"}
    BY <1>5, <1>6, Param1Fields
  <2> QED  BY <1>6, <1>7, <2>1, <2>2, <2>3, Param1From
<1>9. /\ Blocks(a) /\ Begins(a, given["BLCP"]) /\ Blocks(b) /\ Begins(b, given["BL2"])
      /\ param1'.img["BLCP"].cksum = a /\ param1'.img["BLCP"].size = Len(a)
      /\ param1'.img["BL2"].cksum = b /\ param1'.img["BL2"].size = Len(b)
  BY <1>1, <1>3, <1>6 DEF ObjectInv, Images1, Body1, Crc
<1> DEFINE h == Block(param1')
<1>10. IsSeq(h) /\ Len(h) = ParamSize /\ h[1] = param1'
  BY BlockIs
<1> HIDE DEF a, b, h
<1>11. fip_bin' = (h \o a) \o b
  BY <1>4 DEF h
<1>12. IsSeq(a) /\ IsSeq(b) /\ Len(a) \in Nat /\ Len(a) % Align = 0 /\ Len(b) \in Nat
  BY <1>9, CellsOf DEF Blocks
<1>13. IsSeq(h \o a) /\ Len(h \o a) = ParamSize + Len(a) /\ Lies(h \o a, ParamSize, a)
       /\ Begins(h \o a, h)
  BY <1>10, <1>12, Joined, BeginsJoined
<1>14. /\ IsSeq(fip_bin') /\ Lies(fip_bin', ParamSize + Len(a), b) /\ Begins(fip_bin', h \o a)
       /\ Begins(fip_bin', h)
  <2> DEFINE u == h \o a
  <2> HIDE DEF u
  <2>1. IsSeq(u) /\ Len(u) = ParamSize + Len(a) /\ Begins(u, h) /\ fip_bin' = u \o b
    BY <1>11, <1>13 DEF u
  <2>2. IsSeq(fip_bin') /\ Lies(fip_bin', Len(u), b) /\ Begins(fip_bin', u)
    BY <1>12, <2>1, Joined, BeginsJoined
  <2>3. Begins(fip_bin', h)
    BY <1>10, <2>1, <2>2, BeginsOn
  <2> QED  BY <2>1, <2>2, <2>3 DEF u
<1>15. ParamSize \in Nat /\ ParamSize > 0 /\ ParamSize % Align = 0
  BY FipAssumption
<1>16. Lies(fip_bin', ParamSize, a)
  BY <1>12, <1>13, <1>14, <1>15, LiesIn
<1>17. fip_bin' # <<>> /\ fip_bin'[1] = param1'
  <2>1. Len(fip_bin') >= ParamSize /\ \A i \in 1 .. ParamSize : fip_bin'[0 + i] = h[i]
    BY <1>10, <1>14, <1>15, CellsOf DEF Begins, Lies
  <2>2. fip_bin'[0 + 1] = h[1]
    BY <1>15, <2>1
  <2> QED  BY <1>10, <1>14, <1>15, <2>1, <2>2, CellsOf
<1>18. ParamSize + Len(a) \in Nat /\ (ParamSize + Len(a)) % Align = 0
  BY <1>12, <1>15, SumOfBlocks
<1>19. FirstPart(fip_bin', param1', given)
  <2>1. Holds(fip_bin', ParamSize, param1'.img["BLCP"], given["BLCP"])
    BY <1>9, <1>15, <1>16 DEF Holds
  <2>2. Holds(fip_bin', ParamSize + Len(a), param1'.img["BL2"], given["BL2"])
    BY <1>9, <1>14, <1>18 DEF Holds
  <2> QED  BY <1>6, <1>8, <1>9, <1>14, <1>17, <2>1, <2>2 DEF FirstPart
<1>20. ObjectInv' /\ GivenInv'
  BY <1>1, <1>2, <1>8 DEF ObjectInv, GivenInv
<1> QED
  BY <1>1, <1>2, <1>19, <1>20 DEF FipInv, BeginInv, PackingInv, FileInv, Making, Filling2

\* append_fip2() begins: the first block is sealed again, and there is room for the second.
LEMMA InsertNext == FipInv /\ InsertParam2 => FipInv'
<1> SUFFICES ASSUME FipInv, InsertParam2 PROVE FipInv'
  OBVIOUS
<1>1. /\ stage = "insert" /\ stage' = "ddr" /\ ObjectInv /\ GivenInv /\ FirstPart(fip_bin, param1, given)
      /\ UNCHANGED <<args, runs, body1, body2, param2, loader, file, given>>
  BY DEF FipInv, PackingInv, InsertParam2, Step, Making
<1> DEFINE c == [param1 EXCEPT !.param2_loadaddr = Len(fip_bin)]
           w == [fip_bin EXCEPT ![1] = param1']
<1>2. IsSeq(fip_bin) /\ IsParam1(param1, given)
  BY <1>1 DEF FirstPart
<1>3. /\ DOMAIN c = DOMAIN param1 /\ c = [f \in DOMAIN c |-> c[f]]
      /\ c.k = param1.k /\ c.magic = param1.magic /\ c.param2_loadaddr = Len(fip_bin)
      /\ c.info = param1.info /\ c.img = param1.img
  BY <1>2, Param1Fields
<1>4. param1' = Sealed(c) /\ fip_bin' = w \o Zeros(ParamSize)
  BY DEF InsertParam2
<1> HIDE DEF c
<1>5. /\ IsSealed(param1') /\ DOMAIN param1' = DOMAIN param1
      /\ param1'.k = "param1" /\ param1'.magic = "CVBL01"
      /\ param1'.param2_loadaddr = Len(fip_bin)
      /\ param1'.info = param1.info /\ param1'.img = param1.img
  <2>1. "cksum" \in DOMAIN c
    BY <1>2, <1>3, Param1Fields
  <2> QED  BY <1>2, <1>3, <1>4, <2>1, Param1Fields, SealedIs
<1>6. param1' = [f \in DOMAIN param1' |-> param1'[f]]
  BY <1>4 DEF Sealed
<1>7. /\ 1 \in 1 .. Len(fip_bin) /\ Len(fip_bin) \in Nat /\ EndOfFirst(param1) <= Len(fip_bin)
      /\ EndOfFirst(param1) \in Nat
      /\ param1.img["BLCP"].size \in Nat /\ ParamSize \in Nat /\ ParamSize > 0
  BY <1>1, EndIsIn, FipAssumption
<1>8. IsParam1(param1', given)
  <2>1. param1'.param2_loadaddr \in Nat
    BY <1>5, <1>7
  <2>2. param1'.info = [n \in Infos |-> given[n] \o Zeros(InfoSize - Len(given[n]))]
    BY <1>2, <1>5 DEF IsParam1
  <2>3. DOMAIN param1' = {"k", "magic", "cksum", "param2_loadaddr", "info", "conf_size",
                          "blcp_runaddr", "img"}
    BY <1>2, <1>5, Param1Fields
  <2> QED  BY <1>5, <1>6, <2>1, <2>2, <2>3, Param1From
<1>9. IsSeq(w) /\ Len(w) = Len(fip_bin) /\ w[1] = param1' /\ w # <<>>
  <2>1. IsSeq(w) /\ Len(w) = Len(fip_bin) /\ w[1] = param1'
    BY <1>1, <1>2, WrittenFirst DEF FirstPart, FirstIs
  <2> HIDE DEF w
  <2> QED  BY <1>7, <2>1, CellsOf
<1>10. /\ Holds(w, ParamSize, param1.img["BLCP"], given["BLCP"])
       /\ Holds(w, ParamSize + param1.img["BLCP"].size, param1.img["BL2"], given["BL2"])
  BY <1>1, <1>2, <1>7, HoldsBeside DEF FirstPart
<1> HIDE DEF w
<1>11. FirstPart(w, param1', given)
  BY <1>5, <1>8, <1>9, <1>10 DEF FirstPart
<1>12. /\ IsSeq(fip_bin') /\ Len(fip_bin') = Len(fip_bin) + ParamSize /\ Begins(fip_bin', w)
  <2> DEFINE z == Zeros(ParamSize)
  <2>1. IsSeq(z) /\ Len(z) = ParamSize
    BY <1>7, ZerosAre
  <2> HIDE DEF z
  <2>2. IsSeq(w \o z) /\ Len(w \o z) = Len(w) + Len(z) /\ Begins(w \o z, w)
    BY <1>9, <2>1, Joined, BeginsJoined
  <2> QED  BY <1>4, <1>9, <2>1, <2>2 DEF z
<1>13. FirstPart(fip_bin', param1', given)
  BY <1>11, <1>12, FirstPartIn
<1>14. Room(fip_bin', param1')
  BY <1>5, <1>7, <1>12 DEF Room, EndOfFirst
<1>15. ObjectInv' /\ GivenInv'
  BY <1>1, <1>8 DEF ObjectInv, GivenInv
<1> QED
  BY <1>1, <1>13, <1>14, <1>15 DEF FipInv, BeginInv, PackingInv, FileInv, Making, Filling2

\* pack_ddr_param(), pack_blcp_2nd(), pack_monitor(): what was packed before stays, and the
\* image is packed when it was given.
LEMMA PackStep ==
    ASSUME NEW name \in Body2, NEW from, NEW to, Pack(name, from, to), ObjectInv,
           IsSeq(given[name]),
           FirstPart(fip_bin, param1, given), Room(fip_bin, param1)
    PROVE  /\ ObjectInv' /\ FirstPart(fip_bin', param1', given') /\ Room(fip_bin', param1')
           /\ Packed(fip_bin', param1', param2', given', {name})
           /\ \A n \in Body2 : n # name /\ Packed(fip_bin, param1, param2, given, {n})
                                  => Packed(fip_bin', param1', param2', given', {n})
<1>1. /\ UNCHANGED <<args, runs, param1, body1, body2, loader, file, given>>
      /\ IsSeq(body2[name]) /\ Begins(body2[name], given[name]) /\ IsParam2(param2)
      /\ IsSeq(fip_bin) /\ param1.param2_loadaddr \in Nat
  BY DEF Pack, ObjectInv, Images2, FirstPart, IsParam1
<1>2. CASE body2[name] = <<>>
  <2>1. UNCHANGED <<param2, fip_bin>>
    BY <1>2 DEF Pack
  <2>2. given[name] = <<>>
    <3>1. Len(given[name]) <= 0
      BY <1>1, <1>2, EmptySeq DEF Begins, Lies
    <3> QED  BY <1>1, <3>1, CellsOf
  <2>3. \A n : Packed(fip_bin, param1, param2, given, {n}) =>
               Packed(fip_bin', param1', param2', given', {n})
    BY <1>1, <2>1
  <2>4. Packed(fip_bin', param1', param2', given', {name})
    BY <1>1, <2>2 DEF Packed
  <2>5. ObjectInv'
    BY <1>1, <2>1 DEF ObjectInv
  <2> QED  BY <1>1, <2>1, <2>3, <2>4, <2>5
<1>3. CASE body2[name] # <<>>
  <2> DEFINE padded == Pad(body2[name])
             start == Pad(fip_bin)
             old == param2.img[name].runaddr
             record == [cksum |-> Crc(padded), loadaddr |-> Len(start), size |-> Len(padded),
                        runaddr |-> IF name = "DDR_PARAM" THEN 0
                                    ELSE IF old # 0 THEN old ELSE args.runaddr]
  <2>1. param2' = [param2 EXCEPT !.img[name] = record] /\ fip_bin' = start \o padded
    BY <1>3 DEF Pack
  <2>2. record.cksum = padded /\ record.loadaddr = Len(start) /\ record.size = Len(padded)
    BY DEF Crc
  <2> HIDE DEF record, old
  <2>3. IsSeq(padded) /\ Len(padded) \in Nat
    BY <1>1, BeginsPacked
  <2>4. /\ IsSeq(start) /\ Len(start) \in Nat /\ Len(start) >= Len(fip_bin)
        /\ IsSeq(fip_bin') /\ Begins(fip_bin', fip_bin)
    BY <1>1, <2>1, <2>3, BeginsPacked
  <2>5. Holds(fip_bin', Len(start), record, given[name])
    BY <1>1, <2>1, <2>2, HoldsPacked
  <2>6. /\ IsParam2(param2') /\ param2'.img[name] = record
        /\ \A n \in Body2 : n # name => param2'.img[n] = param2.img[n]
        /\ param2'.loader_2nd = param2.loader_2nd
    BY <1>1, <2>1, <2>2, <2>3, <2>4, Param2With
  <2> HIDE DEF start, padded
  <2>7. FirstPart(fip_bin', param1', given')
    BY <1>1, <2>4, FirstPartIn
  <2>8. Room(fip_bin', param1')
    BY <1>1, <2>4, RoomIn
  <2>9. Packed(fip_bin', param1', param2', given', {name})
    <3>1. Len(start) >= param1.param2_loadaddr + ParamSize
      BY <1>1, <2>4, CellsOf, FipAssumption DEF Room
    <3> QED  BY <1>1, <2>2, <2>5, <2>6, <3>1 DEF Packed
  <2>10. ASSUME NEW n \in Body2, n # name, Packed(fip_bin, param1, param2, given, {n})
         PROVE  Packed(fip_bin', param1', param2', given', {n})
    BY <1>1, <2>4, <2>6, <2>10, HoldsIn DEF Packed
  <2>11. ObjectInv'
    BY <1>1, <2>6 DEF ObjectInv, LoaderKept
  <2> QED  BY <2>7, <2>8, <2>9, <2>10, <2>11
<1> QED  BY <1>2, <1>3

\* The images of the second part, one after the other
LEMMA PackNext == FipInv /\ (PackDdrParam \/ PackBlcp2nd \/ PackMonitor) => FipInv'
<1> SUFFICES ASSUME FipInv, PackDdrParam \/ PackBlcp2nd \/ PackMonitor PROVE FipInv'
  OBVIOUS
<1>1. GivenInv /\ GivenInv' /\ (\A n \in Body2 : IsSeq(given[n]))
      /\ (stage \in Filling2 => ObjectInv /\ Room(fip_bin, param1))
      /\ (stage \in Filling2 => FirstPart(fip_bin, param1, given))
  <2>1. GivenInv /\ UNCHANGED <<args, given>> /\ stage' \notin {"start", "add"}
        /\ stage \notin {"start", "add"}
    BY DEF FipInv, PackDdrParam, PackBlcp2nd, PackMonitor, Pack, Step
  <2>2. GivenInv'
    BY <2>1 DEF GivenInv
  <2>3. \A n \in Body2 : IsSeq(given[n])
    BY <2>1, NameSets DEF GivenInv
  <2> QED  BY <2>1, <2>2, <2>3 DEF FipInv, PackingInv, Making, Filling2
<1>2. CASE PackDdrParam
  <2>1. stage = "ddr" /\ stage' = "blcp_2nd" /\ Pack("DDR_PARAM", "ddr", "blcp_2nd")
    BY <1>2 DEF PackDdrParam, Pack, Step
  <2>2. /\ ObjectInv' /\ FirstPart(fip_bin', param1', given') /\ Room(fip_bin', param1')
        /\ Packed(fip_bin', param1', param2', given', {"DDR_PARAM"})
    BY <1>1, <2>1, NameSets, PackStep DEF Filling2
  <2> QED
    BY <1>1, <2>1, <2>2 DEF FipInv, BeginInv, PackingInv, FileInv, Making, Filling2
<1>3. CASE PackBlcp2nd
  <2>1. stage = "blcp_2nd" /\ stage' = "monitor" /\ Pack("BLCP_2ND", "blcp_2nd", "monitor")
        /\ Packed(fip_bin, param1, param2, given, {"DDR_PARAM"})
    BY <1>3 DEF PackBlcp2nd, Pack, Step, FipInv, PackingInv
  <2>2. /\ ObjectInv' /\ FirstPart(fip_bin', param1', given') /\ Room(fip_bin', param1')
        /\ Packed(fip_bin', param1', param2', given', {"BLCP_2ND"})
        /\ Packed(fip_bin', param1', param2', given', {"DDR_PARAM"})
    BY <1>1, <2>1, NameSets, PackStep DEF Filling2
  <2> QED
    BY <1>1, <2>1, <2>2 DEF FipInv, BeginInv, PackingInv, FileInv, Making, Filling2
<1>4. CASE PackMonitor
  <2>1. stage = "monitor" /\ stage' = "loader" /\ Pack("MONITOR", "monitor", "loader")
        /\ Packed(fip_bin, param1, param2, given, {"DDR_PARAM"})
        /\ Packed(fip_bin, param1, param2, given, {"BLCP_2ND"})
    BY <1>4 DEF PackMonitor, Pack, Step, FipInv, PackingInv
  <2>2. /\ ObjectInv' /\ FirstPart(fip_bin', param1', given') /\ Room(fip_bin', param1')
        /\ Packed(fip_bin', param1', param2', given', {"MONITOR"})
        /\ Packed(fip_bin', param1', param2', given', {"BLCP_2ND"})
        /\ Packed(fip_bin', param1', param2', given', {"DDR_PARAM"})
    BY <1>1, <2>1, NameSets, PackStep DEF Filling2
  <2> QED
    BY <1>1, <2>1, <2>2 DEF FipInv, BeginInv, PackingInv, FileInv, Making, Filling2
<1> QED  BY <1>2, <1>3, <1>4

\* _compress_ldr_2nd() leaves a loader that unpacks to the same.
LEMMA CompressedIs ==
    ASSUME NEW ld, NEW image, IsLoader(ld, image)
    PROVE  IsLoader(Compressed(ld), image)
<1>1. CASE Compressed(ld) = ld
  BY <1>1
<1>2. CASE Compressed(ld) # ld
  <2> DEFINE h == [ld[1] EXCEPT !.magic = IF args.compress = "lzma" THEN "B3MA" ELSE "B3Z4"]
             c == [k |-> args.compress, of |-> Tail(ld)]
  <2>1. ld[1].magic = "BL33" /\ Compressed(ld) = <<h, c>>
    BY <1>2 DEF Compressed
  <2>2. IsSeq(Tail(ld)) /\ Begins(Tail(ld), Tail(image)) /\ IsHeader(ld[1])
    BY <2>1 DEF IsLoader, Unpacked
  <2>3. h.magic \in {"B3MA", "B3Z4"} /\ IsHeader(h)
    <3>1. DOMAIN ld[1] = {"k", "magic", "cksum", "size"} /\ ld[1].k = "hdr"
      BY <2>2 DEF IsHeader
    <3> QED  BY <3>1 DEF IsHeader
  <2>4. c.of = Tail(ld)
    OBVIOUS
  <2> HIDE DEF h, c
  <2>5. IsSeq(<<h, c>>) /\ <<h, c>> # <<>> /\ <<h, c>>[1] = h /\ <<h, c>>[2] = c
        /\ Len(<<h, c>>) = 2
    <3>1. <<h, c>> \in Seq({h, c})
      OBVIOUS
    <3> QED  BY <3>1, SeqOfCells
  <2>6. Unpacked(<<h, c>>) = Tail(ld)
    BY <2>3, <2>4, <2>5 DEF Unpacked
  <2>7. IsLoader(<<h, c>>, image)
    <3> DEFINE d == <<h, c>>
    <3>1. IsSeq(d) /\ d # <<>> /\ d[1] = h /\ Len(d) = 2
      BY <2>5
    <3>2. Unpacked(d) = Tail(ld)
      BY <2>6
    <3> HIDE DEF d
    <3>3. IsLoader(d, image)
      BY <2>2, <2>3, <3>1, <3>2 DEF IsLoader, Magics
    <3> QED  BY <3>3 DEF d
  <2> QED  BY <2>1, <2>7
<1> QED  BY <1>1, <1>2

\* pad() leaves one too.
LEMMA PaddedLoader ==
    ASSUME NEW ld, NEW image, IsLoader(ld, image), IsSeq(Tail(image))
    PROVE  IsLoader(Pad(ld), image) /\ Blocks(Pad(ld))
<1> DEFINE p == Pad(ld)
<1>1. /\ IsSeq(ld) /\ ld # <<>> /\ IsHeader(ld[1]) /\ ld[1].magic \in Magics
      /\ ld[1].magic # "BL33" => Len(ld) > 1
      /\ IsSeq(Unpacked(ld)) /\ Begins(Unpacked(ld), Tail(image))
  BY DEF IsLoader
<1>2. Blocks(p) /\ IsSeq(p) /\ Begins(p, ld)
  BY <1>1, Padded, BeginsSelf DEF Blocks
<1> HIDE DEF p
<1>3. Len(ld) \in Nat \ {0} /\ Len(p) \in Nat
  BY <1>1, <1>2, CellsOf
<1>4. Len(ld) <= Len(p) /\ \A i \in 1 .. Len(ld) : p[i] = ld[i]
  BY <1>2, <1>3 DEF Begins, Lies
<1>5. p # <<>> /\ p[1] = ld[1] /\ (Len(ld) > 1 => Len(p) > 1 /\ p[2] = ld[2])
  BY <1>2, <1>3, <1>4, CellsOf
<1>6. CASE ld[1].magic = "BL33"
  <2>1. Unpacked(p) = Tail(p) /\ Unpacked(ld) = Tail(ld)
    BY <1>5, <1>6 DEF Unpacked
  <2>2. /\ IsSeq(Tail(p)) /\ Len(Tail(p)) = Len(p) - 1
        /\ \A i \in 1 .. Len(Tail(p)) : Tail(p)[i] = p[i + 1]
    BY <1>2, <1>5, TailOf
  <2>3. /\ IsSeq(Tail(ld)) /\ Len(Tail(ld)) = Len(ld) - 1
        /\ \A i \in 1 .. Len(Tail(ld)) : Tail(ld)[i] = ld[i + 1]
    BY <1>1, TailOf
  <2>4. Begins(Tail(p), Tail(ld))
    <3>1. \A i \in 1 .. Len(Tail(ld)) : Tail(p)[i] = Tail(ld)[i]
      BY <1>3, <1>4, <2>2, <2>3
    <3> QED  BY <1>3, <1>4, <2>2, <2>3, <3>1 DEF Begins, Lies
  <2>5. Begins(Tail(p), Tail(image))
    BY <1>1, <2>1, <2>2, <2>3, <2>4, BeginsOn
  <2> QED  BY <1>1, <1>2, <1>5, <1>6, <2>1, <2>2, <2>5 DEF IsLoader, p
<1>7. CASE ld[1].magic # "BL33"
  <2>1. Unpacked(p) = Unpacked(ld)
    BY <1>1, <1>5, <1>7 DEF Unpacked
  <2> QED  BY <1>1, <1>2, <1>5, <1>7, <2>1 DEF IsLoader, p
<1> QED  BY <1>6, <1>7

\* _update_ldr_2nd_hdr(): the size is that of the whole, and the checksum is made last.
LEMMA UpdatedIs ==
    ASSUME NEW ld, NEW image, IsLoader(ld, image), Blocks(ld)
    PROVE  LET u == Updated(ld)
           IN /\ IsLoader(u, image) /\ Blocks(u) /\ u # <<>> /\ IsSeq(u)
              /\ u[1].size = Len(u)
              /\ u[1].cksum = Crc(<<[u[1] EXCEPT !.cksum = <<>>]>> \o Tail(u))
<1> DEFINE t == Tail(ld)
           s == [ld[1] EXCEPT !.size = Len(ld), !.cksum = <<>>]
           h == [s EXCEPT !.cksum = Crc(<<s>> \o t)]
           u == Updated(ld)
<1>1. /\ IsSeq(ld) /\ ld # <<>> /\ IsHeader(ld[1]) /\ ld[1].magic \in Magics
      /\ ld[1].magic # "BL33" => Len(ld) > 1
      /\ IsSeq(Unpacked(ld)) /\ Begins(Unpacked(ld), Tail(image))
  BY DEF IsLoader
<1>2. IsSeq(t) /\ Len(t) = Len(ld) - 1 /\ Len(ld) \in Nat /\ \A i \in 1 .. Len(t) : t[i] = ld[i + 1]
  BY <1>1, TailOf, CellsOf
<1>3. u = <<h>> \o t
  <2>1. (<<s>> \o t)[1] = s
    <3>1. IsSeq(<<s>>) /\ Len(<<s>>) = 1 /\ <<s>>[1] = s
      BY OneCell
    <3>2. 1 \in 1 .. Len(<<s>>)
      BY <3>1
    <3> HIDE DEF s, t
    <3> QED  BY <1>2, <3>1, <3>2, Joined
  <2> QED  BY <2>1 DEF Updated
<1>4. DOMAIN ld[1] = {"k", "magic", "cksum", "size"} /\ ld[1].k = "hdr"
  BY <1>1 DEF IsHeader
<1>5. IsHeader(h) /\ h.magic = ld[1].magic /\ h.size = Len(ld) /\ h.cksum = Crc(<<s>> \o t)
  <2>1. /\ DOMAIN s = {"k", "magic", "cksum", "size"} /\ s.k = "hdr" /\ s.magic = ld[1].magic
        /\ s.size = Len(ld)
    BY <1>4
  <2>2. /\ DOMAIN h = DOMAIN s /\ h = [f \in DOMAIN h |-> h[f]] /\ h.cksum = Crc(<<s>> \o t)
        /\ h.k = s.k /\ h.magic = s.magic /\ h.size = s.size
    <3> HIDE DEF s
    <3> QED  BY <2>1
  <2> HIDE DEF h, s
  <2>3. IsHeader(h)
    BY <2>1, <2>2 DEF IsHeader
  <2> QED  BY <2>1, <2>2, <2>3
<1>6. [h EXCEPT !.cksum = <<>>] = s
  BY <1>4
<1> HIDE DEF s, t, h, u
<1>7. /\ IsSeq(u) /\ Len(u) = Len(ld) /\ u[1] = h /\ u # <<>>
      /\ \A i \in 1 .. Len(t) : u[1 + i] = t[i]
  <2>1. IsSeq(<<h>>) /\ Len(<<h>>) = 1 /\ <<h>>[1] = h /\ 1 \in 1 .. Len(<<h>>)
    BY OneCell
  <2>2. /\ IsSeq(<<h>> \o t) /\ Len(<<h>> \o t) = 1 + Len(t) /\ (<<h>> \o t)[1] = h
        /\ \A i \in 1 .. Len(t) : (<<h>> \o t)[1 + i] = t[i]
    BY <1>2, <2>1, Joined
  <2>3. Len(ld) # 0
    BY <1>1, CellsOf
  <2>4. IsSeq(u) /\ Len(u) = Len(ld) /\ u[1] = h
    BY <1>2, <1>3, <2>2
  <2>5. u # <<>>
    BY <2>3, <2>4, CellsOf
  <2> QED  BY <1>3, <2>2, <2>4, <2>5
<1>8. Tail(u) = t
  <2>1. /\ IsSeq(Tail(u)) /\ Len(Tail(u)) = Len(t)
        /\ \A i \in 1 .. Len(Tail(u)) : Tail(u)[i] = u[i + 1]
    BY <1>2, <1>7, TailOf
  <2>2. \A i \in 1 .. Len(t) : Tail(u)[i] = t[i]
    <3> SUFFICES ASSUME NEW i \in 1 .. Len(t) PROVE Tail(u)[i] = t[i]
      OBVIOUS
    <3>1. Tail(u)[i] = u[i + 1] /\ u[1 + i] = t[i]
      BY <1>7, <2>1
    <3>2. i + 1 = 1 + i
      OBVIOUS
    <3> QED  BY <3>1, <3>2
  <2> QED  BY <1>2, <2>1, <2>2, SameCells
<1>9. Unpacked(u) = Unpacked(ld)
  <2>1. CASE ld[1].magic = "BL33"
    BY <1>5, <1>7, <1>8, <2>1 DEF Unpacked, t
  <2>2. CASE ld[1].magic # "BL33"
    <3>1. 1 \in 1 .. Len(t) /\ 1 + 1 = 2
      BY <1>1, <1>2, <2>2
    <3>2. u[2] = ld[2]
      BY <1>2, <1>7, <3>1
    <3> QED  BY <1>5, <1>7, <2>2, <3>2 DEF Unpacked
  <2> QED  BY <2>1, <2>2
<1>10. IsLoader(u, image)
  BY <1>1, <1>5, <1>7, <1>9 DEF IsLoader
<1>11. Blocks(u)
  BY <1>7 DEF Blocks
<1>12. u[1].size = Len(u) /\ u[1].cksum = Crc(<<[u[1] EXCEPT !.cksum = <<>>]>> \o Tail(u))
  BY <1>5, <1>6, <1>7, <1>8
<1> QED  BY <1>7, <1>10, <1>11, <1>12 DEF u

\* pack_loader_2nd()
LEMMA PackLoaderNext == FipInv /\ PackLoader2nd => FipInv'
<1> SUFFICES ASSUME FipInv, PackLoader2nd PROVE FipInv'
  OBVIOUS
<1>1. /\ stage = "loader" /\ stage' = "param2" /\ ObjectInv /\ GivenInv
      /\ FirstPart(fip_bin, param1, given) /\ Room(fip_bin, param1)
      /\ Packed(fip_bin, param1, param2, given, {"DDR_PARAM"})
      /\ Packed(fip_bin, param1, param2, given, {"BLCP_2ND"})
      /\ Packed(fip_bin, param1, param2, given, {"MONITOR"})
      /\ UNCHANGED <<args, runs, param1, body1, body2, file, given>>
  BY DEF FipInv, PackingInv, PackLoader2nd, Step, Making, Filling2
<1>2. GivenInv'
  BY <1>1 DEF GivenInv
<1>3. CASE loader = <<>>
  <2>1. UNCHANGED <<loader, param2, fip_bin>>
    BY <1>3 DEF PackLoader2nd
  <2>2. given["LOADER_2ND"] = <<>>
    BY <1>1, <1>3 DEF ObjectInv, LoaderKept, IsLoader
  <2>3. ObjectInv'
    BY <1>1, <2>1 DEF ObjectInv
  <2> QED
    BY <1>1, <1>2, <2>1, <2>2, <2>3
       DEF FipInv, BeginInv, PackingInv, FileInv, LoaderPacked, Making, Filling2
<1>4. CASE loader # <<>>
  <2> DEFINE start == Pad(fip_bin)
             image == given["LOADER_2ND"]
  <2>1. /\ loader' = Updated(Pad(Compressed(loader)))
        /\ param2' = [param2 EXCEPT !.loader_2nd = Len(start)]
        /\ fip_bin' = start \o loader'
    BY <1>4 DEF PackLoader2nd
  <2>2. image # <<>> /\ IsLoader(loader, image) /\ IsSeq(image)
    BY <1>1, <1>4, NameSets DEF ObjectInv, LoaderKept, GivenInv
  <2> HIDE DEF image
  <2>3. IsSeq(Tail(image))
    BY <2>2, TailOf
  <2>4. IsLoader(Pad(Compressed(loader)), image) /\ Blocks(Pad(Compressed(loader)))
    BY <2>2, <2>3, CompressedIs, PaddedLoader
  <2>5. /\ IsLoader(loader', image) /\ Blocks(loader') /\ IsSeq(loader')
        /\ loader'[1].size = Len(loader')
        /\ loader'[1].cksum = Crc(<<[loader'[1] EXCEPT !.cksum = <<>>]>> \o Tail(loader'))
    <3> DEFINE p == Pad(Compressed(loader))
    <3>1. IsLoader(p, image) /\ Blocks(p) /\ loader' = Updated(p)
      BY <2>1, <2>4
    <3> HIDE DEF p
    <3> QED  BY <3>1, UpdatedIs
  <2>6. IsSeq(fip_bin) /\ Len(fip_bin) \in Nat /\ Len(fip_bin) >= 1
    BY <1>1, EndIsIn DEF FirstPart
  <2>7. /\ IsSeq(start) /\ Len(start) \in Nat /\ Len(start) >= Len(fip_bin) /\ Len(start) % Align = 0
        /\ IsSeq(fip_bin') /\ Begins(fip_bin', fip_bin) /\ Lies(fip_bin', Len(start), loader')
    <3> DEFINE t == loader'
    <3>1. IsSeq(t) /\ fip_bin' = start \o t
      BY <2>1, <2>5
    <3> HIDE DEF t
    <3> QED  BY <2>6, <3>1, BeginsPacked DEF t
  <2> HIDE DEF start
  <2>8. HoldsLoader(fip_bin', Len(start), loader', image)
    BY <2>5, <2>6, <2>7 DEF HoldsLoader
  <2>9. /\ IsParam2(param2') /\ param2'.img = param2.img /\ param2'.loader_2nd = Len(start)
    BY <1>1, <2>1, <2>7 DEF ObjectInv, IsParam2
  <2>10. ObjectInv'
    BY <1>1, <2>2, <2>5, <2>9 DEF ObjectInv, LoaderKept, image
  <2>11. FirstPart(fip_bin', param1', given')
    BY <1>1, <2>7, FirstPartIn
  <2>12. param1.param2_loadaddr \in Nat /\ ParamSize \in Nat
    BY <1>1, FipAssumption DEF FirstPart, IsParam1
  <2>13. Room(fip_bin', param1')
    BY <1>1, <2>6, <2>7, <2>12, RoomIn
  <2>14. \A n \in Body2 : Packed(fip_bin, param1, param2, given, {n})
                            => Packed(fip_bin', param1', param2', given', {n})
    BY <1>1, <2>6, <2>7, <2>9, HoldsIn DEF Packed
  <2>15. LoaderPacked(fip_bin', param1', param2', loader', given')
    <3>1. Len(start) >= param1.param2_loadaddr + ParamSize
      BY <1>1, <2>6, <2>7, <2>12 DEF Room
    <3> QED  BY <1>1, <2>8, <2>9, <3>1 DEF LoaderPacked, image
  <2> QED
    BY <1>1, <1>2, <2>10, <2>11, <2>13, <2>14, <2>15, NameSets
       DEF FipInv, BeginInv, PackingInv, FileInv, Making, Filling2
<1> QED  BY <1>3, <1>4

\* append_fip2() ends: the second block is written into its room and nothing else changes.
LEMMA PackParam2Next == FipInv /\ PackParam2 => FipInv'
<1> SUFFICES ASSUME FipInv, PackParam2 PROVE FipInv'
  OBVIOUS
<1> DEFINE addr2 == param1.param2_loadaddr
<1>1. /\ stage = "param2" /\ stage' = "write" /\ ObjectInv /\ GivenInv
      /\ FirstPart(fip_bin, param1, given) /\ Room(fip_bin, param1)
      /\ Packed(fip_bin, param1, param2, given, {"DDR_PARAM"})
      /\ Packed(fip_bin, param1, param2, given, {"BLCP_2ND"})
      /\ Packed(fip_bin, param1, param2, given, {"MONITOR"})
      /\ LoaderPacked(fip_bin, param1, param2, loader, given)
      /\ UNCHANGED <<args, runs, param1, body1, body2, loader, file, given>>
  BY DEF FipInv, PackingInv, PackParam2, Step, Making, Filling2
<1>2. param2' = Sealed(param2) /\ fip_bin' = [fip_bin EXCEPT ![addr2 + 1] = param2']
  BY DEF PackParam2
<1>3. IsParam2(param2) /\ IsParam1(param1, given)
  BY <1>1 DEF ObjectInv
<1>4. /\ IsSealed(param2') /\ param2'.img = param2.img /\ param2'.loader_2nd = param2.loader_2nd
      /\ IsParam2(param2')
  BY <1>2, <1>3, Param2Sealed
<1>5. /\ IsSeq(fip_bin) /\ Len(fip_bin) \in Nat /\ EndOfFirst(param1) \in Nat
      /\ ParamSize \in Nat /\ ParamSize > 0 /\ ParamSize <= EndOfFirst(param1)
      /\ addr2 \in Nat /\ EndOfFirst(param1) <= addr2 /\ addr2 + ParamSize <= Len(fip_bin)
  <2>1. EndOfFirst(param1) \in Nat /\ ParamSize <= EndOfFirst(param1)
    BY <1>1, EndIsIn
  <2>2. ParamSize \in Nat /\ ParamSize > 0
    BY FipAssumption
  <2>3. IsSeq(fip_bin) /\ addr2 \in Nat
    BY <1>1, <1>3 DEF FirstPart, IsParam1
  <2>4. EndOfFirst(param1) <= addr2 /\ addr2 + ParamSize <= Len(fip_bin) /\ Len(fip_bin) \in Nat
    BY <1>1, <2>3, CellsOf DEF Room
  <2> QED  BY <2>1, <2>2, <2>3, <2>4
<1> DEFINE at == addr2 + 1
<1>6. at \in 1 .. Len(fip_bin) /\ at > EndOfFirst(param1) /\ at <= addr2 + ParamSize
  BY <1>5
<1> HIDE DEF at
<1>7. fip_bin' = [fip_bin EXCEPT ![at] = param2']
  BY <1>2 DEF at
<1>8. IsSeq(fip_bin') /\ Len(fip_bin') = Len(fip_bin) /\ fip_bin'[at] = param2'
  <2> DEFINE c == param2'
             u == [fip_bin EXCEPT ![at] = c]
  <2>1. IsSeq(fip_bin) /\ at \in 1 .. Len(fip_bin) /\ fip_bin' = u
    BY <1>5, <1>6, <1>7
  <2> HIDE DEF c
  <2>2. IsSeq(u) /\ Len(u) = Len(fip_bin)
    BY <2>1, Written
  <2>3. u[at] = c
    BY <2>1, CellsOf
  <2> HIDE DEF u
  <2> QED  BY <2>1, <2>2, <2>3 DEF c
<1>9. FirstPart(fip_bin', param1, given)
  <2> DEFINE c == param2'
  <2>1. fip_bin' = [fip_bin EXCEPT ![at] = c]
    BY <1>7
  <2> HIDE DEF c
  <2>2. FirstPart([fip_bin EXCEPT ![at] = c], param1, given)
    BY <1>1, <1>6, FirstPartBeside
  <2> QED  BY <2>1, <2>2
<1>10. \A n \in Body2 : given[n] # <<>> =>
            Holds(fip_bin', param2.img[n].loadaddr, param2.img[n], given[n])
  <2> SUFFICES ASSUME NEW n \in Body2, given[n] # <<>>
               PROVE  Holds(fip_bin', param2.img[n].loadaddr, param2.img[n], given[n])
    OBVIOUS
  <2> DEFINE c == param2'
             img == param2.img[n]
  <2>1. Holds(fip_bin, img.loadaddr, img, given[n]) /\ img.loadaddr >= addr2 + ParamSize
    BY <1>1, NameSets DEF Packed
  <2>2. at <= img.loadaddr
    <3>1. img.loadaddr \in Nat
      BY <2>1 DEF Holds
    <3> QED  BY <1>5, <1>6, <2>1, <3>1
  <2>3. fip_bin' = [fip_bin EXCEPT ![at] = c]
    BY <1>7
  <2> HIDE DEF c, img
  <2>4. Holds([fip_bin EXCEPT ![at] = c], img.loadaddr, img, given[n])
    BY <1>5, <1>6, <2>1, <2>2, HoldsBeside
  <2>5. Holds(fip_bin', img.loadaddr, img, given[n])
    BY <2>3, <2>4
  <2> QED  BY <2>5 DEF img
<1>11. IF given["LOADER_2ND"] = <<>> THEN param2.loader_2nd = 0
       ELSE HoldsLoader(fip_bin', param2.loader_2nd,
                        Slice(fip_bin', param2.loader_2nd, fip_bin'[param2.loader_2nd + 1].size),
                        given["LOADER_2ND"])
  <2>1. CASE given["LOADER_2ND"] = <<>>
    BY <1>1, <2>1 DEF ObjectInv, LoaderKept
  <2>2. CASE given["LOADER_2ND"] # <<>>
    <3> DEFINE addr == param2.loader_2nd
               image == given["LOADER_2ND"]
               c == param2'
    <3>1. HoldsLoader(fip_bin, addr, loader, image) /\ addr >= addr2 + ParamSize /\ addr \in Nat
      BY <1>1, <2>2 DEF LoaderPacked, HoldsLoader
    <3>2. at <= addr
      BY <1>5, <1>6, <3>1
    <3>3. fip_bin' = [fip_bin EXCEPT ![at] = c]
      BY <1>7
    <3> HIDE DEF addr, image, c
    <3>4. HoldsLoader(fip_bin', addr, loader, image)
      BY <1>5, <1>6, <3>1, <3>2, <3>3, HoldsLoaderBeside
    <3>5. /\ IsSeq(loader) /\ loader # <<>> /\ Len(loader) \in Nat /\ Len(loader) >= 1
          /\ loader[1].size = Len(loader) /\ Lies(fip_bin', addr, loader)
      BY <3>4, CellsOf DEF HoldsLoader, IsLoader
    <3>6. fip_bin'[addr + 1] = loader[1]
      BY <3>5 DEF Lies
    <3>7. Slice(fip_bin', addr, Len(loader)) = loader
      <4> DEFINE u == fip_bin'
      <4>1. IsSeq(u) /\ Lies(u, addr, loader)
        BY <1>8, <3>5
      <4> HIDE DEF u
      <4>2. Slice(u, addr, Len(loader)) = loader
        BY <3>1, <3>5, <4>1, SliceIs
      <4> QED  BY <4>2 DEF u
    <3>8. HoldsLoader(fip_bin', addr, Slice(fip_bin', addr, fip_bin'[addr + 1].size), image)
      BY <3>4, <3>5, <3>6, <3>7
    <3> QED  BY <2>2, <3>8 DEF addr, image
  <2> QED  BY <2>1, <2>2
<1>12. SecondPart(fip_bin', param2', given)
  BY <1>4, <1>10, <1>11 DEF SecondPart
<1>13. Complete(fip_bin', given')
  <2>1. fip_bin'[1] = param1
    BY <1>9 DEF FirstPart
  <2>2. addr2 < Len(fip_bin') /\ fip_bin'[addr2 + 1] = param2'
    BY <1>5, <1>8 DEF at
  <2> QED  BY <1>1, <1>9, <1>12, <2>1, <2>2 DEF Complete
<1>14. GivenInv'
  BY <1>1 DEF GivenInv
<1> QED
  BY <1>1, <1>13, <1>14 DEF FipInv, BeginInv, PackingInv, FileInv, Making, Filling2

\* Every step keeps the invariant.
LEMMA FipKeeps == DdrGiven /\ FipInv /\ [FipNext]_fipVars => FipInv'
BY NewFipNext, ReadFipNext, AddImagesNext, MakeFip1Next, InsertNext, PackNext, PackLoaderNext,
   PackParam2Next, WriteNext DEF FipNext

\* The file genfip writes, and the one it reads again, hold what was given.
THEOREM FileInvariant == ASSUME DdrGiven PROVE FipSpec => []FipInv
BY FipStarts, FipKeeps, PTL DEF FipSpec

\* Both parameter blocks of the file have a checksum that is right for them.
THEOREM SealsParams == ASSUME DdrGiven PROVE FipSpec => []ParamsSealed
<1>1. FipInv => ParamsSealed
  BY DEF FipInv, FileInv, Complete, FirstPart, SecondPart, ParamsSealed, Second
<1> QED  BY <1>1, FileInvariant, PTL

\* What the file holds is found in it, by its address, its size and its checksum.
LEMMA HeldIsFound ==
    ASSUME NEW addr, NEW img, NEW name, Holds(file, addr, img, given[name]), IsSeq(file),
           IsSeq(given[name])
    PROVE  Found(name, addr, img.size, img.cksum)
<1>1. /\ addr \in Nat /\ addr % Align = 0 /\ IsSeq(img.cksum) /\ Len(img.cksum) % Align = 0
      /\ Lies(file, addr, img.cksum) /\ Len(img.cksum) = img.size
      /\ Begins(img.cksum, given[name])
  BY DEF Holds, Blocks
<1>2. Slice(file, addr, img.size) = img.cksum
  BY <1>1, SliceIs
<1>3. SubSeq(img.cksum, 1, Len(given[name])) = given[name]
  BY <1>1, PrefixIs
<1> QED  BY <1>1, <1>2, <1>3 DEF Found, Crc

\* The same of the second loader.
LEMMA LoaderIsFound ==
    ASSUME NEW addr, given["LOADER_2ND"] # <<>>, IsSeq(given["LOADER_2ND"]), IsSeq(file),
           HoldsLoader(file, addr, Slice(file, addr, file[addr + 1].size), given["LOADER_2ND"])
    PROVE  LoaderFound(addr)
<1> DEFINE cells == Slice(file, addr, file[addr + 1].size)
           image == given["LOADER_2ND"]
           hdr == file[addr + 1]
<1>1. HoldsLoader(file, addr, cells, image)
  OBVIOUS
<1> HIDE DEF cells
<1>2. /\ IsSeq(cells) /\ cells # <<>> /\ IsHeader(cells[1]) /\ cells[1].magic \in Magics
      /\ IsSeq(Unpacked(cells)) /\ Begins(Unpacked(cells), Tail(image))
      /\ addr \in Nat /\ addr % Align = 0 /\ Lies(file, addr, cells)
      /\ Len(cells) % Align = 0 /\ cells[1].size = Len(cells)
      /\ cells[1].cksum = Crc(<<[cells[1] EXCEPT !.cksum = <<>>]>> \o Tail(cells))
  BY <1>1 DEF HoldsLoader, IsLoader, Blocks
<1>3. hdr = cells[1]
  <2>1. Len(cells) \in Nat /\ Len(cells) >= 1
    BY <1>2, CellsOf
  <2> QED  BY <1>2, <2>1 DEF Lies
<1>4. hdr.k = "hdr"
  BY <1>2, <1>3 DEF IsHeader
<1>5. IsSeq(Tail(image)) /\ Len(Tail(image)) = Len(image) - 1
  BY TailOf
<1>6. SubSeq(Unpacked(cells), 1, Len(image) - 1) = Tail(image)
  <2>1. SubSeq(Unpacked(cells), 1, Len(Tail(image))) = Tail(image)
    BY <1>2, <1>5, PrefixIs
  <2> QED  BY <1>5, <2>1
<1>7. LET body == IF hdr.magic = "BL33" THEN Tail(cells) ELSE cells[2].of
      IN SubSeq(body, 1, Len(image) - 1) = Tail(image)
  BY <1>3, <1>6 DEF Unpacked
<1>8. /\ addr % Align = 0 /\ hdr.k = "hdr" /\ hdr.magic \in Magics /\ hdr.size % Align = 0
      /\ hdr.cksum = Crc(<<[hdr EXCEPT !.cksum = <<>>]>> \o Tail(cells))
  BY <1>2, <1>3, <1>4
<1> HIDE DEF hdr, image
<1> QED  BY <1>7, <1>8 DEF LoaderFound, cells, hdr, image

\* "Add <image> into FIP": what was given, in this run or an earlier one, is in the file, at the
\* address and with the size and checksum that the parameter blocks or its header say.
THEOREM FindsImages == ASSUME DdrGiven PROVE FipSpec => []ImagesFound
<1>1. FipInv => ImagesFound
  <2> SUFFICES ASSUME FipInv, stage = "written" PROVE ImagesFound
    BY DEF ImagesFound
  <2> DEFINE p1 == file[1]
             p2 == file[p1.param2_loadaddr + 1]
  <2>1. FirstPart(file, p1, given) /\ SecondPart(file, p2, given) /\ GivenInv
    BY DEF FipInv, FileInv, Complete
  <2>2. Second = p2 /\ Bl2Start = ParamSize + p1.img["BLCP"].size
    BY DEF Second, Bl2Start
  <2> HIDE DEF p1, p2
  <2>3. IsSeq(file) /\ IsParam1(p1, given) /\ IsParam2(p2) /\ \A n \in Methods : IsSeq(given[n])
    BY <2>1 DEF FirstPart, SecondPart, GivenInv
  <2>4. /\ Found("BLCP", ParamSize, p1.img["BLCP"].size, p1.img["BLCP"].cksum)
        /\ Found("BL2", Bl2Start, p1.img["BL2"].size, p1.img["BL2"].cksum)
    BY <2>1, <2>2, <2>3, NameSets, HeldIsFound DEF FirstPart
  <2>5. \A n \in Infos : p1.info[n] = given[n] \o Zeros(InfoSize - Len(given[n]))
    BY <2>3 DEF IsParam1
  <2>6. p2.k = "param2" /\ p2.magic = "CVLD02"
    BY <2>3 DEF IsParam2
  <2>7. ASSUME NEW n \in Body2, given[n] # <<>>
        PROVE  Found(n, p2.img[n].loadaddr, p2.img[n].size, p2.img[n].cksum)
    BY <2>1, <2>3, <2>7, NameSets, HeldIsFound DEF SecondPart
  <2>8. given["LOADER_2ND"] # <<>> => LoaderFound(p2.loader_2nd)
    BY <2>1, <2>3, NameSets, LoaderIsFound DEF SecondPart
  <2> QED
    BY <2>2, <2>4, <2>5, <2>6, <2>7, <2>8 DEF ImagesFound, p1
<1> QED  BY <1>1, FileInvariant, PTL

-----------------------------------------------------------------------------
\* A run that is given no image.

\* The file is laid out from its two blocks and the second loader: a checksum is the image.
\* room is the second block, or the zeros kept for it.
Fip1(p1) == Block(p1) \o p1.img["BLCP"].cksum \o p1.img["BL2"].cksum
UpToRoom(p1, room) == Fip1(p1) \o room
UpToDdr(p1, room, p2) == UpToRoom(p1, room) \o p2.img["DDR_PARAM"].cksum
UpToBlcp(p1, room, p2) == UpToDdr(p1, room, p2) \o p2.img["BLCP_2ND"].cksum
UpToMonitor(p1, room, p2) == UpToBlcp(p1, room, p2) \o p2.img["MONITOR"].cksum
Whole(p1, room, p2, ld) == UpToMonitor(p1, room, p2) \o ld

Empty == Zeros(ParamSize)

\* The first block as make_fip1() leaves it
FirstRecords(p1) ==
    /\ p1.img = [n \in Body1 |-> [cksum |-> p1.img[n].cksum, size |-> Len(p1.img[n].cksum)]]
    /\ \A n \in Body1 : Blocks(p1.img[n].cksum)
    /\ p1.conf_size = Len(p1.info["CHIP_CONF"])

\* The record of an image, and that of one that was packed where the file had reached start
IsRecord(img) ==
    /\ img = [cksum |-> img.cksum, loadaddr |-> img.loadaddr, size |-> img.size,
              runaddr |-> img.runaddr]
    /\ Blocks(img.cksum) /\ img.size = Len(img.cksum)

Placed(p2, n, start) ==
    /\ IsRecord(p2.img[n])
    /\ p2.img[n].cksum # <<>> =>
          /\ p2.img[n].loadaddr = Len(start)
          /\ IF n = "DDR_PARAM" THEN p2.img[n].runaddr = 0 ELSE p2.img[n].runaddr # 0

LoaderPlaced(p2, ld, start) ==
    IF ld = <<>> THEN p2.loader_2nd = 0
    ELSE /\ Blocks(ld) /\ IsHeader(ld[1]) /\ p2.loader_2nd = Len(start)
         /\ ld[1].size = Len(ld)
         /\ ld[1].cksum = Crc(<<[ld[1] EXCEPT !.cksum = <<>>]>> \o Tail(ld))

InOrder(p1, p2, ld) ==
    /\ FirstRecords(p1) /\ p1.param2_loadaddr = Len(Fip1(p1))
    /\ Placed(p2, "DDR_PARAM", UpToRoom(p1, Empty))
    /\ Placed(p2, "BLCP_2ND", UpToDdr(p1, Empty, p2))
    /\ Placed(p2, "MONITOR", UpToBlcp(p1, Empty, p2))
    /\ LoaderPlaced(p2, ld, UpToMonitor(p1, Empty, p2))

WrittenOut(cells, p1, p2, ld) ==
    /\ cells = Whole(p1, Block(p2), p2, ld) /\ InOrder(p1, p2, ld)
    /\ IsSealed(p1) /\ IsSealed(p2) /\ IsParam2(p2)

\* What read_fip() reads
SecondOf(cells) == cells[cells[1].param2_loadaddr + 1]
LoaderOf(cells) ==
    IF SecondOf(cells).loader_2nd = 0 THEN <<>>
    ELSE Slice(cells, SecondOf(cells).loader_2nd, cells[SecondOf(cells).loader_2nd + 1].size)

Settled(cells) == WrittenOut(cells, cells[1], SecondOf(cells), LoaderOf(cells))

\* The records of images that were not packed yet: an image that is not there has none.
RecordsInv ==
    stage \in Making \/ (stage = "start" /\ ~args.old) =>
        \A n \in Body2 : /\ IsRecord(param2.img[n])
                         /\ body2[n] = <<>> => param2.img[n].cksum = <<>>
                         /\ param2.img[n].cksum # <<>> /\ n # "DDR_PARAM" => param2.img[n].runaddr # 0
                         /\ body2[n] # <<>> /\ n # "DDR_PARAM" =>
                                param2.img[n].runaddr # 0 \/ args.runaddr # 0

\* How far the file is
LayoutInv ==
    /\ stage \in {"insert"} \cup Filling2 => FirstRecords(param1)
    /\ stage \in Filling2 => param1.param2_loadaddr = Len(Fip1(param1))
    /\ stage = "insert" => fip_bin = Fip1(param1)
    /\ stage = "ddr" => fip_bin = UpToRoom(param1, Empty)
    /\ stage = "blcp_2nd" => fip_bin = UpToDdr(param1, Empty, param2)
    /\ stage = "monitor" => fip_bin = UpToBlcp(param1, Empty, param2)
    /\ stage = "loader" => fip_bin = UpToMonitor(param1, Empty, param2)
    /\ stage = "param2" => fip_bin = Whole(param1, Empty, param2, loader)
    /\ stage \in {"blcp_2nd", "monitor", "loader", "param2"} =>
          Placed(param2, "DDR_PARAM", UpToRoom(param1, Empty))
    /\ stage \in {"monitor", "loader", "param2"} =>
          Placed(param2, "BLCP_2ND", UpToDdr(param1, Empty, param2))
    /\ stage \in {"loader", "param2"} =>
          Placed(param2, "MONITOR", UpToBlcp(param1, Empty, param2))
    /\ stage = "param2" => LoaderPlaced(param2, loader, UpToMonitor(param1, Empty, param2))
    /\ stage = "write" => WrittenOut(fip_bin, param1, param2, loader)

\* The file on the disk, and what a run holds that adds nothing to it
SettledInv == args.old \/ stage = "written" => Settled(file)

UnchangedInv ==
    args.old /\ Images = {} /\ stage \in Making \cup {"write"} =>
        /\ param1 = file[1] /\ param2 = SecondOf(file) /\ loader = LoaderOf(file)
        /\ \A n \in Body1 : body1[n] = file[1].img[n].cksum
        /\ \A n \in Body2 : body2[n] = SecondOf(file).img[n].cksum

AgainInv == RecordsInv /\ LayoutInv /\ SettledInv /\ UnchangedInv

-----------------------------------------------------------------------------
\* A run that is given no image: sequences that are put together

\* Nothing is added.
LEMMA JoinedNothing == ASSUME NEW s, IsSeq(s) PROVE s \o <<>> = s
BY DEF IsSeq

\* A cell that is written over
Rewritten(s, i, c) == [s EXCEPT ![i] = c]

\* It is in the first part of a sequence ...
LEMMA WrittenInFirst ==
    ASSUME NEW s, NEW t, IsSeq(s), IsSeq(t), NEW i \in 1 .. Len(s), NEW c
    PROVE  Rewritten(s \o t, i, c) = Rewritten(s, i, c) \o t
<1> DEFINE u == [s EXCEPT ![i] = c]
           w == s \o t
           v == [w EXCEPT ![i] = c]
<1>1. Len(s) \in Nat /\ Len(t) \in Nat
  BY CellsOf
<1>2. /\ IsSeq(w) /\ Len(w) = Len(s) + Len(t)
      /\ \A j \in 1 .. Len(s) : w[j] = s[j]
      /\ \A j \in 1 .. Len(t) : w[Len(s) + j] = t[j]
  BY Joined
<1> HIDE DEF w
<1>3. IsSeq(u) /\ Len(u) = Len(s) /\ u[i] = c /\ \A j \in 1 .. Len(s) : j # i => u[j] = s[j]
  BY Written
<1>4. IsSeq(w) /\ i \in 1 .. Len(w)
  BY <1>1, <1>2
<1>5. /\ IsSeq(v) /\ Len(v) = Len(w) /\ v[i] = c
      /\ \A j \in 1 .. Len(w) : j # i => v[j] = w[j]
  BY <1>4, Written
<1>6. /\ IsSeq(u \o t) /\ Len(u \o t) = Len(u) + Len(t)
      /\ \A j \in 1 .. Len(u) : (u \o t)[j] = u[j]
      /\ \A j \in 1 .. Len(t) : (u \o t)[Len(u) + j] = t[j]
  BY <1>3, Joined
<1> HIDE DEF u, v
<1>7. ASSUME NEW j \in 1 .. Len(v) PROVE v[j] = (u \o t)[j]
  <2>1. CASE j <= Len(s)
    <3>1. j \in 1 .. Len(s) /\ j \in 1 .. Len(w)
      BY <2>1, <1>1, <1>2, <1>5
    <3> QED  BY <3>1, <1>2, <1>3, <1>5, <1>6
  <2>2. CASE j > Len(s)
    <3>1. PICK m \in 1 .. Len(t) : j = Len(s) + m
      <4>1. j - Len(s) \in 1 .. Len(t) /\ j = Len(s) + (j - Len(s))
        BY <2>2, <1>1, <1>2, <1>5
      <4> QED  BY <4>1
    <3>2. j # i /\ j \in 1 .. Len(w)
      BY <2>2, <1>1, <1>5
    <3>3. v[j] = w[Len(s) + m]
      BY <3>1, <3>2, <1>5
    <3>4. (u \o t)[Len(u) + m] = t[m]
      BY <1>6
    <3> QED  BY <3>1, <3>3, <3>4, <1>2, <1>3
  <2>3. j <= Len(s) \/ j > Len(s)
    BY <1>1, <1>2, <1>5
  <2> QED  BY <2>1, <2>2, <2>3
<1>8. Len(v) = Len(u \o t)
  BY <1>2, <1>3, <1>5, <1>6
<1>9. v = u \o t
  BY <1>5, <1>6, <1>7, <1>8, SameCells
<1> QED  BY <1>9 DEF u, v, w, Rewritten

\* ... or the first of the second.
LEMMA WrittenInSecond ==
    ASSUME NEW s, NEW t, IsSeq(s), IsSeq(t), Len(t) > 0, NEW c
    PROVE  Rewritten(s \o t, Len(s) + 1, c) = s \o Rewritten(t, 1, c)
<1> DEFINE i == Len(s) + 1
           u == [t EXCEPT ![1] = c]
           w == s \o t
           v == [w EXCEPT ![i] = c]
<1>1. Len(s) \in Nat /\ Len(t) \in Nat \ {0}
  BY CellsOf
<1>2. /\ IsSeq(w) /\ Len(w) = Len(s) + Len(t)
      /\ \A j \in 1 .. Len(s) : w[j] = s[j]
      /\ \A j \in 1 .. Len(t) : w[Len(s) + j] = t[j]
  BY Joined
<1> HIDE DEF w
<1>3. IsSeq(u) /\ Len(u) = Len(t) /\ u[1] = c /\ \A j \in 1 .. Len(t) : j # 1 => u[j] = t[j]
  <2>1. t # <<>>
    BY CellsOf
  <2> QED  BY <2>1, WrittenFirst DEF FirstIs
<1>4. IsSeq(w) /\ i \in 1 .. Len(w)
  BY <1>1, <1>2
<1>10. i = Len(s) + 1
  OBVIOUS
<1> HIDE DEF i
<1>5. /\ IsSeq(v) /\ Len(v) = Len(w) /\ v[i] = c
      /\ \A j \in 1 .. Len(w) : j # i => v[j] = w[j]
  BY <1>4, Written
<1>6. /\ IsSeq(s \o u) /\ Len(s \o u) = Len(s) + Len(u)
      /\ \A j \in 1 .. Len(s) : (s \o u)[j] = s[j]
      /\ \A j \in 1 .. Len(u) : (s \o u)[Len(s) + j] = u[j]
  BY <1>3, Joined
<1> HIDE DEF u, v
<1>7. ASSUME NEW j \in 1 .. Len(v) PROVE v[j] = (s \o u)[j]
  <2>1. CASE j <= Len(s)
    <3>1. j \in 1 .. Len(s) /\ j \in 1 .. Len(w) /\ j # i
      BY <2>1, <1>10, <1>1, <1>2, <1>5
    <3> QED  BY <3>1, <1>2, <1>5, <1>6
  <2>2. CASE j > Len(s)
    <3>1. PICK m \in 1 .. Len(t) : j = Len(s) + m
      <4>1. j - Len(s) \in 1 .. Len(t) /\ j = Len(s) + (j - Len(s))
        BY <2>2, <1>1, <1>2, <1>5
      <4> QED  BY <4>1
    <3>2. (s \o u)[j] = u[m]
      BY <3>1, <1>3, <1>6
    <3>3. CASE m = 1
      BY <3>1, <3>2, <3>3, <1>10, <1>3, <1>5
    <3>4. CASE m # 1
      <4>1. j # i /\ j \in 1 .. Len(w)
        BY <3>1, <3>4, <1>10, <1>1, <1>5
      <4>2. v[j] = t[m]
        BY <3>1, <4>1, <1>2, <1>5
      <4> QED  BY <3>2, <3>4, <4>2, <1>3
    <3> QED  BY <3>3, <3>4
  <2>3. j <= Len(s) \/ j > Len(s)
    BY <1>1, <1>2, <1>5
  <2> QED  BY <2>1, <2>2, <2>3
<1>8. Len(v) = Len(s \o u)
  BY <1>2, <1>3, <1>5, <1>6
<1>9. v = s \o u
  BY <1>5, <1>6, <1>7, <1>8, SameCells
<1> QED  BY <1>9 DEF i, u, v, w, Rewritten

\* Whole blocks are put together.
LEMMA BlocksJoined ==
    ASSUME NEW s, NEW t, Blocks(s), Blocks(t)
    PROVE  Blocks(s \o t) /\ Len(s \o t) = Len(s) + Len(t) /\ Len(s) \in Nat /\ Len(t) \in Nat
<1>1. IsSeq(s) /\ IsSeq(t) /\ Len(s) % Align = 0 /\ Len(t) % Align = 0
  BY DEF Blocks
<1>2. IsSeq(s \o t) /\ Len(s \o t) = Len(s) + Len(t) /\ Len(s) \in Nat /\ Len(t) \in Nat
  BY <1>1, Joined, CellsOf
<1> QED  BY <1>1, <1>2, SumOfBlocks DEF Blocks

\* pad() leaves them as they are.
LEMMA PadsNothing == ASSUME NEW s, Blocks(s) PROVE Pad(s) = s
<1>1. Zeros(0) = <<>>
  BY ZerosAre, CellsOf
<1> QED  BY <1>1, JoinedNothing DEF Pad, Blocks

\* A block with another first cell
LEMMA BlockWritten ==
    ASSUME NEW c, NEW d
    PROVE  Rewritten(Block(c), 1, d) = Block(d) /\ Rewritten(Empty, 1, d) = Block(d)
           /\ Blocks(Block(c)) /\ Len(Block(c)) = ParamSize /\ Block(c) # <<>>
           /\ Blocks(Empty) /\ Len(Empty) = ParamSize /\ Empty # <<>>
<1>1. /\ IsSeq(Block(c)) /\ Len(Block(c)) = ParamSize /\ IsSeq(Block(d)) /\ Len(Block(d)) = ParamSize
      /\ Block(d)[1] = d
  BY BlockIs
<1>2. ParamSize \in Nat \ {0} /\ ParamSize - 1 \in Nat /\ ParamSize % Align = 0
  BY FipAssumption
<1>3. IsSeq(Zeros(ParamSize - 1)) /\ Len(Zeros(ParamSize - 1)) = ParamSize - 1
  BY <1>2, ZerosAre
<1>4. IsSeq(Empty) /\ Len(Empty) = ParamSize
  BY <1>2, ZerosAre DEF Empty
<1>5. ASSUME NEW e, NEW i \in 1 .. ParamSize, i # 1 PROVE Block(e)[i] = Zero
  <2>1. i - 1 \in 1 .. (ParamSize - 1) /\ i = 1 + (i - 1)
    BY <1>2, <1>5
  <2>2. (<<e>> \o Zeros(ParamSize - 1))[Len(<<e>>) + (i - 1)] = Zeros(ParamSize - 1)[i - 1]
    BY <2>1, <1>3, OneCell, Joined
  <2>3. Zeros(ParamSize - 1)[i - 1] = Zero
    BY <2>1 DEF Zeros
  <2> QED  BY <2>1, <2>2, <2>3, OneCell DEF Block
<1>6. ASSUME NEW i \in 1 .. ParamSize PROVE Empty[i] = Zero
  BY DEF Empty, Zeros
<1>7. Block(c) # <<>> /\ Empty # <<>>
  BY <1>1, <1>2, <1>4, CellsOf
<1>8. [Block(c) EXCEPT ![1] = d] = Block(d)
  <2> DEFINE w == Block(c)
             u == [w EXCEPT ![1] = d]
  <2>0. IsSeq(w) /\ Len(w) = ParamSize /\ w # <<>>
    BY <1>1, <1>4, <1>7
  <2> HIDE DEF w
  <2>1. FirstIs(u, d, w)
    BY <2>0, WrittenFirst
  <2> HIDE DEF u
  <2>2. \A j \in 1 .. Len(u) : u[j] = Block(d)[j]
    BY <2>0, <2>1, <1>1, <1>5 DEF w, FirstIs
  <2>3. u = Block(d)
    BY <2>0, <2>1, <2>2, <1>1, SameCells DEF FirstIs
  <2> QED  BY <2>3 DEF u, w
<1>9. [Empty EXCEPT ![1] = d] = Block(d)
  <2> DEFINE w == Empty
             u == [w EXCEPT ![1] = d]
  <2>0. IsSeq(w) /\ Len(w) = ParamSize /\ w # <<>>
    BY <1>1, <1>4, <1>7
  <2> HIDE DEF w
  <2>1. FirstIs(u, d, w)
    BY <2>0, WrittenFirst
  <2> HIDE DEF u
  <2>2. \A j \in 1 .. Len(u) : u[j] = Block(d)[j]
    BY <2>0, <2>1, <1>1, <1>5, <1>6 DEF w, FirstIs
  <2>3. u = Block(d)
    BY <2>0, <2>1, <2>2, <1>1, SameCells DEF FirstIs
  <2> QED  BY <2>3 DEF u, w
<1> QED  BY <1>1, <1>2, <1>4, <1>7, <1>8, <1>9 DEF Blocks, Rewritten

\* The first block and its two images
LEMMA Fip1Is ==
    ASSUME NEW p1, FirstRecords(p1)
    PROVE  /\ Blocks(Fip1(p1)) /\ Fip1(p1)[1] = p1 /\ Len(Fip1(p1)) \in Nat \ {0}
           /\ Begins(Fip1(p1), Block(p1))
           /\ Lies(Fip1(p1), ParamSize, p1.img["BLCP"].cksum)
           /\ Lies(Fip1(p1), ParamSize + Len(p1.img["BLCP"].cksum), p1.img["BL2"].cksum)
           /\ Len(Fip1(p1)) = ParamSize + Len(p1.img["BLCP"].cksum) + Len(p1.img["BL2"].cksum)
<1> DEFINE a == p1.img["BLCP"].cksum
           b == p1.img["BL2"].cksum
           u == Block(p1) \o a
           v == u \o b
<1>1. Blocks(a) /\ Blocks(b)
  BY NameSets DEF FirstRecords
<1>2. Blocks(Block(p1)) /\ Len(Block(p1)) = ParamSize /\ Block(p1)[1] = p1
  BY BlockWritten, BlockIs
<1>3. IsSeq(a) /\ IsSeq(b) /\ IsSeq(Block(p1)) /\ Len(a) \in Nat /\ Len(b) \in Nat
  BY <1>1, <1>2, CellsOf DEF Blocks
<1> HIDE DEF a, b
<1>4. Blocks(u) /\ Len(u) = ParamSize + Len(a) /\ IsSeq(u)
  BY <1>1, <1>2, BlocksJoined DEF Blocks
<1>5. Begins(u, Block(p1)) /\ Lies(u, ParamSize, a)
  BY <1>2, <1>3, BeginsJoined
<1> HIDE DEF u
<1>6. Blocks(v) /\ Len(v) = Len(u) + Len(b) /\ IsSeq(v)
  BY <1>1, <1>4, BlocksJoined DEF Blocks
<1>7. Begins(v, u) /\ Lies(v, Len(u), b)
  BY <1>3, <1>4, BeginsJoined
<1> HIDE DEF v
<1>8. ParamSize \in Nat \ {0}
  BY FipAssumption
<1>9. Lies(v, ParamSize, a)
  BY <1>3, <1>4, <1>5, <1>6, <1>7, <1>8, LiesIn
<1>10. Begins(v, Block(p1))
  BY <1>3, <1>4, <1>5, <1>6, <1>7, BeginsOn
<1>11. v[1] = p1
  <2>1. v[0 + 1] = Block(p1)[1]
    BY <1>2, <1>8, <1>10 DEF Begins, Lies
  <2> QED  BY <2>1, <1>2
<1>12. v = Fip1(p1)
  BY DEF v, u, a, b, Fip1
<1> QED  BY <1>3, <1>4, <1>6, <1>7, <1>8, <1>9, <1>10, <1>11, <1>12 DEF a, b

\* The first block with another checksum or another address in it
LEMMA Fip1Written ==
    ASSUME NEW p1, NEW q1, FirstRecords(p1), q1.img = p1.img
    PROVE  Rewritten(Fip1(p1), 1, q1) = Fip1(q1)
<1> DEFINE a == p1.img["BLCP"].cksum
           b == p1.img["BL2"].cksum
           u == Block(p1) \o a
<1>1. Blocks(a) /\ Blocks(b)
  BY NameSets DEF FirstRecords
<1>2. Blocks(Block(p1)) /\ Len(Block(p1)) = ParamSize
  BY BlockWritten
<1>3. ParamSize \in Nat \ {0} /\ IsSeq(a) /\ IsSeq(b) /\ IsSeq(Block(p1)) /\ Len(a) \in Nat
  BY <1>1, <1>2, CellsOf, FipAssumption DEF Blocks
<1>4. PICK i \in 1 .. ParamSize : i = 1
  BY <1>3
<1>5. i \in 1 .. Len(u) /\ i \in 1 .. Len(Block(p1)) /\ IsSeq(u)
  BY <1>1, <1>2, <1>3, BlocksJoined DEF Blocks
<1>6. Rewritten(u, i, q1) = Rewritten(Block(p1), i, q1) \o a
  <2> HIDE DEF a
  <2> QED  BY <1>3, <1>5, WrittenInFirst
<1>7. Rewritten(u \o b, i, q1) = Rewritten(u, i, q1) \o b
  <2> HIDE DEF u, b
  <2> QED  BY <1>3, <1>5, WrittenInFirst
<1>8. Rewritten(Block(p1), i, q1) = Block(q1)
  BY <1>4, BlockWritten
<1> QED  BY <1>4, <1>6, <1>7, <1>8 DEF Fip1

\* The second part, image by image; what is in the room does not change where they are.
PartsAre(p1, room, p2) ==
    /\ Blocks(UpToRoom(p1, room)) /\ Blocks(UpToDdr(p1, room, p2))
    /\ Blocks(UpToBlcp(p1, room, p2)) /\ Blocks(UpToMonitor(p1, room, p2))
    /\ Len(UpToRoom(p1, room)) = Len(Fip1(p1)) + ParamSize
    /\ Len(UpToDdr(p1, room, p2))
         = Len(Fip1(p1)) + ParamSize + Len(p2.img["DDR_PARAM"].cksum)
    /\ Len(UpToBlcp(p1, room, p2))
         = Len(Fip1(p1)) + ParamSize + Len(p2.img["DDR_PARAM"].cksum)
             + Len(p2.img["BLCP_2ND"].cksum)
    /\ Len(UpToMonitor(p1, room, p2))
         = Len(Fip1(p1)) + ParamSize + Len(p2.img["DDR_PARAM"].cksum)
             + Len(p2.img["BLCP_2ND"].cksum) + Len(p2.img["MONITOR"].cksum)

LEMMA UpToAre ==
    ASSUME NEW p1, FirstRecords(p1), NEW room, Blocks(room), Len(room) = ParamSize, NEW p2,
           \A n \in Body2 : Blocks(p2.img[n].cksum)
    PROVE  PartsAre(p1, room, p2)
<1> DEFINE d == p2.img["DDR_PARAM"].cksum
           b == p2.img["BLCP_2ND"].cksum
           m == p2.img["MONITOR"].cksum
<1>1. Blocks(d) /\ Blocks(b) /\ Blocks(m)
  BY NameSets
<1>2. Blocks(Fip1(p1))
  BY Fip1Is
<1> HIDE DEF d, b, m
<1>3. Blocks(UpToRoom(p1, room)) /\ Len(UpToRoom(p1, room)) = Len(Fip1(p1)) + ParamSize
  BY <1>2, BlocksJoined DEF UpToRoom
<1>4. /\ Blocks(UpToDdr(p1, room, p2))
      /\ Len(UpToDdr(p1, room, p2)) = Len(UpToRoom(p1, room)) + Len(d)
  BY <1>1, <1>3, BlocksJoined DEF UpToDdr, d
<1>5. /\ Blocks(UpToBlcp(p1, room, p2))
      /\ Len(UpToBlcp(p1, room, p2)) = Len(UpToDdr(p1, room, p2)) + Len(b)
  BY <1>1, <1>4, BlocksJoined DEF UpToBlcp, b
<1>6. /\ Blocks(UpToMonitor(p1, room, p2))
      /\ Len(UpToMonitor(p1, room, p2)) = Len(UpToBlcp(p1, room, p2)) + Len(m)
  BY <1>1, <1>5, BlocksJoined DEF UpToMonitor, m
<1> QED  BY <1>3, <1>4, <1>5, <1>6 DEF d, b, m, PartsAre

\* The second block is written into its room.
LEMMA RoomWritten ==
    ASSUME NEW p1, FirstRecords(p1), NEW p2, \A n \in Body2 : Blocks(p2.img[n].cksum),
           NEW ld, IsSeq(ld), NEW q2, NEW at, at = Len(Fip1(p1)) + 1
    PROVE  Rewritten(Whole(p1, Empty, p2, ld), at, q2) = Whole(p1, Block(q2), p2, ld)
<1> DEFINE f == Fip1(p1)
           r == UpToRoom(p1, Empty)
           d == UpToDdr(p1, Empty, p2)
           b == UpToBlcp(p1, Empty, p2)
           m == UpToMonitor(p1, Empty, p2)
<1>1. /\ Blocks(Empty) /\ Len(Empty) = ParamSize /\ Rewritten(Empty, 1, q2) = Block(q2)
      /\ ParamSize \in Nat \ {0}
  BY BlockWritten, FipAssumption
<1>2. Blocks(f) /\ Len(f) \in Nat
  BY Fip1Is
<1>3. /\ Blocks(r) /\ Blocks(d) /\ Blocks(b) /\ Blocks(m)
      /\ Len(r) = Len(f) + ParamSize
      /\ Len(d) = Len(f) + ParamSize + Len(p2.img["DDR_PARAM"].cksum)
      /\ Len(b) = Len(f) + ParamSize + Len(p2.img["DDR_PARAM"].cksum)
                    + Len(p2.img["BLCP_2ND"].cksum)
      /\ Len(m) = Len(f) + ParamSize + Len(p2.img["DDR_PARAM"].cksum)
                    + Len(p2.img["BLCP_2ND"].cksum) + Len(p2.img["MONITOR"].cksum)
  <2>1. FirstRecords(p1) /\ \A n \in Body2 : Blocks(p2.img[n].cksum)
    OBVIOUS
  <2>2. PartsAre(p1, Empty, p2)
    BY <2>1, <1>1, UpToAre, Zenon
  <2> QED  BY <2>2 DEF PartsAre
<1>4. /\ IsSeq(p2.img["DDR_PARAM"].cksum) /\ IsSeq(p2.img["BLCP_2ND"].cksum)
      /\ IsSeq(p2.img["MONITOR"].cksum)
      /\ Len(p2.img["DDR_PARAM"].cksum) \in Nat /\ Len(p2.img["BLCP_2ND"].cksum) \in Nat
      /\ Len(p2.img["MONITOR"].cksum) \in Nat
  BY NameSets, CellsOf DEF Blocks
<1>5. Rewritten(r, Len(f) + 1, q2) = f \o Block(q2)
  <2>1. IsSeq(f) /\ IsSeq(Empty) /\ Len(Empty) > 0
    BY <1>1, <1>2 DEF Blocks
  <2> HIDE DEF f
  <2>2. Rewritten(f \o Empty, Len(f) + 1, q2) = f \o Rewritten(Empty, 1, q2)
    BY <2>1, WrittenInSecond
  <2> QED  BY <2>2, <1>1 DEF UpToRoom, f
<1> HIDE DEF f, r, d, b, m
<1>6. IsSeq(r) /\ IsSeq(d) /\ IsSeq(b) /\ IsSeq(m)
  BY <1>3 DEF Blocks
<1>7. PICK i \in 1 .. Len(r) : i = at
  BY <1>1, <1>2, <1>3 DEF f
<1>8. i \in 1 .. Len(d) /\ i \in 1 .. Len(b) /\ i \in 1 .. Len(m)
  <2>1. i \in 1 .. (Len(f) + ParamSize)
    BY <1>3
  <2>2. /\ Len(f) \in Nat /\ ParamSize \in Nat
        /\ Len(p2.img["DDR_PARAM"].cksum) \in Nat /\ Len(p2.img["BLCP_2ND"].cksum) \in Nat
        /\ Len(p2.img["MONITOR"].cksum) \in Nat
    BY <1>1, <1>2, <1>4
  <2>4. Len(d) \in Nat /\ Len(b) \in Nat /\ Len(m) \in Nat
    BY <1>6, CellsOf
  <2> DEFINE x == Len(p2.img["DDR_PARAM"].cksum)
             y == Len(p2.img["BLCP_2ND"].cksum)
             z == Len(p2.img["MONITOR"].cksum)
  <2>5. /\ Len(d) = Len(f) + ParamSize + x /\ Len(b) = Len(f) + ParamSize + x + y
        /\ Len(m) = Len(f) + ParamSize + x + y + z /\ x \in Nat /\ y \in Nat /\ z \in Nat
    BY <2>2, <1>3
  <2> HIDE DEF x, y, z
  <2>3. Len(f) + ParamSize <= Len(d) /\ Len(f) + ParamSize <= Len(b) /\ Len(f) + ParamSize <= Len(m)
    BY <2>2, <2>4, <2>5
  <2> QED  BY <2>1, <2>2, <2>3, <2>4
<1>9. Rewritten(r \o p2.img["DDR_PARAM"].cksum, i, q2)
        = Rewritten(r, i, q2) \o p2.img["DDR_PARAM"].cksum
  BY <1>4, <1>6, WrittenInFirst
<1>10. Rewritten(d \o p2.img["BLCP_2ND"].cksum, i, q2)
        = Rewritten(d, i, q2) \o p2.img["BLCP_2ND"].cksum
  BY <1>4, <1>6, <1>8, WrittenInFirst
<1>11. Rewritten(b \o p2.img["MONITOR"].cksum, i, q2)
        = Rewritten(b, i, q2) \o p2.img["MONITOR"].cksum
  BY <1>4, <1>6, <1>8, WrittenInFirst
<1>12. Rewritten(m \o ld, i, q2) = Rewritten(m, i, q2) \o ld
  BY <1>6, <1>8, WrittenInFirst
<1>13. Rewritten(r, i, q2) = UpToRoom(p1, Block(q2))
  BY <1>5, <1>7 DEF UpToRoom, f
<1>14. Rewritten(d, i, q2) = UpToDdr(p1, Block(q2), p2)
  BY <1>9, <1>13 DEF UpToDdr, d, r
<1>15. Rewritten(b, i, q2) = UpToBlcp(p1, Block(q2), p2)
  BY <1>10, <1>14 DEF UpToBlcp, d, b
<1>16. Rewritten(m, i, q2) = UpToMonitor(p1, Block(q2), p2)
  BY <1>11, <1>15 DEF UpToMonitor, b, m
<1> QED  BY <1>7, <1>12, <1>16 DEF Whole, m

\* Nothing is read.
LEMMA SliceOfNothing == ASSUME NEW s, IsSeq(s), NEW addr \in Nat PROVE Slice(s, addr, 0) = <<>>
<1> DEFINE n == IF addr + 0 < Len(s) THEN addr + 0 ELSE Len(s)
<1>1. Len(s) \in Nat
  BY CellsOf
<1>2. n \in Nat /\ n < addr + 1
  BY <1>1
<1>3. Slice(s, addr, 0) = SubSeq(s, addr + 1, n)
  BY DEF Slice
<1> HIDE DEF n
<1>4. s \in Seq(Range(s))
  BY DEF IsSeq
<1>5. SubSeq(s, addr + 1, n) = <<>>
  BY <1>2, <1>4, SubSeqProperties, EmptySeq
<1> QED  BY <1>3, <1>5

\* Everything is in the file where it was put.
LEMMA WholeHolds ==
    ASSUME NEW p1, FirstRecords(p1), NEW p2, \A n \in Body2 : Blocks(p2.img[n].cksum),
           NEW ld, IsSeq(ld), NEW cells, cells = Whole(p1, Block(p2), p2, ld)
    PROVE  /\ IsSeq(cells) /\ Begins(cells, Fip1(p1)) /\ Lies(cells, Len(Fip1(p1)), Block(p2))
           /\ Lies(cells, Len(UpToRoom(p1, Empty)), p2.img["DDR_PARAM"].cksum)
           /\ Lies(cells, Len(UpToDdr(p1, Empty, p2)), p2.img["BLCP_2ND"].cksum)
           /\ Lies(cells, Len(UpToBlcp(p1, Empty, p2)), p2.img["MONITOR"].cksum)
           /\ Lies(cells, Len(UpToMonitor(p1, Empty, p2)), ld)
<1> DEFINE f == Fip1(p1)
           r == UpToRoom(p1, Block(p2))
           d == UpToDdr(p1, Block(p2), p2)
           b == UpToBlcp(p1, Block(p2), p2)
           m == UpToMonitor(p1, Block(p2), p2)
           x == p2.img["DDR_PARAM"].cksum
           y == p2.img["BLCP_2ND"].cksum
           z == p2.img["MONITOR"].cksum
           c == Block(p2)
<1>1. Blocks(c) /\ Len(c) = ParamSize /\ Blocks(Empty) /\ Len(Empty) = ParamSize /\ IsSeq(c)
  BY BlockWritten DEF Blocks
<1>2. Blocks(f) /\ IsSeq(f)
  BY Fip1Is DEF Blocks
<1>3. IsSeq(r) /\ IsSeq(d) /\ IsSeq(b) /\ IsSeq(m)
  BY <1>1, UpToAre DEF Blocks, PartsAre
<1>4. IsSeq(x) /\ IsSeq(y) /\ IsSeq(z)
  BY NameSets DEF Blocks
<1>5. /\ Len(r) = Len(UpToRoom(p1, Empty)) /\ Len(d) = Len(UpToDdr(p1, Empty, p2))
      /\ Len(b) = Len(UpToBlcp(p1, Empty, p2)) /\ Len(m) = Len(UpToMonitor(p1, Empty, p2))
  <2>1. FirstRecords(p1) /\ \A n \in Body2 : Blocks(p2.img[n].cksum)
    OBVIOUS
  <2>2. /\ Len(r) = Len(f) + ParamSize /\ Len(d) = Len(f) + ParamSize + Len(x)
        /\ Len(b) = Len(f) + ParamSize + Len(x) + Len(y)
        /\ Len(m) = Len(f) + ParamSize + Len(x) + Len(y) + Len(z)
    <3>1. PartsAre(p1, c, p2)
      BY <1>1, <2>1, UpToAre, Zenon
    <3> QED  BY <3>1 DEF PartsAre
  <2>3. /\ Len(UpToRoom(p1, Empty)) = Len(f) + ParamSize
        /\ Len(UpToDdr(p1, Empty, p2)) = Len(f) + ParamSize + Len(x)
        /\ Len(UpToBlcp(p1, Empty, p2)) = Len(f) + ParamSize + Len(x) + Len(y)
        /\ Len(UpToMonitor(p1, Empty, p2)) = Len(f) + ParamSize + Len(x) + Len(y) + Len(z)
    <3>1. PartsAre(p1, Empty, p2)
      BY <1>1, <2>1, UpToAre, Zenon
    <3> QED  BY <3>1 DEF PartsAre
  <2> QED  BY <2>2, <2>3
<1>6. /\ r = f \o c /\ d = r \o x /\ b = d \o y /\ m = b \o z /\ cells = m \o ld
  BY DEF UpToRoom, UpToDdr, UpToBlcp, UpToMonitor, Whole
<1> HIDE DEF f, r, d, b, m, x, y, z, c
<1>7. IsSeq(cells) /\ Begins(cells, m) /\ Lies(cells, Len(m), ld)
  BY <1>3, <1>6, Joined, BeginsJoined
<1>8. Begins(m, b) /\ Lies(m, Len(b), z)
  BY <1>3, <1>4, <1>6, BeginsJoined
<1>9. Begins(b, d) /\ Lies(b, Len(d), y)
  BY <1>3, <1>4, <1>6, BeginsJoined
<1>10. Begins(d, r) /\ Lies(d, Len(r), x)
  BY <1>3, <1>4, <1>6, BeginsJoined
<1>11. Begins(r, f) /\ Lies(r, Len(f), c)
  BY <1>1, <1>2, <1>6, BeginsJoined
<1>12. Begins(cells, b)
  BY <1>3, <1>7, <1>8, BeginsOn
<1>13. Begins(cells, d)
  BY <1>3, <1>7, <1>9, <1>12, BeginsOn
<1>14. Begins(cells, r)
  BY <1>3, <1>7, <1>10, <1>13, BeginsOn
<1>15. Begins(cells, f)
  BY <1>2, <1>3, <1>7, <1>11, <1>14, BeginsOn
<1>16. Len(f) \in Nat /\ Len(r) \in Nat /\ Len(d) \in Nat /\ Len(b) \in Nat /\ Len(m) \in Nat
  BY <1>2, <1>3, CellsOf
<1>17. Lies(cells, Len(b), z)
  BY <1>3, <1>4, <1>7, <1>8, <1>16, LiesIn
<1>18. Lies(cells, Len(d), y)
  BY <1>3, <1>4, <1>7, <1>9, <1>12, <1>16, LiesIn
<1>19. Lies(cells, Len(r), x)
  BY <1>3, <1>4, <1>7, <1>10, <1>13, <1>16, LiesIn
<1>20. Lies(cells, Len(f), c)
  BY <1>1, <1>3, <1>7, <1>11, <1>14, <1>16, LiesIn
<1> QED
  BY <1>5, <1>7, <1>15, <1>17, <1>18, <1>19, <1>20 DEF f, x, y, z, c

\* What InOrder says of the parts
LEMMA InOrderParts ==
    ASSUME NEW p1, NEW p2, NEW ld, InOrder(p1, p2, ld)
    PROVE  /\ FirstRecords(p1) /\ IsSeq(ld)
           /\ \A n \in Body2 : IsRecord(p2.img[n]) /\ Blocks(p2.img[n].cksum)
                               /\ IsSeq(p2.img[n].cksum) /\ p2.img[n].size = Len(p2.img[n].cksum)
<1>1. \A n \in Body2 : IsRecord(p2.img[n])
  BY NameSets DEF InOrder, Placed
<1>2. IsSeq(ld)
  <2>1. CASE ld = <<>>
    BY <2>1, ZerosAre, CellsOf DEF Zeros, IsSeq
  <2>2. CASE ld # <<>>
    BY <2>2 DEF InOrder, LoaderPlaced, Blocks
  <2> QED  BY <2>1, <2>2
<1> QED  BY <1>1, <1>2 DEF InOrder, IsRecord, Blocks

\* read_fip() finds the two blocks, every image and the second loader as they were packed.
LEMMA ReadAsWritten ==
    ASSUME NEW cells, NEW p1, NEW p2, NEW ld, WrittenOut(cells, p1, p2, ld)
    PROVE  /\ cells[1] = p1 /\ SecondOf(cells) = p2 /\ LoaderOf(cells) = ld
           /\ Slice(cells, ParamSize, p1.img["BLCP"].size) = p1.img["BLCP"].cksum
           /\ Slice(cells, ParamSize + p1.img["BLCP"].size, p1.img["BL2"].size)
                = p1.img["BL2"].cksum
           /\ \A n \in Body2 : Slice(cells, p2.img[n].loadaddr, p2.img[n].size) = p2.img[n].cksum
           /\ Settled(cells)
<1>1. InOrder(p1, p2, ld) /\ cells = Whole(p1, Block(p2), p2, ld)
  BY DEF WrittenOut
<1>2. /\ FirstRecords(p1) /\ IsSeq(ld)
      /\ \A n \in Body2 : Blocks(p2.img[n].cksum) /\ IsSeq(p2.img[n].cksum)
                          /\ p2.img[n].size = Len(p2.img[n].cksum)
  BY <1>1, InOrderParts
<1>3. /\ IsSeq(cells) /\ Begins(cells, Fip1(p1)) /\ Lies(cells, Len(Fip1(p1)), Block(p2))
      /\ Lies(cells, Len(UpToRoom(p1, Empty)), p2.img["DDR_PARAM"].cksum)
      /\ Lies(cells, Len(UpToDdr(p1, Empty, p2)), p2.img["BLCP_2ND"].cksum)
      /\ Lies(cells, Len(UpToBlcp(p1, Empty, p2)), p2.img["MONITOR"].cksum)
      /\ Lies(cells, Len(UpToMonitor(p1, Empty, p2)), ld)
  BY <1>1, <1>2, WholeHolds
<1>4. /\ Blocks(Fip1(p1)) /\ IsSeq(Fip1(p1)) /\ Fip1(p1)[1] = p1 /\ Len(Fip1(p1)) \in Nat \ {0}
      /\ Lies(Fip1(p1), ParamSize, p1.img["BLCP"].cksum)
      /\ Lies(Fip1(p1), ParamSize + Len(p1.img["BLCP"].cksum), p1.img["BL2"].cksum)
  BY <1>2, Fip1Is DEF Blocks
<1>5. /\ IsSeq(p1.img["BLCP"].cksum) /\ IsSeq(p1.img["BL2"].cksum)
      /\ Len(p1.img["BLCP"].cksum) \in Nat
      /\ p1.img["BLCP"].size = Len(p1.img["BLCP"].cksum)
      /\ p1.img["BL2"].size = Len(p1.img["BL2"].cksum)
  <2>1. \A n \in Body1 : /\ IsSeq(p1.img[n].cksum)
                         /\ p1.img[n] = [cksum |-> p1.img[n].cksum, size |-> Len(p1.img[n].cksum)]
    BY <1>2 DEF FirstRecords, Blocks
  <2>2. ASSUME NEW n \in Body1 PROVE p1.img[n].size = Len(p1.img[n].cksum)
    <3> DEFINE c == p1.img[n].cksum
               img == p1.img[n]
    <3>1. img = [cksum |-> c, size |-> Len(c)]
      BY <2>1
    <3> HIDE DEF c, img
    <3>2. img.size = Len(c)
      BY <3>1
    <3> QED  BY <3>2 DEF c, img
  <2> QED  BY <2>1, <2>2, NameSets, CellsOf
<1>6. ParamSize \in Nat \ {0}
  BY FipAssumption
<1>7. cells[1] = p1
  <2>1. cells[0 + 1] = Fip1(p1)[1]
    BY <1>3, <1>4 DEF Begins, Lies
  <2> QED  BY <2>1, <1>4
<1>8. SecondOf(cells) = p2
  <2>1. Block(p2)[1] = p2 /\ Len(Block(p2)) = ParamSize
    BY BlockIs
  <2>2. cells[Len(Fip1(p1)) + 1] = Block(p2)[1]
    BY <1>3, <1>6, <2>1 DEF Lies
  <2> QED  BY <2>1, <2>2, <1>1, <1>7 DEF SecondOf, InOrder
<1>9. LoaderOf(cells) = ld
  <2>1. CASE ld = <<>>
    BY <2>1, <1>1, <1>8 DEF LoaderOf, InOrder, LoaderPlaced
  <2>2. CASE ld # <<>>
    <3>1. p2.loader_2nd = Len(UpToMonitor(p1, Empty, p2)) /\ ld[1].size = Len(ld)
      BY <2>2, <1>1 DEF InOrder, LoaderPlaced
    <3>2. Len(ld) \in Nat \ {0}
      BY <2>2, <1>2, CellsOf
    <3>3. Len(UpToMonitor(p1, Empty, p2)) \in Nat \ {0}
      <4>1. /\ Blocks(Empty) /\ Len(Empty) = ParamSize
            /\ \A n \in Body2 : Blocks(p2.img[n].cksum)
        BY <1>2, BlockWritten
      <4> DEFINE x == Len(p2.img["DDR_PARAM"].cksum)
                 y == Len(p2.img["BLCP_2ND"].cksum)
                 z == Len(p2.img["MONITOR"].cksum)
      <4>2. Len(UpToMonitor(p1, Empty, p2)) = Len(Fip1(p1)) + ParamSize + x + y + z
        BY <4>1, <1>2, UpToAre DEF PartsAre
      <4>3. x \in Nat /\ y \in Nat /\ z \in Nat
        BY <1>2, NameSets, CellsOf
      <4> HIDE DEF x, y, z
      <4> QED  BY <4>2, <4>3, <1>4, <1>6
    <3>4. cells[Len(UpToMonitor(p1, Empty, p2)) + 1] = ld[1]
      BY <3>2, <1>3 DEF Lies
    <3>5. Slice(cells, Len(UpToMonitor(p1, Empty, p2)), Len(ld)) = ld
      BY <3>3, <1>2, <1>3, SliceIs
    <3> QED  BY <3>1, <3>3, <3>4, <3>5, <1>8 DEF LoaderOf
  <2> QED  BY <2>1, <2>2
<1>10. /\ Slice(cells, ParamSize, p1.img["BLCP"].size) = p1.img["BLCP"].cksum
       /\ Slice(cells, ParamSize + p1.img["BLCP"].size, p1.img["BL2"].size) = p1.img["BL2"].cksum
  <2> DEFINE a == p1.img["BLCP"].cksum
             b == p1.img["BL2"].cksum
  <2>1. ParamSize \in Nat /\ ParamSize + Len(a) \in Nat
    BY <1>5, <1>6
  <2> HIDE DEF a, b
  <2>2. Lies(cells, ParamSize, a) /\ Lies(cells, ParamSize + Len(a), b)
    BY <2>1, <1>3, <1>4, <1>5, LiesIn DEF a, b
  <2>3. Slice(cells, ParamSize, Len(a)) = a /\ Slice(cells, ParamSize + Len(a), Len(b)) = b
    BY <2>1, <2>2, <1>3, <1>5, SliceIs DEF a, b
  <2> QED  BY <2>3, <1>5 DEF a, b
<1>11. ASSUME NEW n \in Body2
       PROVE  Slice(cells, p2.img[n].loadaddr, p2.img[n].size) = p2.img[n].cksum
  <2>1. p2.img[n].loadaddr \in Nat
    BY DEF WrittenOut, IsParam2
  <2>2. CASE p2.img[n].cksum # <<>>
    <3>1. Lies(cells, p2.img[n].loadaddr, p2.img[n].cksum)
      BY <1>1, <1>3, <2>2, NameSets DEF InOrder, Placed
    <3> QED  BY <3>1, <2>1, <1>2, <1>3, SliceIs
  <2>3. CASE p2.img[n].cksum = <<>>
    <3>1. p2.img[n].size = 0
      BY <2>3, <1>2, CellsOf
    <3> QED  BY <3>1, <2>1, <2>3, <1>3, SliceOfNothing
  <2> QED  BY <2>2, <2>3
<1> QED  BY <1>7, <1>8, <1>9, <1>10, <1>11 DEF Settled

-----------------------------------------------------------------------------
\* The steps of a run

\* The parts of the invariants that a run at work has
LEMMA AtWork ==
    ASSUME FipInv, stage \in Making
    PROVE  /\ GivenInv /\ IsParam1(param1, given) /\ IsParam2(param2)
           /\ Images1(body1, given) /\ Images2(body2, given) /\ LoaderKept(param2, loader, given)
           /\ \A n \in Body1 : Blocks(body1[n]) /\ IsSeq(body1[n])
           /\ \A n \in Body2 : IsSeq(body2[n])
BY DEF FipInv, PackingInv, ObjectInv, Images1, Images2, Blocks

\* The file that is read
LEMMA FileIs ==
    ASSUME FipInv, AgainInv, args.old
    PROVE  /\ Settled(file)
           /\ Slice(file, ParamSize, file[1].img["BLCP"].size) = file[1].img["BLCP"].cksum
           /\ Slice(file, ParamSize + file[1].img["BLCP"].size, file[1].img["BL2"].size)
                = file[1].img["BL2"].cksum
           /\ \A n \in Body2 : Slice(file, SecondOf(file).img[n].loadaddr, SecondOf(file).img[n].size)
                                 = SecondOf(file).img[n].cksum
           /\ InOrder(file[1], SecondOf(file), LoaderOf(file))
           /\ IsSealed(file[1]) /\ IsSealed(SecondOf(file)) /\ IsParam2(SecondOf(file))
<1>1. Settled(file)
  BY DEF AgainInv, SettledInv
<1>2. WrittenOut(file, file[1], SecondOf(file), LoaderOf(file))
  BY <1>1 DEF Settled
<1> QED  BY <1>1, <1>2, ReadAsWritten DEF WrittenOut

\* FIP.__init__()
LEMMA AgainStarts == FipInit => AgainInv
<1> SUFFICES ASSUME FipInit PROVE AgainInv
  OBVIOUS
<1>1. stage = "start" /\ ~args.old /\ param2 = EmptyParam2
  BY DEF FipInit
<1>2. ASSUME NEW n \in Body2
      PROVE  IsRecord(param2.img[n]) /\ param2.img[n].cksum = <<>> /\ body2[n] = <<>>
  <2>1. param2.img[n] = [cksum |-> <<>>, loadaddr |-> 0, size |-> 0, runaddr |-> 0]
    BY <1>1 DEF EmptyParam2
  <2>2. Len(<<>>) = 0 /\ IsSeq(<<>>) /\ 0 % Align = 0
    <3>1. Zeros(0) = <<>> /\ IsSeq(Zeros(0))
      BY ZerosAre, CellsOf
    <3> QED  BY <3>1, CellsOf, FipAssumption
  <2>3. body2[n] = <<>>
    BY DEF FipInit
  <2> QED  BY <2>1, <2>2, <2>3 DEF IsRecord, Blocks
<1>3. RecordsInv
  BY <1>2 DEF RecordsInv
<1> QED
  BY <1>1, <1>3 DEF AgainInv, LayoutInv, SettledInv, UnchangedInv, Making, Filling2

\* No file is read.
LEMMA AgainNewFip == FipInv /\ AgainInv /\ NewFip => AgainInv'
BY DEF AgainInv, NewFip, Step, object, RecordsInv, LayoutInv, SettledInv, UnchangedInv, Making, Filling2

\* read_fip(): everything is as the run before had packed it.
LEMMA AgainReadFip == FipInv /\ AgainInv /\ ReadFip => AgainInv'
<1> SUFFICES ASSUME FipInv, AgainInv, ReadFip PROVE AgainInv'
  OBVIOUS
<1> DEFINE p1 == file[1]
           p2 == SecondOf(file)
<1>1. stage = "start" /\ stage' = "add" /\ args.old /\ UNCHANGED <<args, runs, fip_bin, file, given>>
  BY DEF ReadFip, Step
<1>2. /\ Settled(file) /\ InOrder(p1, p2, LoaderOf(file)) /\ IsParam2(p2)
      /\ Slice(file, ParamSize, p1.img["BLCP"].size) = p1.img["BLCP"].cksum
      /\ Slice(file, ParamSize + p1.img["BLCP"].size, p1.img["BL2"].size) = p1.img["BL2"].cksum
      /\ \A n \in Body2 : Slice(file, p2.img[n].loadaddr, p2.img[n].size) = p2.img[n].cksum
  BY <1>1, FileIs
<1>3. param1' = p1
  BY DEF ReadFip
<1>4. param2' = p2
  <2>1. param2' \in ReadParam2(p2)
    BY DEF ReadFip, SecondOf
  <2>2. p2.k = "param2"
    BY <1>2 DEF IsParam2
  <2> QED  BY <2>1, <2>2 DEF ReadParam2
<1>5. loader' = LoaderOf(file)
  <2>1. loader = <<>>
    BY <1>1 DEF FipInv, BeginInv
  <2>2. loader' = ReadLoader(p2)
    BY <1>4 DEF ReadFip
  <2> QED  BY <2>1, <2>2 DEF ReadLoader, LoaderOf
<1>6. \A n \in Body1 : body1'[n] = p1.img[n].cksum
  <2>1. body1'["BLCP"] = Slice(file, ParamSize, p1.img["BLCP"].size)
    BY DEF ReadFip, Body1
  <2>2. body1'["BL2"] = Slice(file, ParamSize + p1.img["BLCP"].size, p1.img["BL2"].size)
    BY DEF ReadFip, Body1
  <2> QED  BY <2>1, <2>2, <1>2 DEF Body1
<1>7. \A n \in Body2 : body2'[n] = p2.img[n].cksum
  <2>1. \A n \in Body2 : body2'[n] = Slice(file, param2'.img[n].loadaddr, param2'.img[n].size)
    BY DEF ReadFip
  <2> QED  BY <2>1, <1>2, <1>4
<1> HIDE DEF p1, p2
<1>8. \A n \in Body2 : IsRecord(p2.img[n])
  BY <1>2, InOrderParts
<1>9. \A n \in Body2 : p2.img[n].cksum # <<>> /\ n # "DDR_PARAM" => p2.img[n].runaddr # 0
  BY <1>2, NameSets DEF InOrder, Placed
<1>10. RecordsInv'
  BY <1>4, <1>7, <1>8, <1>9 DEF RecordsInv
<1>11. UnchangedInv'
  BY <1>1, <1>3, <1>4, <1>5, <1>6, <1>7 DEF UnchangedInv, p1, p2
<1>12. SettledInv'
  BY <1>1, <1>2 DEF SettledInv
<1>13. LayoutInv'
  BY <1>1 DEF LayoutInv, Filling2
<1> QED  BY <1>10, <1>11, <1>12, <1>13 DEF AgainInv

\* The add_*(): no image of the second part is empty, and without images nothing changes.
LEMMA AgainAddImages == FipInv /\ AgainInv /\ NothingEmpty /\ AddImages => AgainInv'
<1> SUFFICES ASSUME FipInv, AgainInv, NothingEmpty, AddImages PROVE AgainInv'
  OBVIOUS
<1>1. /\ stage = "add" /\ stage' = "fip1" /\ stage \in Making
      /\ UNCHANGED <<args, runs, param2, fip_bin, file>>
  BY DEF AddImages, Step, Making
<1>2. GivenInv /\ IsParam1(param1, given)
  BY <1>1, AtWork
<1>3. RecordsInv'
  <2>1. ASSUME NEW n \in Body2, body2'[n] = <<>> PROVE body2[n] = <<>>
    <3>1. body2'[n] = Kept(n, body2[n])
      BY DEF AddImages
    <3>2. n \in Images => args.images[n] # <<>>
      BY <1>2 DEF GivenInv, NothingEmpty, Images
    <3> QED  BY <2>1, <3>1, <3>2 DEF Kept
  <2>2. ASSUME NEW n \in Body2, n # "DDR_PARAM", body2'[n] # <<>>
        PROVE  body2[n] # <<>> \/ args.runaddr # 0
    <3>1. body2'[n] = Kept(n, body2[n])
      BY DEF AddImages
    <3>2. n \in Images => args.runaddr # 0
      BY <1>2, <2>2 DEF GivenInv, NothingEmpty, Images
    <3> QED  BY <2>2, <3>1, <3>2 DEF Kept
  <2> QED  BY <1>1, <2>1, <2>2 DEF AgainInv, RecordsInv
<1>4. UnchangedInv'
  <2> SUFFICES ASSUME args.old, Images = {}
               PROVE  /\ param1' = file[1] /\ param2' = SecondOf(file) /\ loader' = LoaderOf(file)
                      /\ \A n \in Body1 : body1'[n] = file[1].img[n].cksum
                      /\ \A n \in Body2 : body2'[n] = SecondOf(file).img[n].cksum
    BY <1>1 DEF UnchangedInv, Images
  <2>1. /\ param1 = file[1] /\ param2 = SecondOf(file) /\ loader = LoaderOf(file)
        /\ \A n \in Body1 : body1[n] = file[1].img[n].cksum
        /\ \A n \in Body2 : body2[n] = SecondOf(file).img[n].cksum
    BY <1>1 DEF AgainInv, UnchangedInv
  <2>2. param1' = param1
    <3>1. param1' = [param1 EXCEPT !.info = [n \in Infos |-> param1.info[n]],
                                   !.blcp_runaddr = param1.blcp_runaddr]
      BY DEF AddImages, WithFields
    <3>2. param1.info = [n \in Infos |-> param1.info[n]]
      BY <1>2 DEF IsParam1
    <3>3. param1 = [f \in DOMAIN param1 |-> param1[f]]
      BY <1>2 DEF IsParam1
    <3> QED  BY <3>1, <3>2, <3>3, <1>2, Param1Fields
  <2>3. loader' = loader
    BY DEF AddImages, Kept
  <2>4. \A n \in Body1 : body1'[n] = body1[n]
    BY DEF AddImages
  <2>5. \A n \in Body2 : body2'[n] = body2[n]
    BY DEF AddImages, Kept
  <2> QED  BY <1>1, <2>1, <2>2, <2>3, <2>4, <2>5
<1>5. SettledInv'
  BY <1>1 DEF AgainInv, SettledInv
<1>6. LayoutInv'
  BY <1>1 DEF LayoutInv, Filling2
<1> QED  BY <1>3, <1>4, <1>5, <1>6 DEF AgainInv

\* make_fip1(): an unchanged first block is sealed already.
LEMMA AgainMakeFip1 == FipInv /\ AgainInv /\ MakeFip1 /\ FipInv' => AgainInv'
<1> SUFFICES ASSUME FipInv, AgainInv, MakeFip1, FipInv' PROVE AgainInv'
  OBVIOUS
<1>1. /\ stage = "fip1" /\ stage \in Making
      /\ UNCHANGED <<args, runs, body1, param2, body2, loader, file, given>>
  BY DEF MakeFip1, Step, Making
<1>2. /\ IsParam1(param1, given) /\ \A n \in Body1 : Blocks(body1[n]) /\ IsSeq(body1[n])
  BY <1>1, AtWork
<1>3. stage' = "insert"
  <2>1. stage' \in {"write", "insert"}
    BY DEF MakeFip1, Step
  <2>2. given["DDR_PARAM"] # <<>> /\ IsSeq(given["DDR_PARAM"])
    BY <1>1, AtWork, NameSets DEF GivenInv
  <2>3. IsSeq(body2["DDR_PARAM"]) /\ Begins(body2["DDR_PARAM"], given["DDR_PARAM"])
    BY <1>1, AtWork DEF Images2, Body2
  <2>4. body2["DDR_PARAM"] # <<>>
    BY <2>2, <2>3, CellsOf DEF Begins, Lies
  <2> QED  BY <2>4 DEF MakeFip1, Step
<1> DEFINE c == [param1 EXCEPT !.conf_size = Len(param1.info["CHIP_CONF"]), !.img =
                    [n \in Body1 |-> [cksum |-> Crc(body1[n]), size |-> Len(body1[n])]]]
<1>4. /\ "cksum" \in DOMAIN c /\ DOMAIN c = DOMAIN param1
      /\ c.conf_size = Len(param1.info["CHIP_CONF"]) /\ c.info = param1.info
      /\ c.img = [n \in Body1 |-> [cksum |-> Crc(body1[n]), size |-> Len(body1[n])]]
  BY <1>2, Param1Fields
<1>5. param1' = Sealed(c) /\ fip_bin' = Fip1(param1')
  <2>1. param1' = Sealed(c) /\ fip_bin' = Block(param1') \o body1["BLCP"] \o body1["BL2"]
    BY DEF MakeFip1
  <2>2. param1'.img = c.img
    <3> HIDE DEF c
    <3>1. "img" \in DOMAIN c
      BY <1>2, <1>4, Param1Fields
    <3> QED  BY <2>1, <3>1, <1>4, SealedIs
  <2>3. param1'.img["BLCP"].cksum = body1["BLCP"] /\ param1'.img["BL2"].cksum = body1["BL2"]
    BY <2>2, <1>4 DEF Body1, Crc
  <2> QED  BY <2>1, <2>3 DEF Fip1
<1>6. /\ param1'.conf_size = Len(param1'.info["CHIP_CONF"])
      /\ param1'.img = [n \in Body1 |-> [cksum |-> Crc(body1[n]), size |-> Len(body1[n])]]
  <2> HIDE DEF c
  <2> QED  BY <1>2, <1>4, <1>5, Param1Fields, SealedIs
<1>7. FirstRecords(param1')
  BY <1>2, <1>6 DEF FirstRecords, Crc
<1>8. LayoutInv'
  BY <1>3, <1>5, <1>7 DEF LayoutInv, Filling2
<1>9. RecordsInv'
  BY <1>1, <1>3 DEF AgainInv, RecordsInv, Making
<1>10. UnchangedInv'
  <2> SUFFICES ASSUME args.old, Images = {}
               PROVE  param1' = file[1]
    BY <1>1, <1>3 DEF AgainInv, UnchangedInv, Images, Making
  <2>1. /\ param1 = file[1] /\ \A n \in Body1 : body1[n] = param1.img[n].cksum
    BY <1>1 DEF AgainInv, UnchangedInv
  <2>2. IsSealed(param1) /\ FirstRecords(param1)
    BY <2>1, FileIs DEF InOrder
  <2>3. /\ param1.conf_size = Len(param1.info["CHIP_CONF"])
        /\ param1.img = [n \in Body1 |-> [cksum |-> Crc(body1[n]), size |-> Len(body1[n])]]
    BY <2>1, <2>2 DEF FirstRecords, Crc
  <2>4. param1 = [f \in DOMAIN param1 |-> param1[f]]
    BY <1>2 DEF IsParam1
  <2>5. c = param1
    BY <2>3, <2>4, <1>2, Param1Fields
  <2> HIDE DEF c
  <2> QED  BY <2>1, <2>2, <2>5, <1>5 DEF IsSealed
<1>11. SettledInv'
  BY <1>1, <1>3 DEF AgainInv, SettledInv
<1> QED  BY <1>8, <1>9, <1>10, <1>11 DEF AgainInv

\* append_fip2() begins: so it is with its address of the second block.
LEMMA AgainInsert == FipInv /\ AgainInv /\ InsertParam2 => AgainInv'
<1> SUFFICES ASSUME FipInv, AgainInv, InsertParam2 PROVE AgainInv'
  OBVIOUS
<1>1. /\ stage = "insert" /\ stage' = "ddr" /\ stage \in Making
      /\ UNCHANGED <<args, runs, body1, param2, body2, loader, file, given>>
  BY DEF InsertParam2, Step, Making
<1>2. IsParam1(param1, given)
  BY <1>1, AtWork
<1>3. FirstRecords(param1) /\ fip_bin = Fip1(param1)
  BY <1>1 DEF AgainInv, LayoutInv
<1> DEFINE c == [param1 EXCEPT !.param2_loadaddr = Len(fip_bin)]
<1>4. /\ "cksum" \in DOMAIN c /\ DOMAIN c = DOMAIN param1 /\ c.conf_size = param1.conf_size
      /\ c.info = param1.info /\ c.img = param1.img /\ c.param2_loadaddr = Len(fip_bin)
  BY <1>2, Param1Fields
<1>5. /\ param1' = Sealed(c)
      /\ fip_bin' = [fip_bin EXCEPT ![1] = param1'] \o Zeros(ParamSize)
  BY DEF InsertParam2
<1>6. /\ param1'.conf_size = param1.conf_size /\ param1'.info = param1.info
      /\ param1'.img = param1.img /\ param1'.param2_loadaddr = Len(fip_bin)
  <2> HIDE DEF c
  <2> QED  BY <1>2, <1>4, <1>5, Param1Fields, SealedIs
<1>7. FirstRecords(param1')
  BY <1>3, <1>6 DEF FirstRecords
<1>8. fip_bin' = UpToRoom(param1', Empty)
  <2>1. Rewritten(Fip1(param1), 1, param1') = Fip1(param1')
    BY <1>3, <1>6, Fip1Written
  <2> QED  BY <2>1, <1>3, <1>5 DEF Rewritten, UpToRoom, Empty
<1>9. Len(Fip1(param1')) = Len(Fip1(param1))
  <2>1. /\ Len(Fip1(param1')) = ParamSize + Len(param1'.img["BLCP"].cksum)
                                  + Len(param1'.img["BL2"].cksum)
    BY <1>7, Fip1Is
  <2>2. /\ Len(Fip1(param1)) = ParamSize + Len(param1.img["BLCP"].cksum)
                                  + Len(param1.img["BL2"].cksum)
    BY <1>3, Fip1Is
  <2> QED  BY <2>1, <2>2, <1>6
<1>10. LayoutInv'
  BY <1>1, <1>3, <1>6, <1>7, <1>8, <1>9 DEF LayoutInv, Filling2
<1>11. RecordsInv'
  BY <1>1 DEF AgainInv, RecordsInv, Making, Filling2
<1>12. UnchangedInv'
  <2> SUFFICES ASSUME args.old, Images = {}
               PROVE  param1' = file[1]
    BY <1>1 DEF AgainInv, UnchangedInv, Images, Making, Filling2
  <2>1. param1 = file[1]
    BY <1>1 DEF AgainInv, UnchangedInv
  <2>2. IsSealed(param1) /\ param1.param2_loadaddr = Len(fip_bin)
    BY <2>1, <1>3, FileIs DEF InOrder
  <2>4. param1 = [f \in DOMAIN param1 |-> param1[f]]
    BY <1>2 DEF IsParam1
  <2>5. c = param1
    BY <2>2, <2>4, <1>2, Param1Fields
  <2> HIDE DEF c
  <2> QED  BY <2>1, <2>2, <2>5, <1>5 DEF IsSealed
<1>13. SettledInv'
  BY <1>1 DEF AgainInv, SettledInv
<1> QED  BY <1>10, <1>11, <1>12, <1>13 DEF AgainInv

\* pack_ddr_param(), pack_blcp_2nd(), pack_monitor(): an image goes where the file ends, and one
\* that is there already stays there.
LEMMA AgainPackOne ==
    ASSUME FipInv, RecordsInv, NEW name \in Body2, NEW from, NEW to,
           from \in Filling2, Pack(name, from, to), Blocks(fip_bin)
    PROVE  /\ Placed(param2', name, fip_bin)
           /\ fip_bin' = fip_bin \o param2'.img[name].cksum
           /\ \A n \in Body2 : n # name => param2'.img[n] = param2.img[n]
           /\ \A n \in Body2 : /\ IsRecord(param2'.img[n])
                               /\ body2[n] = <<>> => param2'.img[n].cksum = <<>>
                               /\ param2'.img[n].cksum # <<>> /\ n # "DDR_PARAM" =>
                                      param2'.img[n].runaddr # 0
                               /\ body2[n] # <<>> /\ n # "DDR_PARAM" =>
                                      param2'.img[n].runaddr # 0 \/ args.runaddr # 0
           /\ param2'.loader_2nd = param2.loader_2nd
           /\ body2[name] = param2.img[name].cksum /\ Placed(param2, name, fip_bin)
                => param2' = param2
<1>1. /\ stage = from /\ stage \in Making /\ args \in Args
      /\ UNCHANGED <<args, runs, param1, body1, body2, loader, file, given>>
  BY DEF Pack, Step, Making, FipInv, GivenInv
<1>2. IsParam2(param2) /\ IsSeq(body2[name])
  BY <1>1, AtWork
<1>3. \A n \in Body2 : /\ IsRecord(param2.img[n])
                       /\ body2[n] = <<>> => param2.img[n].cksum = <<>>
                       /\ param2.img[n].cksum # <<>> /\ n # "DDR_PARAM" => param2.img[n].runaddr # 0
                       /\ body2[n] # <<>> /\ n # "DDR_PARAM" =>
                              param2.img[n].runaddr # 0 \/ args.runaddr # 0
  BY <1>1 DEF RecordsInv
<1>4. CASE body2[name] = <<>>
  <2>1. param2' = param2 /\ fip_bin' = fip_bin
    BY <1>4 DEF Pack
  <2>2. param2.img[name].cksum = <<>> /\ IsRecord(param2.img[name])
    BY <1>3, <1>4
  <2>3. Placed(param2, name, fip_bin)
    BY <2>2 DEF Placed
  <2>4. fip_bin = fip_bin \o <<>>
    BY JoinedNothing DEF Blocks
  <2> QED  BY <2>1, <2>2, <2>3, <2>4, <1>3
<1>5. CASE body2[name] # <<>>
  <2> DEFINE padded == Pad(body2[name])
             start == Pad(fip_bin)
             old == param2.img[name].runaddr
             run == IF name = "DDR_PARAM" THEN 0 ELSE IF old # 0 THEN old ELSE args.runaddr
             record == [cksum |-> Crc(padded), loadaddr |-> Len(start), size |-> Len(padded),
                        runaddr |-> run]
             d == [param2 EXCEPT !.img[name] = record]
  <2>1. param2' = d /\ fip_bin' = start \o padded
    BY <1>5 DEF Pack
  <2>2. start = fip_bin /\ IsSeq(fip_bin) /\ Len(fip_bin) \in Nat
    BY PadsNothing, CellsOf DEF Blocks
  <2>3. Blocks(padded) /\ Len(padded) \in Nat
    BY <1>2, Padded, CellsOf DEF Blocks
  <2>4. /\ record.cksum = padded /\ record.loadaddr = Len(fip_bin) /\ record.size = Len(padded)
        /\ record.runaddr = run
        /\ record = [cksum |-> record.cksum, loadaddr |-> record.loadaddr, size |-> record.size,
                     runaddr |-> record.runaddr]
    BY <2>2 DEF Crc
  <2>5. IF name = "DDR_PARAM" THEN run = 0 ELSE run # 0
    BY <1>3, <1>5
  <2>11. body2[name] = param2.img[name].cksum /\ Placed(param2, name, fip_bin) => d = param2
    <3> SUFFICES ASSUME body2[name] = param2.img[name].cksum, Placed(param2, name, fip_bin)
                 PROVE  d = param2
      OBVIOUS
    <3> DEFINE img == param2.img[name]
    <3>1. /\ img = [cksum |-> img.cksum, loadaddr |-> img.loadaddr, size |-> img.size,
                    runaddr |-> img.runaddr]
          /\ Blocks(img.cksum) /\ img.size = Len(img.cksum) /\ img.loadaddr = Len(fip_bin)
          /\ IF name = "DDR_PARAM" THEN img.runaddr = 0 ELSE img.runaddr # 0
      BY <1>5 DEF Placed, IsRecord
    <3>2. padded = img.cksum
      BY <3>1, PadsNothing
    <3>3. run = img.runaddr
      BY <3>1
    <3> HIDE DEF padded, run, start
    <3>4. record = img
      BY <3>1, <3>2, <3>3, <2>2 DEF Crc
    <3> HIDE DEF record
    <3>5. /\ param2 = [k |-> "param2", magic |-> "CVLD02", cksum |-> param2.cksum,
                       loader_2nd |-> param2.loader_2nd, img |-> param2.img]
          /\ param2.img = [n \in Body2 |-> param2.img[n]]
      BY <1>2 DEF IsParam2
    <3>6. [param2.img EXCEPT ![name] = record] = param2.img
      BY <3>4, <3>5
    <3> QED  BY <3>5, <3>6
  <2> HIDE DEF padded, start, run, record
  <2>6. /\ d.img[name] = record /\ \A n \in Body2 : n # name => d.img[n] = param2.img[n]
        /\ d.loader_2nd = param2.loader_2nd
    <3>1. record.loadaddr \in Nat /\ record.size \in Nat
      BY <2>2, <2>3, <2>4
    <3>2. /\ param2'.img[name] = record /\ \A n \in Body2 : n # name => param2'.img[n] = param2.img[n]
          /\ param2'.loader_2nd = param2.loader_2nd
      BY <1>2, <2>1, <3>1, Param2With
    <3> HIDE DEF d
    <3> QED  BY <2>1, <3>2
  <2> HIDE DEF d
  <2>7. IsRecord(d.img[name])
    BY <2>3, <2>4, <2>6 DEF IsRecord
  <2>8. Placed(d, name, fip_bin)
    BY <2>4, <2>5, <2>6, <2>7 DEF Placed
  <2>9. fip_bin' = fip_bin \o d.img[name].cksum
    BY <2>1, <2>2, <2>4, <2>6
  <2>10. ASSUME NEW n \in Body2
         PROVE  /\ IsRecord(d.img[n]) /\ (body2[n] = <<>> => d.img[n].cksum = <<>>)
                /\ d.img[n].cksum # <<>> /\ n # "DDR_PARAM" => d.img[n].runaddr # 0
                /\ body2[n] # <<>> /\ n # "DDR_PARAM" => d.img[n].runaddr # 0 \/ args.runaddr # 0
    <3>1. CASE n = name
      BY <3>1, <1>5, <2>4, <2>5, <2>6, <2>7
    <3>2. CASE n # name
      BY <3>2, <1>3, <2>6
    <3> QED  BY <3>1, <3>2
  <2> QED  BY <2>1, <2>6, <2>8, <2>9, <2>10, <2>11
<1> QED  BY <1>4, <1>5

\* Blocks of the second part stay where they are while the second block gets another record.
LEMMA PlacedStays ==
    ASSUME NEW p2, NEW q2, NEW n, NEW start, q2.img[n] = p2.img[n], Placed(p2, n, start)
    PROVE  Placed(q2, n, start)
BY DEF Placed

\* The file so far is made of whole blocks.
LEMMA BlocksSoFar ==
    ASSUME FipInv, AgainInv, stage \in {"ddr", "blcp_2nd", "monitor", "loader"}
    PROVE  /\ Blocks(fip_bin) /\ FirstRecords(param1) /\ param1.param2_loadaddr = Len(Fip1(param1))
           /\ \A n \in Body2 : Blocks(param2.img[n].cksum)
<1>1. FirstRecords(param1) /\ param1.param2_loadaddr = Len(Fip1(param1)) /\ stage \in Making
  BY DEF AgainInv, LayoutInv, Filling2, Making
<1>2. \A n \in Body2 : Blocks(param2.img[n].cksum)
  BY <1>1 DEF AgainInv, RecordsInv, IsRecord
<1>3. Blocks(Empty) /\ Len(Empty) = ParamSize
  BY BlockWritten
<1>4. /\ Blocks(UpToRoom(param1, Empty)) /\ Blocks(UpToDdr(param1, Empty, param2))
      /\ Blocks(UpToBlcp(param1, Empty, param2)) /\ Blocks(UpToMonitor(param1, Empty, param2))
  BY <1>1, <1>2, <1>3, UpToAre DEF PartsAre
<1> QED  BY <1>1, <1>2, <1>4 DEF AgainInv, LayoutInv

\* pack_ddr_param() puts the parameters behind the room of the second block; those of the file
\* that was read get the place they had.
LEMMA AgainPackDdr == FipInv /\ AgainInv /\ PackDdrParam => AgainInv'
<1> SUFFICES ASSUME FipInv, AgainInv, PackDdrParam PROVE AgainInv'
  OBVIOUS
<1> DEFINE name == "DDR_PARAM"
<1>1. /\ stage = "ddr" /\ stage' = "blcp_2nd" /\ Pack(name, "ddr", "blcp_2nd") /\ name \in Body2
      /\ UNCHANGED <<args, runs, param1, body1, body2, loader, file, given>>
      /\ fip_bin = UpToRoom(param1, Empty)
  BY DEF PackDdrParam, Pack, Step, Body2, AgainInv, LayoutInv
<1>2. /\ Placed(param2', name, fip_bin) /\ fip_bin' = fip_bin \o param2'.img[name].cksum
      /\ \A n \in Body2 : n # name => param2'.img[n] = param2.img[n]
      /\ \A n \in Body2 : /\ IsRecord(param2'.img[n])
                          /\ body2[n] = <<>> => param2'.img[n].cksum = <<>>
                          /\ param2'.img[n].cksum # <<>> /\ n # "DDR_PARAM" =>
                                 param2'.img[n].runaddr # 0
                          /\ body2[n] # <<>> /\ n # "DDR_PARAM" =>
                                 param2'.img[n].runaddr # 0 \/ args.runaddr # 0
      /\ body2[name] = param2.img[name].cksum /\ Placed(param2, name, fip_bin) => param2' = param2
  BY <1>1, BlocksSoFar, AgainPackOne DEF AgainInv, Filling2
<1>3. FirstRecords(param1) /\ param1.param2_loadaddr = Len(Fip1(param1))
  BY <1>1, BlocksSoFar
<1>4. fip_bin' = UpToDdr(param1, Empty, param2')
  BY <1>1, <1>2 DEF UpToDdr
<1>5. LayoutInv'
  BY <1>1, <1>2, <1>3, <1>4 DEF LayoutInv, Filling2
<1>6. RecordsInv'
  BY <1>1, <1>2 DEF RecordsInv
<1>7. SettledInv'
  BY <1>1 DEF AgainInv, SettledInv
<1>8. UnchangedInv'
  <2> SUFFICES ASSUME args.old, Images = {} PROVE param2' = param2
    BY <1>1 DEF AgainInv, UnchangedInv, Images, Making, Filling2
  <2>1. /\ param1 = file[1] /\ param2 = SecondOf(file) /\ body2[name] = param2.img[name].cksum
    BY <1>1 DEF AgainInv, UnchangedInv, Making, Filling2
  <2>2. Placed(param2, name, fip_bin)
    BY <1>1, <2>1, FileIs DEF InOrder
  <2> QED  BY <1>2, <2>1, <2>2
<1> QED  BY <1>5, <1>6, <1>7, <1>8 DEF AgainInv

\* pack_blcp_2nd() puts its image behind the parameters; the one that was read, where it was.
LEMMA AgainPackBlcp == FipInv /\ AgainInv /\ PackBlcp2nd => AgainInv'
<1> SUFFICES ASSUME FipInv, AgainInv, PackBlcp2nd PROVE AgainInv'
  OBVIOUS
<1> DEFINE name == "BLCP_2ND"
<1>1. /\ stage = "blcp_2nd" /\ stage' = "monitor" /\ Pack(name, "blcp_2nd", "monitor")
      /\ name \in Body2
      /\ UNCHANGED <<args, runs, param1, body1, body2, loader, file, given>>
      /\ fip_bin = UpToDdr(param1, Empty, param2)
      /\ Placed(param2, "DDR_PARAM", UpToRoom(param1, Empty))
  BY DEF PackBlcp2nd, Pack, Step, Body2, AgainInv, LayoutInv
<1>2. /\ Placed(param2', name, fip_bin) /\ fip_bin' = fip_bin \o param2'.img[name].cksum
      /\ \A n \in Body2 : n # name => param2'.img[n] = param2.img[n]
      /\ \A n \in Body2 : /\ IsRecord(param2'.img[n])
                          /\ body2[n] = <<>> => param2'.img[n].cksum = <<>>
                          /\ param2'.img[n].cksum # <<>> /\ n # "DDR_PARAM" =>
                                 param2'.img[n].runaddr # 0
                          /\ body2[n] # <<>> /\ n # "DDR_PARAM" =>
                                 param2'.img[n].runaddr # 0 \/ args.runaddr # 0
      /\ body2[name] = param2.img[name].cksum /\ Placed(param2, name, fip_bin) => param2' = param2
  BY <1>1, BlocksSoFar, AgainPackOne DEF AgainInv, Filling2
<1>3. FirstRecords(param1) /\ param1.param2_loadaddr = Len(Fip1(param1))
  BY <1>1, BlocksSoFar
<1>4. UpToDdr(param1, Empty, param2') = UpToDdr(param1, Empty, param2)
  BY <1>2, NameSets DEF UpToDdr
<1>5. fip_bin' = UpToBlcp(param1, Empty, param2')
  BY <1>1, <1>2, <1>4 DEF UpToBlcp
<1>6. /\ Placed(param2', "DDR_PARAM", UpToRoom(param1, Empty))
      /\ Placed(param2', "BLCP_2ND", UpToDdr(param1, Empty, param2'))
  BY <1>1, <1>2, <1>4, NameSets, PlacedStays
<1>7. LayoutInv'
  BY <1>1, <1>3, <1>5, <1>6 DEF LayoutInv, Filling2
<1>8. RecordsInv'
  BY <1>1, <1>2 DEF RecordsInv
<1>9. SettledInv'
  BY <1>1 DEF AgainInv, SettledInv
<1>10. UnchangedInv'
  <2> SUFFICES ASSUME args.old, Images = {} PROVE param2' = param2
    BY <1>1 DEF AgainInv, UnchangedInv, Images, Making, Filling2
  <2>1. /\ param1 = file[1] /\ param2 = SecondOf(file) /\ body2[name] = param2.img[name].cksum
    BY <1>1 DEF AgainInv, UnchangedInv, Making, Filling2
  <2>2. Placed(param2, name, fip_bin)
    BY <1>1, <2>1, FileIs DEF InOrder
  <2> QED  BY <1>2, <2>1, <2>2
<1> QED  BY <1>7, <1>8, <1>9, <1>10 DEF AgainInv

\* pack_monitor() puts its image behind the one before; the one that was read, where it was.
LEMMA AgainPackMonitor == FipInv /\ AgainInv /\ PackMonitor => AgainInv'
<1> SUFFICES ASSUME FipInv, AgainInv, PackMonitor PROVE AgainInv'
  OBVIOUS
<1> DEFINE name == "MONITOR"
<1>1. /\ stage = "monitor" /\ stage' = "loader" /\ Pack(name, "monitor", "loader")
      /\ name \in Body2
      /\ UNCHANGED <<args, runs, param1, body1, body2, loader, file, given>>
      /\ fip_bin = UpToBlcp(param1, Empty, param2)
      /\ Placed(param2, "DDR_PARAM", UpToRoom(param1, Empty))
      /\ Placed(param2, "BLCP_2ND", UpToDdr(param1, Empty, param2))
  BY DEF PackMonitor, Pack, Step, Body2, AgainInv, LayoutInv
<1>2. /\ Placed(param2', name, fip_bin) /\ fip_bin' = fip_bin \o param2'.img[name].cksum
      /\ \A n \in Body2 : n # name => param2'.img[n] = param2.img[n]
      /\ \A n \in Body2 : /\ IsRecord(param2'.img[n])
                          /\ body2[n] = <<>> => param2'.img[n].cksum = <<>>
                          /\ param2'.img[n].cksum # <<>> /\ n # "DDR_PARAM" =>
                                 param2'.img[n].runaddr # 0
                          /\ body2[n] # <<>> /\ n # "DDR_PARAM" =>
                                 param2'.img[n].runaddr # 0 \/ args.runaddr # 0
      /\ body2[name] = param2.img[name].cksum /\ Placed(param2, name, fip_bin) => param2' = param2
  BY <1>1, BlocksSoFar, AgainPackOne DEF AgainInv, Filling2
<1>3. FirstRecords(param1) /\ param1.param2_loadaddr = Len(Fip1(param1))
  BY <1>1, BlocksSoFar
<1>4. /\ UpToDdr(param1, Empty, param2') = UpToDdr(param1, Empty, param2)
      /\ UpToBlcp(param1, Empty, param2') = UpToBlcp(param1, Empty, param2)
  BY <1>2, NameSets DEF UpToDdr, UpToBlcp
<1>5. fip_bin' = UpToMonitor(param1, Empty, param2')
  BY <1>1, <1>2, <1>4 DEF UpToMonitor
<1>6. /\ Placed(param2', "DDR_PARAM", UpToRoom(param1, Empty))
      /\ Placed(param2', "BLCP_2ND", UpToDdr(param1, Empty, param2'))
      /\ Placed(param2', "MONITOR", UpToBlcp(param1, Empty, param2'))
  BY <1>1, <1>2, <1>4, NameSets, PlacedStays
<1>7. LayoutInv'
  BY <1>1, <1>3, <1>5, <1>6 DEF LayoutInv, Filling2
<1>8. RecordsInv'
  BY <1>1, <1>2 DEF RecordsInv
<1>9. SettledInv'
  BY <1>1 DEF AgainInv, SettledInv
<1>10. UnchangedInv'
  <2> SUFFICES ASSUME args.old, Images = {} PROVE param2' = param2
    BY <1>1 DEF AgainInv, UnchangedInv, Images, Making, Filling2
  <2>1. /\ param1 = file[1] /\ param2 = SecondOf(file) /\ body2[name] = param2.img[name].cksum
    BY <1>1 DEF AgainInv, UnchangedInv, Making, Filling2
  <2>2. Placed(param2, name, fip_bin)
    BY <1>1, <2>1, FileIs DEF InOrder
  <2> QED  BY <1>2, <2>1, <2>2
<1> QED  BY <1>7, <1>8, <1>9, <1>10 DEF AgainInv

\* _update_ldr_2nd_hdr() leaves a header that is right as it is.
LEMMA UpdatedAlready ==
    ASSUME NEW ld, IsSeq(ld), ld # <<>>, IsHeader(ld[1]), ld[1].size = Len(ld),
           ld[1].cksum = Crc(<<[ld[1] EXCEPT !.cksum = <<>>]>> \o Tail(ld))
    PROVE  Updated(ld) = ld
<1> DEFINE h == ld[1]
           t == Tail(ld)
           s == [h EXCEPT !.size = Len(ld), !.cksum = <<>>]
<1>1. IsSeq(t) /\ Len(t) = Len(ld) - 1 /\ Len(ld) \in Nat /\ Len(ld) >= 1
      /\ \A i \in 1 .. Len(t) : t[i] = ld[i + 1]
  BY TailOf, CellsOf
<1>2. h = [k |-> "hdr", magic |-> h.magic, cksum |-> h.cksum, size |-> h.size]
  BY DEF IsHeader
<1>3. s = [h EXCEPT !.cksum = <<>>]
  <2> DEFINE n == Len(ld)
  <2>1. h.size = n
    OBVIOUS
  <2> HIDE DEF h, n
  <2>2. [h EXCEPT !.size = n, !.cksum = <<>>] = [h EXCEPT !.cksum = <<>>]
    BY <1>2, <2>1
  <2> QED  BY <2>2 DEF n
<1>4. (<<s>> \o t)[1] = s
  <2>1. IsSeq(<<s>>) /\ Len(<<s>>) = 1 /\ <<s>>[1] = s /\ 1 \in 1 .. Len(<<s>>)
    BY OneCell
  <2> HIDE DEF s, t
  <2> QED  BY <1>1, <2>1, Joined
<1>5. Updated(ld) = <<[s EXCEPT !.cksum = Crc(<<s>> \o t)]>> \o t
  BY <1>4 DEF Updated
<1>6. h.cksum = Crc(<<s>> \o t)
  BY <1>3
<1>7. [s EXCEPT !.cksum = Crc(<<s>> \o t)] = h
  <2> DEFINE c == Crc(<<s>> \o t)
  <2>1. h.cksum = c
    BY <1>6
  <2> HIDE DEF c
  <2>2. [s EXCEPT !.cksum = c] = [h EXCEPT !.cksum = c]
    <3>1. [[h EXCEPT !.cksum = <<>>] EXCEPT !.cksum = c] = [h EXCEPT !.cksum = c]
      <4> HIDE DEF h
      <4> QED  BY <1>2
    <3> HIDE DEF s
    <3> QED  BY <3>1, <1>3
  <2>3. [h EXCEPT !.cksum = c] = h
    <3> HIDE DEF h
    <3> QED  BY <1>2, <2>1
  <2> QED  BY <2>2, <2>3 DEF c
<1>8. Updated(ld) = <<h>> \o t
  BY <1>5, <1>7
<1> HIDE DEF h, t, s
<1>9. <<h>> \o t = ld
  <2>1. IsSeq(<<h>>) /\ Len(<<h>>) = 1 /\ <<h>>[1] = h /\ 1 \in 1 .. Len(<<h>>)
    BY OneCell
  <2>2. /\ IsSeq(<<h>> \o t) /\ Len(<<h>> \o t) = 1 + Len(t) /\ (<<h>> \o t)[1] = h
        /\ \A i \in 1 .. Len(t) : (<<h>> \o t)[1 + i] = t[i]
    BY <1>1, <2>1, Joined
  <2>3. ASSUME NEW j \in 1 .. Len(ld) PROVE (<<h>> \o t)[j] = ld[j]
    <3>1. CASE j = 1
      BY <3>1, <2>2 DEF h
    <3>2. CASE j # 1
      <4>1. PICK m \in 1 .. Len(t) : j = 1 + m /\ j = m + 1
        <5>1. j - 1 \in 1 .. Len(t) /\ j = 1 + (j - 1) /\ j = (j - 1) + 1
          BY <3>2, <1>1
        <5> QED  BY <5>1
      <4>2. (<<h>> \o t)[j] = t[m]
        BY <4>1, <2>2
      <4>3. t[m] = ld[j]
        BY <4>1, <1>1
      <4> QED  BY <4>2, <4>3
    <3> QED  BY <3>1, <3>2
  <2>4. Len(<<h>> \o t) = Len(ld)
    BY <1>1, <2>2
  <2> QED  BY <2>2, <2>3, <2>4, SameCells
<1> QED  BY <1>8, <1>9

\* What is never asked to be empty is not.
LEMMA LoaderGiven ==
    ASSUME FipInv, stage \in Making
    PROVE  /\ loader = <<>> => param2.loader_2nd = 0
           /\ loader # <<>> => IsLoader(loader, given["LOADER_2ND"])
                               /\ IsSeq(Tail(given["LOADER_2ND"]))
<1>1. LoaderKept(param2, loader, given) /\ GivenInv
  BY AtWork
<1>2. given["LOADER_2ND"] # <<>> => IsLoader(loader, given["LOADER_2ND"])
      /\ IsSeq(Tail(given["LOADER_2ND"])) /\ loader # <<>>
  BY <1>1, TailOf, NameSets DEF GivenInv, LoaderKept, IsLoader
<1> QED  BY <1>1, <1>2 DEF LoaderKept

\* pack_loader_2nd(): a loader that was packed before is neither compressed nor padded again.
LEMMA AgainPackLoader == FipInv /\ AgainInv /\ PackLoader2nd => AgainInv'
<1> SUFFICES ASSUME FipInv, AgainInv, PackLoader2nd PROVE AgainInv'
  OBVIOUS
<1> DEFINE image == given["LOADER_2ND"]
<1>1. /\ stage = "loader" /\ stage' = "param2" /\ stage \in Making
      /\ UNCHANGED <<args, runs, param1, body1, body2, file, given>>
      /\ fip_bin = UpToMonitor(param1, Empty, param2)
      /\ Placed(param2, "DDR_PARAM", UpToRoom(param1, Empty))
      /\ Placed(param2, "BLCP_2ND", UpToDdr(param1, Empty, param2))
      /\ Placed(param2, "MONITOR", UpToBlcp(param1, Empty, param2))
  BY DEF PackLoader2nd, Step, Making, Filling2, AgainInv, LayoutInv
<1>2. /\ Blocks(fip_bin) /\ FirstRecords(param1) /\ param1.param2_loadaddr = Len(Fip1(param1))
      /\ IsParam2(param2)
  BY <1>1, BlocksSoFar, AtWork
<1>3. /\ LoaderPlaced(param2', loader', fip_bin) /\ fip_bin' = fip_bin \o loader'
      /\ param2'.img = param2.img
      /\ args.old /\ Images = {} => param2' = param2 /\ loader' = loader
  <2>1. CASE loader = <<>>
    <3>1. loader' = <<>> /\ param2' = param2 /\ fip_bin' = fip_bin
      BY <2>1 DEF PackLoader2nd
    <3>2. param2.loader_2nd = 0
      BY <1>1, <2>1, LoaderGiven
    <3>3. fip_bin = fip_bin \o <<>>
      BY <1>2, JoinedNothing DEF Blocks
    <3> QED  BY <2>1, <3>1, <3>2, <3>3 DEF LoaderPlaced
  <2>2. CASE loader # <<>>
    <3>1. Pad(fip_bin) = fip_bin
      BY <1>2, PadsNothing
    <3>2. /\ loader' = Updated(Pad(Compressed(loader)))
          /\ param2' = [param2 EXCEPT !.loader_2nd = Len(fip_bin)] /\ fip_bin' = fip_bin \o loader'
      BY <2>2, <3>1 DEF PackLoader2nd
    <3>3. IsLoader(loader, image) /\ IsSeq(Tail(image))
      BY <1>1, <2>2, LoaderGiven
    <3> HIDE DEF image
    <3>4. /\ IsLoader(loader', image) /\ Blocks(loader') /\ loader' # <<>>
          /\ loader'[1].size = Len(loader')
          /\ loader'[1].cksum = Crc(<<[loader'[1] EXCEPT !.cksum = <<>>]>> \o Tail(loader'))
      <4> DEFINE c == Compressed(loader)
                 p == Pad(c)
      <4>1. IsLoader(c, image)
        BY <3>3, CompressedIs
      <4> HIDE DEF c
      <4>2. IsLoader(p, image) /\ Blocks(p) /\ loader' = Updated(p)
        BY <3>2, <3>3, <4>1, PaddedLoader DEF c
      <4> HIDE DEF p
      <4> QED  BY <4>2, UpdatedIs
    <3>5. param2'.img = param2.img /\ param2'.loader_2nd = Len(fip_bin)
      BY <1>2, <3>2 DEF IsParam2
    <3>6. IsHeader(loader'[1])
      BY <3>4 DEF IsLoader
    <3>7. LoaderPlaced(param2', loader', fip_bin)
      BY <3>4, <3>5, <3>6 DEF LoaderPlaced
    <3>8. ASSUME args.old, Images = {} PROVE param2' = param2 /\ loader' = loader
      <4>1. /\ param1 = file[1] /\ param2 = SecondOf(file) /\ loader = LoaderOf(file)
        BY <1>1, <3>8 DEF AgainInv, UnchangedInv, Making, Filling2
      <4>2. LoaderPlaced(param2, loader, fip_bin)
        BY <1>1, <3>8, <4>1, FileIs DEF InOrder
      <4>3. Compressed(loader) = loader
        BY <3>8 DEF Compressed
      <4>4. /\ Blocks(loader) /\ IsHeader(loader[1]) /\ param2.loader_2nd = Len(fip_bin)
            /\ loader[1].size = Len(loader)
            /\ loader[1].cksum = Crc(<<[loader[1] EXCEPT !.cksum = <<>>]>> \o Tail(loader))
        BY <2>2, <4>2 DEF LoaderPlaced
      <4>5. Pad(loader) = loader
        BY <4>4, PadsNothing
      <4>6. Updated(loader) = loader
        BY <2>2, <4>4, UpdatedAlready DEF Blocks
      <4>7. param2' = param2
        <5>1. param2 = [f \in DOMAIN param2 |-> param2[f]]
          BY <1>2 DEF IsParam2
        <5> QED  BY <3>2, <4>4, <5>1
      <4> QED  BY <3>2, <4>3, <4>5, <4>6, <4>7
    <3> QED  BY <3>2, <3>5, <3>7, <3>8
  <2> QED  BY <2>1, <2>2
<1>4. /\ UpToDdr(param1, Empty, param2') = UpToDdr(param1, Empty, param2)
      /\ UpToBlcp(param1, Empty, param2') = UpToBlcp(param1, Empty, param2)
      /\ UpToMonitor(param1, Empty, param2') = UpToMonitor(param1, Empty, param2)
  BY <1>3 DEF UpToDdr, UpToBlcp, UpToMonitor
<1>5. fip_bin' = Whole(param1, Empty, param2', loader')
  BY <1>1, <1>3, <1>4 DEF Whole
<1>6. /\ Placed(param2', "DDR_PARAM", UpToRoom(param1, Empty))
      /\ Placed(param2', "BLCP_2ND", UpToDdr(param1, Empty, param2'))
      /\ Placed(param2', "MONITOR", UpToBlcp(param1, Empty, param2'))
      /\ LoaderPlaced(param2', loader', UpToMonitor(param1, Empty, param2'))
  BY <1>1, <1>3, <1>4, PlacedStays
<1>7. LayoutInv'
  BY <1>1, <1>2, <1>5, <1>6 DEF LayoutInv, Filling2
<1>8. RecordsInv'
  BY <1>1, <1>3 DEF AgainInv, RecordsInv, Making, Filling2
<1>9. SettledInv'
  BY <1>1 DEF AgainInv, SettledInv
<1>10. UnchangedInv'
  BY <1>1, <1>3 DEF AgainInv, UnchangedInv, Images, Making, Filling2
<1> QED  BY <1>7, <1>8, <1>9, <1>10 DEF AgainInv

\* append_fip2() ends: the file is the two blocks, the images and the loader.
LEMMA AgainPackParam2 == FipInv /\ AgainInv /\ PackParam2 => AgainInv'
<1> SUFFICES ASSUME FipInv, AgainInv, PackParam2 PROVE AgainInv'
  OBVIOUS
<1>1. /\ stage = "param2" /\ stage' = "write" /\ stage \in Making
      /\ UNCHANGED <<args, runs, param1, body1, body2, loader, file, given>>
      /\ FirstRecords(param1) /\ param1.param2_loadaddr = Len(Fip1(param1))
      /\ fip_bin = Whole(param1, Empty, param2, loader)
      /\ Placed(param2, "DDR_PARAM", UpToRoom(param1, Empty))
      /\ Placed(param2, "BLCP_2ND", UpToDdr(param1, Empty, param2))
      /\ Placed(param2, "MONITOR", UpToBlcp(param1, Empty, param2))
      /\ LoaderPlaced(param2, loader, UpToMonitor(param1, Empty, param2))
      /\ param2' = Sealed(param2)
      /\ fip_bin' = [fip_bin EXCEPT ![param1.param2_loadaddr + 1] = param2']
  BY DEF PackParam2, Step, Making, Filling2, AgainInv, LayoutInv
<1>2. /\ IsParam2(param2') /\ IsSealed(param2') /\ param2'.img = param2.img
      /\ param2'.loader_2nd = param2.loader_2nd
  BY <1>1, AtWork, Param2Sealed
<1>3. InOrder(param1, param2, loader)
  BY <1>1 DEF InOrder
<1>4. InOrder(param1, param2', loader)
  <2>1. /\ UpToDdr(param1, Empty, param2') = UpToDdr(param1, Empty, param2)
        /\ UpToBlcp(param1, Empty, param2') = UpToBlcp(param1, Empty, param2)
        /\ UpToMonitor(param1, Empty, param2') = UpToMonitor(param1, Empty, param2)
    BY <1>2 DEF UpToDdr, UpToBlcp, UpToMonitor
  <2>2. /\ Placed(param2', "DDR_PARAM", UpToRoom(param1, Empty))
        /\ Placed(param2', "BLCP_2ND", UpToDdr(param1, Empty, param2'))
        /\ Placed(param2', "MONITOR", UpToBlcp(param1, Empty, param2'))
        /\ LoaderPlaced(param2', loader, UpToMonitor(param1, Empty, param2'))
    BY <1>1, <1>2, <2>1 DEF Placed, LoaderPlaced
  <2> QED  BY <1>1, <2>2 DEF InOrder
<1>5. fip_bin' = Whole(param1, Block(param2'), param2', loader)
  <2> DEFINE at == param1.param2_loadaddr + 1
             q == param2'
  <2>1. IsSeq(loader) /\ \A n \in Body2 : Blocks(param2.img[n].cksum)
    BY <1>3, InOrderParts
  <2>2. at = Len(Fip1(param1)) + 1 /\ FirstRecords(param1)
    BY <1>1
  <2>3. fip_bin' = Rewritten(Whole(param1, Empty, param2, loader), at, q)
    BY <1>1 DEF Rewritten
  <2> HIDE DEF at, q
  <2>4. Rewritten(Whole(param1, Empty, param2, loader), at, q) = Whole(param1, Block(q), param2, loader)
    BY <2>1, <2>2, RoomWritten
  <2>5. Whole(param1, Block(q), param2, loader) = Whole(param1, Block(q), param2', loader)
    BY <1>2 DEF Whole, UpToMonitor, UpToBlcp, UpToDdr
  <2> QED  BY <2>3, <2>4, <2>5 DEF q
<1>6. IsSealed(param1)
  BY <1>1 DEF FipInv, PackingInv, FirstPart, Filling2
<1>7. LayoutInv'
  BY <1>1, <1>2, <1>4, <1>5, <1>6 DEF LayoutInv, WrittenOut, Filling2
<1>8. RecordsInv'
  BY <1>1 DEF RecordsInv, Making, Filling2
<1>9. SettledInv'
  BY <1>1 DEF AgainInv, SettledInv
<1>10. UnchangedInv'
  <2> SUFFICES ASSUME args.old, Images = {} PROVE param2' = param2
    BY <1>1 DEF AgainInv, UnchangedInv, Images, Making, Filling2
  <2>1. param2 = SecondOf(file)
    BY <1>1 DEF AgainInv, UnchangedInv, Making, Filling2
  <2>2. IsSealed(param2)
    BY <2>1, FileIs
  <2> QED  BY <1>1, <2>2 DEF IsSealed
<1> QED  BY <1>7, <1>8, <1>9, <1>10 DEF AgainInv

\* generate_fip() writes the file, or is started again on it.
LEMMA AgainWrite == FipInv /\ AgainInv /\ (Write \/ Again \/ Over \/ UNCHANGED fipVars) => AgainInv'
<1> SUFFICES ASSUME FipInv, AgainInv, Write \/ Again \/ Over \/ UNCHANGED fipVars PROVE AgainInv'
  OBVIOUS
<1>1. CASE Write
  <2>1. /\ stage = "write" /\ stage' = "written" /\ file' = fip_bin
        /\ UNCHANGED <<args, param1, param2, loader, fip_bin>>
    BY <1>1 DEF Write, Step, object
  <2>2. WrittenOut(fip_bin, param1, param2, loader)
    BY <2>1 DEF AgainInv, LayoutInv
  <2>3. Settled(file')
    BY <2>1, <2>2, ReadAsWritten
  <2> QED
    BY <2>1, <2>3
       DEF AgainInv, RecordsInv, LayoutInv, SettledInv, UnchangedInv, Making, Filling2
<1>2. CASE Again
  <2>1. stage = "written" /\ stage' = "start" /\ args'.old /\ file' = file
    BY <1>2 DEF Again, Step
  <2>2. Settled(file')
    BY <2>1 DEF AgainInv, SettledInv
  <2> QED
    BY <2>1, <2>2
       DEF AgainInv, RecordsInv, LayoutInv, SettledInv, UnchangedInv, Making, Filling2
<1>3. CASE Over \/ UNCHANGED fipVars
  <2>1. UNCHANGED fipVars
    BY <1>3 DEF Over
  <2> QED
    BY <2>1
       DEF AgainInv, RecordsInv, LayoutInv, SettledInv, UnchangedInv, fipVars, object, Images
<1> QED  BY <1>1, <1>2, <1>3

\* Every step keeps both invariants.
LEMMA AgainKeeps ==
    DdrGiven /\ NothingEmpty /\ FipInv /\ AgainInv /\ [FipNext]_fipVars => FipInv' /\ AgainInv'
BY FipKeeps, AgainNewFip, AgainReadFip, AgainAddImages, AgainMakeFip1, AgainInsert, AgainPackDdr,
   AgainPackBlcp, AgainPackMonitor, AgainPackLoader, AgainPackParam2, AgainWrite DEF FipNext

\* genfip writes its file from its blocks, its images and its loader, one behind the other, and
\* reads them from it as they were.
THEOREM LayoutInvariant == ASSUME DdrGiven, NothingEmpty PROVE FipSpec => [](FipInv /\ AgainInv)
BY FipStarts, AgainStarts, AgainKeeps, PTL DEF FipSpec

\* A run that reads a file and is given no image writes the same file.
THEOREM WritesSame == ASSUME DdrGiven, NothingEmpty PROVE FipSpec => []SameAgain
<1>1. FipInv /\ AgainInv => SameAgain
  <2> SUFFICES ASSUME FipInv, AgainInv, stage = "write", args.old, Images = {}
               PROVE  fip_bin = file
    BY DEF SameAgain
  <2>1. param1 = file[1] /\ param2 = SecondOf(file) /\ loader = LoaderOf(file)
    BY DEF AgainInv, UnchangedInv
  <2>2. fip_bin = Whole(param1, Block(param2), param2, loader)
    BY DEF AgainInv, LayoutInv, WrittenOut
  <2>3. file = Whole(file[1], Block(SecondOf(file)), SecondOf(file), LoaderOf(file))
    BY DEF AgainInv, SettledInv, Settled, WrittenOut
  <2> QED  BY <2>1, <2>2, <2>3
<1> QED  BY <1>1, LayoutInvariant, PTL
=============================================================================
