-------------------------------- MODULE Irq --------------------------------
(***************************************************************************)
(* Interrupt handling on the one hart that runs: source/irq.c, the external *)
(* interrupt path of boot/start.S and source/trap.c, and the PLIC they      *)
(* drive (external, modelled from the registers irq.c uses).                *)
(*                                                                          *)
(* The main program calls irq.c one MMIO access or table store at a time,   *)
(* so an interrupt can be taken between any two of them (pc).  The trap     *)
(* runs do_irq() to its end before the main program moves again (ipc).      *)
(***************************************************************************)
EXTENDS Integers, FiniteSets

CONSTANTS
    Irqn,        \* the interrupt numbers that are wired to a device
    Handlers,    \* the functions a test case registers
    Privs,       \* the priv pointers it registers them with
    Requests,    \* the argument triples of its request_irq() calls
    NULL,        \* the null pointer, of a zeroed table entry or a missing handler
    MaxCalls,    \* bound on the calls the main program makes
    MaxRaises    \* bound on the requests all devices make

NUM_IRQ == 256
Word == 0 .. NUM_IRQ \div 32       \* the loop of irq_init is i <= 256/32
Bit == 0 .. 31
Entry == [handler : Handlers \cup {NULL}, irqn : Irqn \cup {0}, priv : Privs \cup {NULL}]
Zeroed == [handler |-> NULL, irqn |-> 0, priv |-> NULL]

ASSUME IrqAssumption ==
    /\ Irqn \subseteq 1 .. NUM_IRQ - 1
    /\ NULL \notin Handlers
    /\ Requests \subseteq [handler : Handlers \cup {NULL}, irqn : Nat, priv : Privs]
    /\ \A r \in Requests : r.irqn < NUM_IRQ => r.irqn \in Irqn
    /\ MaxCalls \in Nat
    /\ MaxRaises \in Nat

VARIABLES
    pc,          \* where the main program is: idle, or inside a call of irq.c
    arg,         \* the argument of that call
    k,           \* loop counter of irq_init
    value,       \* the local of plic_mask_irq / plic_unmask_irq
    action,      \* g_irq_action, by interrupt number
    mie,         \* mstatus.MIE
    meie,        \* mie.MEIE
    frame,       \* the MIE bit in the mstatus that the trap entry saved
    ipc,         \* where the trap is: idle when no trap is being handled
    irqn,        \* the local of do_irq
    call,        \* the handler invocation that do_irq makes
    prio,        \* PLIC priority registers
    enable,      \* PLIC enable words
    threshold,   \* PLIC threshold register
    pending,     \* requests the PLIC has latched
    inflight,    \* requests claimed and not completed
    line,        \* the lines the devices hold up
    asked,       \* (history) the last request_irq() arguments for each line
    calls, raises

main == <<pc, arg, k, value>>
csrs == <<mie, meie>>
trap == <<frame, ipc, irqn, call>>
plic == <<prio, enable, threshold, pending, inflight>>
bounds == <<calls, raises>>
vars == <<main, csrs, trap, plic, action, line, asked, bounds>>

InitPc == {"i_mie", "i_prio", "i_pending", "i_enable", "i_memset", "i_threshold"}
RequestPc == {"r_handler", "r_irqn", "r_priv", "r_prio"}
MaskPc == {"u_read", "u_write", "m_read", "m_write"}
CpuPc == {"e_mie", "e_meie", "d_mie", "d_meie"}
Pc == InitPc \cup RequestPc \cup MaskPc \cup CpuPc \cup {"idle"}
NoCall == [handler |-> NULL, irqn |-> 0, priv |-> NULL]

(***************************************************************************)
(* The PLIC: the enable bit of a line is bit i % 32 of word i / 32.         *)
(***************************************************************************)
WordOf(i) == i \div 32
BitOf(i) == i % 32
Enabled(i) == BitOf(i) \in enable[WordOf(i)]
Open(i) == Enabled(i) /\ prio[i] > 0      \* priority 0 means "never interrupt"
Claimable == {i \in pending : Open(i)}
Signalled == \E i \in Claimable : prio[i] > threshold

\* The words as they are when exactly the lines of S are enabled.
WordsOf(S) == [w \in Word |-> {b \in Bit : 32 * w + b \in S}]

(***************************************************************************)
(* What an earlier boot stage leaves in the PLIC is unknown; boot/start.S   *)
(* has cleared mie and .bss before it calls system_init().                  *)
(***************************************************************************)
Init ==
    /\ pc = "i_mie" /\ arg = Zeroed /\ k = 0 /\ value = {}
    /\ action = [i \in Irqn |-> Zeroed]
    /\ mie \in BOOLEAN /\ meie = FALSE
    /\ frame = FALSE /\ ipc = "idle" /\ irqn = 0 /\ call = NoCall
    /\ prio \in {[i \in Irqn |-> p] : p \in {0, 7}}
    /\ \E S \in SUBSET Irqn : enable = WordsOf(S)
    /\ threshold \in {0, 7}
    /\ pending \in SUBSET Irqn
    /\ inflight = {} /\ line = {}
    /\ asked = [i \in Irqn |-> Zeroed]
    /\ calls = 0 /\ raises = 0

-----------------------------------------------------------------------------
(***************************************************************************)
(* The main program.  Each step is one access that an interrupt may precede *)
(* or follow; none is taken while the trap runs.                            *)
(***************************************************************************)
At(p) == ipc = "idle" /\ pc = p
Goto(p) == pc' = p /\ UNCHANGED <<trap, line, bounds>>

\* Fault: the hart's interrupts are on while the PLIC is cleaned.
FaultInterruptsOn == At("i_mie") /\ Goto("i_prio") /\ meie' = TRUE
                     /\ UNCHANGED <<arg, k, value, mie, plic, action, asked>>

\* irq_init(): write_csr(mie, 0); write_csr(mip, 0), whose MEIP bit is read-only
InitMie == At("i_mie") /\ Goto("i_prio") /\ meie' = FALSE
           /\ UNCHANGED <<arg, k, value, mie, plic, action, asked>>

InitPriorities == At("i_prio") /\ Goto("i_pending") /\ prio' = [i \in Irqn |-> 0] /\ k' = 0
                  /\ UNCHANGED <<arg, value, csrs, enable, threshold, pending,
                                 inflight, action, asked>>

\* A write to a pending word clears it or, on a PLIC where it is read-only, does nothing.
InitPendingWord ==
    /\ At("i_pending") /\ Goto("i_enable")
    /\ pending' \in {pending, {i \in pending : WordOf(i) # k}}
    /\ UNCHANGED <<arg, k, value, csrs, prio, enable, threshold, inflight, action, asked>>

InitEnableWord ==
    /\ At("i_enable")
    /\ enable' = [enable EXCEPT ![k] = {}]
    /\ IF k < NUM_IRQ \div 32 THEN k' = k + 1 /\ Goto("i_pending")
                              ELSE k' = 0 /\ Goto("i_memset")
    /\ UNCHANGED <<arg, value, csrs, prio, threshold, pending, inflight, action, asked>>

InitTable == At("i_memset") /\ Goto("i_threshold") /\ action' = [i \in Irqn |-> Zeroed]
             /\ UNCHANGED <<arg, k, value, csrs, plic, asked>>

InitThreshold == At("i_threshold") /\ Goto("e_mie") /\ threshold' = 0
                 /\ UNCHANGED <<arg, k, value, csrs, prio, enable, pending, inflight,
                                action, asked>>

\* cpu_enable_irqs() and cpu_disable_irqs(): two CSR writes each
EnableMie == At("e_mie") /\ Goto("e_meie") /\ mie' = TRUE
             /\ UNCHANGED <<arg, k, value, meie, plic, action, asked>>
EnableMeie == At("e_meie") /\ Goto("idle") /\ meie' = TRUE
              /\ UNCHANGED <<arg, k, value, mie, plic, action, asked>>
DisableMie == At("d_mie") /\ Goto("d_meie") /\ mie' = FALSE
              /\ UNCHANGED <<arg, k, value, meie, plic, action, asked>>
DisableMeie == At("d_meie") /\ Goto("idle") /\ meie' = FALSE
               /\ UNCHANGED <<arg, k, value, mie, plic, action, asked>>

(***************************************************************************)
(* The calls the program makes, in any order.  Like the test cases, it      *)
(* gives a line a handler while no interrupt of that line can come: the     *)
(* first time, or after disable_irq().                                      *)
(***************************************************************************)
Call(p, a) ==
    /\ At("idle") /\ calls < MaxCalls
    /\ calls' = calls + 1 /\ pc' = p /\ arg' = a
    /\ UNCHANGED <<k, value, csrs, trap, plic, action, line, raises>>

InRange(i) == i < NUM_IRQ

Request(r) ==
    /\ InRange(r.irqn) => ~Open(r.irqn)
    /\ IF InRange(r.irqn)
       THEN Call("r_handler", r) /\ asked' = [asked EXCEPT ![r.irqn] = r]
       ELSE Call("idle", r) /\ UNCHANGED asked

EnableIrq(i) == Call("u_read", [Zeroed EXCEPT !.irqn = i]) /\ UNCHANGED asked
DisableIrq(i) == Call("m_read", [Zeroed EXCEPT !.irqn = i]) /\ UNCHANGED asked

CpuEnable == Call("e_mie", Zeroed) /\ UNCHANGED asked
CpuDisable == Call("d_mie", Zeroed) /\ UNCHANGED asked

\* request_irq(): the stores to the table entry, in order, then priority and unmask
Store(field, val) ==
    /\ action' = [action EXCEPT ![arg.irqn] = [@ EXCEPT ![field] = val]]
    /\ UNCHANGED <<arg, k, value, csrs, plic, asked>>

StoreHandler == At("r_handler") /\ Goto("r_irqn") /\ Store("handler", arg.handler)
StoreIrqn == At("r_irqn") /\ Goto("r_priv") /\ Store("irqn", arg.irqn)
\* Fault: a line that is requested again keeps the priv of its old handler.
FaultOldPriv == At("r_priv") /\ Goto("r_prio")
                /\ UNCHANGED <<arg, k, value, csrs, plic, action, asked>>

StorePriv == At("r_priv") /\ Goto("r_prio") /\ Store("priv", arg.priv)

SetPriority == At("r_prio") /\ Goto("u_read") /\ prio' = [prio EXCEPT ![arg.irqn] = 7]
               /\ UNCHANGED <<arg, k, value, csrs, enable, threshold, pending, inflight,
                              action, asked>>

\* plic_unmask_irq() and plic_mask_irq(): read the word, change one bit, write it back.
\* Lines below 16 are refused without a word to the caller.
ReadWord(from, to) ==
    /\ At(from)
    /\ IF arg.irqn < 16
       THEN Goto("idle") /\ UNCHANGED value
       ELSE Goto(to) /\ value' = enable[WordOf(arg.irqn)]
    /\ UNCHANGED <<arg, k, csrs, plic, action, asked>>

UnmaskRead == ReadWord("u_read", "u_write")
MaskRead == ReadWord("m_read", "m_write")

WriteWord(from, word) ==
    /\ At(from) /\ Goto("idle")
    /\ enable' = [enable EXCEPT ![WordOf(arg.irqn)] = word]
    /\ UNCHANGED <<arg, k, value, csrs, prio, threshold, pending, inflight, action, asked>>

\* Fault: the bit is written without the rest of the word.
FaultWordOverwritten == WriteWord("u_write", {BitOf(arg.irqn)})

UnmaskWrite == WriteWord("u_write", value \cup {BitOf(arg.irqn)})
MaskWrite == WriteWord("m_write", value \ {BitOf(arg.irqn)})

-----------------------------------------------------------------------------
(***************************************************************************)
(* The trap: the entry code saves mstatus, handle_trap() calls do_irq(),    *)
(* the exit code restores mstatus and mret puts MIE back.                   *)
(***************************************************************************)
TrapEnter ==
    /\ ipc = "idle" /\ mie /\ meie /\ Signalled
    /\ frame' = mie /\ mie' = FALSE /\ ipc' = "claim"
    /\ UNCHANGED <<main, meie, irqn, call, plic, action, line, asked, bounds>>

\* The PLIC gives out the enabled request of highest priority, the lowest number first.
Claim ==
    /\ ipc = "claim"
    /\ \/ /\ Claimable = {} /\ irqn' = 0
          /\ UNCHANGED <<pending, inflight>>
       \/ \E i \in Claimable :
            /\ \A j \in Claimable : prio[i] > prio[j] \/ (prio[i] = prio[j] /\ i <= j)
            /\ irqn' = i
            /\ pending' = pending \ {i} /\ inflight' = inflight \cup {i}
    /\ ipc' = "dispatch"
    /\ UNCHANGED <<main, csrs, frame, call, prio, enable, threshold, action, line, asked,
                   bounds>>

\* Fault: an empty claim does not end the loop.
FaultNoBreak ==
    /\ ipc = "dispatch"
    /\ IF irqn # 0 /\ action[irqn].handler # NULL
       THEN call' = action[irqn] /\ ipc' = "handler"
       ELSE ipc' = (IF irqn = 0 THEN "claim" ELSE "eoi") /\ UNCHANGED call
    /\ UNCHANGED <<main, csrs, frame, irqn, plic, action, line, asked, bounds>>

Dispatch ==
    /\ ipc = "dispatch"
    /\ \/ /\ irqn # 0 /\ action[irqn].handler # NULL
          /\ call' = action[irqn] /\ ipc' = "handler"
       \/ /\ irqn # 0 /\ action[irqn].handler = NULL      \* printf("... NULL")
          /\ ipc' = "eoi" /\ UNCHANGED call
       \/ /\ irqn = 0 /\ ipc' = "exit" /\ UNCHANGED call  \* break
    /\ UNCHANGED <<main, csrs, frame, irqn, plic, action, line, asked, bounds>>

\* The handler quiets the device that interrupted (every handler of the test cases does).
HandlerReturns ==
    /\ ipc = "handler"
    /\ line' = line \ {irqn} /\ call' = NoCall /\ ipc' = "eoi"
    /\ UNCHANGED <<main, csrs, frame, irqn, plic, action, asked, bounds>>

\* Fault: the request is not completed.
FaultNoEoi ==
    /\ ipc = "eoi" /\ ipc' = "claim"
    /\ UNCHANGED <<main, csrs, frame, irqn, call, plic, action, line, asked, bounds>>

\* plic_eoi_irq(); the PLIC ignores the completion of a line that is not enabled.
Eoi ==
    /\ ipc = "eoi"
    /\ inflight' = IF Enabled(irqn) THEN inflight \ {irqn} ELSE inflight
    /\ ipc' = "claim"
    /\ UNCHANGED <<main, csrs, frame, irqn, call, prio, enable, threshold, pending, action,
                   line, asked, bounds>>

TrapExit ==
    /\ ipc = "exit"
    /\ mie' = frame /\ frame' = FALSE /\ ipc' = "idle"
    /\ UNCHANGED <<main, meie, irqn, call, plic, action, line, asked, bounds>>

-----------------------------------------------------------------------------
(***************************************************************************)
(* The devices hold their line until they are served; the gateway of a line *)
(* forwards one request at a time.                                          *)
(***************************************************************************)
Raise(i) ==
    /\ raises < MaxRaises /\ i \notin line
    /\ line' = line \cup {i} /\ raises' = raises + 1
    /\ UNCHANGED <<main, csrs, trap, plic, action, asked, calls>>

Gateway(i) ==
    /\ i \in line /\ i \notin pending /\ i \notin inflight
    /\ pending' = pending \cup {i}
    /\ UNCHANGED <<main, csrs, trap, prio, enable, threshold, inflight, action, line, asked,
                   bounds>>

\* The while(1) the test cases end in, once they have made their calls.
Rest ==
    /\ At("idle") /\ calls = MaxCalls
    /\ UNCHANGED vars

MainStep ==
    \/ InitMie \/ InitPriorities \/ InitPendingWord \/ InitEnableWord \/ InitTable \/ InitThreshold
    \/ EnableMie \/ EnableMeie \/ DisableMie \/ DisableMeie
    \/ StoreHandler \/ StoreIrqn \/ StorePriv \/ SetPriority
    \/ UnmaskRead \/ UnmaskWrite \/ MaskRead \/ MaskWrite

MainCall ==
    \/ \E r \in Requests : Request(r)
    \/ \E i \in Irqn : EnableIrq(i) \/ DisableIrq(i)
    \/ CpuEnable \/ CpuDisable

TrapStep == Claim \/ Dispatch \/ HandlerReturns \/ Eoi \/ TrapExit

Next ==
    \/ MainStep \/ MainCall \/ Rest
    \/ TrapEnter \/ TrapStep
    \/ \E i \in Irqn : Raise(i) \/ Gateway(i)

\* The hart keeps executing and takes a signalled interrupt; gateways forward requests.
\* Nothing obliges the program to make another call, or a device to raise its line.
Fairness ==
    /\ WF_vars(MainStep)
    /\ WF_vars(TrapEnter)
    /\ WF_vars(TrapStep)
    /\ \A i \in Irqn : WF_vars(Gateway(i))

Spec == Init /\ [][Next]_vars /\ Fairness

-----------------------------------------------------------------------------
(***************************************************************************)
(* Properties                                                               *)
(***************************************************************************)

\* The variables have the types the code gives them.
TypeOK ==
    /\ pc \in Pc
    /\ arg \in [handler : Handlers \cup {NULL}, irqn : Nat, priv : Privs \cup {NULL}]
    /\ k \in Word
    /\ value \in SUBSET Bit
    /\ action \in [Irqn -> Entry]
    /\ mie \in BOOLEAN /\ meie \in BOOLEAN /\ frame \in BOOLEAN
    /\ ipc \in {"idle", "claim", "dispatch", "handler", "eoi", "exit"}
    /\ irqn \in Irqn \cup {0}
    /\ call \in Entry
    /\ prio \in [Irqn -> 0 .. 7]
    /\ enable \in [Word -> SUBSET Bit]
    /\ threshold \in {0, 7}
    /\ pending \in SUBSET Irqn /\ inflight \in SUBSET Irqn /\ line \in SUBSET Irqn
    /\ asked \in [Irqn -> Entry]
    /\ calls \in 0 .. MaxCalls /\ raises \in 0 .. MaxRaises

\* do_irq() never runs a half-written entry of g_irq_action: the handler it calls, the
\* number and the priv it passes are those of one request_irq() call, the last for that
\* line, whatever access of the main program the interrupt came between.
DispatchWhole == ipc = "handler" => call = asked[irqn] /\ call.handler # NULL

\* While do_irq() serves a line it is still unmasked, so the PLIC accepts the end of
\* interrupt, and the main program never runs with a claim left open: an open claim would
\* silence that line for good.
ClaimsCompleted ==
    /\ inflight = IF ipc \in {"dispatch", "handler", "eoi"} /\ irqn # 0 THEN {irqn} ELSE {}
    /\ \A i \in inflight : Enabled(i)

\* No interrupt is handled before irq_init() has emptied the table and the enable words, and
\* an interrupt reaches the program only for a line it has requested, whatever it unmasks and
\* whatever an earlier boot stage left enabled, pending or at a priority.
OnlyAskedLinesServed ==
    ipc # "idle" => pc \notin InitPc /\ (irqn # 0 => irqn >= 16 /\ asked[irqn] # Zeroed)

\* The program has the CPU's interrupts on (the trap keeps its MIE in the frame).
CpuOn == meie /\ (mie \/ frame)

\* Line j was requested without a handler and its device is up: do_irq() completes it and
\* finds it pending again, for ever.
Storm(j) == j \in line /\ Open(j) /\ asked[j].handler = NULL

\* A device that raises a line the program requested is served, as long as the program leaves
\* the line unmasked and the CPU's interrupts on; and do_irq(), which drains what the devices have
\* asked, comes back to the main program.  A line without a handler that keeps coming back keeps
\* the trap, itself and the lines of higher numbers from it, but none of a lower number.
EveryRaiseServed ==
    /\ \A i \in Irqn :
          i \in line ~> \/ i \notin line \/ ~Open(i) \/ ~CpuOn
                        \/ \E j \in Irqn : j <= i /\ Storm(j)
    /\ ipc # "idle" ~> (ipc = "idle" \/ \E j \in Irqn : Storm(j))

-----------------------------------------------------------------------------
(***************************************************************************)
(* The inductive invariant behind these: why no step can break them.        *)
(***************************************************************************)

\* Until irq_init() is over nobody asked for a line and no trap is taken; the words before
\* word k are clear, and behind the loop all of them.
InitInv ==
    /\ pc \in InitPc => /\ ~meie /\ ipc = "idle"
                        /\ \A i \in Irqn : asked[i] = Zeroed
    /\ pc \in {"i_pending", "i_enable"} => \A i \in Irqn : WordOf(i) < k => ~Enabled(i)
    /\ pc \in {"i_memset", "i_threshold"} => \A i \in Irqn : ~Enabled(i)

\* Only request_irq() makes a table entry differ from what was asked, only the entry it is
\* writing, field by field, and only while no interrupt of that line can come.
TableInv ==
    /\ \A i \in Irqn : (pc \in RequestPc /\ i = arg.irqn) \/ action[i] = asked[i]
    /\ pc \in RequestPc => /\ arg.irqn \in Irqn /\ ~Open(arg.irqn)
                          /\ arg = asked[arg.irqn]
    /\ pc \in {"r_irqn", "r_priv", "r_prio"} => action[arg.irqn].handler = arg.handler
    /\ pc \in {"r_priv", "r_prio"} => action[arg.irqn].irqn = arg.irqn
    /\ pc = "r_prio" => action[arg.irqn].priv = arg.priv

\* A line with a priority was requested; the word plic_(un)mask_irq() read is still what the
\* PLIC holds when it writes it back.
MaskInv ==
    /\ pc \in MaskPc => arg.irqn \in Irqn
    /\ pc \in {"u_write", "m_write"} => arg.irqn >= 16 /\ value = enable[WordOf(arg.irqn)]
    /\ pc \notin InitPc => \A i \in Irqn : Enabled(i) => i >= 16
    /\ pc \notin {"i_mie", "i_prio"} => \A i \in Irqn : prio[i] > 0 => asked[i] # Zeroed

\* do_irq() holds the one open claim, on a line that stays unmasked.
TrapInv ==
    /\ ClaimsCompleted
    /\ ipc \in {"handler", "eoi"} => irqn # 0
    /\ irqn # 0 => irqn >= 16 /\ asked[irqn] # Zeroed
    /\ \A i \in inflight : Open(i)
    /\ ipc = "handler" => call = action[irqn] /\ call.handler # NULL

IInv == TypeOK /\ InitInv /\ TableInv /\ MaskInv /\ TrapInv

-----------------------------------------------------------------------------
(***************************************************************************)
(* Irq implements IrqService: a line is open when its enable bit is set and  *)
(* it has a priority, a request waits when the PLIC has latched it, and it   *)
(* is being served from the claim to the end of interrupt.                   *)
(***************************************************************************)
Serving ==
    CASE ipc = "handler" -> call
      [] ipc \in {"dispatch", "eoi"} /\ irqn # 0 -> action[irqn]
      [] OTHER -> Zeroed

Service == INSTANCE IrqService WITH
    Nobody <- Zeroed, Calls <- Requests, want <- asked,
    open <- {i \in Irqn : Open(i)}, waiting <- pending, serving <- Serving

\* Each step of irq.c and of the PLIC is a step of the service, or invisible to it: requests
\* are served once, only on open lines, by the whole handler entry asked for last; masking
\* one line leaves its neighbours in the enable word alone; no request is lost.
ImplementsService == Service!Spec
=============================================================================
