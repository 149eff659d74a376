----------------------------- MODULE IrqService -----------------------------
(***************************************************************************)
(* What irq.c promises its callers, without the table, the enable words and *)
(* the traps: a program asks for a handler, opens and closes a line, and    *)
(* the request of an open line is served once, by the handler asked for     *)
(* last.  Module Irq is shown to implement it.                              *)
(***************************************************************************)
EXTENDS Integers

CONSTANTS Irqn, Nobody, Calls
          \* Calls: the (handler, irqn, priv) triples a program may ask for

VARIABLES
    want,       \* for each line, the call its program asked for last, or Nobody
    open,       \* the lines whose requests are let through
    waiting,    \* the requests that wait to be served
    serving     \* the call being made for a request, or Nobody

vars == <<want, open, waiting, serving>>

Init ==
    /\ want = [i \in Irqn |-> Nobody]
    /\ open \in SUBSET Irqn
    /\ waiting \in SUBSET Irqn
    /\ serving = Nobody

\* Before the first call the service closes what it found open.
CloseAll(S) == open' = open \ S /\ UNCHANGED <<want, waiting, serving>>

Ask(i) ==
    /\ i \notin open /\ serving = Nobody
    /\ \E c \in Calls : c.irqn = i /\ want' = [want EXCEPT ![i] = c]
    /\ UNCHANGED <<open, waiting, serving>>

Open(i) ==
    /\ want[i] # Nobody /\ serving = Nobody
    /\ open' = open \cup {i} /\ UNCHANGED <<want, waiting, serving>>

Close(i) == serving = Nobody /\ CloseAll({i})

Arrive(i) == waiting' = waiting \cup {i} /\ UNCHANGED <<want, open, serving>>

\* A request is forgotten only while its line is closed and nobody asked for it yet.
Forget(S) ==
    /\ \A i \in S : want[i] = Nobody
    /\ waiting' = waiting \ S /\ UNCHANGED <<want, open, serving>>

\* The hart takes a request: from here on the line is being served.
Take(i) ==
    /\ i \in open /\ i \in waiting /\ serving = Nobody /\ want[i] # Nobody
    /\ waiting' = waiting \ {i} /\ serving' = want[i]
    /\ UNCHANGED <<want, open>>

Done == serving # Nobody /\ serving' = Nobody /\ UNCHANGED <<want, open, waiting>>

Next ==
    \/ \E i \in Irqn : Ask(i) \/ Open(i) \/ Close(i) \/ Arrive(i) \/ Take(i)
    \/ \E S \in SUBSET Irqn : Forget(S) \/ ((\A i \in S : want[i] = Nobody) /\ CloseAll(S))
    \/ Done

Spec == Init /\ [][Next]_vars
=============================================================================
