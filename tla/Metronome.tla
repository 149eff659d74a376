----------------------------- MODULE Metronome ------------------------------
(***************************************************************************)
(* What a periodic timer promises: once set, the n-th tick comes no earlier *)
(* than n periods after the time it was set from (the first after a delay   *)
(* of its own), a tick that is due comes, and late ones do not shift the    *)
(* ones after them.                                                         *)
(***************************************************************************)
EXTENDS Integers

CONSTANT Period

VARIABLES now, set, base, first, ticks

vars == <<now, set, base, first, ticks>>

Init == now = 0 /\ ~set /\ base = 0 /\ first = 0 /\ ticks = 0

\* When the tick after so many is due
Due == IF ticks = 0 THEN base + first ELSE base + (ticks + 1) * Period

Set == ~set /\ set' = TRUE /\ base' \in 0..now /\ first' \in Nat /\ ticks' = 0 /\ UNCHANGED now

Reset == set /\ set' = FALSE /\ base' = 0 /\ first' = 0 /\ ticks' = 0 /\ UNCHANGED now

Tick == set /\ now >= Due /\ ticks' = ticks + 1 /\ UNCHANGED <<now, set, base, first>>

Pass == now' = now + 1 /\ UNCHANGED <<set, base, first, ticks>>

Next == Set \/ Reset \/ Tick \/ Pass

Spec == Init /\ [][Next]_vars /\ WF_vars(Tick)
=============================================================================
