-------------------------------- MODULE Sbrk --------------------------------
(***************************************************************************)
(* _sbrk() of syscalls.c, from which newlib's malloc() takes its memory and *)
(* to which it gives back the top of it.  Addresses are offsets in heap[].  *)
(* Only the main program gets here: what handlers print needs no memory     *)
(* once system_init() has printed its first line.                           *)
(***************************************************************************)
EXTENDS Integers

CONSTANTS
    HEAP_SIZE,      \* CONFIG_HEAP_SIZE
    Increments      \* the values of incr asked for

ASSUME HeapAssumption == HEAP_SIZE \in Nat /\ Increments \subseteq Int

VARIABLES
    at, incr, prev_heap_end,    \* a call: "idle", "first", "check", "extend", "hung"
    heap_end,                   \* the static pointer, Null in a cleared .bss
    used                        \* the addresses malloc() holds

heapVars == <<at, incr, prev_heap_end, heap_end, used>>

Null == -1
End == IF heap_end = Null THEN 0 ELSE heap_end

HeapInit ==
    /\ at = "idle" /\ incr = 0 /\ prev_heap_end = 0
    /\ heap_end = Null /\ used = {}

\* malloc() gives back no more than it got.
Call ==
    /\ at = "idle" /\ at' = "first"
    /\ incr' \in {n \in Increments : End + n >= 0}
    /\ UNCHANGED <<prev_heap_end, heap_end, used>>

\* The first call finds the null pointer.
First ==
    /\ at = "first" /\ at' = "check"
    /\ heap_end' = End
    /\ prev_heap_end' = heap_end'
    /\ UNCHANGED <<incr, used>>

\* The fault of a guard that compares the end before the block.
FaultFits == heap_end <= HEAP_SIZE

\* The test of line 34.
Fits == heap_end <= HEAP_SIZE - incr

\* Not enough: the message, and while (1).
Refuse ==
    /\ at = "check" /\ at' = "hung" /\ ~Fits
    /\ UNCHANGED <<incr, prev_heap_end, heap_end, used>>

Check ==
    /\ at = "check" /\ at' = "extend" /\ Fits
    /\ UNCHANGED <<incr, prev_heap_end, heap_end, used>>

Block(from, to) == from .. (to - 1)

\* The fault of a first block that is not counted.
FaultLost ==
    /\ at = "extend" /\ at' = "idle"
    /\ heap_end' = IF prev_heap_end = 0 THEN heap_end ELSE heap_end + incr
    /\ used' = (used \cup Block(prev_heap_end, prev_heap_end + incr))
               \ Block(prev_heap_end + incr, prev_heap_end)
    /\ UNCHANGED <<incr, prev_heap_end>>

\* heap_end += incr, and the old end is returned: a block, or what is given back.
Extend ==
    /\ at = "extend" /\ at' = "idle"
    /\ heap_end' = heap_end + incr
    /\ used' = (used \cup Block(prev_heap_end, prev_heap_end + incr))
               \ Block(prev_heap_end + incr, prev_heap_end)
    /\ UNCHANGED <<incr, prev_heap_end>>

Hung == at = "hung" /\ UNCHANGED heapVars

HeapNext == Call \/ First \/ Refuse \/ Check \/ Extend \/ Hung
HeapSpec == HeapInit /\ [][HeapNext]_heapVars

-----------------------------------------------------------------------------
HeapTypeOK ==
    /\ at \in {"idle", "first", "check", "extend", "hung"}
    /\ incr \in Int /\ prev_heap_end \in Int
    /\ heap_end \in Int /\ (at \in {"check", "extend"} => heap_end # Null)
    /\ used \subseteq Int

\* malloc() is never given an address outside heap[], however often it takes and gives back.
WithinHeap == used \subseteq 0 .. (HEAP_SIZE - 1)

\* A block that _sbrk() returns overlaps nothing malloc() still holds.
BlocksAreFresh ==
    [][Extend => Block(prev_heap_end, prev_heap_end + incr) \cap used = {}]_heapVars

\* _sbrk() stops the program only when there is no room for the block anywhere in heap[]:
\* what was given back is used again and no gaps are left.
RefusesOnlyWhenFull ==
    at = "hung" =>
        \A from \in 0 .. HEAP_SIZE : ~(Block(from, from + incr) \subseteq (0 .. (HEAP_SIZE - 1)) \ used)

\* The inductive invariant: malloc() holds exactly the addresses below the end.
Solid ==
    /\ used = Block(0, End)
    /\ heap_end >= Null /\ End <= HEAP_SIZE

InCall ==
    /\ at \in {"first", "check", "extend"} => End + incr >= 0
    /\ at \in {"check", "extend"} => prev_heap_end = heap_end
    /\ at = "extend" => Fits
    /\ at = "hung" => heap_end # Null /\ ~Fits

HeapInv == HeapTypeOK /\ Solid /\ InCall
=============================================================================
