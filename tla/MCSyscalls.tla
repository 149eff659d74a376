----------------------------- MODULE MCSyscalls -----------------------------
(***************************************************************************)
(* The calls newlib makes into syscalls.c: _write() and the console under   *)
(* it, which the main program shares with handlers, and _sbrk(), which only *)
(* the main program gets to.  The two keep no state in common, so a         *)
(* behaviour of this module makes the calls of one of them.                 *)
(*                                                                          *)
(* A line of the main program and a line of the handler, as short as lets   *)
(* an interrupt fall before, between and behind the characters of "\r\n";   *)
(* two different keys, so that an exchange would show; a prompt of one      *)
(* character stands for the text of the prompt.  Small and large blocks of  *)
(* heap, none at all, what just fits and what cannot, and giving back.      *)
(***************************************************************************)
EXTENDS Console, Sbrk

MCMainLine == <<"a", NL>>
MCIsrLine == <<"b", NL>>
MCPrompt == <<"?">>
MCIncrements == {-4, -1, 0, 1, 2, 5, 9, 10}

VARIABLE called     \* whose calls the behaviour makes: "_write" or "_sbrk"

SyscallsInit == Init /\ HeapInit /\ called \in {"_write", "_sbrk"}

InWrite(A) == called = "_write" /\ A /\ UNCHANGED <<called, heapVars>>
InSbrk(A) == called = "_sbrk" /\ A /\ UNCHANGED <<called, vars>>

SyscallsNext == InWrite(Next) \/ InSbrk(HeapNext)

SyscallsVars == <<called, vars, heapVars>>

\* The fairness of Console
SyscallsSpec ==
    /\ SyscallsInit /\ [][SyscallsNext]_SyscallsVars
    /\ WF_SyscallsVars(InWrite(Program)) /\ WF_SyscallsVars(InWrite(Hardware))
    /\ \A w \in Writers : WF_SyscallsVars(InWrite(Putc(w)))

\* ComesToRest of Console: the program that prints, or echoes, always comes back to its main loop
\* with everything sent and no key waiting.
PrintingComesToRest == called = "_write" => ComesToRest
=============================================================================
