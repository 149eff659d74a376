------------------------------- MODULE PadMap -------------------------------
(***************************************************************************)
(* What the pin multiplexer promises a program: it asks for pads to carry   *)
(* functions, and each request in turn gives the pad it names the function  *)
(* it names and leaves every other pad alone.                               *)
(***************************************************************************)
EXTENDS Sequences

VARIABLES
    signal,     \* the function each pad carries
    todo        \* the requests, pairs of a pad and a function, still to be served

Init == todo = <<>>

Ask == todo = <<>> /\ todo' # <<>> /\ UNCHANGED signal

Serve ==
    /\ todo # <<>>
    /\ signal' = [signal EXCEPT ![Head(todo)[1]] = Head(todo)[2]]
    /\ todo' = Tail(todo)

Next == Ask \/ Serve

Spec == Init /\ [][Next]_<<signal, todo>>
=============================================================================
