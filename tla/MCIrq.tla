------------------------------- MODULE MCIrq --------------------------------
(***************************************************************************)
(* An instance of Irq: UART1 and WDT1 of the Duo (lines 45 and 58) share an  *)
(* enable word; one request has no handler, and line 256 is out of          *)
(* request_irq()'s range.                                                   *)
(***************************************************************************)
EXTENDS Irq

CONSTANTS h1, h2, p1, p2

Req(i, h, p) == [handler |-> h, irqn |-> i, priv |-> p]

MCNeighbours == {45, 58}
MCNeighbourRequests == {Req(45, h1, p1), Req(45, h2, p2), Req(58, h1, p2),
                         Req(58, NULL, p1), Req(256, h1, p1)}
=============================================================================
