------------------------------ MODULE MCTickets ------------------------------
(***************************************************************************)
(* One bill and two handlers: a conflict over a bill is one of a handler   *)
(* that holds it and another that wants it, and the theorems of            *)
(* TicketsProofs cover any number of both.  At most one restart.           *)
(***************************************************************************)
EXTENDS Tickets

CONSTANTS b1, p1, p2

MCBills == {b1}
MCHandlers == {p1, p2}
=============================================================================
