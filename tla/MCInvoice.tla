----------------------------- MODULE MCInvoice ------------------------------
(***************************************************************************)
(* The small instance of the invoice contract that TLC checks.             *)
(***************************************************************************)
EXTENDS Invoice

(* Not a multiple of the denominator, so that rounding shows.               *)
MCPrices == {[amount |-> 7, gross |-> 8]}
=============================================================================
