------------------------- MODULE MCInvoiceTemplates -------------------------
(***************************************************************************)
(* A small instance of the invoice contract with templates for TLC.        *)
(***************************************************************************)
EXTENDS InvoiceTemplates

MCPrices == {[amount |-> 7, gross |-> 8]}
=============================================================================
