-------------------------- MODULE MCPrinterRegistry -------------------------
(* Instances of PrinterRegistry for TLC. *)
EXTENDS PrinterRegistry
=============================================================================
