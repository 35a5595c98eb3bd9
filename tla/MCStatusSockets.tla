--------------------------- MODULE MCStatusSockets --------------------------
(* Instances of StatusSockets for TLC. *)
EXTENDS StatusSockets
=============================================================================
