--------------------------- MODULE MCDllInjection ---------------------------
(* Instances of DllInjection for TLC. *)
EXTENDS DllInjection
=============================================================================
