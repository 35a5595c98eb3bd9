------------------------- MODULE MCOperatorRequests -------------------------
(* Instances of OperatorRequests for TLC. *)
EXTENDS OperatorRequests

\* Modes that differ in the direction, in the inks, and in both.
ThreePresets == {"forward_color", "white_only", "reverse_white"}
=============================================================================
