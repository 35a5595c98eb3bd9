-------------------------- MODULE MCDtgWorkstation --------------------------
(* Instances of DtgWorkstation for TLC. *)
EXTENDS DtgWorkstation

CONSTANTS a, b

\* The one may ask for the first platen, or for none; the other for the second.
AskedValues == [j \in Jobs |-> IF j = a THEN {0, NoWs} ELSE {1}]
=============================================================================
