--------------------------- MODULE MCJobDispatch ---------------------------
(* Instances of JobDispatch for TLC. *)
EXTENDS JobDispatch, TLC

\* All agents serve one type, the case in which they compete for jobs.
OneType == [a \in Agents |-> "dtf"]

\* Jobs are told apart by their columns alone, agents of one type by their
\* state alone.
Symmetry == Permutations(Jobs) \cup Permutations(Agents)
============================================================================
