-------------------------- MODULE InjectionContract --------------------------
(***************************************************************************)
(* What inject_job of a DTF or UV agent promises to the dispatch loop,     *)
(* which knows nothing of DLLs, threads and vectors:                       *)
(*   - "yes" means that PrintExp has the job, or had it when it died;      *)
(*   - "no" means nothing: the job may have entered, or may enter later,   *)
(*     but not after the next job is asked for;                            *)
(*   - what has entered stays, and what was answered "yes" is over.        *)
(* That holds for all injections until one that was answered "no" goes on  *)
(* behind the agent's back and meets a later one: of the jobs that met,    *)
(* PrintExp may have any, and if they use the print vector while it grows, *)
(* of all jobs.  A path that says "done" makes an error a "yes".           *)
(***************************************************************************)
EXTENDS Naturals

CONSTANTS Injections, Misleading

VARIABLES
    last,      \* the injection that was asked for last
    answer,    \* what inject_job returned
    entered,   \* the jobs that PrintExp has, or had when it died
    met,       \* the injections that met another one
    torn       \* two of them met in the growing vector

Init ==
    /\ last = 0
    /\ answer = [j \in Injections |-> "none"]
    /\ entered = {}
    /\ met = {}
    /\ torn = FALSE

\* Injections that the agent is done with and that may go on in PrintExp.
Loose == met \cup {j \in 1 .. last : answer[j] = "no"}

\* The next job is asked for, when the one before is answered.  It may fail
\* at once, and it meets what still goes on.
Ask(j) ==
    /\ j = last + 1
    /\ last # 0 => answer[last] # "none"
    /\ last' = j
    /\ answer' \in {answer, [answer EXCEPT ![j] = "no"]}
    /\ \/ UNCHANGED met
       \/ \E others \in (SUBSET Loose) \ {{}} : met' = met \cup others \cup {j}
    /\ UNCHANGED <<entered, torn>>

\* The job enters PrintExp, perhaps after the answer.
Enter ==
    /\ last # 0 /\ answer[last] # "yes"
    /\ entered' = entered \cup {last}
    /\ UNCHANGED <<last, answer, met, torn>>

\* One of those that met stores a job: it may overwrite others of them, cut
\* them off or bring them back.
Mix ==
    /\ entered' \ met = entered \ met
    /\ UNCHANGED <<last, answer, met, torn>>

\* Two that met use the vector while it moves to a larger array: from then on
\* it may hold anything.
Tear ==
    /\ met # {}
    /\ torn' = TRUE
    /\ UNCHANGED <<last, answer, met>>

\* The answer is no more than the truth, unless the path or another one
\* speaks for the job.
Answer(a) ==
    /\ last # 0 /\ answer[last] = "none"
    /\ a = "yes" => last \in entered \cup met \cup Misleading \/ torn
    /\ answer' = [answer EXCEPT ![last] = a]
    /\ UNCHANGED <<last, entered, met, torn>>

Next ==
    \/ \E j \in Injections : Ask(j)
    \/ Enter
    \/ Mix
    \/ Tear
    \/ \E a \in {"yes", "no"} : Answer(a)

Spec == Init /\ [][Next]_<<last, answer, entered, met, torn>>
=============================================================================
