---------------------------- MODULE JobLifecycle ----------------------------
(***************************************************************************)
(* What the dashboard and the agents together promise about a job, whoever *)
(* reports late, crashes or cancels:                                       *)
(*   - work on a job begins only while its row waits in the queue;         *)
(*   - a backend answers, and a report is stored, only for a job that      *)
(*     somebody works on or has a report under way for;                    *)
(*   - a row says "sent" only after a backend has answered with success;   *)
(*   - a row that nobody works on changes by a cancel and nothing else;    *)
(*   - no row returns to the queue, and a closed row has its time.         *)
(***************************************************************************)
CONSTANT Jobs

VARIABLES
    status,       \* jobs.status
    completedAt,  \* jobs.completed_at is set
    vouched,      \* the jobs a backend has answered with success
    busy          \* the jobs that are worked on or have a report under way

Init ==
    /\ status = [j \in Jobs |-> "absent"]
    /\ completedAt = [j \in Jobs |-> FALSE]
    /\ vouched = {}
    /\ busy = {}

Store(j, to) ==
    /\ status' = [status EXCEPT ![j] = to]
    /\ completedAt' = [completedAt EXCEPT ![j] = @ \/ to \in {"failed", "cancelled"}]

\* The step may have been the last thing to happen to the job.
MayRest(j) == busy' \in {busy, busy \ {j}}

\* The operator posts the job.
Post(j) ==
    /\ status[j] = "absent"
    /\ status' = [status EXCEPT ![j] = "pending"]
    /\ UNCHANGED <<completedAt, vouched, busy>>

\* An agent takes the job, perhaps one of several.
Take(j) ==
    /\ status[j] = "pending"
    /\ busy' = busy \cup {j}
    /\ UNCHANGED <<status, completedAt, vouched>>

\* A backend answers with success.
Vouch(j) ==
    /\ j \in busy
    /\ vouched' = vouched \cup {j}
    /\ UNCHANGED <<status, completedAt, busy>>

\* A report of an agent is stored.
Report(j, to) ==
    /\ j \in busy
    /\ to = "sent" => j \in vouched
    /\ Store(j, to)
    /\ MayRest(j)
    /\ UNCHANGED vouched

\* The operator cancels.
Cancel(j) ==
    /\ status[j] # "absent"
    /\ Store(j, "cancelled")
    /\ UNCHANGED <<vouched, busy>>

\* The last agent is done with the job, or dies.
Rest(j) ==
    /\ busy' = busy \ {j}
    /\ UNCHANGED <<status, completedAt, vouched>>

Next ==
    \E j \in Jobs :
        \/ Post(j) \/ Take(j) \/ Vouch(j) \/ Cancel(j) \/ Rest(j)
        \/ \E to \in {"injecting", "sent", "failed"} : Report(j, to)

Spec == Init /\ [][Next]_<<status, completedAt, vouched, busy>>
=============================================================================
