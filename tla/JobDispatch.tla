---------------------------- MODULE JobDispatch ----------------------------
(***************************************************************************)
(* The life of a print job between the dashboard and the agents.           *)
(*                                                                         *)
(* The dashboard keeps a table of jobs.  POST inserts a row, the long poll *)
(* hands the oldest matching pending row to an agent without marking it,   *)
(* PATCH and DELETE load a row and, in a second database step, write it.   *)
(* An agent polls, reports "injecting", calls the printer backend, reports *)
(* the outcome; it never learns whether a report was applied.              *)
(***************************************************************************)
EXTENDS Integers, FiniteSets

CONSTANTS
    Jobs,         \* the jobs that may be posted
    Agents,       \* one agent process per printer; also the printer's id
    NoPrinter,    \* the NULL of the column jobs.printer_id
    NoJob,        \* an agent between two jobs
    Types,        \* printer types: dtg, dtf, uv
    AgentType,    \* the type an agent polls for
    MaxLost,      \* how many reports of agents may be swallowed
    MaxCrashes,   \* how many times an agent may crash
    MaxCancels    \* how many DELETE requests the operator sends

ASSUME NoPrinterAssumption == NoPrinter \notin Agents
ASSUME NoJobAssumption     == NoJob \notin Jobs
ASSUME AgentTypeAssumption == AgentType \in [Agents -> Types]
ASSUME BoundAssumption     == {MaxLost, MaxCrashes, MaxCancels} \subseteq Nat

VARIABLES
    status,       \* jobs.status, or "absent" while the row does not exist
    target,       \* jobs.printer_id
    type,         \* jobs.printer_type
    created,      \* jobs.created_at, as the rank of the stamp
    completedAt,  \* jobs.completed_at is set
    errorMsg,     \* jobs.error_message is set
    patches,      \* PATCH requests the dashboard has not finished
    deletes,      \* DELETE requests the dashboard has not finished
    pc,           \* where each agent's dispatch loop stands
    hold,         \* the job an agent works on
    attempt,      \* how many jobs each agent has picked up
    knowsId,      \* the agent has its printer_id from the registration
    tries,        \* how often each agent called its backend for each job
    vouched,      \* the jobs a backend has answered with success at least once
    charged,      \* reports of an agent on a job that were swallowed
    posting,      \* jobs that are stamped and not committed yet
    before,       \* for each job, the rows there were when it was stamped
    posted, lost, crashes, cancels

columns == <<target, type, created>>
posts   == <<posting, before, posted>>
stamps  == <<completedAt, errorMsg>>
network == <<patches, deletes>>
agent   == <<pc, hold, attempt, knowsId>>
history == <<tries, vouched, charged>>
bounds  == <<posts, lost, crashes, cancels>>
vars    == <<status, columns, stamps, network, agent, history, bounds>>
-----------------------------------------------------------------------------
(***************************************************************************)
(* Types.  "printing", "completed" and "queued" are left out: no agent     *)
(* reports them and no other client of the API sends a PATCH.              *)
(***************************************************************************)
Outcome   == {"sent", "failed"}
JobStatus == {"pending", "injecting", "sent", "failed", "cancelled"}
Unread    == "unread"

\* `seen' is the status the handler's session loaded, Unread before that.
Patch  == [by: Agents, n: Nat, job: Jobs, to: {"injecting"} \cup Outcome,
           seen: JobStatus \cup {Unread}]
Delete == [n: Nat, job: Jobs, seen: JobStatus \cup {Unread}]

\* Type invariant; an agent that is not idle has a job in hand.
TypeOK ==
    /\ status \in [Jobs -> JobStatus \cup {"absent"}]
    /\ target \in [Jobs -> Agents \cup {NoPrinter}]
    /\ type \in [Jobs -> Types]
    /\ created \in [Jobs -> Nat]
    /\ completedAt \in [Jobs -> BOOLEAN]
    /\ errorMsg \in [Jobs -> BOOLEAN]
    /\ patches \subseteq Patch
    /\ deletes \subseteq Delete
    /\ pc \in [Agents -> {"idle", "claiming", "injecting", "reporting"}]
    /\ hold \in [Agents -> Jobs \cup {NoJob}]
    /\ \A a \in Agents : pc[a] # "idle" => hold[a] \in Jobs
    /\ attempt \in [Agents -> Nat]
    /\ knowsId \in [Agents -> BOOLEAN]
    /\ tries \in [Agents -> [Jobs -> Nat]]
    /\ vouched \subseteq Jobs
    /\ charged \in [Agents -> [Jobs -> Nat]]
    /\ posting \subseteq Jobs
    /\ before \in [Jobs -> SUBSET Jobs]
    /\ {posted, lost, crashes, cancels} \subseteq Nat

Init ==
    /\ status = [j \in Jobs |-> "absent"]
    /\ target = [j \in Jobs |-> NoPrinter]
    /\ type \in [Jobs -> Types]
    /\ created = [j \in Jobs |-> 0]
    /\ completedAt = [j \in Jobs |-> FALSE]
    /\ errorMsg = [j \in Jobs |-> FALSE]
    /\ patches = {}
    /\ deletes = {}
    /\ pc = [a \in Agents |-> "idle"]
    /\ hold = [a \in Agents |-> NoJob]
    /\ attempt = [a \in Agents |-> 0]
    /\ knowsId = [a \in Agents |-> FALSE]
    /\ tries = [a \in Agents |-> [j \in Jobs |-> 0]]
    /\ vouched = {}
    /\ charged = [a \in Agents |-> [j \in Jobs |-> 0]]
    /\ posting = {}
    /\ before = [j \in Jobs |-> {}]
    /\ posted = 0 /\ lost = 0 /\ crashes = 0 /\ cancels = 0
-----------------------------------------------------------------------------
(***************************************************************************)
(* The dashboard.                                                          *)
(***************************************************************************)

\* POST /api/jobs runs in a thread and stamps the row before it commits it,
\* so rows may appear in another order than that of their stamps.  The clock
\* moves on between two stamps.
StampJob(j, p) ==
    /\ status[j] = "absent" /\ j \notin posting
    /\ posting' = posting \cup {j}
    /\ target' = [target EXCEPT ![j] = p]
    /\ created' = [created EXCEPT ![j] = posted]
    /\ before' = [before EXCEPT ![j] = {k \in Jobs : status[k] # "absent"}]
    /\ posted' = posted + 1
    /\ UNCHANGED <<status, type, stamps, network, agent, history, lost, crashes, cancels>>

\* The row is committed, then waiting polls are woken.  A commit that fails
\* is one that never comes.
CreateJob(j) ==
    /\ j \in posting
    /\ posting' = posting \ {j}
    /\ status' = [status EXCEPT ![j] = "pending"]
    /\ UNCHANGED <<columns, stamps, network, agent, history, before, posted,
                   lost, crashes, cancels>>

\* Mutant: a cancelled row is handed out too.
MatchesCancelled(a, j) ==
    /\ status[j] \in {"pending", "cancelled"}
    /\ type[j] = AgentType[a]
    /\ knowsId[a] => target[j] \in {a, NoPrinter}

\* Mutant: the filter forgets that NULL equals nothing.
MatchesNoNull(a, j) ==
    /\ status[j] = "pending"
    /\ type[j] = AgentType[a]
    /\ knowsId[a] => target[j] = a

\* The filter of the long poll: an agent without an id sees every job of
\* its type, one with an id its own jobs and those without a target.
Matches(a, j) ==
    /\ status[j] = "pending"
    /\ type[j] = AgentType[a]
    /\ knowsId[a] => target[j] \in {a, NoPrinter}

\* Mutant: the newest row first.
NextJobNewest(a, j) ==
    /\ Matches(a, j)
    /\ \A k \in Jobs : Matches(a, k) => created[j] >= created[k]

\* The oldest of them.
NextJob(a, j) ==
    /\ Matches(a, j)
    /\ \A k \in Jobs : Matches(a, k) => created[j] <= created[k]

\* update_status, first half: the session loads the row.
LoadForPatch(r) ==
    /\ r \in patches
    /\ r.seen = Unread
    /\ patches' = (patches \ {r}) \cup {[r EXCEPT !.seen = status[r.job]]}
    /\ UNCHANGED <<status, columns, stamps, deletes, agent, history, bounds>>

\* Mutant: "injecting" is not stored.
WrittenNoClaim(j, seen, to) == IF to = "injecting" THEN status[j] ELSE to

\* The status column after the UPDATE of a session that loaded `seen': the
\* mapper writes only what differs from the loaded row.
Written(j, seen, to) == IF seen = to THEN status[j] ELSE to

\* Mutant: only a cancelled job gets its completion time.
ClosesCancelled(to) == to = "cancelled"

\* The statuses that set completed_at.
Closes(to) == to \in {"failed", "cancelled"}

\* update_status, second half: UPDATE and commit; the response is sent.
CommitPatch(r) ==
    /\ r \in patches
    /\ r.seen # Unread
    /\ status' = [status EXCEPT ![r.job] = Written(r.job, r.seen, r.to)]
    /\ completedAt' = [completedAt EXCEPT ![r.job] = @ \/ Closes(r.to)]
    /\ errorMsg' = [errorMsg EXCEPT ![r.job] = @ \/ r.to = "failed"]
    /\ patches' = patches \ {r}
    /\ UNCHANGED <<columns, deletes, agent, history, bounds>>

\* The operator presses cancel.
SendCancel(j) ==
    /\ cancels < MaxCancels
    /\ status[j] # "absent"
    /\ cancels' = cancels + 1
    /\ deletes' = deletes \cup {[n |-> cancels, job |-> j, seen |-> Unread]}
    /\ UNCHANGED <<status, columns, stamps, patches, agent, history, posts, lost, crashes>>

\* cancel_job loads the row and answers 409 for a closed job.
CheckCancel(d) ==
    /\ d \in deletes
    /\ d.seen = Unread
    /\ IF status[d.job] \in {"failed", "cancelled"}
       THEN deletes' = deletes \ {d}
       ELSE deletes' = (deletes \ {d}) \cup {[d EXCEPT !.seen = status[d.job]]}
    /\ UNCHANGED <<status, columns, stamps, patches, agent, history, bounds>>

\* ... and otherwise writes "cancelled" over whatever the row holds by now.
CommitCancel(d) ==
    /\ d \in deletes
    /\ d.seen # Unread
    /\ status' = [status EXCEPT ![d.job] = Written(d.job, d.seen, "cancelled")]
    /\ completedAt' = [completedAt EXCEPT ![d.job] = @ \/ Closes("cancelled")]
    /\ deletes' = deletes \ {d}
    /\ UNCHANGED <<columns, errorMsg, patches, agent, history, bounds>>
-----------------------------------------------------------------------------
(***************************************************************************)
(* The agents.                                                             *)
(***************************************************************************)

Waiting(a) == pc[a] \in {"claiming", "reporting"}

\* The report agent a is waiting for, if the dashboard still has it.
Outstanding(a) ==
    {r \in patches : /\ Waiting(a)
                     /\ r.by = a
                     /\ r.n = attempt[a]
                     /\ r.to = "injecting" <=> pc[a] = "claiming"}

Send(a, j, n, to) ==
    patches' = patches \cup
                 {[by |-> a, n |-> n, job |-> j, to |-> to, seen |-> Unread]}

Charge(a, j) == charged' = [charged EXCEPT ![a][j] = @ + 1]

\* Registration with the dashboard succeeds; from the next poll on the loop
\* uses the id.
Register(a) ==
    /\ ~knowsId[a]
    /\ ~Waiting(a)
    /\ knowsId' = [knowsId EXCEPT ![a] = TRUE]
    /\ UNCHANGED <<status, columns, stamps, network, pc, hold, attempt, history, bounds>>

\* The poll answers with a job and the agent sends its first report.  A poll
\* that times out or whose answer is lost changes nothing.
PickUp(a, j) ==
    /\ pc[a] = "idle"
    /\ NextJob(a, j)
    /\ pc' = [pc EXCEPT ![a] = "claiming"]
    /\ hold' = [hold EXCEPT ![a] = j]
    /\ attempt' = [attempt EXCEPT ![a] = @ + 1]
    /\ Send(a, j, attempt[a] + 1, "injecting")
    /\ UNCHANGED <<status, columns, stamps, deletes, knowsId, history, bounds>>

\* The first report has been answered, one way or the other: inject.
StartInjection(a) ==
    /\ pc[a] = "claiming"
    /\ pc' = [pc EXCEPT ![a] = "injecting"]
    /\ tries' = [tries EXCEPT ![a][hold[a]] = @ + 1]

\* The second report has been answered: go on with the next job.
FinishJob(a) ==
    /\ pc[a] = "reporting"
    /\ pc' = [pc EXCEPT ![a] = "idle"]
    /\ hold' = [hold EXCEPT ![a] = NoJob]

Continue(a) ==
    \/ StartInjection(a) /\ UNCHANGED hold
    \/ FinishJob(a) /\ UNCHANGED tries

\* Mutant: the report is sent in the background and not waited for.
PatchReturnsAtOnce(a) ==
    /\ Continue(a)
    /\ UNCHANGED <<status, columns, stamps, network, attempt, knowsId, vouched, charged, bounds>>

\* _patch_job returns: the dashboard answered, or the request is gone.
PatchReturns(a) ==
    /\ Outstanding(a) = {}
    /\ Continue(a)
    /\ UNCHANGED <<status, columns, stamps, network, attempt, knowsId, vouched, charged, bounds>>

\* _patch_job gives up after five seconds; the request stays with the
\* dashboard, which may apply it at any later time.
PatchTimesOut(a) ==
    /\ Outstanding(a) # {}
    /\ lost < MaxLost
    /\ lost' = lost + 1
    /\ Charge(a, hold[a])
    /\ Continue(a)
    /\ UNCHANGED <<status, columns, stamps, network, attempt, knowsId, vouched,
                   posts, crashes, cancels>>

\* A report is lost on its way or its handler fails (a locked database, a
\* restart of the dashboard).  The loss of a request that nobody waits for is
\* the dashboard never getting to it.
LosePatch(a, r) ==
    /\ r \in Outstanding(a)
    /\ lost < MaxLost
    /\ lost' = lost + 1
    /\ Charge(a, hold[a])
    /\ patches' = patches \ {r}
    /\ UNCHANGED <<status, columns, stamps, deletes, agent, tries, vouched,
                   posts, crashes, cancels>>

\* Mutants: the result of the backend is ignored; a status agents never use.
VerdictSent(ok)      == "sent"
VerdictCompleted(ok) == IF ok THEN "completed" ELSE "failed"

Verdict(ok) == IF ok THEN "sent" ELSE "failed"

\* The backend returns, with or without success, which is all the dashboard
\* is told; how far a success can be trusted is in InjectionContract.
InjectReturns(a, ok) ==
    /\ pc[a] = "injecting"
    /\ pc' = [pc EXCEPT ![a] = "reporting"]
    /\ vouched' = IF ok THEN vouched \cup {hold[a]} ELSE vouched
    /\ Send(a, hold[a], attempt[a], Verdict(ok))
    /\ UNCHANGED <<status, columns, stamps, deletes, hold, attempt, knowsId,
                   tries, charged, bounds>>

\* The agent process dies and is started again: the job in hand and the
\* printer's id are forgotten, what it sent is not.
Crash(a) ==
    /\ crashes < MaxCrashes
    /\ crashes' = crashes + 1
    /\ pc' = [pc EXCEPT ![a] = "idle"]
    /\ hold' = [hold EXCEPT ![a] = NoJob]
    /\ knowsId' = [knowsId EXCEPT ![a] = FALSE]
    /\ IF pc[a] \in {"injecting", "reporting"}
       THEN Charge(a, hold[a])
       ELSE UNCHANGED charged
    /\ UNCHANGED <<status, columns, stamps, network, attempt, tries, vouched,
                   posts, lost, cancels>>
-----------------------------------------------------------------------------
AgentStep(a) ==
    \/ Register(a)
    \/ \E j \in Jobs : PickUp(a, j)
    \/ PatchReturns(a)
    \/ PatchTimesOut(a)
    \/ \E r \in patches : LosePatch(a, r)
    \/ \E ok \in BOOLEAN : InjectReturns(a, ok)
    \/ Crash(a)

DashboardStep ==
    \/ \E j \in Jobs, p \in Agents \cup {NoPrinter} : StampJob(j, p)
    \/ \E j \in Jobs : CreateJob(j)
    \/ \E r \in patches : LoadForPatch(r) \/ CommitPatch(r)
    \/ \E j \in Jobs : SendCancel(j)
    \/ \E d \in deletes : CheckCancel(d) \/ CommitCancel(d)

Next == DashboardStep \/ \E a \in Agents : AgentStep(a)

Spec == Init /\ [][Next]_vars

\* The loops of the agents go on, their HTTP calls return within the timeouts
\* and the dashboard serves a report somebody waits for.  The backend may
\* never return: an injection waits for the answer to its SAVE without limit.
FairSpec ==
    /\ Spec
    /\ \A a \in Agents :
          /\ WF_vars(\E j \in Jobs : PickUp(a, j))
          /\ WF_vars(PatchReturns(a))
          /\ WF_vars(\E r \in Outstanding(a) : LoadForPatch(r) \/ CommitPatch(r))
-----------------------------------------------------------------------------
(***************************************************************************)
(* Safety.                                                                 *)
(***************************************************************************)

\* A job shown as sent is one a backend has answered with success, whatever
\* was delayed, lost, cancelled or dispatched twice: no handler makes up an
\* outcome, and none turns "failed" into "sent" (job_dispatch.py reports the
\* backend's own verdict, job_queue.py stores it unchecked).
SentMeansSuccess ==
    \A j \in Jobs : status[j] = "sent" => j \in vouched

\* An agent injects a job again only if it paid for it with two swallowed
\* reports per repetition: the poll hands out only pending rows, and each
\* pick-up sends two reports that would both have ended "pending".  So with
\* a reliable dashboard no agent injects a job twice.
ReinjectionIsPaidFor ==
    \A a \in Agents, j \in Jobs : tries[a][j] > 0 =>
        2 * (tries[a][j] - 1) <= charged[a][j]

\* A job closed as failed or cancelled has its completion time, whichever of
\* the concurrent handlers wrote last.
ClosedIsStamped ==
    \A j \in Jobs : status[j] \in {"failed", "cancelled"} => completedAt[j]

\* Nobody works on the job and no report on it is under way.
Quiet(j) ==
    /\ \A a \in Agents : hold[a] # j
    /\ \A r \in patches : r.job # j

\* A cancel that nobody races with is final: the job is not handed out, not
\* injected and its status does not change.
CancelSticks ==
    [][\A j \in Jobs :
         status[j] = "cancelled" /\ Quiet(j) =>
            /\ status'[j] = "cancelled"
            /\ \A a \in Agents : tries'[a][j] = tries[a][j] /\ hold'[a] # j]_vars

\* A job nobody works on shows "injecting" only after a swallowed report on
\* it or a crash: whatever two agents working on it write over each other,
\* the last write is an outcome.
StuckOnlyAfterAFault ==
    \A j \in Jobs :
        status[j] = "injecting" /\ Quiet(j) =>
            crashes > 0 \/ \E a \in Agents : charged[a][j] > 0

\* While a job without a target waits, no agent of its type has injected one
\* whose POST began after the row was stored: neither swallowed reports nor a
\* restart nor a second agent let the queue overtake its head (the long poll
\* hands out the row with the oldest stamp and claims nothing).  Of two POSTs
\* that overlap, either may be served first.
FirstComeFirstServed ==
    \A k \in Jobs : \A j \in before[k] :
        /\ status[j] = "pending" /\ target[j] = NoPrinter
        /\ type[k] = type[j]
        => \A a \in Agents : tries[a][k] = 0
-----------------------------------------------------------------------------
(***************************************************************************)
(* The abstract life of a job, which these processes implement.            *)
(***************************************************************************)

Lifecycle == INSTANCE JobLifecycle WITH busy <- {j \in Jobs : ~Quiet(j)}

\* Whatever is delayed, lost, raced or crashes, every step of the dashboard
\* and of the agents is one that JobLifecycle allows: a row that nobody
\* works on changes by a cancel alone, no row returns to the queue, "sent"
\* is stored only after a backend answered with success.
ImplementsLifecycle == Lifecycle!Spec

\* No row returns to the queue, and to a row that nobody works on nothing
\* happens but a cancel: neither a late report nor an agent that comes back
\* changes it, and no backend answers for it any more.
RowsGoForward ==
    [][\A j \in Jobs :
         /\ status[j] \notin {"absent", "pending"} => status'[j] \notin {"absent", "pending"}
         /\ Quiet(j) /\ status[j] # "absent"
                => status'[j] \in {status[j], "cancelled"} /\ (j \in vouched' => j \in vouched)]_vars
-----------------------------------------------------------------------------
(***************************************************************************)
(* Liveness.                                                               *)
(***************************************************************************)

BackendsReturn == \A a \in Agents : []<>(pc[a] # "injecting")

\* If every injection returns, then with any finite number of faults every job
\* at least leaves the queue, and with a reliable dashboard and no crash every
\* job is closed; a single swallowed report or crash may leave it at
\* "injecting" for ever.
EveryJobCloses ==
    BackendsReturn =>
        \A j \in Jobs :
            /\ status[j] = "pending" ~> status[j] # "pending"
            /\ status[j] = "pending" ~>
                   \/ status[j] \in {"sent", "failed", "cancelled"}
                   \/ lost + crashes > 0
=============================================================================
