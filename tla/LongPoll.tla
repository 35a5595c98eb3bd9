------------------------------ MODULE LongPoll ------------------------------
(***************************************************************************)
(* How a new job reaches an agent that waits for one: GET /api/jobs/next,  *)
(* POST /api/jobs, the event between them, and the pool of database        *)
(* connections both need.                                                  *)
(*                                                                         *)
(* A poll is a coroutine on the event loop of the dashboard.  It asks the  *)
(* table, clears the event, waits for it or for a timer, and asks again.   *)
(* Its first query takes a connection, which it keeps until it ends; if    *)
(* there is none, the query blocks the loop itself.  A POST runs in a      *)
(* thread and sets the event from there.                                   *)
(***************************************************************************)
EXTENDS Naturals, FiniteSets

CONSTANTS
    Polls,      \* one for each agent that asks again and again
    Jobs,       \* one for each POST
    Nobody,     \* no poll is on the loop
    PoolSize,   \* connections (pool_size and max_overflow)
    Rounds      \* queries of one poll (timeout * 2)

ASSUME NobodyAssumption == Nobody \notin Polls
ASSUME KindsAssumption  == Polls \cap Jobs = {}
ASSUME BoundAssumption  == {PoolSize, Rounds} \subseteq Nat \ {0}

VARIABLES
    stage,      \* where each poll stands
    round,      \* queries it has made before this one
    loop,       \* the poll that has the loop; Nobody: any task may run
    held,       \* polls and POSTs that have a connection
    event,      \* _new_job_event is set
    woken,      \* waiting polls whose future is resolved
    post,       \* where each POST stands
    rows,       \* jobs that are pending in the table
    handed,     \* jobs that some poll has answered with
    upset,      \* POSTs in whose loop over the waiters one came or went
    missed      \* polls that saw no job and were not woken when the event was set

polls == <<stage, round, loop, woken>>
posts == <<post, upset>>
table == <<rows, handed>>
vars  == <<polls, posts, table, held, event, missed>>

Stages == {"away", "asking", "blocked", "nojob", "cleared", "unset", "waiting", "closing"}
PostStages == {"new", "adding", "stored", "notifying", "waking", "ok", "failed"}

\* A poll has a connection from its first answer to its end.  Whoever has the
\* loop is not one that awaits something.
TypeOK ==
    /\ stage \in [Polls -> Stages]
    /\ round \in [Polls -> 0 .. Rounds - 1]
    /\ loop \in Polls \cup {Nobody}
    /\ held \subseteq Polls \cup Jobs /\ Cardinality(held) <= PoolSize
    /\ event \in BOOLEAN
    /\ post \in [Jobs -> PostStages]
    /\ rows \subseteq Jobs /\ handed \subseteq Jobs
    /\ upset \subseteq {j \in Jobs : post[j] = "waking"}
    /\ missed \subseteq Polls
    /\ woken \subseteq {p \in Polls : stage[p] = "waiting"}
    /\ loop # Nobody => stage[loop] \in {"asking", "blocked", "nojob", "cleared", "unset"}
    /\ {p \in Polls : stage[p] \in {"nojob", "cleared", "unset", "waiting"}} \subseteq held
    /\ \A p \in Polls \cap held : stage[p] # "away"
    /\ \A j \in Jobs \cap held :
          post[j] \in {"adding", "notifying", "waking", "ok", "failed"}

Init ==
    /\ stage = [p \in Polls |-> "away"]
    /\ round = [p \in Polls |-> 0]
    /\ loop = Nobody
    /\ held = {}
    /\ event = FALSE
    /\ woken = {}
    /\ post = [j \in Jobs |-> "new"]
    /\ rows = {} /\ handed = {}
    /\ upset = {}
    /\ missed = {}
-----------------------------------------------------------------------------
\* p has the loop or takes its turn.
Turn(p) == loop \in {p, Nobody}

GoesTo(p, s) == stage' = [stage EXCEPT ![p] = s]

HasConnection(x) == x \in held \/ Cardinality(held) < PoolSize

\* An agent asks for a job.
Arrive(p) ==
    /\ stage[p] = "away"
    /\ GoesTo(p, "asking")
    /\ UNCHANGED <<round, loop, woken, posts, table, held, event, missed>>

\* The answer of the table: a job ends the poll.  Which of several pending
\* jobs comes first is a question of JobDispatch.
Answer(p) ==
    /\ held' = held \cup {p}
    /\ missed' = missed \ {p}
    /\ \/ /\ rows = {}
          /\ GoesTo(p, "nojob")
          /\ loop' = p
          /\ UNCHANGED handed
       \/ \E j \in rows :
             /\ handed' = handed \cup {j}
             /\ GoesTo(p, "closing")
             /\ loop' = Nobody
    /\ UNCHANGED <<round, woken, posts, rows, event>>

\* query.first(), on the loop.
Query(p) ==
    /\ stage[p] = "asking"
    /\ Turn(p)
    /\ HasConnection(p)
    /\ Answer(p)

\* No connection: the call waits for one and nothing else runs on the loop.
Block(p) ==
    /\ stage[p] = "asking"
    /\ Turn(p)
    /\ ~HasConnection(p)
    /\ GoesTo(p, "blocked")
    /\ loop' = p
    /\ UNCHANGED <<round, woken, posts, table, held, event, missed>>

Unblock(p) ==
    /\ stage[p] = "blocked"
    /\ HasConnection(p)
    /\ Answer(p)

\* Mutant: the pool waits for a connection without a limit.
PoolWaits(p) == FALSE /\ UNCHANGED vars

\* After pool_timeout the query raises, and the poll ends with an error.
PoolTimesOut(p) ==
    /\ stage[p] = "blocked"
    /\ ~HasConnection(p)
    /\ GoesTo(p, "closing")
    /\ loop' = Nobody
    /\ UNCHANGED <<round, woken, posts, table, held, event, missed>>

\* The event is cleared, whoever set it and whoever else waits for it.
\* Depending on the version of Python, wait_for gives others a turn or not.
Clear(p) ==
    /\ stage[p] = "nojob"
    /\ event' = FALSE
    /\ GoesTo(p, "cleared")
    /\ loop' \in {p, Nobody}
    /\ UNCHANGED <<round, woken, posts, table, held, missed>>

\* The wait is over: another query, or no answer after the last one.
NextRound(p) ==
    IF round[p] + 1 < Rounds
    THEN /\ GoesTo(p, "asking")
         /\ round' = [round EXCEPT ![p] = @ + 1]
         /\ loop' = p
    ELSE /\ GoesTo(p, "closing")
         /\ loop' = Nobody
         /\ UNCHANGED round

\* Event.wait finds the event set, or not ...
Check(p) ==
    /\ stage[p] = "cleared"
    /\ Turn(p)
    /\ IF event
       THEN NextRound(p)
       ELSE /\ GoesTo(p, "unset")
            /\ loop' = p
            /\ UNCHANGED round
    /\ UNCHANGED <<woken, posts, table, held, event, missed>>

\* A POST that is in its loop over the waiters notices when they change.
WaitersChange == upset' = {j \in Jobs : post[j] = "waking"}

\* ... and adds a future to the waiters, which a thread may have gone through
\* in the meantime.
Sleep(p) ==
    /\ stage[p] = "unset"
    /\ GoesTo(p, "waiting")
    /\ loop' = Nobody
    /\ WaitersChange
    /\ UNCHANGED <<round, woken, post, table, held, event, missed>>

\* The future is resolved, or half a second is over.
Wake(p) ==
    /\ stage[p] = "waiting"
    /\ loop = Nobody
    /\ woken' = woken \ {p}
    /\ WaitersChange
    /\ NextRound(p)
    /\ UNCHANGED <<post, table, held, event, missed>>

\* Mutant: the session is not closed.
LeavesOpen(x) == held

Closed(x) == held \ {x}

\* The poll has answered and its session is closed, in a thread that the loop
\* starts.
Close(p) ==
    /\ stage[p] = "closing"
    /\ loop = Nobody
    /\ held' = Closed(p)
    /\ GoesTo(p, "away")
    /\ round' = [round EXCEPT ![p] = 0]
    /\ missed' = missed \ {p}
    /\ UNCHANGED <<loop, woken, posts, table, event>>
-----------------------------------------------------------------------------
(***************************************************************************)
(* POST /api/jobs.                                                         *)
(***************************************************************************)

Reaches(j, s) == post' = [post EXCEPT ![j] = s]

\* add_job and refresh each take a connection, or fail when there is none for
\* too long.  They are in a thread, which a blocked loop does not stop.
Take(j) ==
    /\ post[j] \in {"new", "stored"}
    /\ IF HasConnection(j)
       THEN /\ Reaches(j, IF post[j] = "new" THEN "adding" ELSE "notifying")
            /\ held' = held \cup {j}
       ELSE /\ Reaches(j, "failed")
            /\ UNCHANGED held
    /\ UNCHANGED <<polls, upset, table, event, missed>>

\* The row is there for everybody, and the connection goes back to the pool.
Commit(j) ==
    /\ post[j] = "adding"
    /\ rows' = rows \cup {j}
    /\ held' = held \ {j}
    /\ Reaches(j, "stored")
    /\ UNCHANGED <<polls, upset, handed, event, missed>>

\* Mutant: nobody is told of the new job.
NotifyForgotten(j) ==
    /\ post[j] = "notifying"
    /\ Reaches(j, "ok")
    /\ UNCHANGED <<polls, upset, table, held, event, missed>>

\* notify_new_job: an event that is set already stays as it is.  If it was
\* not, the thread goes through the waiters.
Notify(j) ==
    /\ post[j] = "notifying"
    /\ event' = TRUE
    /\ missed' = missed \cup {p \in Polls : stage[p] \in {"nojob", "cleared", "unset"}}
    /\ Reaches(j, IF event THEN "ok" ELSE "waking")
    /\ UNCHANGED <<polls, upset, table, held>>

Waiters == {p \in Polls : stage[p] = "waiting"}

\* A waiter that came or went meanwhile may end the loop with an exception
\* before everybody is woken.
WakeAll(j) ==
    /\ post[j] = "waking"
    /\ \E S \in SUBSET Waiters :
          /\ woken' = woken \cup S
          /\ \/ /\ Waiters \subseteq S \cup missed
                /\ Reaches(j, "ok")
                /\ UNCHANGED missed
             \/ /\ j \in upset
                /\ Reaches(j, "failed")
                /\ missed' = missed \cup (Waiters \ S)
    /\ upset' = upset \ {j}
    /\ UNCHANGED <<stage, round, loop, table, held, event>>

\* The answer, and the end of the session, need the loop.
EndPost(j) ==
    /\ post[j] \in {"ok", "failed"} /\ j \in held
    /\ loop = Nobody
    /\ held' = Closed(j)
    /\ UNCHANGED <<polls, posts, table, event, missed>>

\* An agent that was handed the job reports that it works on it.
Claim(j) ==
    /\ j \in rows \cap handed
    /\ rows' = rows \ {j}
    /\ UNCHANGED <<polls, posts, handed, held, event, missed>>
-----------------------------------------------------------------------------
OnLoop(p) ==
    \/ Query(p) \/ Block(p) \/ Unblock(p) \/ PoolTimesOut(p)
    \/ Clear(p) \/ Check(p) \/ Sleep(p) \/ Wake(p) \/ Close(p)

InThread(j) == (post[j] # "new" /\ Take(j)) \/ Commit(j) \/ Notify(j) \/ WakeAll(j)

Next ==
    \/ \E p \in Polls : Arrive(p) \/ OnLoop(p)
    \/ \E j \in Jobs : Take(j) \/ InThread(j) \/ EndPost(j) \/ Claim(j)

\* Some agent asks again; the loop gives every task its turn (its queue is
\* FIFO), so a task that may run again and again does; threads go on; an agent
\* that got a job reports it.
Fairness ==
    /\ \A p \in Polls : SF_vars(OnLoop(p))
    /\ WF_vars(\E p \in Polls : Arrive(p))
    /\ WF_vars(\E j \in Jobs : InThread(j))
    /\ SF_vars(\E j \in Jobs : EndPost(j))
    /\ WF_vars(\E j \in Jobs : Claim(j))

Spec == Init /\ [][Next]_vars /\ Fairness
-----------------------------------------------------------------------------
Asleep(p) == stage[p] = "waiting" /\ p \notin woken

\* A poll sleeps although a job is there whose POST has notified everybody
\* only if the event was set in the gap between its query and its wait
\* (job_notify.py clears the event after the query, not before it), or if a
\* notification got or gets stuck among the waiters.
SleepsOnlyIfMissed ==
    \A p \in Polls, j \in rows :
        Asleep(p) /\ post[j] = "ok" => p \in missed \/ \E k \in Jobs : post[k] = "waking"

\* Every poll and every POST ends, although polls sit on the connections
\* others wait for, on the thread that would give them back; and a job that is
\* stored is handed to an agent, whether its POST succeeded, reached the
\* waiters, or not (job_notify.py: "check every 0.5s").
NobodyWaitsForEver ==
    /\ \A p \in Polls : []<>(stage[p] = "away")
    /\ \A j \in Jobs : (post[j] # "new") ~> (post[j] \in {"ok", "failed"} /\ j \notin held)
    /\ \A j \in Jobs : (j \in rows) ~> (j \in handed)
=============================================================================
