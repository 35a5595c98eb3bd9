----------------------------- MODULE AgentLoop -----------------------------
(***************************************************************************)
(* The event loop of an agent: registration, heartbeat, job dispatch and   *)
(* the requests of its own API share one thread.                           *)
(*                                                                         *)
(* A task that is ready waits in a FIFO queue for its turn and runs until  *)
(* it awaits something.  What it awaits (a timer, a thread, a socket) goes *)
(* on by itself and puts the task back into the queue.  The dispatch loop  *)
(* calls the dashboard synchronously, so it stays at the head of the queue *)
(* until the answer is there, and asks again at once if there is no job.   *)
(***************************************************************************)
EXTENDS Naturals, Sequences, SequencesExt

CONSTANT MaxAttempts   \* how often registration is tried

ASSUME AttemptsAssumption == MaxAttempts \in Nat \ {0}

Tasks == {"registration", "heartbeat", "dispatch", "api"}

VARIABLES
    at,           \* the station of each task: what it awaits, or did last
    ready,        \* the tasks whose turn comes, in order; the head is running
    attempts,     \* registrations sent
    answer,       \* what the thread that posts the registration brings back
    registered,   \* _registered_printer_id is set
    usesId        \* agent_printer_id of the dispatch loop is set

vars == <<at, ready, attempts, answer, registered, usesId>>

\* Stations at which a task is away from the loop, and those at which the
\* dispatch loop keeps it.
Away == {"asleep", "posting", "checking", "pushing", "injecting", "listening", "serving"}
Held == {"asking", "nojob", "claiming", "reporting"}

\* Stations a task may never come back from: no request arrives, or a call
\* into PrintExp does not return (reads of the pipe have no timeout).
Untimed == {"listening", "checking", "injecting", "serving"}

\* What a registration may meet: an id, a success or conflict without one,
\* another status, or an error of the connection.
Answers == {"id", "noid", "refused", "unreachable"}

\* At most the dispatch loop keeps the thread while it calls the dashboard,
\* and a task is queued once.
TypeOK ==
    /\ at \in [Tasks -> Away \cup Held \cup {"done"}]
    /\ ready \in Seq(Tasks) /\ IsInjective(ready)
    /\ \A t \in Tasks : at[t] \in Held => ready # <<>> /\ Head(ready) = t
    /\ \A t \in Tasks : at[t] = "done" => ~Contains(ready, t)
    /\ attempts \in 0 .. MaxAttempts
    /\ answer \in Answers \cup {"none"}
    /\ registered \in BOOLEAN
    /\ usesId \in BOOLEAN

\* The startup hook creates the tasks; heartbeat and dispatch sleep first.
Init ==
    /\ at = [t \in Tasks |-> IF t = "api" THEN "listening" ELSE "asleep"]
    /\ ready = <<"registration">>
    /\ attempts = 0
    /\ answer = "none"
    /\ registered = FALSE
    /\ usesId = FALSE
-----------------------------------------------------------------------------
\* What task t awaits has happened: the timer is due, the thread returned, a
\* request arrived.
Wakes(t) ==
    /\ at[t] \in Away
    /\ ~Contains(ready, t)
    /\ ready' = Append(ready, t)
    /\ IF at[t] = "posting"
       THEN answer' \in Answers
       ELSE UNCHANGED answer
    /\ UNCHANGED <<at, attempts, registered, usesId>>

\* It is the turn of task t, which stands at one of these stations.
Runs(t, stations) == ready # <<>> /\ Head(ready) = t /\ at[t] \in stations

\* The running task awaits something: the next one gets its turn.
Awaits(t, station) ==
    /\ ready' = Tail(ready)
    /\ at' = [at EXCEPT ![t] = station]

\* Mutant: the tasks that are ready run while the dashboard is asked.
LetsOthersRun(t, station) ==
    /\ ready' = Append(Tail(ready), t)
    /\ at' = [at EXCEPT ![t] = station]

\* The running task goes on without awaiting anything.
KeepsTheLoop(t, station) ==
    /\ UNCHANGED ready
    /\ at' = [at EXCEPT ![t] = station]
-----------------------------------------------------------------------------
(***************************************************************************)
(* register_with_dashboard.                                                *)
(***************************************************************************)

Counted == attempts + 1

\* The next attempt: post, in a thread.  Only an exception has slept before
\* it; any answer of the dashboard is followed by the next attempt at once.
Posts ==
    /\ Runs("registration", {"asleep", "posting"})
    /\ at["registration"] = "posting" => answer = "refused"
    /\ attempts < MaxAttempts
    /\ attempts' = Counted
    /\ Awaits("registration", "posting")
    /\ UNCHANGED <<answer, registered, usesId>>

\* 200, 201 or 409: the id, if there is one, is kept and the task ends.
Registers ==
    /\ Runs("registration", {"posting"})
    /\ answer \in {"id", "noid"}
    /\ registered' = (answer = "id")
    /\ Awaits("registration", "done")
    /\ UNCHANGED <<attempts, answer, usesId>>

BacksOff ==
    /\ Runs("registration", {"posting"})
    /\ answer = "unreachable"
    /\ Awaits("registration", "asleep")
    /\ UNCHANGED <<attempts, answer, registered, usesId>>

\* "Will retry later", but the task ends and nothing starts it again.
GivesUp ==
    /\ Runs("registration", {"asleep", "posting"})
    /\ at["registration"] = "posting" => answer = "refused"
    /\ attempts = MaxAttempts
    /\ Awaits("registration", "done")
    /\ UNCHANGED <<attempts, answer, registered, usesId>>

Registration == Posts \/ Registers \/ BacksOff \/ GivesUp
-----------------------------------------------------------------------------
(***************************************************************************)
(* heartbeat_loop: look at PrintExp, post what was seen, sleep.            *)
(***************************************************************************)

\* Mutant: a backend that cannot tell its status ends the task.
AfterCheckEnds == {"pushing", "done"}

\* An exception of the backend is passed over until the next interval.
AfterCheck == {"pushing", "asleep"}

Heartbeat ==
    /\ \/ Runs("heartbeat", {"asleep"}) /\ Awaits("heartbeat", "checking")
       \/ Runs("heartbeat", {"checking"}) /\ \E s \in AfterCheck : Awaits("heartbeat", s)
       \/ Runs("heartbeat", {"pushing"}) /\ Awaits("heartbeat", "asleep")
    /\ UNCHANGED <<attempts, answer, registered, usesId>>
-----------------------------------------------------------------------------
(***************************************************************************)
(* job_dispatch_loop.                                                      *)
(***************************************************************************)

\* Mutant: the id is looked up before the loop.
ResolvedEarly == usesId

\* agent_printer_id is looked up as long as it is not known.
Resolved == usesId \/ registered

\* Top of the loop: the poll blocks the thread.
Asks ==
    /\ Runs("dispatch", {"asleep", "nojob"})
    /\ usesId' = Resolved
    /\ KeepsTheLoop("dispatch", "asking")
    /\ UNCHANGED <<attempts, answer, registered>>

\* The poll ends: no job, a job (its claim blocks too), or an error.
Answered ==
    /\ Runs("dispatch", {"asking"})
    /\ \/ \E s \in {"nojob", "claiming"} : KeepsTheLoop("dispatch", s)
       \/ Awaits("dispatch", "asleep")
    /\ UNCHANGED <<attempts, answer, registered, usesId>>

\* The backend injects in a thread, then the outcome is reported.
Injects ==
    /\ \/ Runs("dispatch", {"claiming"}) /\ Awaits("dispatch", "injecting")
       \/ Runs("dispatch", {"injecting"}) /\ KeepsTheLoop("dispatch", "reporting")
       \/ Runs("dispatch", {"reporting"}) /\ Awaits("dispatch", "asleep")
    /\ UNCHANGED <<attempts, answer, registered, usesId>>

Dispatch == Asks \/ Answered \/ Injects
-----------------------------------------------------------------------------
\* The API: a request is answered at once or after something it awaits.
Api ==
    /\ \/ Runs("api", {"listening"})
          /\ \E s \in {"listening", "serving"} : Awaits("api", s)
       \/ Runs("api", {"serving"}) /\ Awaits("api", "listening")
    /\ UNCHANGED <<attempts, answer, registered, usesId>>

Next ==
    \/ \E t \in Tasks : Wakes(t)
    \/ Registration
    \/ Heartbeat
    \/ Dispatch
    \/ Api

\* Timers come due, HTTP calls end within their timeouts and the loop serves
\* its queue.  A call of the backend may hang, and nobody need call the API.
Spec ==
    /\ Init /\ [][Next]_vars
    /\ \A t \in Tasks : WF_vars(at[t] \notin Untimed /\ Wakes(t))
    /\ WF_vars(Registration)
    /\ WF_vars(Heartbeat)
    /\ WF_vars(Dispatch)
    /\ WF_vars(Api)
-----------------------------------------------------------------------------
\* The dispatch loop awaits something: a job or an error lets it do so.
LetsGo == at["dispatch"] \in Away

\* Provided the dispatch loop keeps finding jobs or errors, the heartbeat
\* looks at PrintExp again and again and sleeps in between, unless one of its
\* own looks never returns: neither the dashboard nor the API nor an
\* injection or a request that hangs ends it.
HeartbeatIfDispatchYields ==
    []<>LetsGo => /\ []<>(at["heartbeat"] = "checking")
                  /\ \/ []<>(at["heartbeat"] = "asleep")
                     \/ <>[](at["heartbeat"] = "checking")

\* On the same condition registration comes to an end, whatever mixture of
\* refusals and errors it meets and whatever hangs in PrintExp, and an id that
\* arrives, however late, is used by the dispatch loop unless that hangs in an
\* injection: polls without it may be given the jobs of other printers.  That
\* there will be an id is not promised: a registration that gave up stays so.
IdIsUsedIfDispatchYields ==
    []<>LetsGo => /\ <>(at["registration"] = "done")
                  /\ \/ registered ~> usesId
                     \/ <>[](at["dispatch"] = "injecting")

\* heartbeat_loop: "Periodically push agent status ... Runs forever".
HeartbeatGoesOn == []<>(at["heartbeat"] = "checking")
=============================================================================
