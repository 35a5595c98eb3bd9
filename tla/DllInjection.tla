--------------------------- MODULE DllInjection ---------------------------
(***************************************************************************)
(* How a DTF or UV agent gives jobs to PrintExp.  It writes the path of    *)
(* the job into a file, removes the log, loads a fresh copy of a DLL into  *)
(* PrintExp and polls the log for five seconds.  The DLL's thread sleeps,  *)
(* reads the file, adds the job and writes the log.  One file and one log  *)
(* serve all injections, and a thread that takes longer than five seconds  *)
(* goes on while the agent injects the next job.  There is a DLL for each  *)
(* build of PrintExp: the one for UV adds tasks in front, the one for DTF  *)
(* v5.8.2 clones a task and loads the file into the clone.                 *)
(*                                                                         *)
(* The dispatch loop awaits each injection, so they come one by one; they  *)
(* are numbered, and the number stands for the path of the job.            *)
(***************************************************************************)
EXTENDS Integers, Sequences, FiniteSets

CONSTANTS
    Builds,       \* the builds of PrintExp the agent may run with
    MaxInj,       \* injections
    MaxPolls,     \* how often the log is looked at (20)
    Misleading,   \* jobs with "done" in their path
    Rooms,        \* tasks that the print vector of a new PrintExp has room for
    MaxDeaths     \* deaths of PrintExp

Injections == 1 .. MaxInj

ASSUME BuildAssumption == Builds \subseteq {"dtf", "uv", "dtf82"}
ASSUME BoundAssumption == {MaxInj, MaxPolls, MaxDeaths} \subseteq Nat
ASSUME MisleadingAssumption == Misleading \subseteq Injections
ASSUME RoomAssumption == Rooms \subseteq Nat

VARIABLES
    build,     \* build_variant
    current,   \* the injection that is under way, or was last
    step,      \* where the agent is in it
    polls,
    config,    \* inject_config.txt: a job, 0 if empty or missing
    log,       \* inject_log.txt
    verdict,   \* what inject_job returned
    thread,    \* the thread of the DLL of each injection
    tasks,     \* the file vector
    prints,    \* the memory of the print vector (UV: display vector; DTF v5.8.2: the tasks)
    end,       \* how much of it the vector uses
    room,      \* how much it may use before it has to grow
    array,     \* how often it has grown: each time it moves to a new array
    torn,      \* threads used it while it moved: it may hold anything
    gone,      \* jobs that were there when PrintExp died
    beside,    \* for each injection, the threads that lived when it began
    up, deaths

agent    == <<current, step, polls, verdict>>
files    == <<config, log>>
vector   == <<prints, end, room, array, torn>>
printexp == <<build, tasks, vector, gone>>
vars     == <<agent, files, thread, printexp, beside, up, deaths>>

ThreadSteps == {"none", "sleeping", "adding", "copying", "storing", "growing",
                "moving", "loading", "saying", "ended"}
Texts == {"done", "err", "errdone"}   \* the last one is an error that says "done"

\* A thread remembers the path, its task, what the print vector held when the
\* thread read it, and in which array.
Threads == [step : ThreadSteps, path : 0 .. MaxInj, task : 0 .. MaxInj,
            seen : Seq(Injections), array : Nat, says : Texts]

TypeOK ==
    /\ build \in Builds
    /\ current \in 0 .. MaxInj
    /\ step \in {"idle", "writing", "clearing", "loading", "polling", "saving"}
    /\ polls \in 0 .. MaxPolls
    /\ config \in 0 .. MaxInj
    /\ log \in Texts \cup {"none"}
    /\ verdict \in [Injections -> {"none", "yes", "no"}]
    /\ thread \in [Injections -> Threads]
    /\ tasks \in Seq(Injections)
    /\ prints \in Seq(Injections) /\ end \in 0 .. Len(prints)
    /\ room \in Nat /\ array \in Nat /\ torn \in BOOLEAN
    /\ gone \subseteq Injections
    /\ beside \in [Injections -> SUBSET Injections]
    /\ up \in BOOLEAN
    /\ deaths \in 0 .. MaxDeaths

\* A thread that has no task in hand.
Thread(s, path, says) ==
    [step |-> s, path |-> path, task |-> 0, seen |-> <<>>, array |-> 0, says |-> says]

NoThread == Thread("none", 0, "err")

\* A thread that has ended: the path is kept as a record of what it took.
Ended(th) == Thread("ended", th.path, "err")

Init ==
    /\ build \in Builds
    /\ current = 0
    /\ step = "idle"
    /\ polls = 0
    /\ config = 0
    /\ log \in {"none", "done"}   \* left by an earlier run
    /\ verdict = [k \in Injections |-> "none"]
    /\ thread = [k \in Injections |-> NoThread]
    /\ tasks = <<>>
    /\ prints = <<>> /\ end = 0 /\ room \in Rooms
    /\ array = 0 /\ torn = FALSE
    /\ gone = {}
    /\ beside = [k \in Injections |-> {}]
    /\ up \in BOOLEAN
    /\ deaths = 0

Alive == {k \in Injections : thread[k].step \notin {"none", "ended"}}
-----------------------------------------------------------------------------
(***************************************************************************)
(* The agent: _do_inject.                                                  *)
(***************************************************************************)

Returns(v) ==
    /\ verdict' = [verdict EXCEPT ![current] = v]
    /\ step' = "idle"
    /\ UNCHANGED <<current, polls>>

Goes(s) ==
    /\ step' = s
    /\ UNCHANGED <<current, polls, verdict>>

\* _ensure_printexp_running: PrintExp runs already, or is started, which may
\* fail or take longer than the 15 seconds the agent waits for it.
EnsureRunning(found) ==
    IF found THEN up' = TRUE ELSE ~up /\ up' \in BOOLEAN

\* Without PrintExp, or if the DLL is missing or its copy has the name of one
\* that is loaded, that is all.
Begin ==
    /\ step = "idle" /\ current < MaxInj
    /\ current' = current + 1
    /\ polls' = 0
    /\ beside' = [beside EXCEPT ![current + 1] = Alive]
    /\ \/ /\ \E found \in BOOLEAN : EnsureRunning(found)
          /\ step' = "idle"
          /\ verdict' = [verdict EXCEPT ![current + 1] = "no"]
       \/ /\ EnsureRunning(TRUE)
          /\ step' = "writing"
          /\ UNCHANGED verdict
    /\ UNCHANGED <<files, thread, printexp, deaths>>

\* Mutant: a path that is there already is left.
WriteConfigIfMissing ==
    /\ step = "writing"
    /\ config' = IF config = 0 THEN current ELSE config
    /\ Goes("clearing")
    /\ UNCHANGED <<log, thread, printexp, beside, up, deaths>>

\* open(config_path, "w") empties the file, the write comes after.
WriteConfig ==
    /\ step = "writing"
    /\ IF config # 0
       THEN config' = 0 /\ UNCHANGED agent
       ELSE config' = current /\ Goes("clearing")
    /\ UNCHANGED <<log, thread, printexp, beside, up, deaths>>

\* Mutant: the log is emptied instead.
ClearedEmpty == "empty"

Cleared == "none"

\* The log is removed, unless a thread that is writing it prevents that.
ClearLog ==
    /\ step = "clearing"
    /\ \/ log' = Cleared /\ Goes("loading")
       \/ Alive # {} /\ Returns("no") /\ UNCHANGED log
    /\ UNCHANGED <<config, thread, printexp, beside, up, deaths>>

\* _inject_dll: LoadLibrary runs in PrintExp and its DllMain starts the
\* thread.  The agent sees half of the handle only, and no more than ten
\* seconds of the call: it may take either for the other.
LoadDll ==
    /\ step = "loading"
    /\ \/ up /\ thread' = [thread EXCEPT ![current].step = "sleeping"]
       \/ UNCHANGED thread
    /\ Goes("polling") \/ Returns("no")
    /\ UNCHANGED <<files, printexp, beside, up, deaths>>

\* Mutant: a look at a missing log is not counted.
PolledIfThere == IF log = "none" THEN polls ELSE polls + 1

Polled == polls + 1

\* "done" anywhere in the log means success, and is looked for first.
Poll ==
    /\ step = "polling" /\ polls < MaxPolls
    /\ CASE log \in {"done", "errdone"} -> Goes("saving")
         [] log = "err"                 -> Returns("no")
         [] OTHER -> polls' = Polled /\ UNCHANGED <<current, step, verdict>>
    /\ UNCHANGED <<files, thread, printexp, beside, up, deaths>>

Timeout ==
    /\ step = "polling" /\ polls = MaxPolls
    /\ Returns("no")
    /\ UNCHANGED <<files, thread, printexp, beside, up, deaths>>

\* _persist_job asks for a SAVE through the pipe of the control DLL and does
\* not care for the answer, but waits for it.
Save ==
    /\ step = "saving"
    /\ Returns("yes")
    /\ UNCHANGED <<files, thread, printexp, beside, up, deaths>>

Agent == Begin \/ WriteConfig \/ ClearLog \/ LoadDll \/ Poll \/ Timeout
-----------------------------------------------------------------------------
(***************************************************************************)
(* The DLL: inject_thread.                                                 *)
(***************************************************************************)

At(k, s) == thread[k].step = s

ThreadGoes(k, s) == thread' = [thread EXCEPT ![k].step = s]
ThreadSays(k, text) == thread' = [thread EXCEPT ![k] = Thread("saying", @.path, text)]

\* The build for DTF v5.8.2 goes on with a clone.
ReadConfig(k) ==
    /\ At(k, "sleeping")
    /\ IF config = 0
       THEN ThreadSays(k, "err")
       ELSE thread' = [thread EXCEPT ![k].step = IF build = "dtf82" THEN "loading" ELSE "adding",
                                     ![k].path = config]
    /\ UNCHANGED <<agent, files, printexp, beside, up, deaths>>

\* An error of PrintExp is reported with the path.
QuotesPath(k) == ThreadSays(k, IF thread[k].path \in Misleading THEN "errdone" ELSE "err")

\* Where AddFile puts a task: at the end, or in front (UV).
WithFile(path) == IF build = "uv" THEN <<path>> \o tasks ELSE Append(tasks, path)

\* AddFile adds to the file vector or fails.
AddFile(k) ==
    /\ At(k, "adding")
    /\ \/ tasks' = WithFile(thread[k].path) /\ ThreadGoes(k, "copying")
       \/ QuotesPath(k) /\ UNCHANGED tasks
    /\ UNCHANGED <<agent, files, build, vector, gone, beside, up, deaths>>

\* Mutant: the UV build looks at the end, too.
LastTask == tasks[Len(tasks)]

\* Which task the DLL takes for the one it has added.
NewTask == IF build = "uv" THEN tasks[1] ELSE tasks[Len(tasks)]

\* Threads that have set the begin of the vector to a new array, but not yet its
\* end and its capacity.
Moving == {k \in Injections : At(k, "moving")}

\* The new task and the vector are read, if there are tasks.  Without room a new
\* array is allocated, if that works, and filled with what was read: what others
\* store meanwhile is not in it.
CopyTask(k) ==
    /\ At(k, "copying")
    /\ torn' = (torn \/ Moving # {})
    /\ \/ /\ tasks # <<>>
          /\ \E s \in {"storing", "growing"} :
                /\ ~torn' => (s = "storing" <=> end < room)
                /\ thread' = [thread EXCEPT ![k].step = s, ![k].task = NewTask,
                                 ![k].seen = SubSeq(prints, 1, end), ![k].array = array]
       \/ ThreadSays(k, "err")
    /\ UNCHANGED <<agent, files, build, tasks, prints, end, room, array, gone, beside, up, deaths>>

\* What the vector holds.
Queued == {prints[i] : i \in 1 .. end}

\* *pe = newTask, and the end behind it: what others stored there meanwhile
\* is overwritten, or cut off and left in memory.
Put(slot, task) ==
    /\ prints' = IF slot < Len(prints) THEN [prints EXCEPT ![slot + 1] = task]
                                       ELSE Append(prints, task)
    /\ end' = slot + 1

\* find_existing_task, clone and load: nothing that another thread uses.
\* Without a task that has a reader, or memory, there is no clone.
LoadClone(k) ==
    /\ At(k, "loading")
    /\ \/ /\ Put(end, thread[k].path)
          /\ ThreadSays(k, "done")
       \/ /\ ThreadSays(k, "err") \/ QuotesPath(k)
          /\ UNCHANGED <<prints, end>>
    /\ UNCHANGED <<agent, files, build, tasks, room, array, torn, gone, beside, up, deaths>>

\* The task is stored where the end was when it was read, without a lock: this
\* may be the end of an array that is no longer the vector's.
StoreTask(k) ==
    /\ At(k, "storing")
    /\ torn' = (torn \/ Moving # {} \/ thread[k].array # array)
    /\ IF torn' THEN UNCHANGED <<prints, end>>
                ELSE Put(Len(thread[k].seen), thread[k].task)
    /\ ThreadSays(k, "done")
    /\ UNCHANGED <<agent, files, build, tasks, room, array, gone, beside, up, deaths>>

\* The vector moves to the new array, from whichever one it is in by now: first
\* its begin ...
MoveVector(k) ==
    /\ At(k, "growing")
    /\ torn' = (torn \/ Moving # {})
    /\ IF torn' THEN UNCHANGED <<prints, end>>
                ELSE /\ prints' = Append(thread[k].seen, thread[k].task)
                     /\ end' = Len(prints')
    /\ array' = array + 1
    /\ ThreadGoes(k, "moving")
    /\ UNCHANGED <<agent, files, build, tasks, room, gone, beside, up, deaths>>

\* ... then its end and its capacity.
VectorMoved(k) ==
    /\ At(k, "moving")
    /\ room' = 2 * (Len(thread[k].seen) + 1)
    /\ ThreadSays(k, "done")
    /\ UNCHANGED <<agent, files, build, tasks, prints, end, array, torn, gone, beside, up, deaths>>

WriteLog(k) ==
    /\ At(k, "saying")
    /\ log' = thread[k].says
    /\ thread' = [thread EXCEPT ![k] = Ended(@)]
    /\ UNCHANGED <<agent, config, printexp, beside, up, deaths>>

Dll(k) ==
    \/ ReadConfig(k) \/ AddFile(k) \/ CopyTask(k) \/ StoreTask(k) \/ MoveVector(k)
    \/ VectorMoved(k) \/ LoadClone(k) \/ WriteLog(k)

\* PrintExp dies with its threads and vectors.
PrintExpDies ==
    /\ up /\ deaths < MaxDeaths
    /\ up' = FALSE
    /\ deaths' = deaths + 1
    /\ thread' = [k \in Injections |->
                     IF k \in Alive THEN Ended(thread[k]) ELSE thread[k]]
    /\ tasks' = <<>>
    /\ prints' = <<>> /\ end' = 0 /\ room' \in Rooms /\ array' = 0
    /\ gone' = gone \cup Queued
    /\ UNCHANGED <<agent, files, build, torn, beside>>

Next ==
    \/ Agent
    \/ Save
    \/ \E k \in Injections : Dll(k)
    \/ PrintExpDies

\* The agent's thread goes on; the threads in PrintExp may hang, and so may
\* the control DLL, which Save waits for.
Spec == Init /\ [][Next]_vars /\ WF_vars(Agent)
-----------------------------------------------------------------------------
\* Threads of another injection lived together with that of this one.
Met(k) == beside[k] # {} \/ \E m \in Injections : k \in beside[m]

Succeeds(k) == verdict[k] = "yes" \/ (current = k /\ step = "saving")

\* inject_job reports success only for a job that is in the print vector, or
\* was when PrintExp died, unless threads met (the log of another one was
\* taken for the answer, or the task was overwritten), its path says "done" or
\* the vector was torn.
SuccessMeansQueued ==
    \A k \in Injections :
        Succeeds(k) /\ ~Met(k) /\ k \notin Misleading => k \in Queued \cup gone \/ torn

\* What the dispatch loop may rely on: every step of the agent, of the threads
\* and of PrintExp is one that InjectionContract allows.  A success is true and
\* is never taken back, a failed injection adds its job late or not at all,
\* and only injections whose threads met may lose or swap their jobs, unless
\* they tore the vector.
Contract == INSTANCE InjectionContract
                WITH last <- current, answer <- verdict, entered <- Queued \cup gone,
                     met <- {k \in Injections : Met(k)}

ImplementsContract == Contract!Spec

\* As long as no injection was answered "no", PrintExp has, or had when it
\* died, every job that was answered "yes" and does not say "done".
SuccessStands ==
    (\A j \in Injections : verdict[j] # "no")
        => \A k \in Injections \ Misleading : verdict[k] = "yes" => k \in Queued \cup gone

\* The success of a job whose thread met no other is final: no later thread
\* meets it, and none overwrites the job or cuts it off unless two of them tear
\* the vector.
SuccessIsFinal ==
    [][\A k \in Injections :
         verdict[k] = "yes" /\ ~Met(k)
             => /\ ~Met(k)'
                /\ k \in Queued \cup gone => (k \in Queued \cup gone)' \/ torn']_vars

\* A job is in the print vector twice only if two threads met, one of them that
\* of the job or both in the growing vector.
TwiceOnlyIfThreadsMet ==
    \A k \in Injections :
        Cardinality({i \in 1 .. end : prints[i] = k}) > 1 => Met(k) \/ torn

\* The DLL of an injection takes that job or a later one, never an earlier
\* one again: the path is written before the DLL is loaded.
NeverAnEarlierJob ==
    \A k \in Injections : thread[k].path # 0 => thread[k].path >= k

\* Whatever the DLL of an injection does, the injection comes back to the
\* dispatch loop, unless it succeeded and the SAVE is not answered.
EveryInjectionReturns ==
    \A k \in Injections :
        current = k ~> verdict[k] # "none" \/ Succeeds(k)
=============================================================================
