# PrintFlow: specification of the print-shop automation

TLA+ models of the dashboard, the agents and their printer backends, the TLC
configurations that check them, and TLAPS proofs. Paths are relative to the
repository (`packages/...`).

## The system

One **dashboard** (FastAPI, SQLite) serves operators' browsers. One **agent** per
printer (FastAPI, one event loop) runs beside the vendor program **PrintExp** on
a Windows machine, takes jobs from the dashboard and puts them into PrintExp: by
TCP 9100 and writes into the process memory (DTG), or by a DLL that is loaded into
the process (DTF, UV).

| part | state | operations | interacts with | what is hard |
|---|---|---|---|---|
| job queue, jobs API (`dashboard/services/job_queue.py`, `api/jobs.py`) | table `jobs` | create, poll, PATCH, DELETE | agents (HTTP), operators | a poll claims nothing; read and write of a row are two database steps; no transition is checked |
| long poll (`dashboard/api/job_notify.py`, `db/database.py`) | event and its waiters, pool of connections | ask, wait, notify | agents, POST in a thread | a coroutine and threads share an event; a query without a connection blocks the loop |
| dispatch loop (`agent/job_dispatch.py`) | job in hand | poll, report, inject, report | dashboard, backend | reports are swallowed on error and give up after 5 s; crash with a job in hand |
| printer registry (`dashboard/services/agent_manager.py`, `api/printers.py`) | table `printers`, `_entries`, polls under way | register, update, delete, heartbeat, poll, restart | agents (polled, pushed), browsers (SSE) | everything is kept twice; awaits in the middle of handlers; ids come back |
| agent process (`agent/main.py`, `registration.py`, `api.py`) | printer id, tasks | register, heartbeat, API | dashboard | four kinds of tasks on one thread, one of which blocks it |
| WebSocket of the agent (`agent/api.py`) | list of connections | connect, broadcast, remove | whoever listens | every connection broadcasts to all, over a list that changes between two sends |
| DTG backend (`agent/printer/dtg.py`, `dtg_ws_controller.py`, `common/protocols/tcp9100.py`) | cached address | select platen, name, stream, restore | memory and port of PrintExp | overlapping injections, failed sends, restarts |
| DTF/UV backend (`agent/printer/dtf.py`, `agent/dll/*.c`) | config file, log file, loaded DLLs | inject, persist, control | threads in PrintExp, pipe | a thread that outlives its injection; files shared by all of them; unlocked vectors |
| pipe client, print modes, window commands, and the dashboard's requests for them | INI file, handles, one pipe | request and answer, a mode in many writes | PrintExp | lost answers, half-written modes, stale handles, a dashboard that gives up first |
| start of the agent (`agent/main.py`, `printexp/detector.py`, `common/config.py`) | type, backend | read arguments and configuration, search for the type, build | files and processes of the machine | the machine changes between two looks, and between two starts |
| log parsing, reports, analytics, pages | none | pure functions, read-only queries, rendering | | |

What makes each part correct: a job shown as sent is one a backend answered for, a job is not
printed again without a fault, a closed row stays closed and stamped, the queue is
served in order and empties; registry and table agree and silence is what makes a
printer offline; every task of an agent goes on; a platen is given back and a job
is printed on its platen under its name; a verdict of the backend tells what
PrintExp has; an agent takes itself for what its machine says.

## Modules

| module | models | status |
|---|---|---|
| `JobDispatch`, `MCJobDispatch` | jobs between dashboard and agents | checked and proved |
| `JobLifecycle` | what a job may live through, seen from outside | implemented by `JobDispatch`: checked and proved |
| `JobDispatchProofs` | the theorems about `JobDispatch` | all safety properties, the implementation of `JobLifecycle` |
| `LongPoll`, `MCLongPoll` | how a waiting agent learns of a job | checked and proved |
| `LongPollProofs` | the theorems about `LongPoll` | both invariants |
| `PrinterRegistry`, `MCPrinterRegistry` | `printers` rows and `AgentManager._entries` | checked and proved |
| `AgentLoop`, `MCAgentLoop` | the event loop of an agent | checked |
| `DtgWorkstation`, `MCDtgWorkstation` | overlapping DTG injections | checked and proved |
| `DllInjection`, `MCDllInjection` | DTF and UV injection, agent and the DLLs of three builds | checked and proved |
| `InjectionContract` | what `inject_job` promises to the dispatch loop | implemented by `DllInjection`: checked and proved |
| `OperatorRequests`, `MCOperatorRequests` | commands, print modes and the status of a DTF or UV printer | checked and proved |
| `StatusSockets`, `MCStatusSockets` | the broadcasts of an agent | checked and proved |
| `AgentStart`, `MCAgentStart` | arguments, configuration and the search for the type | checked and proved |
| `PrinterRegistryProofs`, `DtgWorkstationProofs`, `DllInjectionProofs`, `OperatorRequestsProofs`, `AgentStartProofs`, `StatusSocketsProofs` | the theorems about the module each is named after | all safety properties; `DllInjectionProofs`: the implementation of `InjectionContract` too |

The modules compose along their promises: `JobDispatch` says what becomes of the
answer of a backend, `InjectionContract` what that answer is worth, and `DllInjection`
implements it; `JobDispatch` takes the wait of its poll as one step that `LongPoll`
takes apart; `AgentLoop` and `PrinterRegistry` take an agent from the inside and from the
outside. What `AgentLoop` shows of the dispatch loop, that without jobs it lets nobody else
run, is why no other module assumes that a coroutine of an agent goes on: where a
property needs it, `LoopServes` is its antecedent.

### JobDispatch

`status`, `target`, `type`, `created`, `completedAt`, `errorMsg` are the columns of
`jobs`. A POST runs in a thread of its own: `StampJob` gives the row its `created_at`,
`CreateJob` commits it, and between the two (`posting`) other POSTs may stamp and
commit; `before` remembers which rows a POST found. The clock is assumed to
move on between two stamps. `patches` and `deletes` are requests the dashboard has
received and not finished; `seen` is what the handler's session has loaded, so that
`LoadForPatch`/`CommitPatch` and `CheckCancel`/`CommitCancel` are the two database
steps of a handler, and `Written` is the mapper's habit of writing only columns
that differ from the loaded row. `pc` and `hold` are the place and the local
variable of `job_dispatch_loop`. An agent waits for its report (`PatchReturns`),
gives up while the dashboard may still apply it (`PatchTimesOut`), or the report is
gone (`LosePatch`). `Crash` forgets the job in hand and the printer id. `tries`,
`vouched` and `charged` are history variables: backend calls, jobs a backend answered
with success, swallowed reports.

Of the backend the dashboard is told a verdict and nothing else (`InjectReturns`), and
that is all this module speaks of: "sent" means that a backend answered with success
(`SentMeansSuccess`). The answer may be wrong, as the log of an earlier
thread can be taken for it; when it can be trusted is said in `InjectionContract`.

Statuses that no client reports (`printing`, `completed`, `queued`) are left out,
and so is `assign_next`, which nothing calls. A poll that ends without a job
changes nothing and is not an action; how it waits is in `LongPoll`.

### JobLifecycle

The abstract specification has no requests and no agents, only rows, the answers of
backends, and `busy`: the jobs that somebody works on or has a report under way for.
It says what remains true of a job in spite of the dispatch that claims nothing and
checks nothing: work begins on a waiting row only, a row at rest changes by a cancel
alone, "sent" is stored only after a backend answered with success. The refinement
mapping is `busy <- {j \in Jobs : ~Quiet(j)}`; the other variables are the
implementation's. A report that stores what the handler had loaded, a swallowed
report and a crash are steps of `Rest`, or nothing, there; a stamp is nothing.

### LongPoll

A poll is a coroutine: `Query`, `Clear`, `Check`, `Sleep`, `Wake` are the places of
`wait_for_next_job` where a thread can come in between, and `loop` says whose turn it
is. A poll keeps its connection (`held`) from its first answer to `Close`. If there
is none (`Block`), the call waits on the event loop itself: no other poll moves and
no session is closed, since both need the loop, until a thread frees a connection
(`Unblock`) or the pool gives up (`PoolTimesOut`). A POST is a thread: `Take`,
`Commit`, which gives the connection back, `Take` again for the refresh, `Notify`,
`WakeAll`. The event is asyncio's, which is not made for threads: a poll may go to
sleep between the test of the event and the entry in the list of waiters, and a
waiter that comes or goes while the thread walks through the list may end the walk
with an exception; then the POST fails although its job is stored. `missed` and
`upset` are history variables. Time is left out. All polls ask for the same type
of printer, and which of several jobs comes first is left to `JobDispatch`. The pool
has other users, too, and `register_printer`, `control_printer` and `browse_files` keep
their session while they await an agent. They are not modelled: to those that are, each
of them makes the pool smaller for as long as the agent takes.

### PrinterRegistry

`url`, `shown` are the columns `agent_url` and `status`; `shownBy` remembers whose
poll wrote the status. `entries` is `AgentManager._entries`; `todo` the polls of
the current round; `stale` the polls whose entry was removed while they were under
way, which still write by `printer_id`. Registering awaits a ping, so
`RegisterStarts` looks the row up and `RegisterAgain`, `RegisterNew` or
`RegisterRefused` finish later. `NewId` gives SQLite's ids, which come back after
the the newest row is deleted. `Persist` may lose a write, as `_persist_status` does.
`Restart` loads the entries from the table.

A PATCH may store the empty address (`Blank`), and then `update_printer` does not touch
the registry (`LeaveEntry`): the entry of the old address stays, goes on being polled and
goes on writing to the row, and an agent that registers at that address again gets a row of its
own but finds the entry with the other's id. `left` marks such an entry; `Left` and `Mixed` name
the addresses and rows it concerns, which the properties except. A restart of the
dashboard ends it. An empty address itself may get an entry by a restart; no agent answers
there.

### AgentLoop

`ready` is the queue of asyncio. The task at its head runs until it awaits
(`Awaits`); what it awaits puts it back (`Wakes`). `KeepsTheLoop` is a synchronous
call: `urlopen` in the dispatch loop. `Posts`, `Registers`, `BacksOff`, `GivesUp` are
the branches of `register_with_dashboard`; only an exception sleeps. Time is left
out: a timer is due at any time. At the stations of `Untimed` a task may stay for ever:
nobody need call the API, and a call of the backend may hang, as reads of the pipe have no
timeout. A call that hangs keeps a thread of the pool; that there are enough of them for the
rest is assumed.

After five attempts registration ends (`GivesUp`) and nothing begins it again, although
`registration.py` logs "Will retry later" there, and the heartbeat, told 404, logs "will retry
registration": so no property promises an id, only that one that arrives is used.

### DtgWorkstation

Each injection is a coroutine, and every call it awaits runs in a thread. The select and
the restore are both a call of `select_workstation`, whose thread looks at the cached address
three times: to see whether a scan is needed (`Locate`, `Scan`), whether there is an address
(`Check`), and to write (`Aim`, `Write`). Another thread may scan in between and overwrite the cache,
also with nothing, and then the sum of an offset and `None` raises (`Aim`). `wants`, `pid`, `addr` are
the call: the mask it writes, the process it has opened, its target.

`mask` is the word at CJobProcess+0x90 ("real") and another object that the scan of
`_find_cjobprocess` may take for it ("lookalike"); `cache` is `_cjob_addr`, "stale" once
PrintExp has another address space, and then a write may hit anything. Opening the process,
the scan, the writes, finding the process again for the restore, and the sends may fail
(`Fails`), which leaves `chosen`, `named` and `restored` as history of what came of
the three attempts; the code looks at none of them.

PrintExp is external. Nothing acknowledges a job: `Stream` and `StreamEnds` put it into the socket,
the restore follows at once, and PrintExp takes it (`Take`) with the name and on a platen of
that moment, during the stream or at any time after it; `late` says that it was after
the restore. `met` is a history variable: who was under way until a job was taken.

### DllInjection

The agent's thread (`Begin`, `WriteConfig`, `ClearLog`, `LoadDll`, `Poll`, `Timeout`,
`Save`) and one thread of the DLL per injection (`ReadConfig`, `AddFile` and
`CopyTask` or, in v5.8.2, `LoadClone`, then `StoreTask`, `WriteLog`). The injections of
an agent come one after the other: on this backend POST /jobs passes an argument
that `inject_job` does not have and fails, so only the dispatch loop injects.

`build` chooses the DLL. `WithFile` and `NewTask` are where the builds differ: the UV
build adds a task in front and takes the first, the DTF build adds at the end and
takes the last, v5.8.2 clones a task and loads the file into it. `tasks` and `prints`
are the vectors of PrintExp as sequences of jobs; a thread reads begin, end and room of the
print vector in `CopyTask`. If there is room it writes the place behind the end it has read
(`StoreTask`), so two threads may write the same place. If there is none, it fills a new
array with what it has read, sets the begin of the vector to it (`MoveVector`), and then its end
and its capacity (`VectorMoved`): what others stored meanwhile stays in the old array. Who reads or
writes the vector while its begin and its end belong to different arrays, or stores into an array that is
no longer the vector's, has `torn` it: from then on it may hold anything, and the model
says no more of it. The reads of one `CopyTask` are one step; a read that a whole
move of another thread splits is one that happened while it moved.
`gone` remembers what was there when PrintExp died. After a success the agent asks
for a SAVE through the pipe, which has no timeout (`Save`). The model starts
without threads of an earlier agent process, but with whatever log it left. What
PrintExp itself does to its vectors is left out.

### InjectionContract

What the dispatch loop sees of all that: the injection asked for last, the answers,
the jobs PrintExp has, or had when it died, and the injections that met another
one. `Ask` is the start of an injection, which may fail at once and meets any of those
that are `Loose`: answered "no", or mixed up before. `Answer("yes")` needs the job in
PrintExp, or a reason for the error: a meeting or a misleading path. `Enter` may come
after a "no", never after a "yes". `Mix` is what threads that met may do to each other's
jobs, and to no one else's. The mapping is `last <- current`, `answer <- verdict`,
`entered <- Queued \cup gone`, `met <- {k : Met(k)}`. Files, polls, threads and builds are gone. `Tear`
is two that met in the growing vector: after it nothing is said of any job, so that
it is a third reason for a wrong "yes".

### OperatorRequests

A request of an operator goes from the dashboard to a thread of the agent. The
dashboard waits ten seconds, for a mode fifteen (`ControlTimesOut`, `ModeTimesOut`);
then it tells the operator that the agent did not accept, while the thread goes on. An
operator who asks again then makes a new request; that both may be carried out is
what the code does, and no property speaks of it.

A command (`send_command`) goes to the pipe (`OpenPipe`, then `DllAnswers` or `PipeBreaks`), and
`GoesToWindow` says which answers lead on to a button message (`PostButton`). The pipe has one
instance, so a second client finds it busy, which for the code is the same as missing; `line`
is the request whose pipe is open. The set of commands has one for each way a name
may be known: to the pipe, to the buttons, to both, and "resume". A status asks the
pipe like a command, so it can be the one who is in the way. Window handles
are numbered by the start of PrintExp they belong to (`hwnd`, `epoch`), or are those of another
window that has "PrintExp" in its title (`Lookalikes`): the search by a fragment of the title may bring either
(`Found`), and what it brought is kept. `target` is the window a request was to be posted to; a
post to a handle of a closed window may fail or reach another one. The look-up and the post are one
step, as an end of PrintExp between the two is no different from one before or after both. The
control DLL is not in the repository: it may hang, or do the work and answer with
something else.

A print mode (`apply_preset`) reads the file (`ReadIni`), empties it (`Truncate`), writes it
(`Flush`), and switches inks on (`EnableInks`) and off (`DisableInks`) in the memory of PrintExp. A
file that cannot be opened is skipped by `ConfigParser.read`, and the fallbacks are written over the
settings; a write that fails leaves the file empty; `refused` remembers both. Of the writes into
memory any part may fail, as nobody looks at their results. `PRESETS` is the code's table
with ink channels reduced to their groups and all tasks of PrintExp to one; nothing
but this service changes the file here. `alone` and `met` are history variables: modes
that nothing disturbed, and whether two were ever applied together. What mixture is in force after
modes that were disturbed is left open.

### StatusSockets

Every connection has its loop. `Begin` is the start of a broadcast, `Sent` the end of
one send; `Turns` takes the connection that is at the next position of the list by
then, `Ends` removes the dead and has no await in it. `Removed` is how far the
removal gets before `list.remove` raises, which ends the loop and closes its own
connection; `Without` leaves the rest in order (nobody is listed twice, so removing
one by one comes to the same). The loop of a client that has left (`Leave`) is told nothing and goes
on, as in the code: nothing there ever receives, and `broadcast` keeps the failures
of a send to itself. One client that leaves may end the loops of all others: each
of them finds it dead and only the first can remove it; so the properties
speak of clients that are still connected. Loops may stop anywhere, as the status they read may
never come.

### AgentStart

`setup` is one start: what `--printer-type` and `--mock` say, the platform, and type
and path of the configuration. `Given` is the type these decide; without one the
agent searches, place by place: the snapshot of the processes, `Project.ini` in each
directory of `SearchPaths`, the DLLs in each (`Look`, `GoesOn`). A configured path to
`PrintExp.exe` is a place where nothing can be found, as the code appends
`Project.ini` to it. `Up` builds the backend, and for a UV printer the directory of
its print modes. Between two looks PrintExp may be started, ended or installed;
`Answers` is what a look brings, `Hints` what the place says by the rule in the docstring of
`detector.py`, which the code departs from for a PrintExp whose name contains no type: that is
DTG at once, before any file is looked at. `could` remembers the hints each place gave during the
search, `grounds` whether the answer was that guess. After `Stop` the agent may be
started with the same or other words. A file that is missing, cannot be parsed or has
no type in it is one case (`None`), as the search goes on from each.

## Runs

| run | bounds | shows |
|---|---|---|
| `job_dispatch_safety` | two agents of one type, one job, two swallowed reports, one cancel | both agents race for the job and report late. `SentMeansSuccess`, `ReinjectionIsPaidFor`, `StuckOnlyAfterAFault`, `CancelSticks`; `ImplementsLifecycle`: every step is one of `JobLifecycle` |
| `job_dispatch_fair` | one agent, two jobs whose POSTs may overlap, one swallowed report, one crash | `FirstComeFirstServed`; `EveryJobCloses`: if every injection returns, every job leaves the queue, and is closed if nothing is swallowed and nobody crashes |
| `long_poll` | two polls of two rounds, two POSTs, two connections | who sleeps through a notification and why, that nobody waits for ever although polls hold what others wait for, that every stored job is handed out, also one whose POST failed |
| `printer_registry` | two addresses that are registered and moved to, and the empty one, which a PATCH may store; four table changes or restarts, one failed commit, threshold 2 | registry and table agree except at an entry that an emptied address left behind, offline is earned, rows heal |
| `agent_loop` | five attempts, the code's number | heartbeat and registration go on and an id that arrives is used (`HeartbeatIfDispatchYields`, `IdIsUsedIfDispatchYields`) if the dispatch loop awaits something again and again, though any call of the backend may hang |
| `agent_loop_idle` | the same | violation: without jobs it never does, and the heartbeat stops |
| `dtg_workstation` | two injections, one for the first platen or for none, the other for the second (`Asked`), one failing call, one restart of PrintExp or the agent | who may leave a platen disabled, print on the wrong one, under the wrong name (`LockIsReleasedIfServed` and the three safety properties), with a PrintExp that takes jobs when it pleases |
| `dll_injection` | three builds, three injections, one look at the log, one misleading path, a print vector with room for one task, one death of PrintExp | what the agent's verdict says about the print vector (`ImplementsContract`: every step is one of `InjectionContract`), when a job is there twice or another's, and that the verdict comes |
| `operator_requests` | two requests, eight possible wishes (three modes), one lookalike of the window, one end of PrintExp, one death of the agent; any access to file or memory may fail | a command is executed twice only if an answer was lost, what "ok" means, when a mode is whole, what loses the origin (`OriginLostNeedsCause`), that a hanging DLL keeps one request only and every operator is told something (`OthersGoOnIfServed`) |
| `operator_requests_window` | no death of the agent, no lookalike | violation: the handle of the window is kept over a restart of PrintExp |
| `status_sockets` | three connections | whoever is connected is listed, and every loop that keeps going round serves all of them (`EveryLoopServesAll`), whatever others remove meanwhile and whichever other loops hang |
| `agent_start` | two directories, eleven starts, three changes of the machine | the type is found in the order of the docstring, whatever changes between two looks, but for the guess of a nameless PrintExp |

Why these bounds: races here are between two agents, two requests or a thread and
its successor; a second agent gives every race on one row, a third injection lets
a late thread meet two later ones, and two addresses let ids and entries be
confused. A fault costs one unit; `ReinjectionIsPaidFor` needs two for one
repetition, which is why that run has two. One look at the log instead of twenty
keeps the difference between "answered" and "timed out". In `long_poll` a poll and a
POST, or two polls, use the pool up, so that whoever comes third finds it empty;
a second round is the one a poll makes with the connection it kept. With three
connections both polls can sleep through one notification, and only the timer
wakes them: that instance holds too, but takes four times as long. Three
connections are the fewest with two removals that meet and a third
loop that suffers from them. In `agent_start` three changes are an installation before
the search and two changes in the middle of it. In `dll_injection` the first job fills the
print vector, so that the second finds it full and moves it while a third stores what it has
read, or moves it as well. In `printer_registry` the empty address is not registered, as an agent always
registers with one; it gets into the table by a PATCH. In `dtg_workstation` the failing call may
be any: opening the process, the scan, a write, the send. Beyond the bounds the theorems speak, where
there are some.

`CHECK_DEADLOCK FALSE` stands where the jobs, injections or loops of the instance may
all be over.

`SYMMETRY` is used only in the run without liveness properties.

### Fairness

- `JobDispatch`: the loop of an agent picks up what it is handed, HTTP calls return within
  their timeouts, and the dashboard serves a report somebody waits for. Nothing is assumed of a
  late report, of a cancel, of the operator, of a registration, or of the backend, which
  waits for the answer to its SAVE without limit: that injections return is the
  antecedent of the property (`BackendsReturn`).
- `LongPoll`: strong fairness for each poll on the loop, because a poll that blocks the
  loop takes the turn from all others again and again, but the queue of the loop is
  FIFO; weak fairness for the threads, for an agent that asks again, and for the claim of
  an agent that was handed a job.
- `PrinterRegistry`: a poll ends within the timeout of the client, and the poll loop goes on.
- `AgentLoop`: timers come due, HTTP calls end, and the loop serves its queue. Calls of the
  backend need not return and requests need not arrive (`Untimed`). That the dispatch loop
  lets the others run is the antecedent (`LetsGo`), as it is false of an agent without jobs.
- `DtgWorkstation`: a thread comes to its end. That its coroutine goes on afterwards is the
  antecedent (`LoopServes`).
- `DllInjection`: only the agent, and not its SAVE; threads in PrintExp may hang.
- `OperatorRequests`: a worker thread takes its next step and the dashboard gives up; calls of
  Windows that look for processes are taken to return. The way from
  the pipe to the window needs the event loop of the agent, which is the antecedent
  (`LoopServes`); the DLL, PrintExp and its message loop may never answer.
- `StatusSockets`: none. The property speaks of the loops that keep going round (`Runs`).

## What is proved

About `JobDispatch`, for every set of jobs, agents and types and every number of
faults, with the assumptions of `JobDispatch` (`NoPrinterAssumption`, `NoJobAssumption`,
`AgentTypeAssumption`, `BoundAssumption`):

- `TypeCorrect`: `TypeOK`, by `TypeInv`, which adds that requests and agents name rows.
- `ReinjectionPaid`: `ReinjectionIsPaidFor` is not inductive. `ReinjectionInv` adds
  that a handler's loaded status is past or present (`SeenIsPast`), that an agent's
  reports carry its own attempts (`OwnReports`), that an idle agent holds nothing,
  and `Account`: a balance, per agent and job, of the swallowed reports against the
  attempts, which counts what the reports still under way will do to the row.
- `ClosedStamped`: a closed row is stamped; by the type invariant alone, as both
  writers stamp. No run checks it by itself.
- `SentVouched`: `SentMeansSuccess`, by `ReportedIsVouched`, as a report of success outlives its
  agent. It claims nothing of the truth of the answer.
- `StuckAfterFault`: `StuckInv` says that on a job without faults every report is
  awaited by its agent (`AllAwaited`), and that a row at `injecting` has an agent that
  owes its outcome (`SomebodyOwes`).
- `CancelFinal`: the action property `CancelSticks`, step by step.
- `QueueInOrder`: `OrderInv`. Stamps rise with the POSTs, not with the commits
  (`StampsRise`), so an older row may appear behind a younger one that is already
  injected; but whatever was stored before a POST began has the smaller stamp, and a job is taken only
  when no such row waits (`TakenInOrder`), which stays true because no step opens
  a row again. It holds for any number of agents, of which the run has one.
- `LifecycleImplemented`: `ImplementsLifecycle`, by `LifeInv`: a handler that loaded
  "failed" has loaded a stamped row and a cancel goes on only from a row that is not
  cancelled (`SeenIsStamped`), so nothing is left to write where the mapper skips
  the status column; an idle agent holds nothing, so taking a job lets go of no
  other. Then one lemma for the dashboard's steps, one for the agents'.
- `NoRowReturns`: `RowsGoForward`: no row returns to the queue, and to a row nobody works
  on nothing happens but a cancel. It follows from the steps of `JobLifecycle` alone, by
  `LifecycleImplemented`: no handler of `JobDispatch` is opened for it.

About `LongPoll`, for any number of polls, POSTs, connections and rounds, with its
assumptions (`NobodyAssumption`, `KindsAssumption`, `BoundAssumption`):

- `TypeCorrect`: `TypeOK`, the bound of the pool included, by `TypeInv`, which adds
  that the connections in use can be counted.
- `SleepersMissed`: `SleepsOnlyIfMissed`, by `SleepInv`. The invariant needs the stages
  on the way to sleep: what was notified in the gap between query and wait has been
  missed (`GapIsMissed`), and a poll that adds its future, or waits, while the event is
  set has missed it or somebody is still among the waiters (`SetIsMissed`).

About `PrinterRegistry`, for any addresses, threshold and number of changes, with its
assumptions (`UrlAssumption`, `NoneAssumption`, `NoEntryAssumption`, `BoundAssumption`):

- `TypeCorrect`: `TypeOK` bounds the ids by the operations, which is not inductive:
  `IdsInReach` counts the registrations still under way, each of which may insert a
  row above the highest one.
- `EntriesAreTheirRows`, `PrintersArePolled`: `EntriesNameTheirRow` and
  `EveryPrinterIsPolled` need each other and `RowsAreUnique` (`RowInv`). The empty
  address is allowed everywhere; the properties except an entry that was left behind
  (`Left`) and the row without an address.
- `OfflineTakesSilence`: the action property `OfflineIsEarned`, by `MissedIsSilence`,
  what an entry has counted was silence, which needs `StaleIsOver`: an entry that
  comes back while the poll of its predecessor is under way has counted nothing.
- `SignsHeal` and `HealedLasts`: the two steps of `RowsHeal` that need no fairness. An answer
  or a heartbeat that is stored puts row and card of its own printer right, whatever
  they showed (`AnswersShow`), by `RowInv`: the entry that was polled is that of the row.
  And what is right stays right (`ShownStays`), whatever is answered, missed, pushed
  or registered; the exceptions are named in the properties, among them the rows that an
  entry left behind is mixed up with (`Mixed`).

About `DllInjection`, for any number of injections, polls, deaths, any room in the print
vector and every set of builds and misleading paths (`BuildAssumption`, `BoundAssumption`,
`MisleadingAssumption`, `RoomAssumption`):

- `TypeCorrect`: `TypeOK`, by `TypeInv`: a thread that holds a task holds that of an
  injection, and as long as the vector has not moved its place is in memory
  (`ThreadsHoldJobs`).
- `NoEarlierJob`: `NeverAnEarlierJob`, by `OrderInv`: the path in the config file is
  that of the current injection once a DLL is loaded, and no thread is older than
  its injection.
- `TwiceIfMet`: `TwiceOnlyIfThreadsMet`. `OwnJobOnce` follows a thread that meets no other:
  from `InOwnHands`, where its job is nowhere but in its hands, to one place in
  the vector, also when the vector moves to a new array in between. The count of
  places is a cardinality, so the step shows that the set of places has at most
  one element. Two other threads may tear the vector, so `torn` is an exception here and below.
- `SuccessIsEarned`: `SuccessMeansQueued`, by `DoneMeansStored`: a log that says "done" is
  the word of a thread that has stored its task, where no other thread that is
  about to write can overwrite it or cut it off, and none that is about to move the
  vector can leave it behind.
- `ContractImplemented`: `ImplementsContract`, by `ContractInv`. The hard step is `Ask`: which
  injections may the next one meet? Only those still in PrintExp, and `AloneIsOver`
  says that a thread that met nobody has ended once its injection was answered "yes"
  (`AnswerIsOver`), as the log had nobody else to write it; `AnswersInTurn` that
  everything before the current injection is answered. For `Mix` and `Enter` it takes
  `HoldsOwn` and `InMemoryIsStored`: such a thread carries its own job, and its job is
  in the part of the vector that is in use. For `Tear` it takes `TornInCompany`: one thread
  alone, whatever array it moves the vector to, tears nothing. Then one lemma for the start of an injection
  (`BeginImplements`), one for the agent's other steps, one for the threads'.
- `SuccessUntilNo`, `SuccessStays`: `SuccessStands` and `SuccessIsFinal`, from the contract alone,
  by an invariant of `InjectionContract` (`KeptInv`: nobody meets, and nothing is torn, before
  the first "no", and a "yes" stays backed by the job, a meeting, the path or a torn
  vector). The first says when a row that `JobDispatch` shows as sent is in PrintExp; the
  second, that nobody meets the thread of an injection that was alone once it was answered
  "yes", and that its job is lost only if two later ones tear the vector.

About `DtgWorkstation`, for any finite set of jobs, any workstations they may ask for and any
number of failures and restarts (`JobsAssumption`, `NoWsAssumption`, `BoundAssumption`,
`AskedAssumption`):

- `TypeCorrect`: `TypeOK`, with what an injection has at each stage (`InjectionInv`) and the
  bound of the restarts; `ProcessInv` also says that as long as PrintExp has not been
  restarted every address, cached or in the hands of a thread, is that of an object in it,
  and of the mask if nothing else passes for it (`Good`), however scans overwrite each other.
- `LocksAreHeld`: `LockedOnlyByUnfinished`, inductive with these: whoever disabled a platen has an
  address of the mask, and only an injection that ends with a failed restore, or none,
  leaves it disabled.
- `PlatensAreKept`: `WrongPlatenNeedsCompany`, by `PlatenInv`: the mask stays as a job that is
  alone has set it until its own restore; `MetInv` says that whoever could change it
  before PrintExp has taken the job has been met.
- `NamesAreOwn`: `WrongNameNeedsCompany`, by `NameOf`: as long as PrintExp has not taken the
  job, however late that is, a name that is not its own is that of one it has met.

About `OperatorRequests`, for any requests, wishes and number of deaths
(`PresetsAssumption`, `NothingAssumption`, `LookalikesAssumption`, `BoundAssumption`):

- `TypeCorrect`, `TwiceIsUnanswered`, `OkIsDelivered`: `CommandInv` says of each stage of a
  command what was executed, what is queued and what was answered; `WindowInv`
  that no handle is of a later PrintExp; `InboxInv` that what is queued was posted to the
  PrintExp that runs, so that an end of it leaves the post as one to a closed window.
- `AloneIsWhole`: `ModeInv` follows a mode that nothing disturbs through its file and its inks
  (`AloneOnItsWay`); `AloneIsOnly` says why nobody else writes.
- `OriginIsKept`: `OriginLostNeedsCause`, by `OriginInv`: as long as every access to the file
  works, one mode at a time finds the file whole, or has it in hand.

About `AgentStart`, for any directories, any list of default places and any starts
(`SetupsAssumption`, `DefaultsAssumption`, `NoneAssumption`, `BoundAssumption`):

- `TypeCorrect`: `TypeOK`, with the fact that only a start without a given type searches,
  so that `dtf82` never overrides what was found.
- `RankKept`: `RankIsRespected`, by `RankInv`: the places behind the search hinted at
  nothing at some time, and the history misses no hint that a look could bring. What
  a look brings is a hint, or the guess (`HintsTyped`).

About `StatusSockets`, for any finite set of connections (`SocketsAssumption`):

- `TypeCorrect`, `ListenersStay`: `TypeOK` and `ListenersAreListed`, by `SocketInv`. That nobody is
  found dead twice by one broadcast, and that its position stays on the list, is
  not inductive: `Broadcasts` adds that a broadcast has met nobody who stands behind
  its position, which a removal by another broadcast keeps because it moves
  everybody only to the front, and a connection because whoever joins is new to all.
  What a removal leaves is `WithoutIsLeft`: who is not removed, once, nobody further
  back than before. `Without` is a recursive function over the positions of the list.
  `LeftExists` shows that it exists and `LeftIsLeft` what it yields, both with the least
  position at which it would go wrong (`Least`, from the well-foundedness of `<`) in
  the place of an induction theorem.

Theorems without a run of their own: `SuccessUntilNo`, `SuccessStays` and `NoRowReturns` follow
from a refinement that a run checks; `ClosedStamped`, `SuccessIsEarned`, `SignsHeal` and
`HealedLasts` say more of single steps than the runs do.

Only model-checked: all liveness properties, which need fairness, and the type
invariant of `AgentLoop`: its one constant is the number of registration attempts, and
the runs take the code's own, five.

## What the runs found

Two statements of the repository that do not hold of the code are `violation`
runs above, and `PROJECT.json` quotes the lines: an idle agent starves its own
heartbeat and API (`agent_loop_idle`), and the window of PrintExp is looked up once
(`operator_requests_window`).

More things the models show, which no run isolates; the properties name many of
them as exceptions.

- A report under way overwrites a final state, as no handler of jobs looks at the
  old one.
- A job that is stored and notified between the query of a poll and its wait wakes
  nobody, so that the agent learns of it from the timer (the event is cleared after
  the query, not before).
- A failed send skips the restore, so a platen stays disabled until a later
  injection with a workstation ends (`LockedOnlyByUnfinished` has to except it).
- A PATCH that stores the empty address leaves the entry of the old one in the registry
  ("Update polling registry if URL changed", `printers.py`, and it has changed): it goes on writing
  to that row, and a row that registers at the old address afterwards is not polled for
  itself (`Left`, `Mixed`).
- Two scans of the DTG backend may overwrite each other's result, so that the write of one uses
  what the other found, or fails with a `TypeError` (`Scan`, `Aim`); and a job that PrintExp takes
  late is printed on either platen, or under the name of the next one (`late`, `met`).
- Threads that meet while the print vector grows may take jobs of others with them (`torn`).
- A `DebugParam.ini` that is locked when a mode reads it loses origin and direction of the
  scan to the fallbacks, and one that cannot be written stays empty (`refused`).
- Registration ends after five attempts, whatever the log says of "later" (`GivesUp`).
- Clients of the WebSocket that leave can end the loops of those that stay.
- `--printer-type dtf82` and `type = "dtf-v5.8.2"`, which `main.py` and the README
  offer, keep the agent from starting: neither is a `PrinterType` (`Raises`), and the
  branch of `main` for dtf82 is never reached.
- The README wants `exe_path` to be the path of `PrintExp.exe`; the search takes it for a
  directory and so skips the configured installation (`SearchPaths`), while the
  print modes take the directory of a configured directory (`ModesOf`).
- A running `PrintExp.exe`, whose name says nothing of its type, ends the search with
  DTG before any file is read (`FromProcesses`), although the docstring of `detector.py` lets only a
  hint in the name decide and puts DTG last (`grounds`). So the type of a printer may change
  with a restart of the agent alone.

## Not modelled, and the plan

Next, in this order:

1. The event stream, if a page comes to use it.
2. Log parsers as functions; the form of `LeftIsLeft` carries over to them.
3. The DTG backend as an implementation of a contract like `InjectionContract`.

Left out for good: rendering, browser code, the mock backend, the
calls into Windows, read-only SQL and forwarding handlers, which keep no state of
their own that a second actor could disturb; and what nothing in the product
calls: `assign_next`, `send_job`, the HSRP client, `bridge_client.py`, `dll_injector.py`.
