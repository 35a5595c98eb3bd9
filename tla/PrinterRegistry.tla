-------------------------- MODULE PrinterRegistry --------------------------
(***************************************************************************)
(* The printers of the dashboard, kept twice: as rows of the table and as  *)
(* entries of AgentManager, which polls them.                              *)
(*                                                                         *)
(* All handlers here are coroutines of one event loop, so what a handler   *)
(* does between two awaits is one step.  Registering awaits the ping of    *)
(* the agent, and a poll awaits the agent's answer: rows and entries may   *)
(* change meanwhile, and a poll keeps the entry it started with.           *)
(***************************************************************************)
EXTENDS Integers, FiniteSets

CONSTANTS
    Urls,              \* addresses of agents
    Blank,             \* the empty string, which PATCH and POST accept
    PostUrls,          \* the addresses that are registered with POST
    None,              \* no row, no entry
    OfflineThreshold,  \* _OFFLINE_THRESHOLD
    MaxOps,            \* requests that change the table, and restarts
    MaxFaults          \* commits that fail because the database is locked

ASSUME UrlAssumption == Blank \notin Urls /\ PostUrls \subseteq Urls \cup {Blank}
ASSUME NoneAssumption == None \notin Urls \cup {Blank} \cup Nat
ASSUME BoundAssumption == OfflineThreshold \in Nat \ {0} /\ {MaxOps, MaxFaults} \subseteq Nat

Ids    == 1 .. MaxOps
AnyUrl == Urls \cup {Blank}
Live   == {"none", "up", "down"}

\* `left' is history: a PATCH that emptied the address left this entry behind.
Entry  == [id: Ids, missed: 0 .. OfflineThreshold, live: Live, left: BOOLEAN]

ASSUME NoEntryAssumption == None \notin Entry

VARIABLES
    url,       \* printers.agent_url by id, None while there is no such row
    shown,     \* printers.status
    shownBy,   \* the address whose agent, or silence, last set that status
    entries,   \* AgentManager._entries
    todo,      \* the entries the current round of polls still waits for
    stale,     \* polls under way whose entry has been removed meanwhile
    regs,      \* POST requests that await the ping
    silent,    \* failed polls of an address since it last gave a sign of life
    ops, faults, lostDeletes

rows   == <<url, shown, shownBy>>
memory == <<entries, todo, stale>>
bounds == <<ops, faults, lostDeletes>>
vars   == <<rows, memory, regs, silent, bounds>>

TypeOK ==
    /\ url \in [Ids -> AnyUrl \cup {None}]
    /\ shown \in [Ids -> {"online", "offline"}]
    /\ shownBy \in [Ids -> AnyUrl \cup {None}]
    /\ entries \in [AnyUrl -> Entry \cup {None}]
    /\ todo \subseteq {u \in AnyUrl : entries[u] # None}
    /\ stale \subseteq [id: Ids, url: AnyUrl, missed: 0 .. OfflineThreshold]
    /\ regs \subseteq [n: Nat, url: AnyUrl, found: Ids \cup {None}]
    /\ silent \in [AnyUrl -> 0 .. OfflineThreshold]
    /\ ops \in 0 .. MaxOps
    /\ faults \in 0 .. MaxFaults
    /\ lostDeletes \in 0 .. MaxFaults

Init ==
    /\ url = [i \in Ids |-> None]
    /\ shown = [i \in Ids |-> "offline"]
    /\ shownBy = [i \in Ids |-> None]
    /\ entries = [u \in AnyUrl |-> None]
    /\ todo = {}
    /\ stale = {}
    /\ regs = {}
    /\ silent = [u \in AnyUrl |-> 0]
    /\ ops = 0 /\ faults = 0 /\ lostDeletes = 0
-----------------------------------------------------------------------------
Exists(i) == url[i] # None

\* The row of an address (agent_url is unique), or None.
RowOf(u) ==
    IF \E i \in Ids : url[i] = u THEN CHOOSE i \in Ids : url[i] = u ELSE None

\* SQLite gives a new row the highest id of the table plus one, so the id of
\* a deleted row may come back.
NewId == CHOOSE i \in Ids : /\ \A k \in Ids : Exists(k) => k < i
                            /\ i > 1 => Exists(i - 1)

Operation == ops < MaxOps /\ ops' = ops + 1

Fresh(i) == [id |-> i, missed |-> 0, live |-> "none", left |-> FALSE]

\* add_printer: an address that has an entry keeps it.
Added(e, i, u) == IF e[u] = None THEN [e EXCEPT ![u] = Fresh(i)] ELSE e

\* Mutant: the poll under way is forgotten with the entry.
RemovePrinterKeepsPoll(u) == UNCHANGED <<todo, stale>>

\* remove_printer: the entry is gone, a poll under way goes on with it.
RemovePrinter(u) ==
    /\ todo' = todo \ {u}
    /\ stale' = IF u \in todo
                THEN stale \cup {[id |-> entries[u].id, url |-> u,
                                  missed |-> entries[u].missed]}
                ELSE stale

Removed(e, u) == [e EXCEPT ![u] = None]

\* Mutant: a sign of life does not start the count again.
AliveKeepsCount(e, u, connected) ==
    [e EXCEPT ![u].live = IF connected THEN "up" ELSE "down"]

\* A sign of life of the agent, polled or pushed.
Alive(e, u, connected) ==
    [e EXCEPT ![u].live = IF connected THEN "up" ELSE "down", ![u].missed = 0]

Said(connected) == IF connected THEN "online" ELSE "offline"

\* One more failure, counted up to the threshold, where the count no longer
\* matters.
Missed(n) == IF n < OfflineThreshold THEN n + 1 ELSE n
-----------------------------------------------------------------------------
(***************************************************************************)
(* Requests.                                                               *)
(***************************************************************************)

\* register_printer up to the ping: the row is looked up first.
RegisterStarts(u) ==
    /\ Operation
    /\ regs' = regs \cup {[n |-> ops, url |-> u, found |-> RowOf(u)]}
    /\ UNCHANGED <<rows, memory, silent, faults, lostDeletes>>

\* ... the row it found is updated (name and type).  If it is gone by now,
\* the request fails.
RegisterAgain(r) ==
    /\ r \in regs
    /\ r.found # None
    /\ regs' = regs \ {r}
    /\ UNCHANGED <<rows, memory, silent, bounds>>

\* ... or a row is inserted; the constraint on agent_url refuses a second
\* row of the address.
RegisterNew(r) ==
    /\ r \in regs
    /\ r.found = None
    /\ RowOf(r.url) = None
    /\ LET i == NewId
       IN  /\ url' = [url EXCEPT ![i] = r.url]
           /\ shown' = [shown EXCEPT ![i] = "offline"]
           /\ shownBy' = [shownBy EXCEPT ![i] = None]
           /\ entries' = Added(entries, i, r.url)
    /\ regs' = regs \ {r}
    /\ UNCHANGED <<todo, stale, silent, bounds>>

RegisterRefused(r) ==
    /\ r \in regs
    /\ r.found = None
    /\ RowOf(r.url) # None
    /\ regs' = regs \ {r}
    /\ UNCHANGED <<rows, memory, silent, bounds>>

\* delete_printer: first the entry, then the row.
DeletePrinter(i) ==
    /\ Operation
    /\ Exists(i)
    /\ RemovePrinter(url[i])
    /\ entries' = Removed(entries, url[i])
    /\ url' = [url EXCEPT ![i] = None]
    /\ UNCHANGED <<shown, shownBy, regs, silent, faults, lostDeletes>>

\* ... and the commit fails: the entry is gone all the same.
DeleteFails(i) ==
    /\ Operation
    /\ Exists(i)
    /\ faults < MaxFaults
    /\ faults' = faults + 1
    /\ lostDeletes' = lostDeletes + 1
    /\ RemovePrinter(url[i])
    /\ entries' = Removed(entries, url[i])
    /\ UNCHANGED <<rows, regs, silent>>

\* An empty address is stored, but the registry is not touched: the old
\* address goes on being polled for this row.
LeaveEntry(i) ==
    /\ entries' = IF entries[url[i]] = None THEN entries
                  ELSE [entries EXCEPT ![url[i]].left = TRUE]
    /\ UNCHANGED <<todo, stale>>

\* Mutant: the new address is polled, the old one as well.
MoveEntryKeepsOld(i, w) ==
    CASE w = url[i]                -> UNCHANGED memory
      [] w # url[i] /\ w = Blank -> LeaveEntry(i)
      [] w # url[i] /\ w # Blank -> entries' = Added(entries, i, w) /\ UNCHANGED <<todo, stale>>

\* Mutant: the new address is not added.
MoveEntryForgets(i, w) ==
    CASE w = url[i]                -> UNCHANGED memory
      [] w # url[i] /\ w = Blank -> LeaveEntry(i)
      [] w # url[i] /\ w # Blank -> RemovePrinter(url[i]) /\ entries' = Removed(entries, url[i])

\* The second half of update_printer: `if req.agent_url and ... != old_url'.
MoveEntry(i, w) ==
    \/ w = url[i] /\ UNCHANGED memory
    \/ w # url[i] /\ w = Blank /\ LeaveEntry(i)
    \/ /\ w # url[i] /\ w # Blank
       /\ RemovePrinter(url[i])
       /\ entries' = Added(Removed(entries, url[i]), i, w)

\* update_printer: a row may get any address no other row has.
UpdatePrinter(i, w) ==
    /\ Operation
    /\ Exists(i)
    /\ RowOf(w) \in {i, None}
    /\ url' = [url EXCEPT ![i] = w]
    /\ MoveEntry(i, w)
    /\ UNCHANGED <<shown, shownBy, regs, silent, faults, lostDeletes>>

\* The agent pushes its status; 404 if it has no row.
Heartbeat(u, connected) ==
    /\ RowOf(u) # None
    /\ shown' = [shown EXCEPT ![RowOf(u)] = Said(connected)]
    /\ shownBy' = [shownBy EXCEPT ![RowOf(u)] = u]
    /\ entries' = IF entries[u] = None THEN entries ELSE Alive(entries, u, connected)
    /\ silent' = [silent EXCEPT ![u] = 0]
    /\ UNCHANGED <<url, todo, stale, regs, bounds>>
-----------------------------------------------------------------------------
(***************************************************************************)
(* The poll loop.                                                          *)
(***************************************************************************)

\* A snapshot of the entries is polled concurrently; the next round starts
\* when all of them have returned.
StartRound ==
    /\ todo = {} /\ stale = {}
    /\ todo' = {u \in AnyUrl : entries[u] # None}
    /\ UNCHANGED <<rows, entries, stale, regs, silent, bounds>>

\* _persist_status: by id, whatever row has that id now; errors are
\* swallowed.
Persist(i, u, st) ==
    \/ /\ shown' = IF Exists(i) THEN [shown EXCEPT ![i] = st] ELSE shown
       /\ shownBy' = IF Exists(i) THEN [shownBy EXCEPT ![i] = u] ELSE shownBy
       /\ UNCHANGED faults
    \/ /\ faults < MaxFaults
       /\ faults' = faults + 1
       /\ UNCHANGED <<shown, shownBy>>

Quietly(i, u, missed) ==
    IF missed >= OfflineThreshold
    THEN Persist(i, u, "offline")
    ELSE UNCHANGED <<shown, shownBy, faults>>

\* The agent answers: "online" or "offline", as it says itself.  At an empty
\* address nobody answers.
PollAnswers(u, connected) ==
    /\ u \in todo /\ u # Blank
    /\ todo' = todo \ {u}
    /\ entries' = Alive(entries, u, connected)
    /\ silent' = [silent EXCEPT ![u] = 0]
    /\ Persist(entries[u].id, u, Said(connected))
    /\ UNCHANGED <<url, stale, regs, ops, lostDeletes>>

\* The poll fails or times out.
PollFails(u) ==
    LET missed == Missed(entries[u].missed)
    IN  /\ u \in todo
        /\ todo' = todo \ {u}
        /\ entries' = [entries EXCEPT ![u].missed = missed,
                                      ![u].live = IF missed >= OfflineThreshold
                                                  THEN "down" ELSE @]
        /\ silent' = [silent EXCEPT ![u] = Missed(@)]
        /\ Quietly(entries[u].id, u, missed)
        /\ UNCHANGED <<url, stale, regs, ops, lostDeletes>>

\* The same for a poll whose entry has been removed: only the row is left to
\* be written.
StaleAnswers(p, connected) ==
    /\ p \in stale /\ p.url # Blank
    /\ stale' = stale \ {p}
    /\ silent' = [silent EXCEPT ![p.url] = 0]
    /\ Persist(p.id, p.url, Said(connected))
    /\ UNCHANGED <<url, entries, todo, regs, ops, lostDeletes>>

StaleFails(p) ==
    /\ p \in stale
    /\ stale' = stale \ {p}
    /\ silent' = [silent EXCEPT ![p.url] = Missed(@)]
    /\ Quietly(p.id, p.url, Missed(p.missed))
    /\ UNCHANGED <<url, entries, todo, regs, ops, lostDeletes>>

\* The dashboard is restarted: requests and polls die, the entries are
\* loaded from the table.
Restart ==
    /\ Operation
    /\ entries' = [u \in AnyUrl |-> IF RowOf(u) = None THEN None ELSE Fresh(RowOf(u))]
    /\ todo' = {}
    /\ stale' = {}
    /\ regs' = {}
    /\ lostDeletes' = 0
    /\ UNCHANGED <<rows, silent, faults>>
-----------------------------------------------------------------------------
Requests ==
    \/ \E u \in PostUrls : RegisterStarts(u)
    \/ \E r \in regs : RegisterAgain(r) \/ RegisterNew(r) \/ RegisterRefused(r)
    \/ \E i \in Ids : DeletePrinter(i) \/ DeleteFails(i)
    \/ \E i \in Ids, w \in AnyUrl : UpdatePrinter(i, w)
    \/ \E u \in Urls, connected \in BOOLEAN : Heartbeat(u, connected)

PollReturns(u) == PollFails(u) \/ \E connected \in BOOLEAN : PollAnswers(u, connected)

StaleReturns(p) == StaleFails(p) \/ \E connected \in BOOLEAN : StaleAnswers(p, connected)

PollLoop ==
    \/ StartRound
    \/ \E u \in todo : PollReturns(u)
    \/ \E p \in stale : StaleReturns(p)

Next == Requests \/ PollLoop \/ Restart

Spec == Init /\ [][Next]_vars

\* Each poll ends within the client's timeout and the loop goes on.
FairSpec ==
    /\ Spec
    /\ WF_vars(StartRound)
    /\ \A u \in AnyUrl : WF_vars(u \in todo /\ PollReturns(u))
    /\ WF_vars(\E p \in stale : StaleReturns(p))
-----------------------------------------------------------------------------
\* An entry that update_printer left behind when it emptied an address.
Left(u) == entries[u] # None /\ entries[u].left

\* Rows that cannot be expected to be right: those without an address, and
\* those that share an entry left behind.
Mixed(i) ==
    \/ url[i] = Blank
    \/ Left(url[i])
    \/ \E u \in AnyUrl : Left(u) /\ entries[u].id = i

\* Every entry is the one of the row with its address: polls never write to
\* the row of another printer, unless the entry has been removed meanwhile or
\* was left behind, with the old address, when a PATCH emptied the row's.
EntriesNameTheirRow ==
    \A u \in AnyUrl : entries[u] # None /\ ~Left(u) => url[entries[u].id] = u

\* Every printer of the table that has an address is polled, if no delete
\* failed half-way since the start of the dashboard.
EveryPrinterIsPolled ==
    lostDeletes = 0 =>
        \A i \in Ids : Exists(i) /\ url[i] # Blank => entries[url[i]] # None

\* Silence marks a printer offline only after OfflineThreshold failed polls
\* without a sign of life, heartbeats included; a poll of a removed entry is
\* the exception.
OfflineIsEarned ==
    [][\A u \in todo :
         /\ u \notin todo' /\ entries'[u] # None
         /\ shown[entries[u].id] = "online"
         /\ shown'[entries[u].id] = "offline"
         => silent'[u] \in {0, OfflineThreshold}]_vars

\* The row and the card of a printer agree and come from its own agent.
ShowsItsAgent(i) ==
    /\ shownBy[i] = url[i]
    /\ entries[url[i]] # None
    /\ entries[url[i]].live = IF shown[i] = "online" THEN "up" ELSE "down"

\* An answer or a heartbeat that reaches the table puts row and card of its own
\* printer right, whatever they showed.
AnswersShow ==
    [][\A i \in Ids, u \in Urls, connected \in BOOLEAN :
         /\ url[i] = u /\ entries[u] # None /\ ~Mixed(i)
         /\ (u \in todo /\ PollAnswers(u, connected)) \/ Heartbeat(u, connected)
         /\ UNCHANGED faults
         => ShowsItsAgent(i)']_vars

\* ... and that lasts: only a late poll of a removed entry, a request that
\* changes the table, a restart or a lost write may disturb it again.
ShownStays ==
    [][\A i \in Ids :
         Exists(i) /\ Exists(i)' /\ ~Mixed(i) /\ ShowsItsAgent(i) /\ ~ShowsItsAgent(i)'
             => stale' # stale \/ ops' # ops \/ faults' # faults]_vars

\* Late polls of removed entries, swallowed write errors and reused ids do
\* not last: every printer comes to show what its own agent says.
RowsHeal ==
    \A i \in Ids :
        []<>(lostDeletes > 0 \/ ~Exists(i) \/ Mixed(i) \/ ShowsItsAgent(i))
=============================================================================
