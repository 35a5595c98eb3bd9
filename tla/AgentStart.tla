---------------------------- MODULE AgentStart ----------------------------
(***************************************************************************)
(* The start of an agent: which type of printer it takes itself for, and   *)
(* which backend it builds.                                                *)
(*                                                                         *)
(* The command line, the configuration, or else a search of the machine    *)
(* decide.  The search looks at one place after the other: the processes,  *)
(* then Project.ini in each directory of a list, then the DLLs in each of  *)
(* them.  PrintExp may be started, ended or installed between two looks,   *)
(* and the agent may be started again, otherwise or with the same words.   *)
(* The dashboard sends the agent the jobs of the type it found.            *)
(***************************************************************************)
EXTENDS Naturals, Sequences

CONSTANTS
    Dirs,         \* directories PrintExp may be installed in
    Defaults,     \* those that are always searched, in order
    Setups,       \* the starts of the agent that may occur
    None,         \* no type, no directory
    MaxChanges    \* changes of the machine

PrinterTypes == {"dtg", "dtf", "uv"}

\* What --printer-type offers.
Choices == {"auto", "dtg", "dtf", "dtf82", "uv"}

\* What agent.toml may say of the type: README.md names the first five.
\* "other" is a word it does not name, "malformed" a file the TOML reader
\* refuses.
ConfigTypes == PrinterTypes \cup {"auto", "dtf-v5.8.2", "", "other", "malformed"}

\* printexp_path as it is configured: empty, a directory, or the PrintExp.exe
\* in it.
ConfigPaths == {None} \cup [dir : Dirs, exe : BOOLEAN]

\* Arguments, platform and configuration of one start.
AllSetups == [choice : Choices, mock : BOOLEAN, windows : BOOLEAN,
              type : ConfigTypes, path : ConfigPaths]

ASSUME SetupsAssumption == Setups \subseteq AllSetups
ASSUME DefaultsAssumption == Defaults \in Seq(Dirs)
ASSUME BoundAssumption == MaxChanges \in Nat

\* What the name of a PrintExp process, or the type in Project.ini, contains.
Words == {"dtf", "uv", "else"}

ASSUME NoneAssumption ==
    None \notin Dirs \cup [dir : Dirs, exe : BOOLEAN] \cup Setups
                \cup Choices \cup ConfigTypes \cup Words

VARIABLES
    running,   \* names of the PrintExp processes
    ini,       \* the type in each Project.ini; None: no file, or no type in it
    dlls,      \* the types that each directory has DLLs of
    stage,     \* "down", "searching", "up", or "failed": main has raised
    setup,     \* arguments and configuration of this start
    place,     \* where the search looks next
    type,      \* printer_type, as it is registered at the dashboard
    backend,   \* the backend that main built
    modes,     \* the directory of the print mode service of a UV printer
    could,     \* history: what each place could have hinted at since the search began
    grounds,   \* history: what the answer rests on, a "hint" or a "guess"
    changes    \* history: changes of the machine

machine == <<running, ini, dlls>>
vars == <<running, ini, dlls, stage, setup, place, type, backend, modes, could, grounds, changes>>
-----------------------------------------------------------------------------
(***************************************************************************)
(* The places of the search, numbered in the order it visits them.         *)
(***************************************************************************)

\* A configured PrintExp.exe is searched as if it were a directory, which
\* has neither a Project.ini nor DLLs: None.
SearchPaths(s) ==
    (IF s.path = None THEN <<>> ELSE <<IF s.path.exe THEN None ELSE s.path.dir>>) \o Defaults

Processes == 1
LastPlace(s) == 1 + 2 * Len(SearchPaths(s))
InPlaces(s) == {q \in 2 .. LastPlace(s) : q <= 1 + Len(SearchPaths(s))}

\* Mutant: the word is taken for the type.
PlainNames(s) == IF s.windows /\ running # {} THEN running ELSE {None}

\* The first PrintExp of a snapshot decides, whatever its name says; the
\* snapshot promises no order.
FromProcesses(s) ==
    IF s.windows /\ running # {}
    THEN {IF w = "else" THEN "dtg" ELSE w : w \in running}
    ELSE {None}

FromIni(d) ==
    IF d = None \/ ini[d] = None THEN None
    ELSE IF ini[d] = "else" THEN "dtg" ELSE ini[d]

FromDlls(d) ==
    IF d = None \/ dlls[d] = {} THEN None
    ELSE IF "dtf" \in dlls[d] THEN "dtf" ELSE "uv"

\* The answers that a look at place q may bring.
Answers(s, q) ==
    IF q = Processes THEN FromProcesses(s)
    ELSE IF q \in InPlaces(s) THEN {FromIni(SearchPaths(s)[q - 1])}
    ELSE {FromDlls(SearchPaths(s)[q - 1 - Len(SearchPaths(s))])}

\* What a place hints at, as detector.py states it in its first lines: of a
\* process only a name that contains a type.
Hints(s, q) ==
    IF q # Processes THEN Answers(s, q)
    ELSE IF s.windows /\ running \ {"else"} # {} THEN running \ {"else"} ELSE {None}
-----------------------------------------------------------------------------
TypeOK ==
    /\ running \subseteq Words
    /\ ini \in [Dirs -> Words \cup {None}]
    /\ dlls \in [Dirs -> SUBSET {"dtf", "uv"}]
    /\ stage \in {"down", "searching", "up", "failed"}
    /\ setup \in Setups \cup {None}
    /\ stage = "down" <=> setup = None
    /\ stage = "searching" => place \in 1 .. LastPlace(setup)
    /\ place \in Nat
    /\ type \in PrinterTypes \cup {None}
    /\ type # None <=> stage = "up"
    /\ backend \in PrinterTypes \cup {"dtf82", "mock", None}
    /\ modes \in Dirs \cup {None}
    /\ stage = "searching" => DOMAIN could = 1 .. LastPlace(setup)
    /\ \A q \in DOMAIN could : could[q] \subseteq PrinterTypes \cup {None}
    /\ grounds \in {"hint", "guess"}
    /\ changes \in 0 .. MaxChanges

Init ==
    /\ running = {}
    /\ ini = [d \in Dirs |-> None]
    /\ dlls = [d \in Dirs |-> {}]
    /\ stage = "down"
    /\ setup = None
    /\ place = 0
    /\ type = None /\ backend = None /\ modes = None
    /\ could = <<>> /\ grounds = "hint"
    /\ changes = 0
-----------------------------------------------------------------------------
(***************************************************************************)
(* main                                                                    *)
(***************************************************************************)

\* The type that arguments and configuration give without a search.
Given(s) ==
    IF s.mock THEN "dtg"
    ELSE IF s.choice # "auto" THEN s.choice
    ELSE IF s.type \notin {"auto", ""} THEN s.type
    ELSE None

\* Real backends want Windows.
Real(s) == ~s.mock /\ s.windows

\* dtf82 is a build of the DTF backend, not a type.
TypeOf(s, t) == IF Real(s) /\ s.choice = "dtf82" THEN "dtf" ELSE t

BackendOf(s, t) ==
    IF ~Real(s) THEN "mock"
    ELSE IF s.choice = "dtf82" THEN "dtf82" ELSE t

\* os.path.dirname of the configured path: the directory of PrintExp.exe, or
\* the parent of a configured directory, where no PrintExp is.
ModesOf(s, t) ==
    IF BackendOf(s, t) = "uv" /\ s.path # None /\ s.path.exe THEN s.path.dir ELSE None

Up(s, t) ==
    /\ stage' = "up"
    /\ type' = TypeOf(s, t)
    /\ backend' = BackendOf(s, t)
    /\ modes' = ModesOf(s, t)

\* A file that cannot be read as TOML, or a type that is no PrinterType.
Raises(s) == s.type = "malformed" \/ Given(s) \notin PrinterTypes \cup {None}

Start(s) ==
    /\ stage = "down"
    /\ setup' = s
    /\ \/ /\ Raises(s)
          /\ stage' = "failed"
          /\ UNCHANGED <<place, type, backend, modes, could>>
       \/ /\ ~Raises(s) /\ Given(s) # None
          /\ Up(s, Given(s))
          /\ UNCHANGED <<place, could>>
       \/ /\ ~Raises(s) /\ Given(s) = None
          /\ stage' = "searching"
          /\ place' = Processes
          /\ could' = [q \in 1 .. LastPlace(s) |-> Hints(s, q)]
          /\ UNCHANGED <<type, backend, modes>>
    /\ UNCHANGED <<machine, grounds, changes>>

\* Mutant: the search ends at the first Project.ini without a type.
BreaksOff ==
    \/ /\ place = Processes /\ place < LastPlace(setup)
       /\ place' = place + 1
       /\ UNCHANGED <<stage, type, backend, modes>>
    \/ /\ place # Processes \/ place = LastPlace(setup)
       /\ Up(setup, "dtg")
       /\ UNCHANGED place

\* A place that tells nothing sends the search to the next, the last one to
\* the default.
GoesOn ==
    \/ /\ place < LastPlace(setup)
       /\ place' = place + 1
       /\ UNCHANGED <<stage, type, backend, modes>>
    \/ /\ place = LastPlace(setup)
       /\ Up(setup, "dtg")
       /\ UNCHANGED place

Look ==
    /\ stage = "searching"
    /\ \E a \in Answers(setup, place) :
          /\ \/ a # None /\ Up(setup, a) /\ UNCHANGED place
             \/ a = None /\ GoesOn
          /\ grounds' = IF place = Processes /\ a = "dtg" THEN "guess" ELSE "hint"
    /\ UNCHANGED <<machine, setup, could, changes>>

\* The snapshot of the processes fails, or an exception on the way.
SnapshotFails ==
    /\ stage = "searching" /\ place = Processes /\ setup.windows
    /\ could' = [could EXCEPT ![Processes] = @ \cup {None}]
    /\ GoesOn
    /\ UNCHANGED <<machine, setup, grounds, changes>>

\* The process ends or is ended; a service manager starts it again.
Stop ==
    /\ stage # "down"
    /\ stage' = "down"
    /\ setup' = None /\ place' = 0
    /\ type' = None /\ backend' = None /\ modes' = None
    /\ could' = <<>> /\ grounds' = "hint"
    /\ UNCHANGED <<machine, changes>>
-----------------------------------------------------------------------------
(***************************************************************************)
(* The machine                                                             *)
(***************************************************************************)

\* What a search under way could now hint at as well.
Changed ==
    /\ changes < MaxChanges
    /\ changes' = changes + 1
    /\ UNCHANGED <<stage, setup, place, type, backend, modes, grounds>>
    /\ could' = IF stage = "searching"
                THEN [q \in DOMAIN could |-> could[q] \cup Hints(setup, q)']
                ELSE could

PrintExpStarts(w) ==
    /\ w \notin running
    /\ running' = running \cup {w}
    /\ UNCHANGED <<ini, dlls>>
    /\ Changed

PrintExpEnds(w) ==
    /\ w \in running
    /\ running' = running \ {w}
    /\ UNCHANGED <<ini, dlls>>
    /\ Changed

Installs(d) ==
    /\ \/ \E w \in Words \cup {None} : ini' = [ini EXCEPT ![d] = w] /\ UNCHANGED dlls
       \/ \E t \in SUBSET {"dtf", "uv"} : dlls' = [dlls EXCEPT ![d] = t] /\ UNCHANGED ini
    /\ UNCHANGED running
    /\ Changed
-----------------------------------------------------------------------------
Next ==
    \/ \E s \in Setups : Start(s)
    \/ Look
    \/ SnapshotFails
    \/ Stop
    \/ \E w \in Words : PrintExpStarts(w) \/ PrintExpEnds(w)
    \/ \E d \in Dirs : Installs(d)

Spec == Init /\ [][Next]_vars
-----------------------------------------------------------------------------
(***************************************************************************)
(* Properties                                                              *)
(***************************************************************************)

Searched == stage = "up" /\ could # <<>>

\* Whatever is started, ended or installed between two looks: the type the
\* agent found is one that some place hinted at during the search, and each
\* place of a higher rank hinted at nothing at some time (detector.py: "in
\* priority order").  DTG without any hint means that each hinted at nothing.
\* The one exception is a guess: a PrintExp whose name says nothing makes the
\* printer DTG at once, before Project.ini and the DLLs are looked at.
RankIsRespected ==
    Searched /\ grounds = "hint" =>
        \E r \in 1 .. LastPlace(setup) + 1 :
            /\ \A q \in 1 .. r - 1 : None \in could[q]
            /\ IF r > LastPlace(setup) THEN type = "dtg" ELSE type \in could[r]
=============================================================================
