------------------------- MODULE AgentStartProofs -------------------------
(***************************************************************************)
(* Theorems about AgentStart, for any directories, starts and changes of   *)
(* the machine.                                                            *)
(***************************************************************************)
EXTENDS AgentStart, SequenceTheorems, TLAPS

MachineType ==
    /\ running \subseteq Words
    /\ ini \in [Dirs -> Words \cup {None}]
    /\ dlls \in [Dirs -> SUBSET {"dtf", "uv"}]

LEMMA NoneIsNoType == None \notin PrinterTypes
BY NoneAssumption DEF ConfigTypes

\* The places of a start: a list of directories, or None for a path that is
\* none.
LEMMA PathsAreDirs ==
    ASSUME NEW s \in Setups
    PROVE  /\ SearchPaths(s) \in Seq(Dirs \cup {None})
           /\ Len(SearchPaths(s)) \in Nat
           /\ LastPlace(s) \in Nat
           /\ 1 <= LastPlace(s)
<1> DEFINE Known == IF s.path.exe THEN None ELSE s.path.dir
           Configured == IF s.path = None THEN <<>> ELSE <<Known>>
<1>1. s.path \in ConfigPaths
  BY SetupsAssumption DEF AllSetups
<1>2. s.path # None => s.path.dir \in Dirs
  BY <1>1 DEF ConfigPaths
<1>3. Configured \in Seq(Dirs \cup {None})
  <2>1. CASE s.path = None
    BY <2>1
  <2>2. CASE s.path # None
    <3>1. Known \in Dirs \cup {None}
      BY <1>2, <2>2
    <3> HIDE DEF Known
    <3> QED
      BY <2>2, <3>1
  <2> QED
    BY <2>1, <2>2
<1>4. Defaults \in Seq(Dirs \cup {None})
  BY DefaultsAssumption
<1>5. SearchPaths(s) \in Seq(Dirs \cup {None})
  BY <1>3, <1>4, ConcatProperties DEF SearchPaths
<1>6. Len(SearchPaths(s)) \in Nat
  BY <1>5, LenProperties
<1> QED
  BY <1>5, <1>6 DEF LastPlace

\* A look at any place brings a type or nothing.
AnswersTyped ==
    \A s \in Setups : \A q \in 1 .. LastPlace(s) :
        Answers(s, q) \subseteq PrinterTypes \cup {None}

LEMMA AnswersAreTypes == MachineType => AnswersTyped
<1> SUFFICES ASSUME MachineType, NEW s \in Setups, NEW q \in 1 .. LastPlace(s)
             PROVE  Answers(s, q) \subseteq PrinterTypes \cup {None}
  BY DEF AnswersTyped
<1> DEFINE n == Len(SearchPaths(s))
<1>1. /\ SearchPaths(s) \in Seq(Dirs \cup {None}) /\ n \in Nat
      /\ LastPlace(s) = 1 + 2 * n
  BY PathsAreDirs DEF LastPlace
<1>2. \A i \in 1 .. n : SearchPaths(s)[i] \in Dirs \cup {None}
  BY <1>1, ElementOfSeq
<1>3. FromProcesses(s) \subseteq PrinterTypes \cup {None}
  BY DEF MachineType, FromProcesses, PrinterTypes, Words
<1>4. \A d \in Dirs \cup {None} : FromIni(d) \in PrinterTypes \cup {None}
  BY DEF MachineType, FromIni, PrinterTypes, Words
<1>5. \A d \in Dirs \cup {None} : FromDlls(d) \in PrinterTypes \cup {None}
  BY DEF MachineType, FromDlls, PrinterTypes
<1>6. CASE q = Processes
  BY <1>3, <1>6 DEF Answers
<1>7. CASE q # Processes /\ q \in InPlaces(s)
  <2>1. q - 1 \in 1 .. n
    BY <1>1, <1>7 DEF InPlaces, Processes
  <2>2. FromIni(SearchPaths(s)[q - 1]) \in PrinterTypes \cup {None}
    BY <2>1, <1>2, <1>4
  <2> QED
    BY <2>2, <1>7 DEF Answers
<1>8. CASE q # Processes /\ q \notin InPlaces(s)
  <2>1. q - 1 - n \in 1 .. n
    BY <1>1, <1>8 DEF InPlaces, Processes
  <2>2. FromDlls(SearchPaths(s)[q - 1 - n]) \in PrinterTypes \cup {None}
    BY <2>1, <1>2, <1>5
  <2> QED
    BY <2>2, <1>8 DEF Answers
<1> QED
  BY <1>6, <1>7, <1>8

\* What a place hints at is among what it may tell, or nothing; and what it
\* tells is a hint, or the guess of the processes.
HintsTyped ==
    \A s \in Setups : \A q \in 1 .. LastPlace(s) :
        Hints(s, q) \subseteq PrinterTypes \cup {None}

LEMMA HintsAreTypes == MachineType => HintsTyped
<1> SUFFICES ASSUME MachineType, NEW s \in Setups, NEW q \in 1 .. LastPlace(s)
             PROVE  Hints(s, q) \subseteq PrinterTypes \cup {None}
  BY DEF HintsTyped
<1>1. Answers(s, q) \subseteq PrinterTypes \cup {None}
  BY AnswersAreTypes DEF AnswersTyped
<1>2. running \ {"else"} \subseteq PrinterTypes
  BY DEF MachineType, Words, PrinterTypes
<1> QED
  BY <1>1, <1>2 DEF Hints

LEMMA AnswersAreHints ==
    ASSUME MachineType, NEW s, NEW q, NEW a \in Answers(s, q)
    PROVE  a \in Hints(s, q) \/ (q = Processes /\ a = "dtg")
<1>1. CASE q # Processes
  BY <1>1 DEF Hints
<1>2. CASE q = Processes /\ s.windows /\ running # {}
  <2>1. PICK w \in running : a = IF w = "else" THEN "dtg" ELSE w
    BY <1>2 DEF Answers, FromProcesses
  <2> QED
    BY <1>2, <2>1 DEF Hints
<1>3. CASE q = Processes /\ ~(s.windows /\ running # {})
  BY <1>3 DEF Answers, FromProcesses, Hints
<1> QED
  BY <1>1, <1>2, <1>3

\* What becomes of a type that is no mistake: a type, a backend and a
\* directory of the modes or none.
LEMMA UpIsTyped ==
    ASSUME NEW s \in Setups, NEW t \in PrinterTypes, Up(s, t)
    PROVE  /\ stage' = "up"
           /\ type' \in PrinterTypes
           /\ backend' \in PrinterTypes \cup {"dtf82", "mock", None}
           /\ modes' \in Dirs \cup {None}
<1>1. s.path \in ConfigPaths
  BY SetupsAssumption DEF AllSetups
<1>2. ModesOf(s, t) \in Dirs \cup {None}
  BY <1>1 DEF ModesOf, ConfigPaths
<1>3. TypeOf(s, t) \in PrinterTypes
  BY DEF TypeOf, PrinterTypes
<1>4. BackendOf(s, t) \in PrinterTypes \cup {"dtf82", "mock", None}
  BY DEF BackendOf
<1> QED
  BY <1>2, <1>3, <1>4 DEF Up

\* The type a start is given is a type, unless main raises.
LEMMA GivenIsTyped ==
    ASSUME NEW s \in Setups, ~Raises(s), Given(s) # None
    PROVE  Given(s) \in PrinterTypes
BY DEF Raises

\* A search is under way for a start that is given no type, and keeps the
\* type it finds.
SearchOnlyIfNeeded ==
    /\ stage = "searching" => Given(setup) = None
    /\ stage = "down" => could = <<>>

TypeInv == TypeOK /\ SearchOnlyIfNeeded

LEMMA FoundIsType ==
    ASSUME NEW s \in Setups, Given(s) = None, NEW t
    PROVE  TypeOf(s, t) = t
<1>1. s.choice \in Choices
  BY SetupsAssumption DEF AllSetups
<1>2. s.choice # None
  BY <1>1, NoneAssumption
<1>3. s.mock \/ s.choice = "auto"
  BY <1>2 DEF Given
<1> QED
  BY <1>3 DEF TypeOf, Real

LEMMA MachineIsTyped == TypeOK => MachineType
BY DEF TypeOK, MachineType

LEMMA TypeInit == Init => TypeInv
<1> SUFFICES ASSUME Init PROVE TypeInv
  OBVIOUS
<1>1. changes \in 0 .. MaxChanges
  BY BoundAssumption DEF Init
<1>2. DOMAIN could = {}
  BY DEF Init
<1> QED
  BY <1>1, <1>2 DEF Init, TypeInv, TypeOK, SearchOnlyIfNeeded

\* The step of a search that does not find anything yet.
LEMMA TypeGoesOn ==
    ASSUME TypeInv, stage = "searching", GoesOn, UNCHANGED <<machine, setup, changes>>,
           grounds' \in {"hint", "guess"},
           \/ could' = could
           \/ could' = [could EXCEPT ![Processes] = @ \cup {None}]
    PROVE  TypeInv'
<1>1. setup \in Setups
  BY DEF TypeInv, TypeOK
<1>2. LastPlace(setup) \in Nat /\ LastPlace(setup)' = LastPlace(setup)
  BY <1>1, PathsAreDirs DEF LastPlace, SearchPaths
<1>3. DOMAIN could' = DOMAIN could
  OBVIOUS
<1>4. \A q \in DOMAIN could' : could'[q] \subseteq PrinterTypes \cup {None}
  BY DEF TypeInv, TypeOK
<1>5. CASE /\ place < LastPlace(setup) /\ place' = place + 1
           /\ UNCHANGED <<stage, type, backend, modes>>
  <2>1. place' \in 1 .. LastPlace(setup) /\ place' \in Nat
    BY <1>2, <1>5 DEF TypeInv, TypeOK
  <2> QED
    BY <1>2, <1>3, <1>4, <1>5, <2>1 DEF TypeInv, TypeOK, SearchOnlyIfNeeded, Given, machine
<1>6. CASE place = LastPlace(setup) /\ Up(setup, "dtg") /\ UNCHANGED place
  <2>1. stage' = "up" /\ type' \in PrinterTypes /\ modes' \in Dirs \cup {None}
        /\ backend' \in PrinterTypes \cup {"dtf82", "mock", None}
    BY <1>1, <1>6, UpIsTyped DEF PrinterTypes
  <2>2. type' # None
    BY <2>1, NoneIsNoType
  <2> QED
    BY <1>4, <1>6, <2>1, <2>2 DEF TypeInv, TypeOK, SearchOnlyIfNeeded, machine
<1> QED
  BY <1>5, <1>6 DEF GoesOn

\* A change of the machine keeps the machine's types; the answers of the new
\* machine are types too.
LEMMA TypeChanged ==
    ASSUME TypeInv, MachineType', Changed
    PROVE  TypeInv'
<1>1. HintsTyped'
  BY HintsAreTypes, PTL
<1>2. DOMAIN could' = DOMAIN could
  BY DEF Changed
<1>3. \A q \in DOMAIN could' : could'[q] \subseteq PrinterTypes \cup {None}
  <2>1. CASE stage = "searching"
    <3>1. setup \in Setups /\ DOMAIN could = 1 .. LastPlace(setup)
      BY <2>1 DEF TypeInv, TypeOK
    <3>2. setup' = setup
      BY DEF Changed
    <3>3. \A q \in DOMAIN could : Hints(setup, q)' \subseteq PrinterTypes \cup {None}
      BY <1>1, <3>1, <3>2 DEF HintsTyped
    <3> QED
      BY <2>1, <3>3 DEF Changed, TypeInv, TypeOK
  <2>2. CASE stage # "searching"
    BY <2>2 DEF Changed, TypeInv, TypeOK
  <2> QED
    BY <2>1, <2>2
<1>4. changes' \in 0 .. MaxChanges
  BY BoundAssumption DEF TypeInv, TypeOK, Changed
<1>5. LastPlace(setup)' = LastPlace(setup)
  BY DEF LastPlace, SearchPaths, Changed
<1> QED
  BY <1>2, <1>3, <1>4, <1>5
     DEF TypeInv, TypeOK, SearchOnlyIfNeeded, Given, Changed, MachineType

LEMMA TypeStart ==
    ASSUME TypeInv, NEW s \in Setups, Start(s)
    PROVE  TypeInv'
<1>1. setup' = s /\ s # None
  BY NoneAssumption DEF Start
<1>2. UNCHANGED <<running, ini, dlls, grounds, changes>> /\ stage = "down"
  BY DEF Start, machine
<1>3. MachineType
  BY MachineIsTyped DEF TypeInv
<1>4. could = <<>> /\ place \in Nat /\ type = None
  BY <1>2 DEF TypeInv, TypeOK, SearchOnlyIfNeeded
<1>5. CASE /\ stage' = "failed"
           /\ UNCHANGED <<place, type, backend, modes, could>>
  BY <1>1, <1>2, <1>4, <1>5 DEF TypeInv, TypeOK, SearchOnlyIfNeeded
<1>6. CASE /\ ~Raises(s) /\ Given(s) # None
           /\ Up(s, Given(s))
           /\ UNCHANGED <<place, could>>
  <2>1. stage' = "up" /\ type' \in PrinterTypes /\ modes' \in Dirs \cup {None}
        /\ backend' \in PrinterTypes \cup {"dtf82", "mock", None}
    BY <1>6, GivenIsTyped, UpIsTyped
  <2>2. type' # None
    BY <2>1, NoneIsNoType
  <2> QED
    BY <1>1, <1>2, <1>4, <1>6, <2>1, <2>2 DEF TypeInv, TypeOK, SearchOnlyIfNeeded
<1>7. CASE /\ Given(s) = None
           /\ stage' = "searching"
           /\ place' = Processes
           /\ could' = [q \in 1 .. LastPlace(s) |-> Hints(s, q)]
           /\ UNCHANGED <<type, backend, modes>>
  <2>1. LastPlace(s) \in Nat /\ place' \in 1 .. LastPlace(s) /\ place' \in Nat
    BY <1>7, PathsAreDirs DEF Processes
  <2>2. LastPlace(setup)' = LastPlace(s) /\ Given(setup)' = None
    BY <1>1, <1>7 DEF LastPlace, SearchPaths, Given
  <2>3. DOMAIN could' = 1 .. LastPlace(s)
    BY <1>7
  <2>4. \A q \in DOMAIN could' : could'[q] \subseteq PrinterTypes \cup {None}
    BY <1>3, <1>7, <2>3, HintsAreTypes DEF HintsTyped
  <2> QED
    BY <1>1, <1>2, <1>4, <1>7, <2>1, <2>2, <2>3, <2>4 DEF TypeInv, TypeOK, SearchOnlyIfNeeded
<1> QED
  BY <1>5, <1>6, <1>7 DEF Start

LEMMA TypeLook == ASSUME TypeInv, Look PROVE TypeInv'
<1>1. stage = "searching" /\ setup \in Setups /\ place \in 1 .. LastPlace(setup)
  BY DEF Look, TypeInv, TypeOK
<1>2. UNCHANGED <<running, ini, dlls, setup, could, changes>>
  BY DEF Look, machine
<1>3. PICK a \in Answers(setup, place) :
          \/ a # None /\ Up(setup, a) /\ UNCHANGED place
          \/ a = None /\ GoesOn
  BY DEF Look
<1>g. grounds' \in {"hint", "guess"}
  BY DEF Look
<1>4. CASE a # None /\ Up(setup, a) /\ UNCHANGED place
  <2>1. a \in PrinterTypes
    BY <1>1, <1>4, AnswersAreTypes, MachineIsTyped DEF TypeInv, AnswersTyped
  <2>2. stage' = "up" /\ type' \in PrinterTypes /\ modes' \in Dirs \cup {None}
        /\ backend' \in PrinterTypes \cup {"dtf82", "mock", None}
    BY <1>1, <1>4, <2>1, UpIsTyped
  <2>3. type' # None
    BY <2>2, NoneIsNoType
  <2> QED
    BY <1>1, <1>2, <1>4, <1>g, <2>2, <2>3 DEF TypeInv, TypeOK, SearchOnlyIfNeeded
<1>5. CASE a = None /\ GoesOn
  BY <1>1, <1>2, <1>5, <1>g, TypeGoesOn DEF machine
<1> QED
  BY <1>3, <1>4, <1>5

LEMMA TypeStep == ASSUME TypeInv, [Next]_vars PROVE TypeInv'
<1>1. ASSUME NEW s \in Setups, Start(s) PROVE TypeInv'
  BY <1>1, TypeStart
<1>2. CASE Look
  BY <1>2, TypeLook
<1>3. CASE SnapshotFails
  <2>1. grounds' \in {"hint", "guess"}
    BY <1>3 DEF SnapshotFails, TypeInv, TypeOK
  <2> QED
    BY <1>3, <2>1, TypeGoesOn DEF SnapshotFails
<1>4. CASE Stop
  <2>1. could' = <<>> /\ DOMAIN could' = {}
    BY <1>4 DEF Stop
  <2> QED
    BY <1>4, <2>1 DEF Stop, machine, TypeInv, TypeOK, SearchOnlyIfNeeded
<1>5. ASSUME NEW w \in Words, PrintExpStarts(w) \/ PrintExpEnds(w) PROVE TypeInv'
  <2>1. MachineType' /\ Changed
    BY <1>5 DEF PrintExpStarts, PrintExpEnds, TypeInv, TypeOK, MachineType
  <2> QED
    BY <2>1, TypeChanged
<1>6. ASSUME NEW d \in Dirs, Installs(d) PROVE TypeInv'
  <2>1. MachineType' /\ Changed
    BY <1>6 DEF Installs, TypeInv, TypeOK, MachineType
  <2> QED
    BY <2>1, TypeChanged
<1>7. CASE UNCHANGED vars
  BY <1>7 DEF vars, TypeInv, TypeOK, SearchOnlyIfNeeded, Given, LastPlace, SearchPaths
<1> QED
  BY <1>1, <1>2, <1>3, <1>4, <1>5, <1>6, <1>7 DEF Next

\* An agent that is up has a type, and only then; a search stays within its
\* places, and each place tells types or nothing.
THEOREM TypeCorrect == Spec => []TypeOK
<1>1. Spec => []TypeInv
  BY TypeInit, TypeStep, PTL DEF Spec
<1>2. TypeInv => TypeOK
  BY DEF TypeInv
<1> QED
  BY <1>1, <1>2, PTL
-----------------------------------------------------------------------------
(***************************************************************************)
(* The order of the places.                                                *)
(***************************************************************************)

\* Each place behind the search hinted at nothing at some time, and the
\* history misses no hint that a look could bring now.
RankInv ==
    /\ stage = "searching" =>
           /\ \A q \in 1 .. place - 1 : None \in could[q]
           /\ \A q \in 1 .. LastPlace(setup) : Hints(setup, q) \subseteq could[q]
    /\ RankIsRespected

LEMMA HintsStay ==
    ASSUME NEW s, NEW q, UNCHANGED machine
    PROVE  Hints(s, q)' = Hints(s, q)
<1>1. running' = running /\ ini' = ini /\ dlls' = dlls
  BY DEF machine
<1> QED
  BY <1>1 DEF Hints, Answers, FromProcesses, FromIni, FromDlls, InPlaces, LastPlace, SearchPaths

LEMMA LastPlaceStays ==
    ASSUME UNCHANGED setup
    PROVE  LastPlace(setup)' = LastPlace(setup)
BY DEF LastPlace, SearchPaths

\* The search goes on from a place that could tell nothing, or comes to the
\* default.
LEMMA RankGoesOn ==
    ASSUME TypeInv, RankInv, stage = "searching", GoesOn,
           UNCHANGED <<machine, setup>>,
           None \in could'[place],
           \A q \in 1 .. LastPlace(setup) : could[q] \subseteq could'[q]
    PROVE  RankInv'
<1>1. /\ setup \in Setups /\ place \in 1 .. LastPlace(setup)
      /\ LastPlace(setup) \in Nat /\ 1 <= LastPlace(setup)
  BY PathsAreDirs DEF TypeInv, TypeOK
<1>2. /\ setup' = setup /\ UNCHANGED machine
      /\ LastPlace(setup)' = LastPlace(setup)
  BY LastPlaceStays
<1>3. \A q \in 1 .. place : None \in could'[q]
  <2> SUFFICES ASSUME NEW q \in 1 .. place PROVE None \in could'[q]
    OBVIOUS
  <2>1. q \in 1 .. LastPlace(setup) /\ (q = place \/ q \in 1 .. place - 1)
    BY <1>1
  <2> QED
    BY <2>1 DEF RankInv
<1>4. CASE /\ place < LastPlace(setup) /\ place' = place + 1
           /\ stage' = stage
  <2>1. \A q \in 1 .. place' - 1 : None \in could'[q]
    BY <1>1, <1>3, <1>4
  <2>2. \A q \in 1 .. LastPlace(setup) : Hints(setup, q)' \subseteq could'[q]
    BY <1>2, HintsStay DEF RankInv
  <2> QED
    BY <1>2, <1>4, <2>1, <2>2 DEF RankInv, RankIsRespected, Searched
<1>5. CASE place = LastPlace(setup) /\ Up(setup, "dtg")
  <2>1. Given(setup) = None
    BY DEF TypeInv, SearchOnlyIfNeeded
  <2>2. stage' = "up" /\ type' = "dtg"
    BY <1>1, <1>5, <2>1, FoundIsType DEF Up
  <2>3. \A q \in 1 .. (LastPlace(setup) + 1) - 1 : None \in could'[q]
    BY <1>1, <1>3, <1>5
  <2>4. LastPlace(setup) + 1 \in 1 .. LastPlace(setup) + 1 /\ LastPlace(setup) + 1 > LastPlace(setup)
    BY <1>1
  <2>5. RankIsRespected'
    BY <1>2, <2>2, <2>3, <2>4 DEF RankIsRespected
  <2> QED
    BY <2>2, <2>5 DEF RankInv
<1> QED
  BY <1>4, <1>5 DEF GoesOn

\* A change adds to the history and leaves a finished search alone.
LEMMA RankChanged ==
    ASSUME TypeInv, RankInv, Changed
    PROVE  RankInv'
<1>1. UNCHANGED <<stage, setup, place, type, grounds>> /\ LastPlace(setup)' = LastPlace(setup)
  BY LastPlaceStays DEF Changed
<1>2. CASE stage = "searching"
  <2>1. /\ DOMAIN could = 1 .. LastPlace(setup)
        /\ setup \in Setups /\ place \in 1 .. LastPlace(setup) /\ LastPlace(setup) \in Nat
    BY <1>2, PathsAreDirs DEF TypeInv, TypeOK
  <2>2. \A q \in 1 .. LastPlace(setup) : could'[q] = could[q] \cup Hints(setup, q)'
    BY <1>2, <2>1 DEF Changed
  <2>3. \A q \in 1 .. place - 1 : None \in could'[q]
    <3> SUFFICES ASSUME NEW q \in 1 .. place - 1 PROVE None \in could'[q]
      OBVIOUS
    <3>1. q \in 1 .. LastPlace(setup)
      BY <2>1
    <3>2. None \in could[q]
      BY <1>2 DEF RankInv
    <3> QED
      BY <2>2, <3>1, <3>2
  <2> QED
    BY <1>1, <1>2, <2>2, <2>3 DEF RankInv, RankIsRespected, Searched
<1>3. CASE stage # "searching"
  BY <1>1, <1>3 DEF Changed, RankInv, RankIsRespected, Searched
<1> QED
  BY <1>2, <1>3

LEMMA RankInit == Init => RankInv
BY DEF Init, RankInv, RankIsRespected, Searched

LEMMA RankStart ==
    ASSUME TypeInv, NEW s \in Setups, Start(s)
    PROVE  RankInv'
<1>1. setup' = s /\ UNCHANGED machine /\ could = <<>>
  BY DEF Start, TypeInv, SearchOnlyIfNeeded
<1>2. CASE stage' \in {"failed", "up"} /\ could' = could
  BY <1>1, <1>2 DEF RankInv, RankIsRespected, Searched
<1>3. CASE /\ stage' = "searching"
           /\ place' = Processes
           /\ could' = [q \in 1 .. LastPlace(s) |-> Hints(s, q)]
  <2>1. LastPlace(setup)' = LastPlace(s)
    BY <1>1 DEF LastPlace, SearchPaths
  <2>2. \A q \in 1 .. LastPlace(s) : Hints(s, q)' = could'[q]
    BY <1>1, <1>3, HintsStay
  <2>3. \A q \in 1 .. LastPlace(s) : Hints(setup, q)' \subseteq could'[q]
    BY <1>1, <2>2 DEF Hints, Answers, FromProcesses, InPlaces, LastPlace, SearchPaths
  <2> QED
    BY <1>3, <2>1, <2>3 DEF RankInv, RankIsRespected, Searched, Processes
<1> QED
  BY <1>2, <1>3 DEF Start, Up

LEMMA RankLook == ASSUME TypeInv, RankInv, Look PROVE RankInv'
<1>1. /\ stage = "searching" /\ setup \in Setups /\ place \in 1 .. LastPlace(setup)
      /\ LastPlace(setup) \in Nat
  BY PathsAreDirs DEF Look, TypeInv, TypeOK
<1>2. UNCHANGED <<machine, setup, could>>
  BY DEF Look
<1>3. PICK a \in Answers(setup, place) :
          /\ \/ a # None /\ Up(setup, a) /\ UNCHANGED place
             \/ a = None /\ GoesOn
          /\ grounds' = IF place = Processes /\ a = "dtg" THEN "guess" ELSE "hint"
  BY DEF Look
<1>4. a \in could[place] \/ (grounds' = "guess" /\ a # None)
  <2>1. a \in Hints(setup, place) \/ (place = Processes /\ a = "dtg")
    BY AnswersAreHints, MachineIsTyped DEF TypeInv
  <2>2. "dtg" # None
    BY NoneIsNoType DEF PrinterTypes
  <2> QED
    BY <1>1, <1>3, <2>1, <2>2 DEF RankInv
<1>5. CASE a # None /\ Up(setup, a) /\ UNCHANGED place
  <2>1. Given(setup) = None
    BY <1>1 DEF TypeInv, SearchOnlyIfNeeded
  <2>2. stage' = "up" /\ type' = a
    BY <1>1, <1>5, <2>1, FoundIsType DEF Up
  <2>3. \A q \in 1 .. place - 1 : None \in could'[q]
    BY <1>1, <1>2 DEF RankInv
  <2>4. place \in 1 .. LastPlace(setup) + 1 /\ ~(place > LastPlace(setup))
    BY <1>1
  <2>5. setup' = setup /\ LastPlace(setup)' = LastPlace(setup)
    BY <1>2, LastPlaceStays
  <2>6. RankIsRespected'
    <3>1. CASE a \in could[place]
      BY <1>2, <2>2, <2>3, <2>4, <2>5, <3>1 DEF RankIsRespected
    <3>2. CASE grounds' = "guess"
      BY <3>2 DEF RankIsRespected
    <3> QED
      BY <1>4, <3>1, <3>2
  <2> QED
    BY <2>2, <2>6 DEF RankInv
<1>6. CASE a = None /\ GoesOn
  BY <1>1, <1>2, <1>4, <1>6, RankGoesOn
<1> QED
  BY <1>3, <1>5, <1>6

LEMMA RankStep == ASSUME TypeInv, RankInv, [Next]_vars PROVE RankInv'
<1>1. ASSUME NEW s \in Setups, Start(s) PROVE RankInv'
  BY <1>1, RankStart
<1>2. CASE Look
  BY <1>2, RankLook
<1>3. CASE SnapshotFails
  <2>1. stage = "searching" /\ DOMAIN could = 1 .. LastPlace(setup) /\ place \in DOMAIN could
    BY <1>3 DEF SnapshotFails, TypeInv, TypeOK
  <2>2. could' = [could EXCEPT ![place] = @ \cup {None}]
    BY <1>3 DEF SnapshotFails
  <2>3. None \in could'[place] /\ \A q \in 1 .. LastPlace(setup) : could[q] \subseteq could'[q]
    BY <2>1, <2>2
  <2> QED
    BY <1>3, <2>1, <2>3, RankGoesOn DEF SnapshotFails
<1>4. CASE Stop
  BY <1>4 DEF Stop, RankInv, RankIsRespected, Searched
<1>5. ASSUME NEW w \in Words, PrintExpStarts(w) \/ PrintExpEnds(w) PROVE RankInv'
  BY <1>5, RankChanged DEF PrintExpStarts, PrintExpEnds
<1>6. ASSUME NEW d \in Dirs, Installs(d) PROVE RankInv'
  BY <1>6, RankChanged DEF Installs
<1>7. CASE UNCHANGED vars
  <2>1. UNCHANGED <<machine, stage, setup, place, type, could, grounds>>
    BY <1>7 DEF vars, machine
  <2>2. \A q : Hints(setup, q)' = Hints(setup, q)
    BY <1>7 DEF vars, Hints, Answers, FromProcesses, FromIni, FromDlls, InPlaces, LastPlace, SearchPaths
  <2> QED
    BY <2>1, <2>2, LastPlaceStays DEF RankInv, RankIsRespected, Searched
<1> QED
  BY <1>1, <1>2, <1>3, <1>4, <1>5, <1>6, <1>7 DEF Next

\* Whatever changes on the machine between two looks, the type an agent has
\* found is what a place hinted at during the search, while each place of a
\* higher rank hinted at nothing at some time; or it is the guess of a PrintExp
\* whose name says nothing.
THEOREM RankKept == Spec => []RankIsRespected
<1>1. Spec => [](TypeInv /\ RankInv)
  BY TypeInit, TypeStep, RankInit, RankStep, PTL DEF Spec
<1>2. RankInv => RankIsRespected
  BY DEF RankInv
<1> QED
  BY <1>1, <1>2, PTL
=============================================================================
