----------------------- MODULE OperatorRequestsProofs -----------------------
(***************************************************************************)
(* Proofs about OperatorRequests, for any requests, modes, closes of       *)
(* PrintExp and deaths of the agent.                                       *)
(***************************************************************************)
EXTENDS OperatorRequests, TLAPS

-----------------------------------------------------------------------------
(***************************************************************************)
(* The invariants.                                                         *)
(***************************************************************************)

CommandStages == {"opening", "piping", "posting"}
ModeStages    == {"reading", "truncating", "flushing", "enabling", "disabling"}

NoAnswer(r) == answer[r] \in {"none", "error"}

\* A command and how often it has been executed: not before it goes to the
\* pipe, at most once there, and once more when it goes to the window because
\* the pipe gave no answer.
Command(r) ==
    /\ stage[r] = "new" => reply[r] = "none"
    /\ reply[r] = "ok" => stage[r] = "done"
    /\ stage[r] \in CommandStages => ask[r] \in Commands \cup {"status"}
    /\ stage[r] \in ModeStages => ask[r] \in Presets
    /\ done[r] # 0 => line # r /\ stage[r] \in {"piping", "posting", "done"}
    /\ done[r] > 1 => stage[r] = "done" /\ NoAnswer(r) /\ r \notin inbox
    /\ stage[r] # "done" => NoAnswer(r)
    /\ r \in inbox => stage[r] = "done" /\ NoAnswer(r)
    /\ answer[r] = "success" => done[r] > 0

CommandInv == \A r \in Requests : Command(r)

\* What the agent knows of the window is not of the future.
WindowInv ==
    /\ epoch = IF up THEN closes ELSE closes - 1
    /\ hwnd \in Nat => hwnd <= epoch

Whole(r) == ini.dir = PRESETS[ask[r]].dir /\ ink = PRESETS[ask[r]].inks

\* A mode that nothing disturbed is the only one, and whole in the end.
LastIsDone   == last # Nothing => stage[last] = "done"
AloneIsAsked == \A r \in alone : ask[r] \in Presets /\ stage[r] # "new"
AloneIsOnly  == alone # {} => (Applying \subseteq alone /\ \A r, s \in Applying : r = s)

LastIsWhole ==
    last \in alone =>
        /\ up
        /\ (\A r \in Applying : stage[r] \in {"reading", "truncating"}) => Whole(last)

AloneOnItsWay ==
    \A r \in alone :
        /\ stage[r] \in {"enabling", "disabling"} => ini.dir = PRESETS[ask[r]].dir
        /\ stage[r] = "disabling" => /\ up /\ pid[r] = epoch
                                     /\ PRESETS[ask[r]].inks \subseteq ink

ModeInv == LastIsDone /\ AloneIsAsked /\ AloneIsOnly /\ LastIsWhole /\ AloneOnItsWay

\* One mode at a time finds the file whole.
OriginInv ==
    ~met /\ crashes = 0 /\ ~refused =>
        /\ \A r, s \in Applying : r = s
        /\ ini.origin = "own" /\ \A r \in Requests : keeps[r] = "own"
        /\ ini.whole \/ \E r \in Applying : stage[r] = "flushing"
-----------------------------------------------------------------------------
(***************************************************************************)
(* Constants and operators.                                                *)
(***************************************************************************)

LEMMA PresetTyped ==
  ASSUME NEW w \in Presets
  PROVE  PRESETS[w].dir \in {"forward", "mirror", "reverse"} /\ PRESETS[w].inks \subseteq Groups
<1>1. w \in DOMAIN PRESETS
  BY PresetsAssumption
<1>2. QED
  BY <1>1 DEF PRESETS, Way, Groups

LEMMA ConstantFacts ==
  /\ MaxCloses \in Nat /\ MaxCrashes \in Nat
  /\ Nothing \notin Requests /\ Nothing \notin Nat
  /\ Lookalikes \cap (Nat \cup {Nothing}) = {}
  /\ \A w \in Presets : w \notin Commands \cup {"status"}
  /\ Commands = {"pause", "print", "move_left", "resume"}
<1>1. \A w \in DOMAIN PRESETS : w \notin {"pause", "print", "move_left", "resume", "status"}
  BY DEF PRESETS
<1>2. QED
  BY <1>1, BoundAssumption, NothingAssumption, LookalikesAssumption, PresetsAssumption DEF Commands, PipeNames, ButtonNames

LEMMA RepliesTyped ==
  ASSUME TypeOK, NEW r \in Requests, NEW ok \in BOOLEAN, Replies(r, ok)
  PROVE  /\ stage' \in [Requests -> Stages] /\ reply' \in [Requests -> {"none", "ok", "failed"}]
         /\ stage'[r] = "done" /\ (reply'[r] = "ok" => reply[r] = "ok" \/ ok)
         /\ \A s \in Requests : s # r => stage'[s] = stage[s] /\ reply'[s] = reply[s]
  BY DEF TypeOK, Replies, Moves, Stages

LEMMA MovesTyped ==
  ASSUME TypeOK, NEW r \in Requests, NEW s \in Stages, Moves(r, s)
  PROVE  /\ stage' \in [Requests -> Stages] /\ stage'[r] = s
         /\ \A q \in Requests : q # r => stage'[q] = stage[q]
  BY DEF TypeOK, Moves

Answers == {"none", "success", "failure", "error"}

LEMMA ReturnedTyped ==
  ASSUME TypeOK, NEW r \in Requests, NEW a \in Answers, Returned(r, a)
  PROVE  /\ answer' \in [Requests -> Answers] /\ answer'[r] = a
         /\ stage' \in [Requests -> Stages] /\ reply' \in [Requests -> {"none", "ok", "failed"}]
         /\ \/ stage'[r] = "posting" /\ GoesToWindow(ask[r], a) /\ reply'[r] = reply[r]
            \/ stage'[r] = "done" /\ (reply'[r] = "ok" => reply[r] = "ok" \/ Succeeds(ask[r], a))
         /\ \A s \in Requests :
               s # r => /\ stage'[s] = stage[s] /\ reply'[s] = reply[s]
                        /\ answer'[s] = answer[s]
<1>1. /\ answer' \in [Requests -> Answers] /\ answer'[r] = a
      /\ \A s \in Requests : s # r => answer'[s] = answer[s]
  BY DEF Returned, TypeOK, Answers
<1>2. CASE GoesToWindow(ask[r], a)
  BY <1>1, <1>2, MovesTyped DEF Returned, TypeOK, Stages
<1>3. CASE ~GoesToWindow(ask[r], a)
  <2>1. Replies(r, Succeeds(ask[r], a)) /\ Succeeds(ask[r], a) \in BOOLEAN
    BY <1>3 DEF Returned, Succeeds
  <2>2. QED
    BY <1>1, <2>1, RepliesTyped
<1>4. QED
  BY <1>2, <1>3

LEMMA ExecuteTyped ==
  ASSUME TypeOK, NEW S, Execute(S)
  PROVE  /\ \A r \in Requests : done[r] \in 0 .. 2 /\ done'[r] = IF r \in S THEN done[r] + 1 ELSE done[r]
         /\ (\A r \in Requests \cap S : done[r] < 2) => done' \in [Requests -> 0 .. 2]
<1>1. /\ \A r \in Requests : done[r] \in 0 .. 2 /\ done'[r] = IF r \in S THEN done[r] + 1 ELSE done[r]
      /\ done' = [r \in Requests |-> IF r \in S THEN done[r] + 1 ELSE done[r]]
  BY DEF TypeOK, Execute
<1>2. QED
  BY <1>1

LEMMA FoundTyped ==
  ASSUME TypeOK, NEW w \in Found
  PROVE  w \in Windows
  BY DEF TypeOK, Found, Windows

\* What a post to the window w leaves behind.
Posted(r, w) ==
    /\ UNCHANGED inbox \/ (w # Nothing /\ inbox' = IF up /\ w = epoch THEN inbox \cup {r} ELSE inbox)
    /\ \/ hwnd' = w /\ target' = [target EXCEPT ![r] = w]
       \/ UNCHANGED <<hwnd, target>>

LEMMA PostPosts ==
  ASSUME NEW r \in Requests, PostButton(r)
  PROVE  /\ stage[r] = "posting" /\ UNCHANGED <<ask, answer, line, done, mode, printexp, closes, crashes>>
         /\ \E w \in Found :
               /\ Posted(r, w)
               /\ \/ Replies(r, FALSE) /\ UNCHANGED inbox
                  \/ /\ w # Nothing /\ Replies(r, TRUE) /\ target' = [target EXCEPT ![r] = w]
                     /\ inbox' = IF up /\ w = epoch THEN inbox \cup {r} ELSE inbox
<1>1. PICK w \in Found :
         /\ IF ask[r] \in ButtonNames
            THEN hwnd' = w /\ target' = [target EXCEPT ![r] = w]
            ELSE UNCHANGED <<hwnd, target>>
         /\ \/ Replies(r, FALSE) /\ UNCHANGED inbox
            \/ /\ ask[r] \in ButtonNames /\ w # Nothing
               /\ Replies(r, TRUE)
               /\ inbox' = IF up /\ w = epoch THEN inbox \cup {r} ELSE inbox
  BY DEF PostButton
<1>2. /\ Posted(r, w)
      /\ \/ Replies(r, FALSE) /\ UNCHANGED inbox
         \/ /\ w # Nothing /\ Replies(r, TRUE) /\ target' = [target EXCEPT ![r] = w]
            /\ inbox' = IF up /\ w = epoch THEN inbox \cup {r} ELSE inbox
  BY <1>1 DEF Posted
<1>3. stage[r] = "posting" /\ UNCHANGED <<ask, answer, line, done, mode, printexp, closes, crashes>>
  BY DEF PostButton
<1>4. QED
  BY <1>2, <1>3

-----------------------------------------------------------------------------
(***************************************************************************)
(* Type correctness.                                                       *)
(***************************************************************************)

CoreInv == TypeOK /\ CommandInv /\ WindowInv

LEMMA CoreInit == Init => CoreInv
<1> SUFFICES ASSUME Init PROVE CoreInv
  OBVIOUS
<1>1. TypeOK
  <2>1. /\ line = Nothing /\ last = Nothing /\ inbox = {} /\ alone = {}
        /\ hwnd \in Windows /\ target \in [Requests -> Windows]
    BY DEF Init, Windows
  <2>2. /\ ask \in [Requests -> Wishes \cup {Nothing}] /\ stage \in [Requests -> Stages]
        /\ reply \in [Requests -> {"none", "ok", "failed"}]
        /\ answer \in [Requests -> {"none", "success", "failure", "error"}]
        /\ done \in [Requests -> 0 .. 2] /\ keeps \in [Requests -> Origin]
        /\ pid \in [Requests -> 0 .. MaxCloses]
    BY ConstantFacts DEF Init, Stages, Origin
  <2>3. /\ ini \in [whole : BOOLEAN, origin : Origin, dir : {"forward", "mirror", "reverse"}]
        /\ ink \subseteq Groups
        /\ epoch \in 0 .. MaxCloses /\ closes \in 0 .. MaxCloses /\ crashes \in 0 .. MaxCrashes
    BY ConstantFacts DEF Init, Origin
  <2>4. {up, listening, met, refused} \subseteq BOOLEAN /\ up
    BY DEF Init
  <2>5. QED
    BY <2>1, <2>2, <2>3, <2>4 DEF TypeOK
<1>2. CommandInv
  BY ConstantFacts DEF Init, CommandInv, Command, CommandStages, ModeStages, NoAnswer
<1>3. WindowInv
  BY ConstantFacts DEF Init, WindowInv
<1>4. QED
  BY <1>1, <1>2, <1>3 DEF CoreInv

LEMMA WindowStep == CoreInv /\ [Next]_vars => WindowInv'
<1> SUFFICES ASSUME CoreInv, [Next]_vars PROVE WindowInv'
  OBVIOUS
<1>a. /\ TypeOK /\ WindowInv /\ up \in BOOLEAN
      /\ epoch \in 0 .. MaxCloses /\ closes \in 0 .. MaxCloses /\ MaxCloses \in Nat
      /\ Nothing \notin Nat /\ Lookalikes \cap Nat = {}
  BY ConstantFacts DEF CoreInv, TypeOK
<1> USE DEF operator, command, mode, printexp
<1>1. CASE UNCHANGED <<epoch, up, closes, hwnd>>
  BY <1>1, <1>a DEF WindowInv
<1>2. ASSUME NEW r \in Requests, PostButton(r) PROVE WindowInv'
  <2>1. PICK w \in Found : hwnd' \in {hwnd, w} /\ UNCHANGED <<epoch, up, closes>>
    BY <1>2, PostPosts DEF Posted
  <2>2. w \in Nat => w <= epoch
    <3>1. CASE hwnd # Nothing
      BY <1>a, <3>1 DEF Found, WindowInv
    <3>2. CASE hwnd = Nothing
      <4>1. w \in Lookalikes \/ w = Nothing \/ w = epoch
        BY <3>2 DEF Found
      <4>2. QED
        BY <1>a, <4>1
    <3>3. QED
      BY <3>1, <3>2
  <2>3. QED
    BY <1>a, <2>1, <2>2 DEF WindowInv
<1>3. ASSUME NEW performed \in BOOLEAN, PrintExpCloses(performed) PROVE WindowInv'
  BY <1>3, <1>a DEF PrintExpCloses, WindowInv
<1>4. CASE PrintExpStarts
  BY <1>4, <1>a DEF PrintExpStarts, WindowInv
<1>5. ASSUME NEW performed \in BOOLEAN, Crash(performed) PROVE WindowInv'
  BY <1>5, <1>a DEF Crash, WindowInv
<1>6. CASE UNCHANGED vars
  BY <1>1, <1>6 DEF vars
<1>7. QED
  BY <1>1, <1>2, <1>3, <1>4, <1>5, <1>6
     DEF Next, Arrive, ControlTimesOut, ModeTimesOut, GivesUp, Thread, OpenPipe, PipeBreaks,
         ReadIni, Truncate, Flush, EnableInks, DisableInks, DllAnswers, HandleMessage,
         ControlIsLoaded

\* A request that a step does not concern.
LEMMA CommandFrame ==
  ASSUME NEW s \in Requests, Command(s),
         UNCHANGED <<ask[s], stage[s], reply[s], answer[s], done[s]>>,
         line' = s => line = s, s \in inbox' => s \in inbox
  PROVE  Command(s)'
  BY DEF Command, NoAnswer

LEMMA CommandStep == CoreInv /\ [Next]_vars => CommandInv'
<1> SUFFICES ASSUME CoreInv, [Next]_vars, NEW s \in Requests PROVE Command(s)'
  BY DEF CommandInv
<1>a. /\ TypeOK /\ Command(s)
      /\ line # Nothing => line \in Requests /\ stage[line] = "piping"
      /\ \A q \in Requests : done[q] \in 0 .. 2
      /\ Nothing \notin Requests
  BY ConstantFacts DEF CoreInv, CommandInv, TypeOK
<1>b. line = s => stage[s] = "piping" /\ done[s] = 0
  BY <1>a DEF Command
<1> USE DEF operator, command, mode, printexp
<1>1. ASSUME NEW r \in Requests, NEW w \in Wishes, Arrive(r, w) PROVE Command(s)'
  <2>1. /\ stage[r] = "new" /\ UNCHANGED <<reply, answer, done, line, inbox>>
        /\ ask' = [ask EXCEPT ![r] = w] /\ Moves(r, First(w))
    BY <1>1 DEF Arrive
  <2>2. /\ First(w) \in Stages \ {"new", "done"}
        /\ First(w) \in CommandStages => w \in Commands \cup {"status"}
        /\ First(w) \in ModeStages => w \in Presets
    BY ConstantFacts DEF First, Stages, CommandStages, ModeStages, Wishes, PipeNames, Commands
  <2>3. /\ stage'[r] = First(w) /\ ask'[r] = w
        /\ \A q \in Requests : q # r => stage'[q] = stage[q] /\ ask'[q] = ask[q]
    BY <1>a, <2>1, <2>2, MovesTyped DEF TypeOK
  <2>4. CASE s = r
    BY <1>a, <2>1, <2>2, <2>3, <2>4 DEF Command, NoAnswer, Stages
  <2>5. CASE s # r
    BY <1>a, <2>1, <2>3, <2>5, CommandFrame
  <2>6. QED
    BY <2>4, <2>5
<1>2. ASSUME NEW r \in Requests, GivesUp(r) PROVE Command(s)'
  <2>1. /\ stage[r] # "new" /\ UNCHANGED <<ask, stage, answer, done, line, inbox>>
        /\ reply'[r] = "failed" /\ \A q \in Requests : q # r => reply'[q] = reply[q]
    BY <1>2, <1>a DEF GivesUp, TypeOK
  <2>2. CASE s = r
    BY <1>a, <2>1, <2>2 DEF Command, NoAnswer
  <2>3. CASE s # r
    BY <1>a, <2>1, <2>3, CommandFrame
  <2>4. QED
    BY <2>2, <2>3
<1>3. ASSUME NEW r \in Requests, NEW a \in Answers, Returned(r, a), UNCHANGED <<ask, inbox>>,
             stage[r] \in {"opening", "piping"}, line' = s => line = s,
             \A q \in Requests : done'[q] \in {done[q], done[q] + 1} /\ (q # r => done'[q] = done[q]),
             done'[r] # 0 => line' # r /\ stage[r] = "piping",
             done'[r] > 1 => FALSE,
             a = "success" => done'[r] > 0
      PROVE  Command(s)'
  <2>1. /\ answer'[r] = a
        /\ \/ stage'[r] = "posting" /\ GoesToWindow(ask[r], a) /\ reply'[r] = reply[r]
           \/ stage'[r] = "done"
        /\ \A q \in Requests :
               q # r => /\ stage'[q] = stage[q] /\ reply'[q] = reply[q]
                        /\ answer'[q] = answer[q]
    BY <1>3, <1>a, ReturnedTyped
  <2>2. CASE s = r
    BY <1>3, <1>a, <2>1, <2>2 DEF Command, NoAnswer, GoesToWindow, CommandStages, ModeStages
  <2>3. CASE s # r
    BY <1>3, <1>a, <2>1, <2>3, CommandFrame
  <2>4. QED
    BY <2>2, <2>3
<1>4. ASSUME NEW r \in Requests, OpenPipe(r) PROVE Command(s)'
  <2>1. stage[r] = "opening" /\ UNCHANGED <<ask, inbox, done>>
    BY <1>4 DEF OpenPipe
  <2>2. Command(r) /\ done[r] = 0
    BY <1>a, <2>1 DEF CoreInv, CommandInv, Command
  <2>3. CASE Returned(r, "none") /\ UNCHANGED line
    BY <1>3, <1>a, <2>1, <2>2, <2>3 DEF Answers
  <2>4. CASE line' = r /\ Moves(r, "piping") /\ UNCHANGED <<reply, answer>>
    <3>1. stage'[r] = "piping" /\ \A q \in Requests : q # r => stage'[q] = stage[q]
      BY <1>a, <2>4, MovesTyped DEF Stages
    <3>2. CASE s = r
      BY <1>a, <2>1, <2>2, <2>4, <3>1, <3>2 DEF Command, NoAnswer, CommandStages, ModeStages
    <3>3. CASE s # r
      BY <1>a, <2>1, <2>4, <3>1, <3>3, CommandFrame
    <3>4. QED
      BY <3>2, <3>3
  <2>5. QED
    BY <1>4, <2>3, <2>4 DEF OpenPipe
<1>5. ASSUME NEW r \in Requests, NEW a \in Answers, NEW performed \in BOOLEAN,
             DllAnswers(r, a, performed)
      PROVE  Command(s)'
  <2>1. /\ line = r /\ line' = Nothing /\ (a = "success" => performed) /\ Returned(r, a)
        /\ Execute(IF performed THEN {r} ELSE {}) /\ UNCHANGED <<ask, inbox>>
    BY <1>5 DEF DllAnswers
  <2>2. Command(r) /\ stage[r] = "piping" /\ done[r] = 0
    BY <1>a, <2>1 DEF CoreInv, CommandInv, Command
  <2>3. \A q \in Requests : done'[q] = IF performed /\ q = r THEN done[q] + 1 ELSE done[q]
    BY <1>a, <2>1, ExecuteTyped
  <2>4. QED
    BY <1>3, <1>a, <2>1, <2>2, <2>3
<1>6. ASSUME NEW r \in Requests, PipeBreaks(r) PROVE Command(s)'
  <2>1. /\ stage[r] = "piping" /\ line # r /\ Returned(r, "none")
        /\ UNCHANGED <<ask, inbox, done, line>>
    BY <1>6 DEF PipeBreaks
  <2>2. Command(r) /\ ~(done[r] > 1)
    BY <1>a, <2>1 DEF CoreInv, CommandInv, Command
  <2>3. QED
    BY <1>3, <1>a, <2>1, <2>2 DEF Answers
<1>7. ASSUME NEW r \in Requests, PostButton(r) PROVE Command(s)'
  <2>1. /\ stage[r] = "posting" /\ inbox' \in {inbox, inbox \cup {r}}
        /\ UNCHANGED <<ask, answer, done, line>>
        /\ \E ok \in BOOLEAN : Replies(r, ok)
    BY <1>7, PostPosts DEF Posted
  <2>2. /\ stage'[r] = "done"
        /\ \A q \in Requests : q # r => stage'[q] = stage[q] /\ reply'[q] = reply[q]
    BY <1>a, <2>1, RepliesTyped
  <2>3. CASE s = r
    BY <1>a, <2>1, <2>2, <2>3 DEF Command, NoAnswer, CommandStages, ModeStages
  <2>4. CASE s # r
    BY <1>a, <2>1, <2>2, <2>4, CommandFrame
  <2>5. QED
    BY <2>3, <2>4
<1>8. ASSUME NEW r \in Requests, ReadIni(r) \/ Truncate(r) \/ Flush(r) \/ EnableInks(r) \/ DisableInks(r)
      PROVE  Command(s)'
  <2>1. stage[r] \in ModeStages /\ UNCHANGED <<ask, answer, done, line, inbox>>
    BY <1>8 DEF ReadIni, Truncate, Flush, EnableInks, DisableInks, ModeStages
  <2>2. /\ \/ stage'[r] \in ModeStages /\ reply'[r] = reply[r]
           \/ stage'[r] = "done"
        /\ \A q \in Requests : q # r => stage'[q] = stage[q] /\ reply'[q] = reply[q]
    <3>1. \/ \E t \in ModeStages : Moves(r, t) /\ UNCHANGED reply
          \/ \E ok \in BOOLEAN : Replies(r, ok)
      BY <1>8 DEF ReadIni, Truncate, Flush, EnableInks, DisableInks, ModeStages
    <3>2. ModeStages \subseteq Stages
      BY DEF ModeStages, Stages
    <3>3. QED
      BY <1>a, <3>1, <3>2, RepliesTyped, MovesTyped
  <2>3. CASE s = r
    BY <1>a, <2>1, <2>2, <2>3 DEF Command, NoAnswer, CommandStages, ModeStages
  <2>4. CASE s # r
    BY <1>a, <2>1, <2>2, <2>4, CommandFrame
  <2>5. QED
    BY <2>3, <2>4
<1>9. ASSUME NEW r \in Requests, HandleMessage(r) PROVE Command(s)'
  <2>1. /\ r \in inbox /\ inbox' = inbox \ {r} /\ Execute({r})
        /\ UNCHANGED <<ask, stage, reply, answer, line>>
    BY <1>9 DEF HandleMessage
  <2>2. \A q \in Requests : done'[q] = IF q = r THEN done[q] + 1 ELSE done[q]
    BY <1>a, <2>1, ExecuteTyped
  <2>3. CASE s = r
    BY <1>a, <1>b, <2>1, <2>2, <2>3 DEF Command, NoAnswer
  <2>4. CASE s # r
    BY <1>a, <2>1, <2>2, <2>4, CommandFrame
  <2>5. QED
    BY <2>3, <2>4
<1>10. ASSUME NEW performed \in BOOLEAN, performed => line # Nothing, line' = Nothing,
              Execute(IF performed THEN {line} ELSE {}), inbox' \subseteq inbox,
              UNCHANGED <<ask, answer>>,
              stage'[s] = stage[s] \/ (stage[s] # "new" /\ stage'[s] = "done"),
              reply'[s] = reply[s] \/ (stage[s] # "new" /\ reply'[s] = "failed")
       PROVE  Command(s)'
  <2>1. /\ \A q \in Requests : done'[q] = IF performed /\ q = line THEN done[q] + 1 ELSE done[q]
    BY <1>10, <1>a, ExecuteTyped
  <2>2. line' # s
    BY <1>10, <1>a
  <2>3. CASE performed /\ s = line
    BY <1>10, <1>a, <1>b, <2>1, <2>2, <2>3 DEF Command, NoAnswer, CommandStages, ModeStages
  <2>4. CASE ~(performed /\ s = line)
    BY <1>10, <1>a, <2>1, <2>2, <2>4 DEF Command, NoAnswer, CommandStages, ModeStages
  <2>5. QED
    BY <2>3, <2>4
<1>11. ASSUME NEW performed \in BOOLEAN, PrintExpCloses(performed) PROVE Command(s)'
  BY <1>10, <1>11 DEF PrintExpCloses
<1>12. ASSUME NEW performed \in BOOLEAN, Crash(performed) PROVE Command(s)'
  BY <1>10, <1>12 DEF Crash
<1>13. CASE PrintExpStarts \/ ControlIsLoaded \/ UNCHANGED vars
  BY <1>13, <1>a, CommandFrame DEF PrintExpStarts, ControlIsLoaded, vars
<1>14. QED
  BY <1>1, <1>2, <1>4, <1>5, <1>6, <1>7, <1>8, <1>9, <1>11, <1>12, <1>13
     DEF Next, ControlTimesOut, ModeTimesOut, Thread, Answers

\* What a request does to the variables of all but its own mode: whose types
\* hold.
RequestsTyped ==
    /\ ask \in [Requests -> Wishes \cup {Nothing}]
    /\ stage \in [Requests -> Stages]
    /\ reply \in [Requests -> {"none", "ok", "failed"}]
    /\ answer \in [Requests -> Answers]
    /\ done \in [Requests -> 0 .. 2]
    /\ hwnd \in Windows /\ target \in [Requests -> Windows]
    /\ line \in Requests \cup {Nothing}
    /\ line # Nothing => stage[line] = "piping" /\ listening
    /\ inbox # {} => up
    /\ inbox \subseteq Requests

ModesTyped ==
    /\ keeps \in [Requests -> Origin]
    /\ ini \in [whole : BOOLEAN, origin : Origin, dir : {"forward", "mirror", "reverse"}]
    /\ pid \in [Requests -> 0 .. MaxCloses]
    /\ ink \subseteq Groups
    /\ {met, refused} \subseteq BOOLEAN /\ alone \subseteq Requests
    /\ last \in Requests \cup {Nothing}

PrintExpTyped ==
    /\ {up, listening} \subseteq BOOLEAN
    /\ listening => up
    /\ epoch \in 0 .. MaxCloses /\ closes \in 0 .. MaxCloses /\ crashes \in 0 .. MaxCrashes

LEMMA TypeParts == TypeOK <=> RequestsTyped /\ ModesTyped /\ PrintExpTyped
  BY DEF TypeOK, RequestsTyped, ModesTyped, PrintExpTyped, Answers

LEMMA RequestsStep == CoreInv /\ [Next]_vars => RequestsTyped'
<1> SUFFICES ASSUME CoreInv, [Next]_vars PROVE RequestsTyped'
  OBVIOUS
<1>a. /\ TypeOK /\ RequestsTyped /\ \A q \in Requests : Command(q)
      /\ Nothing \notin Requests
  BY TypeParts, ConstantFacts DEF CoreInv, CommandInv
<1>b. \A q \in Requests : line = q => stage[q] = "piping" /\ done[q] = 0
  BY <1>a DEF RequestsTyped, Command
<1> USE DEF operator, command, mode, printexp
<1>1. ASSUME NEW r \in Requests, stage[r] # "piping" \/ line # r, UNCHANGED line,
             stage' \in [Requests -> Stages], reply' \in [Requests -> {"none", "ok", "failed"}],
             \A q \in Requests : q # r => stage'[q] = stage[q],
             UNCHANGED <<ask, answer, done, hwnd, target, inbox, up, listening>>
      PROVE  RequestsTyped'
  BY <1>1, <1>a DEF RequestsTyped
<1>2. ASSUME NEW r \in Requests, NEW w \in Wishes, Arrive(r, w) PROVE RequestsTyped'
  <2>1. First(w) \in Stages
    BY DEF First, Stages
  <2>2. /\ ask' = [ask EXCEPT ![r] = w] /\ Moves(r, First(w)) /\ stage[r] = "new"
        /\ UNCHANGED <<reply, command, printexp>>
    BY <1>2 DEF Arrive
  <2>3. /\ stage' \in [Requests -> Stages]
        /\ \A q \in Requests : q # r => stage'[q] = stage[q]
    BY <1>a, <2>1, <2>2, MovesTyped
  <2>4. QED
    BY <1>a, <1>b, <2>2, <2>3 DEF RequestsTyped
<1>3. ASSUME NEW r \in Requests, GivesUp(r) PROVE RequestsTyped'
  BY <1>3, <1>a DEF GivesUp, RequestsTyped
<1>4. ASSUME NEW r \in Requests, NEW a \in Answers, Returned(r, a)
      PROVE  /\ stage' \in [Requests -> Stages] /\ reply' \in [Requests -> {"none", "ok", "failed"}]
             /\ answer' \in [Requests -> Answers]
             /\ \A q \in Requests : q # r => stage'[q] = stage[q]
  BY <1>4, <1>a, ReturnedTyped
<1>5. ASSUME NEW r \in Requests, OpenPipe(r) PROVE RequestsTyped'
  <2>1. stage[r] = "opening" /\ UNCHANGED <<ask, hwnd, target, inbox, done, printexp>>
    BY <1>5 DEF OpenPipe
  <2>2. CASE Returned(r, "none") /\ UNCHANGED line
    BY <1>4, <1>a, <1>b, <2>1, <2>2 DEF RequestsTyped, Answers
  <2>3. CASE listening /\ line' = r /\ Moves(r, "piping") /\ UNCHANGED <<reply, answer>>
    <3>1. stage' \in [Requests -> Stages] /\ stage'[r] = "piping"
      BY <1>a, <2>3, MovesTyped DEF Stages
    <3>2. QED
      BY <1>a, <2>1, <2>3, <3>1 DEF RequestsTyped
  <2>4. QED
    BY <1>5, <2>2, <2>3 DEF OpenPipe
<1>6. ASSUME NEW r \in Requests, NEW a \in Answers, NEW performed \in BOOLEAN,
             DllAnswers(r, a, performed)
      PROVE  RequestsTyped'
  <2>1. /\ line = r /\ line' = Nothing /\ Returned(r, a)
        /\ Execute(IF performed THEN {r} ELSE {}) /\ UNCHANGED <<ask, hwnd, target, inbox, printexp>>
    BY <1>6 DEF DllAnswers
  <2>2. done' \in [Requests -> 0 .. 2]
    BY <1>a, <1>b, <2>1, ExecuteTyped
  <2>3. QED
    BY <1>4, <1>a, <2>1, <2>2 DEF RequestsTyped
<1>7. ASSUME NEW r \in Requests, PipeBreaks(r) PROVE RequestsTyped'
  <2>1. /\ line # r /\ Returned(r, "none") /\ UNCHANGED <<ask, hwnd, target, line, inbox, done, printexp>>
    BY <1>7 DEF PipeBreaks
  <2>2. QED
    BY <1>4, <1>a, <2>1 DEF RequestsTyped, Answers
<1>8. ASSUME NEW r \in Requests, PostButton(r) PROVE RequestsTyped'
  <2>1. /\ stage[r] = "posting" /\ UNCHANGED <<ask, answer, line, done, printexp>>
        /\ \E ok \in BOOLEAN : Replies(r, ok)
        /\ \E w \in Found : Posted(r, w)
    BY <1>8, PostPosts
  <2>2. /\ stage' \in [Requests -> Stages] /\ reply' \in [Requests -> {"none", "ok", "failed"}]
        /\ \A q \in Requests : q # r => stage'[q] = stage[q]
    BY <1>a, <2>1, RepliesTyped
  <2>3. PICK w \in Found : Posted(r, w)
    BY <2>1
  <2>4. /\ hwnd' \in Windows /\ target' \in [Requests -> Windows]
        /\ inbox' \subseteq Requests /\ (inbox' # {} => up)
    BY <1>a, <2>3, FoundTyped DEF RequestsTyped, Posted
  <2>5. QED
    BY <1>a, <1>b, <2>1, <2>2, <2>4 DEF RequestsTyped
<1>9. ASSUME NEW r \in Requests, ReadIni(r) \/ Truncate(r) \/ Flush(r) \/ EnableInks(r) \/ DisableInks(r)
      PROVE  RequestsTyped'
  <2>1. stage[r] # "piping" /\ UNCHANGED <<ask, answer, done, line, inbox, hwnd, target, printexp>>
    BY <1>9 DEF ReadIni, Truncate, Flush, EnableInks, DisableInks
  <2>2. \/ \E t \in ModeStages : Moves(r, t) /\ UNCHANGED reply
        \/ \E ok \in BOOLEAN : Replies(r, ok)
    BY <1>9 DEF ReadIni, Truncate, Flush, EnableInks, DisableInks, ModeStages
  <2>3. ModeStages \subseteq Stages
    BY DEF ModeStages, Stages
  <2>4. /\ stage' \in [Requests -> Stages] /\ reply' \in [Requests -> {"none", "ok", "failed"}]
        /\ \A q \in Requests : q # r => stage'[q] = stage[q]
    BY <1>a, <2>2, <2>3, RepliesTyped, MovesTyped DEF RequestsTyped
  <2>5. QED
    BY <1>1, <2>1, <2>4
<1>10. ASSUME NEW r \in Requests, HandleMessage(r) PROVE RequestsTyped'
  <2>1. /\ r \in inbox /\ inbox' = inbox \ {r} /\ Execute({r})
        /\ UNCHANGED <<operator, answer, hwnd, target, line, printexp>>
    BY <1>10 DEF HandleMessage
  <2>2. done' \in [Requests -> 0 .. 2]
    BY <1>a, <2>1, ExecuteTyped DEF Command
  <2>3. QED
    BY <1>a, <2>1, <2>2 DEF RequestsTyped
<1>11. ASSUME NEW performed \in BOOLEAN, performed => line # Nothing,
              Execute(IF performed THEN {line} ELSE {})
       PROVE  done' \in [Requests -> 0 .. 2]
  BY <1>11, <1>a, <1>b, ExecuteTyped
<1>12. ASSUME NEW performed \in BOOLEAN, PrintExpCloses(performed) PROVE RequestsTyped'
  BY <1>11, <1>12, <1>a DEF PrintExpCloses, RequestsTyped
<1>13. ASSUME NEW performed \in BOOLEAN, Crash(performed) PROVE RequestsTyped'
  BY <1>11, <1>13, <1>a DEF Crash, RequestsTyped, Stages, Windows
<1>14. CASE PrintExpStarts \/ ControlIsLoaded \/ UNCHANGED vars
  BY <1>14, <1>a DEF PrintExpStarts, ControlIsLoaded, vars, RequestsTyped
<1>15. QED
  BY <1>2, <1>3, <1>5, <1>6, <1>7, <1>8, <1>9, <1>10, <1>12, <1>13, <1>14
     DEF Next, ControlTimesOut, ModeTimesOut, Thread, Answers

LEMMA ModesStep == CoreInv /\ [Next]_vars => ModesTyped'
<1> SUFFICES ASSUME CoreInv, [Next]_vars PROVE ModesTyped'
  OBVIOUS
<1>a. /\ TypeOK /\ ModesTyped /\ epoch \in 0 .. MaxCloses
      /\ \A r \in Requests : stage[r] \in ModeStages => ask[r] \in Presets
  BY TypeParts DEF CoreInv, CommandInv, Command, TypeOK
<1> USE DEF operator, command, mode, printexp
<1>1. ASSUME NEW r \in Requests, NEW w \in Wishes, Arrive(r, w) PROVE ModesTyped'
  <2>1. alone' \subseteq Requests /\ met' \in BOOLEAN
    BY <1>1, <1>a DEF Arrive, ModesTyped
  <2>2. QED
    BY <1>1, <1>a, <2>1 DEF Arrive, ModesTyped
<1>2. ASSUME NEW r \in Requests, ReadIni(r) PROVE ModesTyped'
  <2>1. FoundOrigin \in Origin /\ "default" \in Origin
    BY <1>a DEF ModesTyped, FoundOrigin, Origin
  <2>2. keeps' \in [Requests -> Origin] /\ refused' \in BOOLEAN
    BY <1>2, <1>a, <2>1 DEF ReadIni, ModesTyped
  <2>3. QED
    BY <1>2, <1>a, <2>2 DEF ReadIni, ModesTyped
<1>3. ASSUME NEW r \in Requests, Truncate(r) PROVE ModesTyped'
  BY <1>3, <1>a DEF Truncate, ModesTyped
<1>4. ASSUME NEW r \in Requests, Flush(r) PROVE ModesTyped'
  <2>1. ask[r] \in Presets
    BY <1>4, <1>a DEF Flush, ModeStages
  <2>2. Kept(r) \in Origin /\ PRESETS[ask[r]].dir \in {"forward", "mirror", "reverse"}
    BY <1>a, <2>1, PresetTyped DEF Kept, ModesTyped
  <2>3. /\ \/ ini' = [whole |-> TRUE, origin |-> Kept(r), dir |-> PRESETS[ask[r]].dir]
           \/ UNCHANGED ini
        /\ refused' = refused \/ refused' = TRUE
        /\ alone' = alone \/ alone' = {}
        /\ UNCHANGED <<keeps, pid, ink, met, last>>
    BY <1>4 DEF Flush
  <2>4. {met', refused'} \subseteq BOOLEAN
    BY <1>a, <2>3 DEF ModesTyped
  <2>5. ini' \in [whole : BOOLEAN, origin : Origin, dir : {"forward", "mirror", "reverse"}]
    <3>1. CASE UNCHANGED ini
      BY <1>a, <3>1, Zenon DEF ModesTyped
    <3>2. CASE ini' = [whole |-> TRUE, origin |-> Kept(r), dir |-> PRESETS[ask[r]].dir]
      BY <2>2, <3>2
    <3>3. QED
      BY <2>3, <3>1, <3>2
  <2>6. alone' \subseteq Requests
    BY <1>a, <2>3 DEF ModesTyped
  <2>7. QED
    BY <1>a, <2>3, <2>4, <2>5, <2>6 DEF ModesTyped
<1>5. ASSUME NEW r \in Requests, EnableInks(r) PROVE ModesTyped'
  <2>1. ask[r] \in Presets
    BY <1>5, <1>a DEF EnableInks, ModeStages
  <2>2. PRESETS[ask[r]].inks \subseteq Groups
    BY <2>1, PresetTyped
  <2>3. ink' \subseteq Groups /\ pid' \in [Requests -> 0 .. MaxCloses] /\ alone' \in {alone, {}}
    BY <1>5, <1>a, <2>2 DEF EnableInks, ModesTyped
  <2>4. QED
    BY <1>5, <1>a, <2>3 DEF EnableInks, ModesTyped
<1>6. ASSUME NEW r \in Requests, DisableInks(r) PROVE ModesTyped'
  <2>1. ink' \subseteq Groups /\ alone' \in {alone, {}}
    BY <1>6, <1>a DEF DisableInks, InksOf, ModesTyped
  <2>2. QED
    BY <1>6, <1>a, <2>1 DEF DisableInks, ModesTyped
<1>7. ASSUME NEW performed \in BOOLEAN, PrintExpCloses(performed) \/ Crash(performed)
      PROVE  ModesTyped'
  BY <1>7, <1>a DEF PrintExpCloses, Crash, ModesTyped
<1>8. CASE PrintExpStarts
  BY <1>8, <1>a DEF PrintExpStarts, ModesTyped
<1>9. CASE UNCHANGED mode
  BY <1>9, <1>a DEF ModesTyped
<1>10. QED
  BY <1>1, <1>2, <1>3, <1>4, <1>5, <1>6, <1>7, <1>8, <1>9
     DEF Next, ControlTimesOut, ModeTimesOut, GivesUp, Thread, OpenPipe, PipeBreaks, PostButton,
         DllAnswers, HandleMessage, ControlIsLoaded, vars

LEMMA PrintExpStep == CoreInv /\ [Next]_vars => PrintExpTyped'
<1> SUFFICES ASSUME CoreInv, [Next]_vars PROVE PrintExpTyped'
  OBVIOUS
<1>a. PrintExpTyped /\ WindowInv /\ MaxCloses \in Nat /\ MaxCrashes \in Nat
  BY TypeParts, ConstantFacts DEF CoreInv
<1> USE DEF operator, command, mode, printexp
<1>1. ASSUME NEW performed \in BOOLEAN, PrintExpCloses(performed) \/ Crash(performed)
      PROVE  PrintExpTyped'
  <2>1. CASE PrintExpCloses(performed)
    <3>1. /\ up' = FALSE /\ listening' = FALSE /\ UNCHANGED <<epoch, crashes>>
          /\ closes' = closes + 1 /\ closes < MaxCloses
      BY <2>1 DEF PrintExpCloses
    <3>2. closes' \in 0 .. MaxCloses /\ epoch' \in 0 .. MaxCloses /\ crashes' \in 0 .. MaxCrashes
      BY <1>a, <3>1 DEF PrintExpTyped
    <3>3. {up', listening'} \subseteq BOOLEAN /\ (listening' => up')
      BY <3>1
    <3>4. QED
      BY <3>2, <3>3 DEF PrintExpTyped
  <2>2. CASE Crash(performed)
    <3>1. UNCHANGED <<up, epoch, listening, closes>> /\ crashes' = crashes + 1 /\ crashes < MaxCrashes
      BY <2>2 DEF Crash
    <3>2. QED
      BY <1>a, <3>1 DEF PrintExpTyped
  <2>3. QED
    BY <1>1, <2>1, <2>2
<1>2. CASE PrintExpStarts
  BY <1>2, <1>a DEF PrintExpStarts, PrintExpTyped, WindowInv
<1>3. CASE ControlIsLoaded
  BY <1>3, <1>a DEF ControlIsLoaded, PrintExpTyped
<1>4. CASE UNCHANGED <<printexp, closes, crashes>>
  BY <1>4, <1>a DEF PrintExpTyped
<1>5. QED
  BY <1>1, <1>2, <1>3, <1>4
     DEF Next, Arrive, ControlTimesOut, ModeTimesOut, GivesUp, Thread, OpenPipe, PipeBreaks,
         PostButton, ReadIni, Truncate, Flush, EnableInks, DisableInks, DllAnswers,
         HandleMessage, vars

LEMMA CoreStep == CoreInv /\ [Next]_vars => CoreInv'
<1>1. RequestsTyped' /\ ModesTyped' /\ PrintExpTyped' => TypeOK'
  BY DEF TypeOK, RequestsTyped, ModesTyped, PrintExpTyped, Answers
<1>2. QED
  BY <1>1, RequestsStep, ModesStep, PrintExpStep, CommandStep, WindowStep DEF CoreInv

\* However requests, closes of PrintExp and crashes of the agent interleave:
\* the pipe is open for a request that waits for it only, messages wait in the
\* window of a PrintExp that runs, and nothing is executed three times.
THEOREM TypeCorrect == Spec => []TypeOK
<1>1. Spec => []CoreInv
  BY CoreInit, CoreStep, PTL DEF Spec
<1>2. CoreInv => TypeOK
  BY DEF CoreInv
<1>3. QED
  BY <1>1, <1>2, PTL

\* Whatever happens to pipe, window and agent: a command that is executed
\* twice is one to which the pipe gave no answer, or an error.
THEOREM TwiceIsUnanswered == Spec => []TwiceNeedsLostAnswer
<1>1. Spec => []CoreInv
  BY CoreInit, CoreStep, PTL DEF Spec
<1>2. CoreInv => TwiceNeedsLostAnswer
  BY DEF CoreInv, CommandInv, Command, NoAnswer, TwiceNeedsLostAnswer
<1>3. QED
  BY <1>1, <1>2, PTL

\* It was posted to a window that is not, or no longer, PrintExp's.
Elsewhere(r) == target[r] \in Lookalikes \cup 0 .. closes - 1

Delivered(r) == done[r] > 0 \/ (answer[r] # "success" /\ (r \in inbox \/ Elsewhere(r)))

\* Those that wait in the queue of the window were posted to the PrintExp that
\* runs.
InboxInv == \A r \in inbox : target[r] = epoch

LEMMA InboxStep == CoreInv /\ InboxInv /\ [Next]_vars => InboxInv'
<1> SUFFICES ASSUME CoreInv, InboxInv, [Next]_vars PROVE InboxInv'
  OBVIOUS
<1>a. /\ TypeOK /\ inbox \subseteq Requests /\ (inbox # {} => up)
  BY DEF CoreInv, TypeOK
<1> USE DEF operator, command, mode, printexp
<1>1. CASE inbox' \subseteq inbox /\ UNCHANGED <<target, epoch>>
  BY <1>1 DEF InboxInv
<1>2. ASSUME NEW r \in Requests, PostButton(r) PROVE InboxInv'
  <2>1. PICK w \in Found :
           /\ Posted(r, w)
           /\ \/ UNCHANGED inbox
              \/ /\ target' = [target EXCEPT ![r] = w]
                 /\ inbox' = IF up /\ w = epoch THEN inbox \cup {r} ELSE inbox
    BY <1>2, PostPosts
  <2>2. UNCHANGED epoch /\ stage[r] = "posting"
    BY <1>2, PostPosts
  <2>3. r \notin inbox
    BY <2>2 DEF CoreInv, CommandInv, Command
  <2>4. \A q \in inbox : target'[q] = target[q]
    BY <1>a, <2>1, <2>3 DEF Posted, TypeOK
  <2>5. r \in inbox' => target'[r] = epoch
    BY <1>a, <2>1, <2>3 DEF TypeOK
  <2>6. \A q \in inbox' : q = r \/ q \in inbox
    BY <2>1
  <2>7. QED
    BY <2>2, <2>4, <2>5, <2>6 DEF InboxInv
<1>3. ASSUME NEW performed \in BOOLEAN, PrintExpCloses(performed) \/ Crash(performed) PROVE InboxInv'
  BY <1>1, <1>3 DEF PrintExpCloses, Crash, InboxInv
<1>4. CASE PrintExpStarts
  BY <1>4, <1>a DEF PrintExpStarts, InboxInv
<1>5. ASSUME NEW r \in Requests,
             \/ \E w \in Wishes : Arrive(r, w)
             \/ GivesUp(r) \/ Thread(r) \/ HandleMessage(r)
             \/ \E a \in Answers, performed \in BOOLEAN : DllAnswers(r, a, performed)
      PROVE  InboxInv'
  BY <1>1, <1>5
     DEF Arrive, GivesUp, Thread, OpenPipe, PipeBreaks, ReadIni, Truncate, Flush, EnableInks,
         DisableInks, HandleMessage, DllAnswers
<1>6. CASE ControlIsLoaded \/ UNCHANGED vars
  BY <1>1, <1>6 DEF ControlIsLoaded, vars
<1>7. QED
  BY <1>2, <1>3, <1>4, <1>5, <1>6 DEF Next, ControlTimesOut, ModeTimesOut, Answers

\* An "ok" at a command: the pipe said so, or the button was posted to the
\* window of PrintExp, or to another one.
LEMMA DeliveredStep ==
  CoreInv /\ InboxInv /\ OkMeansDelivered /\ [Next]_vars => OkMeansDelivered'
<1> SUFFICES ASSUME CoreInv, InboxInv, OkMeansDelivered, [Next]_vars, NEW s \in Requests,
                    ask'[s] \in Commands, reply'[s] = "ok"
             PROVE  Delivered(s)'
  BY DEF OkMeansDelivered, Delivered, Elsewhere
<1>a. /\ TypeOK /\ WindowInv /\ \A q \in Requests : Command(q)
      /\ \A q \in Requests : done[q] \in 0 .. 2
      /\ closes \in 0 .. MaxCloses /\ MaxCloses \in Nat
  BY ConstantFacts DEF CoreInv, CommandInv, TypeOK
<1>b. (ask[s] \in Commands /\ reply[s] = "ok") => (Delivered(s) /\ stage[s] = "done")
  BY <1>a DEF OkMeansDelivered, Command, Delivered, Elsewhere
<1> USE DEF operator, command, mode, printexp
<1>1. ASSUME UNCHANGED <<ask[s], reply[s], answer[s], target[s]>>, closes' \in {closes, closes + 1},
             done'[s] \in {done[s], done[s] + 1},
             s \in inbox => (s \in inbox' \/ Elsewhere(s)' \/ done'[s] > done[s])
      PROVE  Delivered(s)'
  <2>1. Elsewhere(s) => Elsewhere(s)'
    BY <1>1, <1>a DEF Elsewhere
  <2>2. QED
    BY <1>1, <1>a, <1>b, <2>1 DEF Delivered
<1>2. ASSUME NEW r \in Requests, NEW w \in Wishes, Arrive(r, w) PROVE Delivered(s)'
  <2>1. stage[r] = "new" /\ ask' = [ask EXCEPT ![r] = w]
        /\ UNCHANGED <<reply, answer, target, done, inbox, closes>>
    BY <1>2 DEF Arrive
  <2>2. s # r
    BY <1>a, <2>1 DEF Command
  <2>3. QED
    BY <1>1, <1>a, <2>1, <2>2 DEF TypeOK
<1>3. ASSUME NEW r \in Requests, GivesUp(r) PROVE Delivered(s)'
  <2>1. reply' = [reply EXCEPT ![r] = "failed"] /\ UNCHANGED <<ask, answer, target, done, inbox, closes>>
    BY <1>3 DEF GivesUp
  <2>2. reply'[s] = reply[s]
    BY <1>a, <2>1 DEF TypeOK
  <2>3. QED
    BY <1>1, <2>1, <2>2
<1>4. ASSUME NEW r \in Requests, NEW a \in Answers, Returned(r, a), UNCHANGED <<ask, target, inbox, closes>>,
             stage[r] \in {"opening", "piping"},
             \A q \in Requests : done'[q] \in {done[q], done[q] + 1},
             a = "success" => done'[r] > 0
      PROVE  Delivered(s)'
  <2>1. /\ reply'[r] = "ok" => reply[r] = "ok" \/ Succeeds(ask[r], a)
        /\ \A q \in Requests : q # r => reply'[q] = reply[q] /\ answer'[q] = answer[q]
    BY <1>4, <1>a, ReturnedTyped
  <2>2. CASE s = r
    <3>1. reply[r] # "ok"
      BY <1>4, <1>a DEF Command
    <3>2. a = "success"
      BY <1>4, <2>1, <2>2, <3>1, ConstantFacts DEF Succeeds
    <3>3. QED
      BY <1>4, <2>2, <3>2 DEF Delivered
  <2>3. CASE s # r
    BY <1>1, <1>4, <2>1, <2>3
  <2>4. QED
    BY <2>2, <2>3
<1>5. ASSUME NEW r \in Requests, OpenPipe(r) PROVE Delivered(s)'
  <2>1. stage[r] = "opening" /\ UNCHANGED <<ask, target, inbox, done, closes>>
    BY <1>5 DEF OpenPipe
  <2>2. CASE Returned(r, "none")
    BY <1>4, <2>1, <2>2 DEF Answers
  <2>3. CASE UNCHANGED <<reply, answer>>
    BY <1>1, <2>1, <2>3
  <2>4. QED
    BY <1>5, <2>2, <2>3 DEF OpenPipe
<1>6. ASSUME NEW r \in Requests, NEW a \in Answers, NEW performed \in BOOLEAN,
             DllAnswers(r, a, performed)
      PROVE  Delivered(s)'
  <2>1. /\ line = r /\ (a = "success" => performed) /\ Returned(r, a)
        /\ Execute(IF performed THEN {r} ELSE {}) /\ UNCHANGED <<ask, target, inbox, closes>>
    BY <1>6 DEF DllAnswers
  <2>2. stage[r] = "piping"
    BY <1>a, <2>1, ConstantFacts DEF TypeOK
  <2>3. \A q \in Requests : done'[q] = IF performed /\ q = r THEN done[q] + 1 ELSE done[q]
    BY <1>a, <2>1, ExecuteTyped
  <2>4. a = "success" => done'[r] > 0
    BY <1>a, <2>1, <2>3
  <2>5. QED
    BY <1>4, <2>1, <2>2, <2>3, <2>4
<1>7. ASSUME NEW r \in Requests, PipeBreaks(r) PROVE Delivered(s)'
  <2>1. stage[r] = "piping" /\ Returned(r, "none") /\ UNCHANGED <<ask, target, inbox, done, closes>>
    BY <1>7 DEF PipeBreaks
  <2>2. QED
    BY <1>4, <2>1 DEF Answers
<1>8. ASSUME NEW r \in Requests, PostButton(r) PROVE Delivered(s)'
  <2>1. stage[r] = "posting" /\ UNCHANGED <<ask, answer, done, up, epoch, closes>>
    BY <1>8, PostPosts
  <2>2. PICK w \in Found :
           /\ Posted(r, w)
           /\ \/ Replies(r, FALSE) /\ UNCHANGED inbox
              \/ /\ w # Nothing /\ Replies(r, TRUE) /\ target' = [target EXCEPT ![r] = w]
                 /\ inbox' = IF up /\ w = epoch THEN inbox \cup {r} ELSE inbox
    BY <1>8, PostPosts
  <2>3. reply[r] # "ok" /\ answer[r] # "success"
    BY <1>a, <2>1 DEF Command, NoAnswer
  <2>4. \A q \in Requests : q # r => target'[q] = target[q]
    BY <1>a, <2>2 DEF Posted, TypeOK
  <2>5. CASE s # r
    <3>1. reply'[s] = reply[s] /\ (s \in inbox => s \in inbox')
      BY <1>a, <2>2, <2>5, RepliesTyped
    <3>2. QED
      BY <1>1, <2>1, <2>4, <2>5, <3>1
  <2>6. CASE s = r /\ Replies(r, FALSE)
    BY <1>a, <2>3, <2>6, RepliesTyped
  <2>7. CASE /\ s = r /\ w # Nothing /\ target' = [target EXCEPT ![r] = w]
             /\ inbox' = IF up /\ w = epoch THEN inbox \cup {r} ELSE inbox
    <3>1. target'[s] = w
      BY <1>a, <2>7 DEF TypeOK
    <3>2. CASE up /\ w = epoch
      BY <2>1, <2>3, <2>7, <3>2 DEF Delivered
    <3>3. CASE ~(up /\ w = epoch)
      <4>1. w \in Lookalikes \/ w = hwnd
        BY <2>7, <3>3 DEF Found
      <4>2. CASE w \in Lookalikes
        BY <2>1, <2>3, <2>7, <3>1, <4>2 DEF Delivered, Elsewhere
      <4>3. CASE w \notin Lookalikes
        <5>1. w \in 0 .. MaxCloses /\ w <= epoch /\ epoch \in 0 .. MaxCloses
          BY <1>a, <2>7, <4>1, <4>3 DEF TypeOK, Windows, WindowInv
        <5>2. w \in 0 .. closes - 1
          <6>1. CASE up
            BY <1>a, <3>3, <5>1, <6>1 DEF WindowInv
          <6>2. CASE ~up
            BY <1>a, <5>1, <6>2 DEF WindowInv
          <6>3. QED
            BY <6>1, <6>2
        <5>3. QED
          BY <2>1, <2>3, <2>7, <3>1, <5>2 DEF Delivered, Elsewhere
      <4>4. QED
        BY <4>2, <4>3
    <3>4. QED
      BY <3>2, <3>3
  <2>8. QED
    BY <2>2, <2>5, <2>6, <2>7
<1>9. ASSUME NEW r \in Requests, ReadIni(r) \/ Truncate(r) \/ Flush(r) \/ EnableInks(r) \/ DisableInks(r)
      PROVE  Delivered(s)'
  <2>1. stage[r] \in ModeStages /\ UNCHANGED <<ask, answer, target, done, inbox, closes>>
    BY <1>9 DEF ReadIni, Truncate, Flush, EnableInks, DisableInks, ModeStages
  <2>2. s # r
    BY <1>a, <2>1, ConstantFacts DEF Command
  <2>3. UNCHANGED reply \/ \E ok \in BOOLEAN : Replies(r, ok)
    BY <1>9 DEF ReadIni, Truncate, Flush, EnableInks, DisableInks
  <2>4. reply'[s] = reply[s]
    BY <1>a, <2>2, <2>3, RepliesTyped
  <2>5. QED
    BY <1>1, <2>1, <2>4
<1>10. ASSUME NEW r \in Requests, HandleMessage(r) PROVE Delivered(s)'
  <2>1. /\ inbox' = inbox \ {r} /\ Execute({r}) /\ UNCHANGED <<ask, reply, answer, target, closes>>
    BY <1>10 DEF HandleMessage
  <2>2. \A q \in Requests : done'[q] = IF q = r THEN done[q] + 1 ELSE done[q]
    BY <1>a, <2>1, ExecuteTyped
  <2>3. s \in inbox => s \in inbox' \/ done'[s] > done[s]
    BY <1>a, <2>1, <2>2
  <2>4. QED
    BY <1>1, <2>1, <2>2, <2>3
<1>11. ASSUME NEW performed \in BOOLEAN, PrintExpCloses(performed) PROVE Delivered(s)'
  <2>1. /\ up /\ closes' = closes + 1 /\ Execute(IF performed THEN {line} ELSE {})
        /\ UNCHANGED <<ask, reply, answer, target>>
    BY <1>11 DEF PrintExpCloses
  <2>2. done'[s] \in {done[s], done[s] + 1}
    BY <1>a, <2>1, ExecuteTyped
  <2>3. s \in inbox => Elsewhere(s)'
    <3>1. s \in inbox => target[s] = closes
      BY <1>a, <2>1 DEF InboxInv, WindowInv
    <3>2. QED
      BY <1>a, <2>1, <3>1 DEF Elsewhere
  <2>4. QED
    BY <1>1, <2>1, <2>2, <2>3
<1>12. ASSUME NEW performed \in BOOLEAN, Crash(performed) PROVE Delivered(s)'
  <2>1. /\ Execute(IF performed THEN {line} ELSE {}) /\ UNCHANGED <<ask, answer, target, inbox, closes>>
        /\ reply' = [r \in Requests |->
                        IF stage[r] = "new" \/ reply[r] # "none" THEN reply[r] ELSE "failed"]
    BY <1>12 DEF Crash
  <2>2. done'[s] \in {done[s], done[s] + 1} /\ reply'[s] = reply[s]
    BY <1>a, <2>1, ExecuteTyped
  <2>3. QED
    BY <1>1, <2>1, <2>2
<1>13. CASE PrintExpStarts \/ ControlIsLoaded \/ UNCHANGED vars
  BY <1>1, <1>13 DEF PrintExpStarts, ControlIsLoaded, vars
<1>14. QED
  BY <1>2, <1>3, <1>5, <1>6, <1>7, <1>8, <1>9, <1>10, <1>11, <1>12, <1>13
     DEF Next, ControlTimesOut, ModeTimesOut, Thread, Answers

\* Whatever pipe, window, PrintExp and agent do: an operator who is told "ok"
\* has a command that is executed, or waits in the window of a PrintExp, or
\* was posted to one that has been closed or that is not PrintExp's.
THEOREM OkIsDelivered == Spec => []OkMeansDelivered
<1>1. Init => InboxInv /\ OkMeansDelivered
  BY DEF Init, InboxInv, OkMeansDelivered
<1>2. Spec => []CoreInv
  BY CoreInit, CoreStep, PTL DEF Spec
<1>3. QED
  BY <1>1, <1>2, InboxStep, DeliveredStep, PTL DEF Spec

-----------------------------------------------------------------------------
(***************************************************************************)
(* Print modes.                                                            *)
(***************************************************************************)

\* The modes that are being applied are the requests at the stages of a mode.
LEMMA ApplyingStages ==
  ASSUME CoreInv, NEW r \in Requests
  PROVE  /\ r \in Applying <=> stage[r] \in ModeStages
         /\ r \in Applying => ask[r] \in Presets
  BY ConstantFacts DEF CoreInv, CommandInv, Command, TypeOK, Applying, Stages, CommandStages, ModeStages

\* A step that concerns no mode that has been asked for.
ModesRest ==
    \A q \in Requests :
        (ask[q] \in Presets /\ stage[q] # "new") \/ (ask'[q] \in Presets /\ stage'[q] # "new")
            => ask'[q] = ask[q] /\ stage'[q] = stage[q]

LEMMA ApplyingRests ==
  ASSUME ModesRest
  PROVE  Applying' = Applying /\ \A r \in Applying : ask'[r] = ask[r] /\ stage'[r] = stage[r]
  BY DEF ModesRest, Applying

\* A request that has ended stays so.
LEMMA DoneStays ==
  ASSUME CoreInv, [Next]_vars, NEW s \in Requests, stage[s] = "done"
  PROVE  stage'[s] = "done"
<1>a. TypeOK
  BY DEF CoreInv
<1> USE DEF operator, command, mode, printexp
<1>1. ASSUME NEW r \in Requests, r # s,
             \/ \E t : Moves(r, t)
             \/ \E ok \in BOOLEAN : Replies(r, ok)
             \/ \E a \in Answers : Returned(r, a)
      PROVE  stage'[s] = "done"
  BY <1>1, <1>a DEF TypeOK, Moves, Replies, Returned
<1>2. ASSUME NEW r \in Requests, NEW w \in Wishes, Arrive(r, w) PROVE stage'[s] = "done"
  BY <1>1, <1>2 DEF Arrive
<1>3. ASSUME NEW r \in Requests, Thread(r) \/ PostButton(r) PROVE stage'[s] = "done"
  <2>1. stage[r] # "done"
    BY <1>3 DEF Thread, OpenPipe, PipeBreaks, PostButton, ReadIni, Truncate, Flush, EnableInks,
                DisableInks
  <2>2. \/ \E t : Moves(r, t)
        \/ \E ok \in BOOLEAN : Replies(r, ok)
        \/ \E a \in Answers : Returned(r, a)
    BY <1>3 DEF Thread, OpenPipe, PipeBreaks, PostButton, ReadIni, Truncate, Flush, EnableInks,
                DisableInks, Answers
  <2>3. QED
    BY <1>1, <2>1, <2>2
<1>4. ASSUME NEW r \in Requests, NEW a \in Answers, NEW performed \in BOOLEAN,
             DllAnswers(r, a, performed)
      PROVE  stage'[s] = "done"
  BY <1>1, <1>4, <1>a, ConstantFacts DEF DllAnswers, TypeOK
<1>5. ASSUME NEW performed \in BOOLEAN, Crash(performed) PROVE stage'[s] = "done"
  BY <1>5 DEF Crash
<1>6. QED
  BY <1>2, <1>3, <1>4, <1>5
     DEF Next, ControlTimesOut, ModeTimesOut, GivesUp, HandleMessage, PrintExpCloses,
         PrintExpStarts, ControlIsLoaded, Answers, vars

\* The steps of a thread that applies a mode.
ModeThread(r) == ReadIni(r) \/ Truncate(r) \/ Flush(r) \/ EnableInks(r) \/ DisableInks(r)

\* All other steps but those of PrintExp and of crashes.
LEMMA ModesAlone ==
  ASSUME CoreInv, [Next]_vars,
         ~\E r \in Requests : ModeThread(r) \/ \E w \in Presets : Arrive(r, w),
         ~\E performed \in BOOLEAN : PrintExpCloses(performed) \/ Crash(performed),
         ~PrintExpStarts
  PROVE  ModesRest /\ UNCHANGED <<mode, up, epoch, crashes>>
<1>a. TypeOK /\ \A q \in Requests : Command(q)
  BY DEF CoreInv, CommandInv
<1> USE DEF operator, command, mode, printexp
<1>1. ASSUME NEW r \in Requests, NEW w \in Wishes, Arrive(r, w)
      PROVE  ModesRest /\ UNCHANGED <<mode, up, epoch, crashes>>
  <2>1. w \notin Presets
    BY <1>1
  <2>2. /\ stage[r] = "new" /\ ask' = [ask EXCEPT ![r] = w] /\ stage' = [stage EXCEPT ![r] = First(w)]
        /\ UNCHANGED <<mode, printexp, crashes>>
    BY <1>1, <2>1 DEF Arrive, Moves
  <2>3. /\ ask'[r] = w
        /\ \A q \in Requests : q # r => ask'[q] = ask[q] /\ stage'[q] = stage[q]
    BY <1>a, <2>2 DEF TypeOK
  <2>4. QED
    BY <2>1, <2>2, <2>3 DEF ModesRest
<1>2. ASSUME NEW r \in Requests, stage[r] \in CommandStages, UNCHANGED <<ask, mode, printexp, crashes>>,
             \A q \in Requests : q # r => stage'[q] = stage[q]
      PROVE  ModesRest /\ UNCHANGED <<mode, up, epoch, crashes>>
  <2>1. ask[r] \notin Presets
    BY <1>2, <1>a, ConstantFacts DEF Command
  <2>2. QED
    BY <1>2, <2>1 DEF ModesRest
<1>3. ASSUME NEW r \in Requests, OpenPipe(r) \/ PipeBreaks(r)
      PROVE  ModesRest /\ UNCHANGED <<mode, up, epoch, crashes>>
  <2>1. stage[r] \in CommandStages /\ UNCHANGED <<ask, mode, printexp, crashes>>
    BY <1>3 DEF OpenPipe, PipeBreaks, CommandStages
  <2>2. Returned(r, "none") \/ Moves(r, "piping")
    BY <1>3 DEF OpenPipe, PipeBreaks
  <2>3. \A q \in Requests : q # r => stage'[q] = stage[q]
    BY <1>a, <2>2, ReturnedTyped, MovesTyped DEF Answers, Stages
  <2>4. QED
    BY <1>2, <2>1, <2>3
<1>4. ASSUME NEW r \in Requests, NEW a \in Answers, NEW performed \in BOOLEAN,
             DllAnswers(r, a, performed)
      PROVE  ModesRest /\ UNCHANGED <<mode, up, epoch, crashes>>
  <2>1. line = r /\ Returned(r, a) /\ UNCHANGED <<ask, mode, printexp, crashes>>
    BY <1>4 DEF DllAnswers
  <2>2. stage[r] \in CommandStages
    BY <1>a, <2>1, ConstantFacts DEF TypeOK, CommandStages
  <2>3. QED
    BY <1>2, <1>a, <2>1, <2>2, ReturnedTyped
<1>5. ASSUME NEW r \in Requests, PostButton(r)
      PROVE  ModesRest /\ UNCHANGED <<mode, up, epoch, crashes>>
  <2>1. stage[r] \in CommandStages /\ UNCHANGED <<ask, mode, printexp, crashes>>
    BY <1>5, PostPosts DEF CommandStages
  <2>2. \E ok \in BOOLEAN : Replies(r, ok)
    BY <1>5, PostPosts
  <2>3. QED
    BY <1>2, <1>a, <2>1, <2>2, RepliesTyped
<1>6. ASSUME UNCHANGED <<ask, stage, mode, up, epoch, crashes>>
      PROVE  ModesRest /\ UNCHANGED <<mode, up, epoch, crashes>>
  BY <1>6 DEF ModesRest
<1>7. QED
  BY <1>1, <1>3, <1>4, <1>5, <1>6
     DEF Next, ControlTimesOut, ModeTimesOut, GivesUp, Thread, ModeThread, HandleMessage,
         ControlIsLoaded, Answers, vars

\* A step of such a thread moves it on, or ends it.
LEMMA ModeMoves ==
  ASSUME CoreInv, NEW r \in Requests, ModeThread(r)
  PROVE  /\ r \in Applying /\ stage[r] \in ModeStages /\ UNCHANGED ask
         /\ \A q \in Requests : q # r => stage'[q] = stage[q]
         /\ Applying' \subseteq Applying
         /\ \A q \in Requests : (q # r /\ q \in Applying) => q \in Applying'
         /\ r \in Applying' <=> stage'[r] # "done"
         /\ stage'[r] = "done" \/ stage'[r] \in ModeStages
<1> USE DEF operator, command, mode, printexp
<1>1. stage[r] \in ModeStages /\ UNCHANGED ask /\ TypeOK
  BY DEF ModeThread, ReadIni, Truncate, Flush, EnableInks, DisableInks, ModeStages, CoreInv
<1>2. r \in Applying /\ ask[r] \in Presets
  BY <1>1, ApplyingStages
<1>3. \/ \E t \in ModeStages : Moves(r, t)
      \/ \E ok \in BOOLEAN : Replies(r, ok)
  BY DEF ModeThread, ReadIni, Truncate, Flush, EnableInks, DisableInks, ModeStages
<1>4. ModeStages \subseteq Stages /\ {"new", "done"} \cap ModeStages = {}
  BY DEF ModeStages, Stages
<1>5. /\ \A q \in Requests : q # r => stage'[q] = stage[q]
      /\ stage'[r] = "done" \/ stage'[r] \in ModeStages
  BY <1>1, <1>3, <1>4, RepliesTyped, MovesTyped
<1>6. QED
  BY <1>1, <1>2, <1>4, <1>5 DEF Applying

LEMMA ModeInit == Init => ModeInv /\ OriginInv
<1> SUFFICES ASSUME Init PROVE ModeInv /\ OriginInv
  OBVIOUS
<1>1. Applying = {} /\ last = Nothing /\ alone = {}
  BY DEF Init, Applying
<1>2. ini.origin = "own" /\ ini.whole /\ \A r \in Requests : keeps[r] = "own"
  BY DEF Init
<1>3. QED
  BY <1>1, <1>2
     DEF ModeInv, LastIsDone, AloneIsAsked, AloneIsOnly, LastIsWhole, AloneOnItsWay, OriginInv

LEMMA ModeStep == CoreInv /\ ModeInv /\ [Next]_vars => ModeInv'
<1> SUFFICES ASSUME CoreInv, ModeInv, [Next]_vars PROVE ModeInv'
  OBVIOUS
<1>a. /\ LastIsDone /\ AloneIsAsked /\ AloneIsOnly /\ LastIsWhole /\ AloneOnItsWay
      /\ TypeOK /\ last \in Requests \cup {Nothing} /\ alone \subseteq Requests
      /\ Nothing \notin Requests
  BY ConstantFacts DEF ModeInv, CoreInv, TypeOK
<1> USE DEF operator, command, mode, printexp
<1>1. ASSUME ModesRest, LastIsDone', UNCHANGED <<ini, pid, ink, alone, last, epoch, up>>
      PROVE  ModeInv'
  <2>1. Applying' = Applying /\ \A r \in Applying : ask'[r] = ask[r] /\ stage'[r] = stage[r]
    BY <1>1, ApplyingRests
  <2>2. \A r \in alone : ask'[r] = ask[r] /\ stage'[r] = stage[r]
    BY <1>1, <1>a DEF ModesRest, AloneIsAsked
  <2>3. AloneIsAsked'
    BY <1>1, <1>a, <2>2 DEF AloneIsAsked
  <2>4. AloneIsOnly'
    BY <1>1, <1>a, <2>1 DEF AloneIsOnly
  <2>5. LastIsWhole'
    BY <1>1, <1>a, <2>1, <2>2 DEF LastIsWhole, Whole
  <2>6. AloneOnItsWay'
    BY <1>1, <1>a, <2>2 DEF AloneOnItsWay
  <2>7. QED
    BY <1>1, <2>3, <2>4, <2>5, <2>6 DEF ModeInv
<1>2. ASSUME LastIsDone', alone' = {} PROVE ModeInv'
  BY <1>2 DEF ModeInv, AloneIsAsked, AloneIsOnly, LastIsWhole, AloneOnItsWay
<1>3. CASE /\ ~\E r \in Requests : ModeThread(r) \/ \E w \in Presets : Arrive(r, w)
           /\ ~\E performed \in BOOLEAN : PrintExpCloses(performed) \/ Crash(performed)
           /\ ~PrintExpStarts
  <2>1. ModesRest /\ UNCHANGED <<mode, up, epoch>>
    BY <1>3, ModesAlone
  <2>2. LastIsDone'
    BY <1>a, <2>1, DoneStays DEF LastIsDone
  <2>3. QED
    BY <1>1, <2>1, <2>2
<1>4. ASSUME NEW r \in Requests, NEW w \in Presets, Arrive(r, w) PROVE ModeInv'
  <2>1. /\ stage[r] = "new" /\ ask' = [ask EXCEPT ![r] = w] /\ stage' = [stage EXCEPT ![r] = First(w)]
        /\ alone' = IF Applying = {} THEN alone \cup {r} ELSE {}
        /\ UNCHANGED <<ini, pid, ink, last, up, epoch>>
    BY <1>4 DEF Arrive, Moves
  <2>2. First(w) = "reading"
    BY ConstantFacts DEF First, PipeNames, Commands
  <2>3. /\ ask'[r] = w /\ stage'[r] = "reading"
        /\ \A q \in Requests : q # r => ask'[q] = ask[q] /\ stage'[q] = stage[q]
    BY <1>a, <2>1, <2>2 DEF TypeOK
  <2>4. LastIsDone'
    BY <1>a, <2>1, <2>3 DEF LastIsDone
  <2>5. CASE Applying # {}
    BY <1>2, <2>1, <2>4, <2>5
  <2>6. CASE Applying = {}
    <3>1. Applying' = {r} /\ alone' = alone \cup {r} /\ r \notin alone /\ last # r
      BY <1>a, <2>1, <2>3, <2>6 DEF Applying, AloneIsAsked, LastIsDone
    <3>2. AloneIsAsked'
      BY <1>a, <2>3, <3>1 DEF AloneIsAsked
    <3>3. AloneIsOnly'
      BY <3>1 DEF AloneIsOnly
    <3>4. LastIsWhole'
      BY <1>a, <2>1, <2>3, <2>6, <3>1 DEF LastIsWhole, Whole
    <3>5. AloneOnItsWay'
      BY <1>a, <2>1, <2>3, <3>1 DEF AloneOnItsWay
    <3>6. QED
      BY <2>4, <3>2, <3>3, <3>4, <3>5 DEF ModeInv
  <2>7. QED
    BY <2>5, <2>6
<1>5. ASSUME NEW r \in Requests, ModeThread(r) PROVE ModeInv'
  <2>a. /\ r \in Applying /\ stage[r] \in ModeStages /\ UNCHANGED ask
        /\ \A q \in Requests : q # r => stage'[q] = stage[q]
        /\ Applying' \subseteq Applying
        /\ r \in Applying' <=> stage'[r] # "done"
        /\ stage'[r] = "done" \/ stage'[r] \in ModeStages
    BY <1>5, ModeMoves
  <2>b. /\ last' = last => LastIsDone'
        /\ alone' \subseteq alone => AloneIsAsked' /\ (alone' = alone => AloneIsOnly')
    <3>1. last # r /\ "new" \notin ModeStages
      BY <1>a, <2>a DEF LastIsDone, ModeStages
    <3>2. QED
      BY <1>a, <2>a, <3>1 DEF LastIsDone, AloneIsAsked, AloneIsOnly
  <2>c. \A q \in alone : q # r => ~(stage[q] \in ModeStages)
    BY <1>a, <2>a, ApplyingStages DEF AloneIsOnly
  <2>d. alone # {} => r \in alone /\ \A q \in Applying : q = r
    BY <1>a, <2>a DEF AloneIsOnly
  <2>1. CASE ReadIni(r)
    <3>1. /\ stage[r] = "reading" /\ Moves(r, "truncating")
          /\ UNCHANGED <<ini, pid, ink, alone, last, up, epoch>>
      BY <2>1 DEF ReadIni
    <3>2. stage'[r] = "truncating"
      BY <1>a, <3>1, MovesTyped DEF Stages
    <3>3. LastIsWhole'
      BY <1>a, <2>a, <2>d, <3>1, <3>2 DEF LastIsWhole, Whole
    <3>4. AloneOnItsWay'
      BY <1>a, <2>a, <3>1, <3>2 DEF AloneOnItsWay
    <3>5. QED
      BY <2>b, <3>1, <3>3, <3>4 DEF ModeInv
  <2>2. CASE Truncate(r)
    <3>1. /\ stage[r] = "truncating" /\ UNCHANGED <<pid, ink, alone, last, up, epoch>>
          /\ \/ ini' = [ini EXCEPT !.whole = FALSE] /\ Moves(r, "flushing")
             \/ ini' = ini /\ Replies(r, FALSE)
      BY <2>2 DEF Truncate
    <3>2. ini'.dir = ini.dir /\ stage'[r] \in {"flushing", "done"}
      BY <1>a, <3>1, RepliesTyped, MovesTyped DEF TypeOK, Stages
    <3>3. LastIsWhole'
      <4>1. CASE stage'[r] = "flushing"
        BY <1>a, <2>a, <3>1, <4>1 DEF LastIsWhole
      <4>2. CASE stage'[r] = "done"
        BY <1>a, <2>a, <2>d, <3>1, <3>2, <4>2 DEF LastIsWhole, Whole
      <4>3. QED
        BY <3>2, <4>1, <4>2
    <3>4. AloneOnItsWay'
      BY <1>a, <2>a, <3>1, <3>2 DEF AloneOnItsWay
    <3>5. QED
      BY <2>b, <3>1, <3>3, <3>4 DEF ModeInv
  <2>3. CASE Flush(r)
    <3>1. UNCHANGED last
      BY <2>3 DEF Flush
    <3>2. CASE alone' = {}
      BY <1>2, <2>b, <3>1, <3>2
    <3>3. CASE /\ ini'.dir = PRESETS[ask[r]].dir /\ Moves(r, "enabling")
               /\ UNCHANGED <<pid, ink, alone, up, epoch>>
      <4>1. stage'[r] = "enabling"
        BY <1>a, <3>3, MovesTyped DEF Stages
      <4>2. LastIsWhole'
        BY <1>a, <2>a, <3>1, <3>3, <4>1 DEF LastIsWhole
      <4>3. AloneOnItsWay'
        BY <1>a, <2>a, <2>c, <3>3, <4>1 DEF AloneOnItsWay, ModeStages
      <4>4. QED
        BY <2>b, <3>1, <3>3, <4>2, <4>3 DEF ModeInv
    <3>4. \/ ini' = [whole |-> TRUE, origin |-> Kept(r), dir |-> PRESETS[ask[r]].dir]
             /\ Moves(r, "enabling") /\ UNCHANGED alone
          \/ alone' = {}
      BY <2>3 DEF Flush
    <3>5. UNCHANGED <<pid, ink, up, epoch>>
      BY <2>3 DEF Flush
    <3>6. QED
      BY <3>2, <3>3, <3>4, <3>5
  <2>4. CASE EnableInks(r)
    <3>1. UNCHANGED last
      BY <2>4 DEF EnableInks
    <3>2. CASE alone' = {}
      BY <1>2, <2>b, <3>1, <3>2
    <3>3. CASE /\ stage[r] = "enabling" /\ up
               /\ ink' = ink \cup PRESETS[ask[r]].inks /\ pid' = [pid EXCEPT ![r] = epoch]
               /\ Moves(r, "disabling") /\ UNCHANGED <<alone, ini, up, epoch>>
      <4>1. stage'[r] = "disabling" /\ pid'[r] = epoch
        BY <1>a, <3>3, MovesTyped DEF Stages, TypeOK
      <4>2. LastIsWhole'
        BY <1>a, <2>a, <3>1, <3>3, <4>1 DEF LastIsWhole
      <4>3. AloneOnItsWay'
        BY <1>a, <2>a, <2>c, <3>3, <4>1 DEF AloneOnItsWay, ModeStages
      <4>4. QED
        BY <2>b, <3>1, <3>3, <4>2, <4>3 DEF ModeInv
    <3>4. QED
      BY <2>4, <3>2, <3>3 DEF EnableInks
  <2>5. CASE DisableInks(r)
    <3>1. /\ stage[r] = "disabling" /\ last' = r /\ Replies(r, TRUE)
          /\ \/ alone' = {}
             \/ /\ alone' = alone
                /\ up /\ pid[r] = epoch => ink' = ink \cap PRESETS[ask[r]].inks
          /\ UNCHANGED <<ini, pid, up, epoch>>
      BY <2>5 DEF DisableInks, InksOf
    <3>2. stage'[r] = "done"
      BY <1>a, <3>1, RepliesTyped
    <3>3. LastIsDone'
      BY <3>1, <3>2 DEF LastIsDone
    <3>4. CASE alone' = {}
      BY <1>2, <3>3, <3>4
    <3>5. CASE alone' # {}
      <4>1. /\ up /\ pid[r] = epoch /\ PRESETS[ask[r]].inks \subseteq ink
            /\ ini.dir = PRESETS[ask[r]].dir
        BY <1>a, <2>d, <3>1, <3>5 DEF AloneOnItsWay
      <4>2. ink' = PRESETS[ask[r]].inks /\ alone' = alone
        BY <3>1, <3>5, <4>1
      <4>3. LastIsWhole'
        BY <2>a, <3>1, <4>1, <4>2 DEF LastIsWhole, Whole
      <4>4. AloneOnItsWay'
        BY <1>a, <2>a, <2>c, <3>1, <3>2, <4>2 DEF AloneOnItsWay, ModeStages
      <4>5. QED
        BY <2>b, <3>3, <4>2, <4>3, <4>4 DEF ModeInv
    <3>6. QED
      BY <3>4, <3>5
  <2>6. QED
    BY <1>5, <2>1, <2>2, <2>3, <2>4, <2>5 DEF ModeThread
<1>6. ASSUME NEW performed \in BOOLEAN, PrintExpCloses(performed) PROVE ModeInv'
  BY <1>2, <1>6, <1>a DEF PrintExpCloses, LastIsDone
<1>7. CASE PrintExpStarts
  <2>1. ~up /\ UNCHANGED <<ask, stage, ini, pid, alone, last>>
    BY <1>7 DEF PrintExpStarts
  <2>2. Applying' = Applying
    BY <2>1 DEF Applying
  <2>3. last \notin alone /\ \A r \in alone : stage[r] # "disabling"
    BY <1>a, <2>1 DEF LastIsWhole, AloneOnItsWay
  <2>4. LastIsDone' /\ AloneIsAsked' /\ AloneIsOnly'
    BY <1>a, <2>1, <2>2 DEF LastIsDone, AloneIsAsked, AloneIsOnly
  <2>5. LastIsWhole' /\ AloneOnItsWay'
    BY <1>a, <2>1, <2>3 DEF LastIsWhole, AloneOnItsWay
  <2>6. QED
    BY <2>4, <2>5 DEF ModeInv
<1>8. ASSUME NEW performed \in BOOLEAN, Crash(performed) PROVE ModeInv'
  <2>1. /\ stage' = [r \in Requests |-> IF stage[r] = "new" THEN "new" ELSE "done"]
        /\ alone' = IF Applying = {} THEN alone ELSE {}
        /\ UNCHANGED <<ask, ini, pid, ink, last, up, epoch>>
    BY <1>8 DEF Crash
  <2>2. LastIsDone'
    BY <1>a, <2>1 DEF LastIsDone
  <2>3. CASE Applying = {}
    <3>1. ModesRest
      BY <2>1, <2>3 DEF ModesRest, Applying
    <3>2. QED
      BY <1>1, <2>1, <2>2, <2>3, <3>1
  <2>4. CASE Applying # {}
    BY <1>2, <2>1, <2>2, <2>4
  <2>5. QED
    BY <2>3, <2>4
<1>9. QED
  BY <1>3, <1>4, <1>5, <1>6, <1>7, <1>8

LEMMA OriginStep == CoreInv /\ OriginInv /\ [Next]_vars => OriginInv'
<1> SUFFICES ASSUME CoreInv, OriginInv, [Next]_vars, ~met', crashes' = 0, ~refused'
             PROVE  /\ \A r, s \in Applying' : r = s
                    /\ ini'.origin = "own" /\ \A r \in Requests : keeps'[r] = "own"
                    /\ ini'.whole \/ \E r \in Applying' : stage'[r] = "flushing"
  BY DEF OriginInv
<1>a. TypeOK /\ crashes \in Nat /\ met \in BOOLEAN /\ refused \in BOOLEAN
  BY ConstantFacts DEF CoreInv, TypeOK
<1>b. ASSUME ~met, crashes = 0, ~refused
      PROVE  /\ \A r, s \in Applying : r = s
             /\ ini.origin = "own" /\ \A r \in Requests : keeps[r] = "own"
             /\ ini.whole \/ \E r \in Applying : stage[r] = "flushing"
  BY <1>b DEF OriginInv
<1> USE DEF operator, command, mode, printexp
<1>1. CASE /\ ~\E r \in Requests : ModeThread(r) \/ \E w \in Presets : Arrive(r, w)
           /\ ~\E performed \in BOOLEAN : PrintExpCloses(performed) \/ Crash(performed)
           /\ ~PrintExpStarts
  <2>1. ModesRest /\ UNCHANGED <<ini, keeps, met, refused, crashes>>
    BY <1>1, ModesAlone
  <2>2. Applying' = Applying /\ \A r \in Applying : stage'[r] = stage[r]
    BY <2>1, ApplyingRests
  <2>3. QED
    BY <1>b, <2>1, <2>2
<1>2. ASSUME NEW r \in Requests, NEW w \in Presets, Arrive(r, w)
      PROVE  /\ \A p, s \in Applying' : p = s
             /\ ini'.origin = "own" /\ \A s \in Requests : keeps'[s] = "own"
             /\ ini'.whole \/ \E s \in Applying' : stage'[s] = "flushing"
  <2>1. /\ ask' = [ask EXCEPT ![r] = w] /\ stage' = [stage EXCEPT ![r] = First(w)]
        /\ met' = (met \/ Applying # {}) /\ UNCHANGED <<ini, keeps, refused, crashes>>
    BY <1>2 DEF Arrive, Moves
  <2>2. Applying = {} /\ ~met
    BY <2>1, <1>a
  <2>3. \A q \in Requests : q # r => ask'[q] = ask[q] /\ stage'[q] = stage[q]
    BY <1>a, <2>1 DEF TypeOK
  <2>4. Applying' \subseteq {r}
    BY <2>2, <2>3 DEF Applying
  <2>5. QED
    BY <1>b, <2>1, <2>2, <2>4
<1>3. ASSUME NEW r \in Requests, ModeThread(r)
      PROVE  /\ \A p, s \in Applying' : p = s
             /\ ini'.origin = "own" /\ \A s \in Requests : keeps'[s] = "own"
             /\ ini'.whole \/ \E s \in Applying' : stage'[s] = "flushing"
  <2>1. UNCHANGED <<met, crashes>> /\ ~refused
    <3>1. UNCHANGED <<met, crashes>>
      BY <1>3 DEF ModeThread, ReadIni, Truncate, Flush, EnableInks, DisableInks
    <3>2. refused' = refused \/ refused' = TRUE
      BY <1>3, Zenon DEF ModeThread, ReadIni, Truncate, Flush, EnableInks, DisableInks
    <3>3. ~refused
      BY <3>2, Zenon
    <3>4. QED
      BY <3>1, <3>3
  <2>2. /\ r \in Applying /\ Applying' \subseteq Applying
        /\ r \in Applying' <=> stage'[r] # "done"
    BY <1>3, ModeMoves
  <2>3. /\ \A p, s \in Applying : p = s
        /\ ini.origin = "own" /\ \A q \in Requests : keeps[q] = "own"
        /\ stage[r] # "flushing" => ini.whole
    BY <1>b, <2>1, <2>2
  <2>4. CASE ReadIni(r)
    <3>1. stage[r] = "reading" /\ keeps' = [keeps EXCEPT ![r] = FoundOrigin] /\ UNCHANGED ini
      BY <2>4, Zenon DEF ReadIni
    <3>2. FoundOrigin = "own"
      BY <2>3, <3>1 DEF FoundOrigin
    <3>3. \A q \in Requests : keeps'[q] = "own"
      BY <1>a, <2>3, <3>1, <3>2 DEF TypeOK
    <3>4. QED
      BY <2>2, <2>3, <3>1, <3>3
  <2>5. CASE Truncate(r)
    <3>1. /\ stage[r] = "truncating" /\ UNCHANGED keeps
          /\ \/ ini' = [ini EXCEPT !.whole = FALSE] /\ Moves(r, "flushing")
             \/ UNCHANGED ini
      BY <2>5 DEF Truncate
    <3>2. CASE UNCHANGED ini
      BY <2>2, <2>3, <3>1, <3>2
    <3>3. CASE ini' = [ini EXCEPT !.whole = FALSE] /\ Moves(r, "flushing")
      <4>1. ini'.origin = ini.origin /\ stage'[r] = "flushing"
        BY <1>a, <3>3, MovesTyped DEF TypeOK, Stages
      <4>2. QED
        BY <2>2, <2>3, <3>1, <4>1
    <3>4. QED
      BY <3>1, <3>2, <3>3
  <2>6. CASE Flush(r)
    <3>0. /\ ini' = [whole |-> TRUE, origin |-> keeps[r], dir |-> PRESETS[ask[r]].dir]
          /\ UNCHANGED keeps
      BY <2>6, Zenon DEF Flush, Kept
    <3>1. ini'.whole /\ ini'.origin = keeps[r] /\ UNCHANGED keeps
      BY <3>0
    <3>2. QED
      BY <2>2, <2>3, <3>1
  <2>7. CASE EnableInks(r) \/ DisableInks(r)
    <3>1. stage[r] # "flushing" /\ UNCHANGED <<keeps, ini>>
      BY <2>7 DEF EnableInks, DisableInks
    <3>2. QED
      BY <2>2, <2>3, <3>1
  <2>8. QED
    BY <1>3, <2>4, <2>5, <2>6, <2>7 DEF ModeThread
<1>4. ASSUME NEW performed \in BOOLEAN, PrintExpCloses(performed)
      PROVE  UNCHANGED <<ask, stage, ini, keeps, met, refused, crashes>>
  BY <1>4 DEF PrintExpCloses
<1>5. ASSUME NEW performed \in BOOLEAN, Crash(performed) PROVE FALSE
  BY <1>5, <1>a DEF Crash
<1>6. CASE PrintExpStarts
  BY <1>6, <1>b DEF PrintExpStarts, Applying
<1>7. CASE UNCHANGED <<ask, stage, ini, keeps, met, refused, crashes>>
  BY <1>7, <1>b DEF Applying
<1>8. QED
  BY <1>1, <1>2, <1>3, <1>4, <1>5, <1>6, <1>7

\* Whatever other requests, closes of PrintExp and crashes come before and
\* after it: a mode that was alone from its request to its end, with no write
\* that failed, is in force as a whole.
THEOREM AloneIsWhole == Spec => []ModeIsWhole
<1>1. Spec => [](CoreInv /\ ModeInv)
  BY CoreInit, CoreStep, ModeInit, ModeStep, PTL DEF Spec
<1>2. ModeInv => ModeIsWhole
  BY DEF ModeInv, LastIsWhole, ModeIsWhole, Whole
<1>3. QED
  BY <1>1, <1>2, PTL

\* Nobody but two modes at the same time, a death of the agent, or a file that
\* could not be read or written loses the origin that the operator has set.
THEOREM OriginIsKept == Spec => []OriginLostNeedsCause
<1>1. Spec => [](CoreInv /\ OriginInv)
  BY CoreInit, CoreStep, ModeInit, OriginStep, PTL DEF Spec
<1>2. CoreInv /\ OriginInv => OriginLostNeedsCause
  <2> SUFFICES ASSUME CoreInv, OriginInv, ~met, ~(crashes > 0), ~refused, OriginLost PROVE FALSE
    BY DEF OriginLostNeedsCause
  <2>1. crashes = 0
    BY ConstantFacts DEF CoreInv, TypeOK
  <2>2. ini.origin = "own" /\ (ini.whole \/ \E r \in Applying : stage[r] = "flushing")
    BY <2>1, Zenon DEF OriginInv
  <2>3. QED
    BY <2>2 DEF OriginLost, Applying
<1>3. QED
  BY <1>1, <1>2, PTL
=============================================================================
