-------------------------- MODULE OperatorRequests --------------------------
(***************************************************************************)
(* What an operator asks, through the dashboard, of the agent of a UV or   *)
(* DTF printer: a command, (UV) a print mode, or its status.  Each request *)
(* runs in a worker thread of the agent; the dashboard waits for it, but   *)
(* not for ever.                                                           *)
(*                                                                         *)
(* A command goes through a pipe to a control DLL in PrintExp, and if that *)
(* gives no answer, as a button message to the window of PrintExp.  A mode *)
(* is a file that is read and written again, and a number of writes into   *)
(* the memory of PrintExp.  Nothing keeps two requests apart.              *)
(***************************************************************************)
EXTENDS Integers, FiniteSets

CONSTANTS
    Requests,     \* requests of operators
    Presets,      \* the names of the modes the operators use
    Nothing,      \* no request, no window (None)
    Lookalikes,   \* windows of others with "PrintExp" in their titles
    MaxCloses,    \* how often PrintExp is closed
    MaxCrashes    \* how often the agent dies

Groups == {"color", "white", "varnish"}   \* of ink channels

Way(dir, inks) == [dir |-> dir, inks |-> inks]

\* Direction with mirroring, and the groups whose ink is on.
PRESETS ==
    [forward_color              |-> Way("forward", {"color"}),
     forward_white              |-> Way("forward", {"color", "white"}),
     forward_varnish            |-> Way("forward", {"color", "varnish"}),
     forward_white_varnish      |-> Way("forward", Groups),
     forward_mirror_color       |-> Way("mirror", {"color"}),
     forward_mirror_white       |-> Way("mirror", {"color", "white"}),
     forward_mirror_white_varnish |-> Way("mirror", Groups),
     reverse_color              |-> Way("reverse", {"color"}),
     reverse_white              |-> Way("reverse", {"color", "white"}),
     reverse_white_varnish      |-> Way("reverse", Groups),
     white_only                 |-> Way("forward", {"white"}),
     varnish_only               |-> Way("forward", {"varnish"})]

ASSUME PresetsAssumption == Presets \subseteq DOMAIN PRESETS
ASSUME NothingAssumption == Nothing \notin Requests \cup Nat
ASSUME LookalikesAssumption == Lookalikes \cap (Nat \cup {Nothing}) = {}
ASSUME BoundAssumption   == {MaxCloses, MaxCrashes} \subseteq Nat

\* One command for each way a name can be known: to the pipe, to the map of
\* buttons, to both; and the one that is special.
PipeNames   == {"pause", "print"}
ButtonNames == {"pause", "move_left"}
Commands    == PipeNames \cup ButtonNames \cup {"resume"}

Wishes == Commands \cup Presets \cup {"status"}

VARIABLES
    ask,          \* what each request wants
    stage,        \* where its thread stands
    reply,        \* what the operator is told
    answer,       \* what the pipe client returned; "none" for None
    hwnd,         \* _hwnd, the cached window: an epoch of PrintExp, or a lookalike
    target,       \* the window to which each request was to be posted
    line,         \* the request whose pipe is open
    keeps,        \* x_dir and origin as each request read them
    ini,          \* DebugParam.ini
    refused,      \* it could not be read, or its text not be written, once
    pid,          \* the PrintExp each request has opened
    up, epoch,    \* PrintExp is running, and for the how many-th time
    listening,    \* the control DLL serves its pipe
    inbox,        \* messages posted to the window and not handled
    done,         \* how often PrintExp has executed each request
    ink,          \* groups that are on in the tasks of PrintExp
    alone,        \* modes that nothing disturbed since they were asked for
    met,          \* two modes have been applied at the same time
    last,         \* the last mode that was applied to its end
    closes, crashes

operator == <<ask, stage, reply>>
command  == <<answer, hwnd, target, line, inbox, done>>
mode     == <<keeps, ini, refused, pid, ink, alone, met, last>>
printexp == <<up, epoch, listening>>
vars     == <<operator, command, mode, printexp, closes, crashes>>

Stages == {"new", "opening", "piping", "posting", "reading", "truncating",
           "flushing", "enabling", "disabling", "done"}
Windows == (0 .. MaxCloses) \cup Lookalikes \cup {Nothing}
Origin == {"own", "default"}   \* X_PRINT_DIR and ORIGIN_POS

TypeOK ==
    /\ ask \in [Requests -> Wishes \cup {Nothing}]
    /\ stage \in [Requests -> Stages]
    /\ reply \in [Requests -> {"none", "ok", "failed"}]
    /\ answer \in [Requests -> {"none", "success", "failure", "error"}]
    /\ hwnd \in Windows /\ target \in [Requests -> Windows]
    /\ line \in Requests \cup {Nothing}
    /\ line # Nothing => stage[line] = "piping" /\ listening
    /\ inbox # {} => up
    /\ inbox \subseteq Requests
    /\ done \in [Requests -> 0 .. 2]
    /\ keeps \in [Requests -> Origin]
    /\ ini \in [whole : BOOLEAN, origin : Origin, dir : {"forward", "mirror", "reverse"}]
    /\ pid \in [Requests -> 0 .. MaxCloses]
    /\ ink \subseteq Groups
    /\ {up, listening, met, refused} \subseteq BOOLEAN /\ alone \subseteq Requests
    /\ listening => up
    /\ last \in Requests \cup {Nothing}
    /\ epoch \in 0 .. MaxCloses /\ closes \in 0 .. MaxCloses /\ crashes \in 0 .. MaxCrashes

Init ==
    /\ ask = [r \in Requests |-> Nothing]
    /\ stage = [r \in Requests |-> "new"]
    /\ reply = [r \in Requests |-> "none"]
    /\ answer = [r \in Requests |-> "none"]
    /\ hwnd = Nothing /\ target = [r \in Requests |-> Nothing]
    /\ line = Nothing
    /\ inbox = {}
    /\ done = [r \in Requests |-> 0]
    /\ keeps = [r \in Requests |-> "own"]
    /\ ini = [whole |-> TRUE, origin |-> "own", dir |-> "forward"]
    /\ pid = [r \in Requests |-> 0]
    /\ ink = Groups
    /\ alone = {}
    /\ met = FALSE /\ refused = FALSE
    /\ last = Nothing
    /\ up = TRUE /\ epoch = 0 /\ listening = TRUE
    /\ closes = 0 /\ crashes = 0
-----------------------------------------------------------------------------
Moves(r, s) == stage' = [stage EXCEPT ![r] = s]

\* What the agent answers reaches the operator if the dashboard still waits.
Replies(r, ok) ==
    /\ Moves(r, "done")
    /\ reply' = [reply EXCEPT ![r] = IF @ # "none" THEN @ ELSE IF ok THEN "ok" ELSE "failed"]

\* The modes that are being applied.
Applying == {r \in Requests : ask[r] \in Presets /\ stage[r] \notin {"new", "done"}}

First(w) ==
    CASE w \in PipeNames \cup {"resume", "status"} -> "opening"
      [] w \in Presets -> "reading"
      [] OTHER -> "posting"

\* POST /control/{command}, POST /print-mode or GET /status at the agent.
Arrive(r, w) ==
    /\ stage[r] = "new"
    /\ ask' = [ask EXCEPT ![r] = w]
    /\ Moves(r, First(w))
    /\ IF w \in Presets
       THEN /\ alone' = IF Applying = {} THEN alone \cup {r} ELSE {}
            /\ met' = (met \/ Applying # {})
       ELSE UNCHANGED <<alone, met>>
    /\ UNCHANGED <<reply, command, keeps, ini, refused, pid, ink, last, printexp, closes, crashes>>

\* The dashboard tells the operator that the agent did not accept it, while
\* the thread in the agent goes on.
GivesUp(r) ==
    /\ stage[r] # "new"
    /\ reply[r] = "none"
    /\ reply' = [reply EXCEPT ![r] = "failed"]
    /\ UNCHANGED <<ask, stage, command, mode, printexp, closes, crashes>>

\* The limits of its clients: ten seconds or less, and fifteen for a mode.
ControlTimesOut(r) == ask[r] \notin Presets /\ GivesUp(r)
ModeTimesOut(r)    == ask[r] \in Presets /\ GivesUp(r)
-----------------------------------------------------------------------------
(***************************************************************************)
(* Commands.                                                               *)
(***************************************************************************)

\* Mutant: any answer but success leads to the window.
GoesToWindowUnlessDone(w, a) == w \in PipeNames /\ a # "success"

\* A pipe that answered, even with a failure, ends the request; without an
\* answer, or with an "error", all but "resume" and "status" go on to the
\* window.
GoesToWindow(w, a) == w \in PipeNames /\ a \in {"none", "error"}

\* There is always a status: without the pipe it says less.
Succeeds(w, a) == a = "success" \/ w = "status"

\* Mutant: any answer counts as success.
ReturnedAnything(r, a) ==
    /\ answer' = [answer EXCEPT ![r] = a]
    /\ IF GoesToWindow(ask[r], a)
       THEN Moves(r, "posting") /\ UNCHANGED reply
       ELSE Replies(r, a # "none")

\* The pipe client has returned.
Returned(r, a) ==
    /\ answer' = [answer EXCEPT ![r] = a]
    /\ IF GoesToWindow(ask[r], a)
       THEN Moves(r, "posting") /\ UNCHANGED reply
       ELSE Replies(r, Succeeds(ask[r], a))

\* Mutant: the client waits for a busy pipe.
OpenPipeWaits(r) ==
    /\ stage[r] = "opening"
    /\ line = Nothing
    /\ IF listening
       THEN /\ line' = r
            /\ Moves(r, "piping")
            /\ UNCHANGED <<reply, answer>>
       ELSE /\ Returned(r, "none")
            /\ UNCHANGED line
    /\ UNCHANGED <<ask, hwnd, target, inbox, done, mode, printexp, closes, crashes>>

\* Mutant: the handle is not compared with INVALID_HANDLE_VALUE.
OpenPipeBlind(r) ==
    /\ stage[r] = "opening"
    /\ line = Nothing
    /\ line' = r
    /\ Moves(r, "piping")
    /\ UNCHANGED <<ask, reply, answer, hwnd, target, inbox, done, mode, printexp, closes, crashes>>

\* CreateFile: the DLL serves one client at a time, and a busy pipe is for
\* the client no different from one that does not exist.
OpenPipe(r) ==
    /\ stage[r] = "opening"
    /\ IF listening /\ line = Nothing
       THEN /\ line' = r
            /\ Moves(r, "piping")
            /\ UNCHANGED <<reply, answer>>
       ELSE /\ Returned(r, "none")
            /\ UNCHANGED line
    /\ UNCHANGED <<ask, hwnd, target, inbox, done, mode, printexp, closes, crashes>>

Execute(S) == done' = [r \in Requests |-> IF r \in S THEN done[r] + 1 ELSE done[r]]

\* The DLL answers, perhaps with a text that is no answer ("none").  What it
\* did in the case of an error or such a text is not known.
DllAnswers(r, a, performed) ==
    /\ line = r
    /\ a = "success" => performed
    /\ Execute(IF performed THEN {r} ELSE {})
    /\ line' = Nothing
    /\ Returned(r, a)
    /\ UNCHANGED <<ask, hwnd, target, inbox, mode, printexp, closes, crashes>>

\* The pipe breaks, as PrintExp is gone: ReadFile fails.
PipeBreaks(r) ==
    /\ stage[r] = "piping"
    /\ line # r
    /\ Returned(r, "none")
    /\ UNCHANGED <<ask, hwnd, target, line, inbox, done, mode, printexp, closes, crashes>>

\* The windows the agent may post to: the one it knows, or the first with
\* "PrintExp" in its title.
Found ==
    IF hwnd # Nothing THEN {hwnd} ELSE Lookalikes \cup {IF up THEN epoch ELSE Nothing}

\* send_named: fails with a KeyError, without a window, or when the message is
\* refused.  A message for a handle that is not, or no longer, PrintExp's may
\* reach another window.
PostButton(r) ==
    /\ stage[r] = "posting"
    /\ \E w \in Found :
          /\ IF ask[r] \in ButtonNames
             THEN hwnd' = w /\ target' = [target EXCEPT ![r] = w]
             ELSE UNCHANGED <<hwnd, target>>
          /\ \/ Replies(r, FALSE) /\ UNCHANGED inbox
             \/ /\ ask[r] \in ButtonNames /\ w # Nothing
                /\ Replies(r, TRUE)
                /\ inbox' = IF up /\ w = epoch THEN inbox \cup {r} ELSE inbox
    /\ UNCHANGED <<ask, answer, line, done, mode, printexp, closes, crashes>>
-----------------------------------------------------------------------------
(***************************************************************************)
(* Print modes.                                                            *)
(***************************************************************************)

\* What ConfigParser finds: the fallbacks in a file that is empty.
FoundOrigin == IF ini.whole THEN ini.origin ELSE "default"

\* _write_debug_param reads what it is to preserve; a file that cannot be
\* opened is skipped, and the fallbacks are taken ...
ReadIni(r) ==
    /\ stage[r] = "reading"
    /\ \/ /\ keeps' = [keeps EXCEPT ![r] = FoundOrigin]
          /\ UNCHANGED refused
       \/ /\ keeps' = [keeps EXCEPT ![r] = "default"]
          /\ refused' = TRUE
    /\ Moves(r, "truncating")
    /\ UNCHANGED <<ask, reply, command, ini, pid, ink, alone, met, last, printexp,
                   closes, crashes>>

\* ... opens the file for writing, which empties it or fails ...
Truncate(r) ==
    /\ stage[r] = "truncating"
    /\ \/ /\ ini' = [ini EXCEPT !.whole = FALSE]
          /\ Moves(r, "flushing")
          /\ UNCHANGED reply
       \/ /\ Replies(r, FALSE)
          /\ UNCHANGED ini
    /\ UNCHANGED <<ask, command, keeps, refused, pid, ink, alone, met, last, printexp,
                   closes, crashes>>

\* Mutant: the old settings are read when the file is already empty.
KeptLate(r) == FoundOrigin

\* What is written back.
Kept(r) == keeps[r]

\* ... and closes it, which writes the text or fails.
Flush(r) ==
    /\ stage[r] = "flushing"
    /\ \/ /\ ini' = [whole |-> TRUE, origin |-> Kept(r), dir |-> PRESETS[ask[r]].dir]
          /\ Moves(r, "enabling")
          /\ UNCHANGED <<reply, refused, alone>>
       \/ /\ Replies(r, FALSE)
          /\ refused' = TRUE
          /\ alone' = {}
          /\ UNCHANGED ini
    /\ UNCHANGED <<ask, command, keeps, pid, ink, met, last, printexp, closes, crashes>>

\* _apply_ink_channels finds PrintExp and switches the inks of the mode on in
\* every task, unless a write fails.  If PrintExp does not run or cannot be
\* opened, or has no task, the request succeeds all the same.
EnableInks(r) ==
    /\ stage[r] = "enabling"
    /\ \/ /\ up
          /\ \E inks \in SUBSET PRESETS[ask[r]].inks :
                /\ ink' = ink \cup inks
                /\ alone' = IF inks = PRESETS[ask[r]].inks THEN alone ELSE {}
          /\ pid' = [pid EXCEPT ![r] = epoch]
          /\ Moves(r, "disabling")
          /\ UNCHANGED reply
       \/ /\ Replies(r, TRUE)
          /\ alone' = {}
          /\ UNCHANGED <<ink, pid>>
    /\ UNCHANGED <<ask, command, keeps, ini, refused, met, last, printexp, closes, crashes>>

\* Mutant: inks that are not in the mode stay as they are.
InksLeft(r) == ink

InksOf(r) == ink \cap PRESETS[ask[r]].inks

\* The others are switched off, unless a write fails: as every one does when
\* the PrintExp that was opened is gone.
DisableInks(r) ==
    /\ stage[r] = "disabling"
    /\ \/ /\ up /\ pid[r] = epoch
          /\ ink' = InksOf(r)
          /\ UNCHANGED alone
       \/ /\ up /\ pid[r] = epoch
          /\ \E inks \in SUBSET (ink \ PRESETS[ask[r]].inks) : ink' = ink \ inks
          /\ alone' = {}
       \/ /\ ~(up /\ pid[r] = epoch)
          /\ UNCHANGED <<ink, alone>>
    /\ last' = r
    /\ Replies(r, TRUE)
    /\ UNCHANGED <<ask, command, keeps, ini, refused, pid, met, printexp, closes, crashes>>
-----------------------------------------------------------------------------
(***************************************************************************)
(* PrintExp, its control DLL, and crashes of the agent.                    *)
(***************************************************************************)

HandleMessage(r) ==
    /\ r \in inbox
    /\ Execute({r})
    /\ inbox' = inbox \ {r}
    /\ UNCHANGED <<operator, answer, hwnd, target, line, mode, printexp, closes, crashes>>

\* The DLL may have executed the command it has just read.
PrintExpCloses(performed) ==
    /\ up
    /\ closes < MaxCloses
    /\ performed => line # Nothing
    /\ closes' = closes + 1
    /\ up' = FALSE
    /\ listening' = FALSE
    /\ Execute(IF performed THEN {line} ELSE {})
    /\ line' = Nothing
    /\ inbox' = {}
    /\ alone' = {}
    /\ UNCHANGED <<operator, answer, hwnd, target, keeps, ini, refused, pid, ink, met, last,
                   epoch, crashes>>

PrintExpStarts ==
    /\ ~up
    /\ up' = TRUE
    /\ epoch' = epoch + 1
    /\ ink' = Groups
    /\ UNCHANGED <<operator, command, keeps, ini, refused, pid, alone, met, last, listening,
                   closes, crashes>>

ControlIsLoaded ==
    /\ up /\ ~listening
    /\ listening' = TRUE
    /\ UNCHANGED <<operator, command, mode, up, epoch, closes, crashes>>

\* The agent dies with its threads and is started again.
Crash(performed) ==
    /\ crashes < MaxCrashes
    /\ performed => line # Nothing
    /\ crashes' = crashes + 1
    /\ stage' = [r \in Requests |-> IF stage[r] = "new" THEN "new" ELSE "done"]
    /\ reply' = [r \in Requests |->
                    IF stage[r] = "new" \/ reply[r] # "none" THEN reply[r] ELSE "failed"]
    /\ Execute(IF performed THEN {line} ELSE {})
    /\ line' = Nothing
    /\ hwnd' = Nothing
    /\ alone' = IF Applying = {} THEN alone ELSE {}
    /\ UNCHANGED <<ask, answer, target, inbox, keeps, ini, refused, pid, ink, met, last,
                   printexp, closes>>
-----------------------------------------------------------------------------
\* What the worker thread of a request does next.
Thread(r) ==
    \/ OpenPipe(r) \/ PipeBreaks(r)
    \/ ReadIni(r) \/ Truncate(r) \/ Flush(r) \/ EnableInks(r) \/ DisableInks(r)

Next ==
    \/ \E r \in Requests :
          \/ \E w \in Wishes : Arrive(r, w)
          \/ ControlTimesOut(r) \/ ModeTimesOut(r)
          \/ Thread(r) \/ PostButton(r)
          \/ \E a \in {"success", "failure", "error", "none"}, performed \in BOOLEAN :
                DllAnswers(r, a, performed)
          \/ HandleMessage(r)
    \/ \E performed \in BOOLEAN : PrintExpCloses(performed) \/ Crash(performed)
    \/ PrintExpStarts
    \/ ControlIsLoaded

\* Worker threads run, and the dashboard gives up.  The DLL may hang, and the
\* event loop of the agent, without which nobody goes on from the pipe to the
\* window, may serve nobody: an idle dispatch loop never awaits.
Spec ==
    /\ Init /\ [][Next]_vars
    /\ \A r \in Requests : WF_vars(Thread(r)) /\ WF_vars(GivesUp(r))
-----------------------------------------------------------------------------
\* PrintExp executes a command a second time only if the pipe had given no
\* answer or an error for it (send_command posts the button in that case,
\* although the DLL may have done its work).
TwiceNeedsLostAnswer ==
    \A r \in Requests : done[r] > 1 => stage[r] = "done" /\ answer[r] \in {"none", "error"}

\* A command reported as done is done, if it was the pipe that answered.  If
\* not, it is done, or waits in the queue of the window, or was posted to a
\* window that is not PrintExp's or has been closed (api.send_control passes
\* on the result).
OkMeansDelivered ==
    \A r \in Requests :
        ask[r] \in Commands /\ reply[r] = "ok" =>
            \/ done[r] > 0
            \/ /\ answer[r] # "success"
               /\ r \in inbox \/ target[r] \in Lookalikes \cup 0 .. closes - 1

\* A mode that nothing disturbed is in force as a whole: direction from the
\* file, inks from the memory, and nothing left of the mode before it.
ModeIsWhole ==
    last \in alone /\ Applying = {} =>
        ini.dir = PRESETS[ask[last]].dir /\ ink = PRESETS[ask[last]].inks

\* The settings a mode is to preserve are overwritten, or gone with the text
\* of the file, only if two modes were applied at the same time, the agent
\* died in between, or the file could not be read or written at that time
\* (_write_debug_param: "Read existing to preserve x_dir and origin").
OriginLost ==
    ini.origin = "default" \/ (~ini.whole /\ \A r \in Requests : stage[r] # "flushing")

OriginLostNeedsCause == OriginLost => met \/ crashes > 0 \/ refused

\* The event loop of the agent sends every command that comes back from the
\* pipe on to the window.
LoopServes == \A r \in Requests : []<>(stage[r] # "posting")

\* A request that is not itself waiting for an answer of the DLL comes to its
\* end, whoever else waits for one, unless the event loop stops serving; and
\* even then every operator is told something.
OthersGoOnIfServed ==
    \A r \in Requests :
        /\ LoopServes => []<>(stage[r] \in {"new", "done"} \/ line = r)
        /\ []<>(stage[r] = "new" \/ reply[r] # "none")

\* WMCommandController: "Finds the PrintExp HWND by window title each time
\* (it changes on restart)".
FollowsTheWindow ==
    [][\A r \in Requests :
         stage[r] = "posting" /\ ask[r] \in ButtonNames /\ stage'[r] = "done" /\ up /\ crashes' = crashes
            => hwnd' = epoch]_vars
=============================================================================
