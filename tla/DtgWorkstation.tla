-------------------------- MODULE DtgWorkstation --------------------------
(***************************************************************************)
(* Injections into a DTG printer with two platens.  Each injection is a    *)
(* coroutine of the agent that selects a platen by writing a mask into the *)
(* memory of PrintExp, writes the name of the job beside it, streams the   *)
(* file and enables both platens again.  Every one of these calls runs in  *)
(* a thread of its own that the coroutine awaits, and nothing keeps two    *)
(* injections apart: they share mask, name and the cached address of the   *)
(* mask.  Nobody waits for PrintExp: it takes a job from its socket when   *)
(* it pleases, also after the restore.                                     *)
(***************************************************************************)
EXTENDS Integers, FiniteSets

CONSTANTS
    Jobs,          \* injections: POST /jobs and the dispatch loop
    NoWs,          \* no workstation asked for (None)
    Unnamed,       \* rip.prn, the name PrintExp has by itself
    Asked,         \* the workstations each of them may ask for
    MaxFaults,     \* calls of Windows and sends that fail although PrintExp runs
    MaxRestarts    \* restarts of PrintExp and of the agent

ASSUME JobsAssumption == IsFiniteSet(Jobs) /\ Unnamed \notin Jobs
ASSUME NoWsAssumption == NoWs \notin Nat
ASSUME BoundAssumption == {MaxFaults, MaxRestarts} \subseteq Nat

Platens == {0, 1}
Workstations == Platens \cup {2, NoWs}   \* 2 stands for every invalid index

ASSUME AskedAssumption == Asked \in [Jobs -> SUBSET Workstations]

Both == 3                                \* the mask that enables both

VARIABLES
    stage, ws,                \* the coroutine of each injection, and what it asked for
    wants, pid, addr,         \* its call of select_workstation: mask, process, target
    chosen, named, restored,  \* what came of its select, its patch and its restore
    transit,   \* jobs in the socket that PrintExp has not taken
    printed,   \* what PrintExp has taken: name, platen, and whether after the restore
    mask,      \* the objects in PrintExp that pass for the mask; "real" counts
    name,      \* the name in DeviceManager.dll
    up, epoch, \* PrintExp is running, and for the how many-th time
    cache,     \* _cjob_addr: the object it points to
    met,       \* for each job, the injections that were under way until it was taken
    faults, restarts

call     == <<wants, pid, addr>>
outcome  == <<chosen, named, restored>>
process  == <<up, epoch, restarts>>
vars == <<stage, ws, call, outcome, transit, printed, mask, name, process, cache, met, faults>>

Stages == {"new", "locating", "scanning", "checking", "aiming", "writing",
           "patching", "sending", "streaming", "sent", "done", "raised", "gone"}
Ended == {"done", "raised", "gone"}
Objects == {"real", "lookalike"}
Addresses == Objects \cup {"none", "stale"}
Taken == [name : Jobs \cup {Unnamed}, platen : Platens, late : BOOLEAN]

TypeOK ==
    /\ stage \in [Jobs -> Stages] /\ ws \in [Jobs -> Workstations]
    /\ wants \in [Jobs -> 0 .. Both] /\ pid \in [Jobs -> 0 .. MaxRestarts]
    /\ addr \in [Jobs -> Addresses] /\ cache \in Addresses
    /\ chosen \in [Jobs -> BOOLEAN] /\ named \in [Jobs -> BOOLEAN]
    /\ restored \in [Jobs -> {"no", "yes", "failed"}]
    /\ transit \subseteq Jobs
    /\ printed \in [Jobs -> SUBSET Taken]
    /\ mask \in [Objects -> 0 .. Both] /\ mask["real"] # 0
    /\ name \in Jobs \cup {Unnamed}
    /\ up \in BOOLEAN /\ epoch \in 0 .. MaxRestarts
    /\ met \in [Jobs -> SUBSET Jobs]
    /\ faults \in 0 .. MaxFaults /\ restarts \in 0 .. MaxRestarts

\* In some builds another object looks like the mask of both platens.
Init ==
    /\ stage = [j \in Jobs |-> "new"] /\ ws = [j \in Jobs |-> NoWs]
    /\ wants = [j \in Jobs |-> 0] /\ pid = [j \in Jobs |-> 0]
    /\ addr = [j \in Jobs |-> "none"] /\ cache = "none"
    /\ chosen = [j \in Jobs |-> FALSE] /\ named = [j \in Jobs |-> FALSE]
    /\ restored = [j \in Jobs |-> "no"]
    /\ transit = {} /\ printed = [j \in Jobs |-> {}]
    /\ \E m \in {0, Both} : mask = [o \in Objects |-> IF o = "real" THEN Both ELSE m]
    /\ name = Unnamed
    /\ up = TRUE /\ epoch = 0
    /\ met = [j \in Jobs |-> {}]
    /\ faults = 0 /\ restarts = 0
-----------------------------------------------------------------------------
Active == {j \in Jobs : stage[j] \notin Ended \cup {"new"}}

\* Mutant: the index is written as it is.
BitPlain(w) == w

\* The mask of one workstation, and the platens a mask enables.
Bit(w) == 2 ^ w
Enabled(m) == {w \in Platens : (m \div 2 ^ w) % 2 = 1}

\* The process that a thread opened by its pid is still there.
Reaches(j) == up /\ pid[j] = epoch

\* Something fails; if it need not have, that counts.
Fails(avoidable) ==
    /\ faults' = IF avoidable THEN faults + 1 ELSE faults
    /\ faults' <= MaxFaults

Moves(j, s) == stage' = [stage EXCEPT ![j] = s]

\* A thread is started for select_workstation, once the pid is known.
Calls(j, m) ==
    /\ Moves(j, "locating")
    /\ wants' = [wants EXCEPT ![j] = m]
    /\ pid' = [pid EXCEPT ![j] = epoch]
    /\ UNCHANGED addr

\* select_workstation returns: after the select comes the name, after the
\* restore nothing, whatever it returned.
Returns(j, ok) ==
    /\ wants' = [wants EXCEPT ![j] = 0]
    /\ pid' = [pid EXCEPT ![j] = 0]
    /\ addr' = [addr EXCEPT ![j] = "none"]
    /\ \/ /\ wants[j] = Both
          /\ Moves(j, "done")
          /\ restored' = [restored EXCEPT ![j] = IF ok THEN "yes" ELSE "failed"]
          /\ UNCHANGED <<chosen, named>>
       \/ /\ wants[j] # Both
          /\ Moves(j, "patching")
          /\ chosen' = [chosen EXCEPT ![j] = ok]
          /\ UNCHANGED <<named, restored>>
-----------------------------------------------------------------------------
(***************************************************************************)
(* inject_job: with a valid workstation and if the process is found,       *)
(* select it; else go straight on.                                         *)
(***************************************************************************)
Begin(j, w) ==
    /\ stage[j] = "new"
    /\ ws' = [ws EXCEPT ![j] = w]
    /\ \/ w \in Platens /\ up /\ Calls(j, Bit(w)) /\ UNCHANGED faults
       \/ Moves(j, "patching") /\ UNCHANGED call /\ Fails(w \in Platens /\ up)
    /\ met' = [k \in Jobs |-> IF k = j THEN Active
                              ELSE IF k \in Active \cup transit THEN met[k] \cup {j} ELSE met[k]]
    /\ UNCHANGED <<outcome, transit, printed, mask, name, process, cache>>

(***************************************************************************)
(* select_workstation, in its thread.  The cached address is looked at     *)
(* three times, and another thread may set it in between.                  *)
(***************************************************************************)

\* The process is opened, if that works, and the mask is looked for unless
\* its address is cached.
Locate(j) ==
    /\ stage[j] = "locating"
    /\ \/ /\ Reaches(j)
          /\ Moves(j, IF cache = "none" THEN "scanning" ELSE "checking")
          /\ UNCHANGED <<call, outcome, faults>>
       \/ Returns(j, FALSE) /\ Fails(Reaches(j))
    /\ UNCHANGED <<ws, transit, printed, mask, name, process, cache, met>>

\* _find_cjobprocess: what looks like a mask.
Candidates == {o \in Objects : mask[o] # 0}

\* The scan is over and its result is cached, over what is cached by now.  Any
\* candidate may be the one that passes the other tests, or none; a process
\* that has gone leaves an address of nothing.
Scan(j) ==
    /\ stage[j] = "scanning"
    /\ \/ cache' = "none" /\ Fails(Reaches(j))
       \/ cache' \in (IF Reaches(j) THEN Candidates ELSE {"stale"}) /\ UNCHANGED faults
    /\ Moves(j, "checking")
    /\ UNCHANGED <<ws, call, outcome, transit, printed, mask, name, process, met>>

\* `if self._cjob_addr is None: return False'.
Check(j) ==
    /\ stage[j] = "checking"
    /\ \/ cache = "none" /\ Returns(j, FALSE)
       \/ cache # "none" /\ Moves(j, "aiming") /\ UNCHANGED <<call, outcome>>
    /\ UNCHANGED <<ws, transit, printed, mask, name, process, cache, met, faults>>

\* The address is read once more; an offset cannot be added to None.
Aim(j) ==
    /\ stage[j] = "aiming"
    /\ \/ cache = "none" /\ Moves(j, "raised") /\ UNCHANGED addr
       \/ cache # "none" /\ Moves(j, "writing") /\ addr' = [addr EXCEPT ![j] = cache]
    /\ UNCHANGED <<ws, wants, pid, outcome, transit, printed, mask, name, process,
                   cache, met, faults>>

\* An address of an earlier PrintExp may be unmapped, belong to anything, or by
\* chance to a mask again.
Targets(a) == IF a = "stale" THEN Objects \cup {"other"} ELSE {a}

\* WriteProcessMemory, which may fail.
Write(j) ==
    /\ stage[j] = "writing"
    /\ \/ /\ Reaches(j)
          /\ \E o \in Targets(addr[j]) :
                mask' = IF o \in Objects THEN [mask EXCEPT ![o] = wants[j]] ELSE mask
          /\ Returns(j, TRUE) /\ UNCHANGED faults
       \/ Returns(j, FALSE) /\ UNCHANGED mask /\ Fails(Reaches(j))
    /\ UNCHANGED <<ws, transit, printed, name, process, cache, met>>
-----------------------------------------------------------------------------
\* Mutant: a name that is there already is left.
PatchedOnce(j) == IF name = Unnamed THEN j ELSE name

Patched(j) == j

\* _patch_job_name, whose failure is not fatal.
PatchName(j) ==
    /\ stage[j] = "patching"
    /\ \/ /\ up /\ name' = Patched(j)
          /\ named' = [named EXCEPT ![j] = TRUE]
          /\ UNCHANGED faults
       \/ UNCHANGED <<name, named>> /\ Fails(up)
    /\ Moves(j, "sending")
    /\ UNCHANGED <<ws, call, chosen, restored, transit, printed, mask, process, cache, met>>

\* The connection or the file fails: inject_job returns False from its except
\* clause.
Raises(j) == Moves(j, "raised") /\ Fails(up)

\* _send_prn: connected, the stream begins; an empty file sends nothing.
Stream(j) ==
    /\ stage[j] = "sending"
    /\ \/ /\ up /\ Moves(j, "streaming")
          /\ transit' \in {transit, transit \cup {j}}
          /\ UNCHANGED faults
       \/ Raises(j) /\ UNCHANGED transit
    /\ UNCHANGED <<ws, call, outcome, printed, mask, name, process, cache, met>>

\* ... and is over when its last chunk is in the socket.
StreamEnds(j) ==
    /\ stage[j] = "streaming"
    /\ \/ Moves(j, "sent") /\ UNCHANGED faults
       \/ Raises(j)
    /\ UNCHANGED <<ws, call, outcome, transit, printed, mask, name, process, cache, met>>

\* PrintExp takes the job under the present name on an enabled platen.
Take(j) ==
    /\ j \in transit /\ up
    /\ transit' = transit \ {j}
    /\ \E w \in Enabled(mask["real"]) :
          printed' = [printed EXCEPT
              ![j] = @ \cup {[name |-> name, platen |-> w, late |-> restored[j] = "yes"]}]
    /\ UNCHANGED <<stage, ws, call, outcome, mask, name, process, cache, met, faults>>
-----------------------------------------------------------------------------
\* Mutant: a job on the first platen does not restore.
RestoresIfSecond(j) == ws[j] \in {1, 2}

\* Whoever asked for a workstation restores, selected or not.
Restores(j) == ws[j] # NoWs

\* _restore_both_ws: the same call again, for both platens, if the process is
\* found.
Restore(j) ==
    /\ stage[j] = "sent"
    /\ \/ Restores(j) /\ up /\ Calls(j, Both) /\ UNCHANGED <<restored, faults>>
       \/ /\ Restores(j) /\ Moves(j, "done") /\ Fails(up) /\ UNCHANGED call
          /\ restored' = [restored EXCEPT ![j] = "failed"]
       \/ ~Restores(j) /\ Moves(j, "done") /\ UNCHANGED <<call, restored, faults>>
    /\ UNCHANGED <<ws, chosen, named, transit, printed, mask, name, process, cache, met>>
-----------------------------------------------------------------------------
\* PrintExp dies with what is in its socket; a new one has both platens enabled,
\* and its mask is at another address.
PrintExpDies ==
    /\ up /\ restarts < MaxRestarts
    /\ restarts' = restarts + 1
    /\ up' = FALSE
    /\ transit' = {}
    /\ UNCHANGED <<stage, ws, call, outcome, printed, mask, name, epoch, cache, met, faults>>

Outdated(a) == IF a = "none" THEN "none" ELSE "stale"

PrintExpStarts ==
    /\ ~up
    /\ up' = TRUE
    /\ epoch' = epoch + 1
    /\ mask' = [mask EXCEPT !["real"] = Both,
                            !["lookalike"] = IF @ = 0 THEN 0 ELSE Both]
    /\ name' = Unnamed
    /\ cache' = Outdated(cache)
    /\ addr' = [j \in Jobs |-> Outdated(addr[j])]
    /\ UNCHANGED <<stage, ws, wants, pid, outcome, transit, printed, restarts, met, faults>>

\* The agent is killed and started: its coroutines are gone, mask and socket
\* stay.
AgentRestarts ==
    /\ restarts < MaxRestarts
    /\ restarts' = restarts + 1
    /\ stage' = [j \in Jobs |-> IF j \in Active THEN "gone" ELSE stage[j]]
    /\ cache' = "none"
    /\ UNCHANGED <<ws, call, outcome, transit, printed, mask, name, up, epoch, met, faults>>

\* What threads do by themselves, and what begins when the event loop lets the
\* coroutine go on.
ThreadStep(j) == Locate(j) \/ Scan(j) \/ Check(j) \/ Aim(j) \/ Write(j) \/ StreamEnds(j)
Resumes(j) == PatchName(j) \/ Stream(j) \/ Restore(j)

Next ==
    \/ \E j \in Jobs : \E w \in Asked[j] : Begin(j, w)
    \/ \E j \in Jobs : ThreadStep(j) \/ Resumes(j) \/ Take(j)
    \/ PrintExpDies \/ PrintExpStarts
    \/ AgentRestarts

\* A thread comes to its end; nothing else must.
Spec == Init /\ [][Next]_vars /\ \A j \in Jobs : WF_vars(ThreadStep(j))
-----------------------------------------------------------------------------
\* The PrintExp of the start is still there, and there is one mask in it.
Undisturbed == up /\ epoch = 0 /\ mask["lookalike"] = 0

\* Its select worked; its restore is still to come, never will, or has failed.
Holds(j) == chosen[j] /\ (stage[j] = "done" => restored[j] = "failed")

\* A platen is disabled only while an injection that selected is under way, or
\* after one that broke off or whose restore failed (and nobody looks at its
\* result), after PrintExp restarted or if something else passed for the mask:
\* threads that overlap, and those that overwrite the cached address, never
\* leave it behind otherwise.
LockedOnlyByUnfinished ==
    mask["real"] # Both /\ Undisturbed => \E j \in Jobs : Holds(j)

\* A job whose selection was reported to work prints on another platen only if
\* PrintExp took it after its own restore, or another injection with a
\* workstation was under way before PrintExp took it, or PrintExp was restarted
\* or something else passed for the mask.
WrongPlatenNeedsCompany ==
    \A j \in Jobs : \A p \in printed[j] :
        (ws[j] \in Platens /\ chosen[j] /\ p.platen # ws[j])
            => \/ p.late
               \/ \E k \in met[j] : ws[k] # NoWs
               \/ ~Undisturbed

\* A job is printed under the name of another only if that one was under way
\* between the start of its injection and the moment PrintExp took it, or if its
\* own patch failed.
WrongNameNeedsCompany ==
    \A j \in Jobs : \A p \in printed[j] :
        p.name \in Jobs \ {j} => p.name \in met[j] \/ ~named[j]

\* A coroutine whose thread has ended goes on at last, which an idle dispatch
\* loop prevents.
LoopServes == \A j \in Jobs : []<>(stage[j] \notin {"patching", "sending", "sent"})

\* If the event loop serves everybody, a disabled platen comes back, unless an
\* injection breaks off, a restore fails, PrintExp restarts or something else
\* passes for the mask.
LockIsReleasedIfServed ==
    LoopServes =>
        (mask["real"] # Both
            ~> \/ mask["real"] = Both \/ ~Undisturbed
               \/ \E j \in Jobs : stage[j] \in {"raised", "gone"} \/ restored[j] = "failed")
=============================================================================
