-------------------------- MODULE JobDispatchProofs --------------------------
(***************************************************************************)
(* Proofs about JobDispatch, for any sets of jobs, agents and types and    *)
(* any bounds on the faults.                                               *)
(***************************************************************************)
EXTENDS JobDispatch, TLAPS

\* Requests and agents name rows that exist, so that what a handler loads is a
\* status; a POST under way has no row yet.
NamesRows ==
    /\ \A j \in posting : status[j] = "absent"
    /\ \A r \in patches : status[r.job] # "absent"
    /\ \A d \in deletes : status[d.job] # "absent"
    /\ \A a \in Agents : hold[a] \in Jobs => status[hold[a]] # "absent"

TypeInv == TypeOK /\ NamesRows

LEMMA UnreadIsNoStatus == Unread \notin JobStatus
  BY DEF Unread, JobStatus

\* Counting one more of something that agent a does to job j.
LEMMA CountTyped ==
  ASSUME NEW f \in [Agents -> [Jobs -> Nat]], NEW a \in Agents, NEW j \in Jobs
  PROVE  [f EXCEPT ![a][j] = @ + 1] \in [Agents -> [Jobs -> Nat]]
  OBVIOUS

LEMMA TypeInit == Init => TypeInv
  BY NoJobAssumption, BoundAssumption DEF Init, TypeInv, TypeOK, NamesRows

LEMMA TypeStep == TypeInv /\ [Next]_vars => TypeInv'
<1> SUFFICES ASSUME TypeInv, [Next]_vars PROVE TypeInv'
  OBVIOUS
<1> USE NoJobAssumption, NoPrinterAssumption
    DEF TypeInv, TypeOK, NamesRows, columns, stamps, network, agent, history, bounds,
        posts, Patch, Delete, JobStatus, Outcome, Unread
<1>0. ASSUME NEW j \in Jobs, NEW p \in Agents \cup {NoPrinter}, StampJob(j, p)
      PROVE  TypeInv'
  BY <1>0 DEF StampJob
<1>1. ASSUME NEW j \in Jobs, CreateJob(j)
      PROVE  TypeInv'
  BY <1>1 DEF CreateJob
<1>2. ASSUME NEW r \in patches, LoadForPatch(r)
      PROVE  TypeInv'
  <2>1. r \in Patch /\ status[r.job] \in JobStatus
    BY <1>2
  <2>2. [r EXCEPT !.seen = status[r.job]] \in Patch
    BY <2>1
  <2>3. [r EXCEPT !.seen = status[r.job]].job = r.job
    BY <2>1
  <2>4. QED
    BY <1>2, <2>2, <2>3 DEF LoadForPatch
<1>3. ASSUME NEW r \in patches, CommitPatch(r)
      PROVE  TypeInv'
  BY <1>3 DEF CommitPatch, Written
<1>4. ASSUME NEW j \in Jobs, SendCancel(j)
      PROVE  TypeInv'
  BY <1>4 DEF SendCancel
<1>5. ASSUME NEW d \in deletes, CheckCancel(d)
      PROVE  TypeInv'
  <2>1. d \in Delete /\ status[d.job] \in JobStatus
    BY <1>5
  <2>2. [d EXCEPT !.seen = status[d.job]] \in Delete
    BY <2>1
  <2>3. [d EXCEPT !.seen = status[d.job]].job = d.job
    BY <2>1
  <2>4. CASE status[d.job] \in {"failed", "cancelled"}
    BY <1>5, <2>4 DEF CheckCancel
  <2>5. CASE status[d.job] \notin {"failed", "cancelled"}
    <3>1. deletes' = (deletes \ {d}) \cup {[d EXCEPT !.seen = status[d.job]]}
      BY <1>5, <2>5 DEF CheckCancel
    <3>2. deletes' \subseteq Delete
      BY <2>2, <3>1
    <3>3. \A e \in deletes' : status[e.job] # "absent"
      BY <2>3, <3>1
    <3>4. QED
      BY <1>5, <3>2, <3>3 DEF CheckCancel
  <2>6. QED
    BY <2>4, <2>5
<1>6. ASSUME NEW d \in deletes, CommitCancel(d)
      PROVE  TypeInv'
  BY <1>6 DEF CommitCancel, Written
<1>7. ASSUME NEW a \in Agents, Register(a)
      PROVE  TypeInv'
  BY <1>7 DEF Register
<1>8. ASSUME NEW a \in Agents, NEW j \in Jobs, PickUp(a, j)
      PROVE  TypeInv'
  BY <1>8 DEF PickUp, NextJob, Matches, Send
<1>9. ASSUME NEW a \in Agents, PatchReturns(a)
      PROVE  TypeInv'
  <2>1. CASE StartInjection(a) /\ UNCHANGED hold
    <3>1. tries' \in [Agents -> [Jobs -> Nat]]
      BY <2>1, CountTyped DEF StartInjection
    <3>2. QED
      BY <1>9, <2>1, <3>1 DEF PatchReturns, StartInjection
  <2>2. CASE FinishJob(a) /\ UNCHANGED tries
    BY <1>9, <2>2 DEF PatchReturns, FinishJob
  <2>3. QED
    BY <1>9, <2>1, <2>2 DEF PatchReturns, Continue
<1>10. ASSUME NEW a \in Agents, PatchTimesOut(a)
       PROVE  TypeInv'
  <2>1. charged' \in [Agents -> [Jobs -> Nat]] /\ lost' \in Nat
    BY <1>10, CountTyped DEF PatchTimesOut, Charge, Outstanding, Waiting
  <2>2. CASE StartInjection(a) /\ UNCHANGED hold
    <3>1. tries' \in [Agents -> [Jobs -> Nat]]
      BY <2>2, CountTyped DEF StartInjection
    <3>2. QED
      BY <1>10, <2>1, <2>2, <3>1 DEF PatchTimesOut, StartInjection
  <2>3. CASE FinishJob(a) /\ UNCHANGED tries
    BY <1>10, <2>1, <2>3 DEF PatchTimesOut, FinishJob
  <2>4. QED
    BY <1>10, <2>2, <2>3 DEF PatchTimesOut, Continue
<1>11. ASSUME NEW a \in Agents, NEW r \in patches, LosePatch(a, r)
       PROVE  TypeInv'
  BY <1>11 DEF LosePatch, Charge, Outstanding, Waiting
<1>12. ASSUME NEW a \in Agents, NEW ok \in BOOLEAN, InjectReturns(a, ok)
       PROVE  TypeInv'
  BY <1>12 DEF InjectReturns, Send, Verdict
<1>13. ASSUME NEW a \in Agents, Crash(a)
       PROVE  TypeInv'
  <2>1. charged' \in [Agents -> [Jobs -> Nat]]
    <3>1. CASE pc[a] \in {"injecting", "reporting"}
      <4>1. hold[a] \in Jobs /\ charged \in [Agents -> [Jobs -> Nat]]
        BY <3>1
      <4>2. charged' = [charged EXCEPT ![a][hold[a]] = @ + 1]
        BY <1>13, <3>1 DEF Crash, Charge
      <4>3. QED
        BY <4>1, <4>2, CountTyped
    <3>2. CASE pc[a] \notin {"injecting", "reporting"}
      BY <1>13, <3>2 DEF Crash
    <3>3. QED
      BY <3>1, <3>2
  <2>2. vouched' \subseteq Jobs /\ crashes' \in Nat
    BY <1>13 DEF Crash
  <2>3. QED
    BY <1>13, <2>1, <2>2 DEF Crash
<1>14. CASE UNCHANGED vars
  BY <1>14 DEF vars
<1> HIDE DEF TypeInv
<1>15. QED
  BY <1>0, <1>1, <1>2, <1>3, <1>4, <1>5, <1>6, <1>7, <1>8, <1>9, <1>10, <1>11, <1>12, <1>13,
     <1>14 DEF Next, DashboardStep, AgentStep

LEMMA TypeInvariance == Spec => []TypeInv
  BY TypeInit, TypeStep, PTL DEF Spec

\* The type invariant holds for every set of jobs and agents.
THEOREM TypeCorrect == Spec => []TypeOK
<1>1. TypeInv => TypeOK
  BY DEF TypeInv
<1>2. QED
  BY <1>1, TypeInvariance, PTL
-----------------------------------------------------------------------------
(***************************************************************************)
(* Swallowed reports and repeated injections.                              *)
(*                                                                         *)
(* A job can be picked up while its row is still open.  Account says that  *)
(* an agent that leaves an open row behind has two charges per injection:  *)
(* a report that was not charged has been committed, and a committed       *)
(* report closes the row for good (SeenIsPast: even when the session wrote *)
(* nothing because it had loaded the status it was asked to store).        *)
(***************************************************************************)
Open(j) == status[j] \in {"absent", "pending"}

SeenIsPast ==
    \A r \in patches : r.seen \notin {Unread, "pending"} => ~Open(r.job)

\* The report an agent waits for is about the job it holds.
OwnReports ==
    \A r \in patches :
        /\ r.n <= attempt[r.by]
        /\ r.n = attempt[r.by] /\ pc[r.by] # "idle" => r.job = hold[r.by]

IdleHoldsNothing == \A a \in Agents : pc[a] = "idle" <=> hold[a] = NoJob

AccountOf(a, j) ==
    LET t == tries[a][j]
        c == charged[a][j]
    IN  /\ t > 0 => 2 * (t - 1) <= c
        /\ Open(j) /\ hold[a] # j => 2 * t <= c
        /\ hold[a] = j /\ pc[a] = "claiming" =>
              /\ 2 * t <= c
              /\ Open(j) /\ Outstanding(a) = {} => 2 * t + 1 <= c
        /\ hold[a] = j /\ pc[a] = "injecting" /\ Open(j) => 2 * t - 1 <= c
        /\ hold[a] = j /\ pc[a] = "reporting" /\ Open(j) =>
              /\ 2 * t - 1 <= c
              /\ Outstanding(a) = {} => 2 * t <= c

Account == \A a \in Agents, j \in Jobs : AccountOf(a, j)

ReinjectionInv == TypeInv /\ SeenIsPast /\ OwnReports /\ IdleHoldsNothing /\ Account

LEMMA ReinjectionInit == Init => ReinjectionInv
<1> SUFFICES ASSUME Init PROVE ReinjectionInv
  OBVIOUS
<1>1. TypeInv
  BY TypeInit
<1>2. SeenIsPast /\ OwnReports /\ IdleHoldsNothing
  BY NoJobAssumption DEF Init, SeenIsPast, OwnReports, IdleHoldsNothing
<1>3. Account
  BY NoJobAssumption DEF Init, Account, AccountOf
<1>4. QED
  BY <1>1, <1>2, <1>3 DEF ReinjectionInv

\* A step that leaves the requests and the agents alone.
LEMMA OutstandingKept ==
  ASSUME NEW a \in Agents,
         patches' = patches, pc'[a] = pc[a], attempt'[a] = attempt[a]
  PROVE  Outstanding(a)' = Outstanding(a)
  BY DEF Outstanding, Waiting

\* No step opens a row again.
LEMMA OpenShrinks ==
  ASSUME TypeInv, SeenIsPast, [Next]_vars, NEW j \in Jobs
  PROVE  Open(j)' => Open(j)
<1> USE DEF TypeInv, TypeOK, NamesRows, Open
<1>1. CASE \E k \in Jobs : CreateJob(k)
  BY <1>1 DEF CreateJob
<1>2. ASSUME NEW r \in patches, LoadForPatch(r) PROVE Open(j)' => Open(j)
  BY <1>2 DEF LoadForPatch
<1>3. ASSUME NEW r \in patches, CommitPatch(r) PROVE Open(j)' => Open(j)
  BY <1>3 DEF CommitPatch, Written, Patch, Outcome
<1>4. CASE \E k \in Jobs : SendCancel(k)
  BY <1>4 DEF SendCancel
<1>5. ASSUME NEW d \in deletes, CheckCancel(d) PROVE Open(j)' => Open(j)
  BY <1>5 DEF CheckCancel
<1>6. ASSUME NEW d \in deletes, CommitCancel(d) PROVE Open(j)' => Open(j)
  BY <1>6 DEF CommitCancel, Written
<1>7. ASSUME NEW a \in Agents, AgentStep(a) PROVE Open(j)' => Open(j)
  BY <1>7 DEF AgentStep, Register, PickUp, PatchReturns, PatchTimesOut, LosePatch,
              InjectReturns, Crash
<1>8. CASE UNCHANGED vars
  BY <1>8 DEF vars
<1> HIDE DEF TypeInv
<1>9. QED
  BY <1>1, <1>2, <1>3, <1>4, <1>5, <1>6, <1>7, <1>8 DEF Next, DashboardStep, StampJob, Open

\* A committed report closes its row, also when nothing was written.
LEMMA CommitCloses ==
  ASSUME TypeInv, SeenIsPast, NEW r \in patches, CommitPatch(r)
  PROVE  ~Open(r.job)'
<1>1. r \in Patch /\ r.job \in Jobs
  BY DEF TypeInv, TypeOK, Patch
<1>2. r.to \notin {"absent", "pending", Unread}
  BY <1>1 DEF Patch, Outcome, Unread
<1>3. status'[r.job] = Written(r.job, r.seen, r.to)
  BY <1>1 DEF CommitPatch, TypeInv, TypeOK
<1>4. CASE r.seen = r.to
  BY <1>2, <1>3, <1>4 DEF Written, SeenIsPast, Open
<1>5. CASE r.seen # r.to
  BY <1>2, <1>3, <1>5 DEF Written, Open
<1>6. QED
  BY <1>4, <1>5

LEMMA SeenIsPastStep ==
  TypeInv /\ SeenIsPast /\ [Next]_vars => SeenIsPast'
<1> SUFFICES ASSUME TypeInv, SeenIsPast, [Next]_vars,
                    NEW q \in patches', q.seen \notin {Unread, "pending"}
             PROVE  ~Open(q.job)'
  BY DEF SeenIsPast
<1>1. CASE q \in patches
  BY <1>1, OpenShrinks DEF SeenIsPast, TypeInv, TypeOK, Patch
<1>2. ASSUME NEW r \in patches, LoadForPatch(r), q \notin patches PROVE ~Open(q.job)'
  <2>1. r \in Patch /\ status[r.job] # "absent" /\ q = [r EXCEPT !.seen = status[r.job]]
    BY <1>2 DEF LoadForPatch, TypeInv, TypeOK, NamesRows
  <2>2. q.job = r.job /\ q.seen = status[r.job]
    BY <2>1 DEF Patch
  <2>3. QED
    BY <1>2, <2>1, <2>2 DEF LoadForPatch, Open
<1>3. ASSUME NEW a \in Agents, AgentStep(a), q \notin patches PROVE FALSE
  BY <1>3 DEF AgentStep, Register, PickUp, PatchReturns, PatchTimesOut, LosePatch,
              InjectReturns, Crash, network, Send
<1>4. QED
  BY <1>1, <1>2, <1>3 DEF Next, DashboardStep, StampJob, CreateJob, CommitPatch, SendCancel,
     CheckCancel, CommitCancel, vars, network

LEMMA IdleStep ==
  TypeInv /\ IdleHoldsNothing /\ [Next]_vars => IdleHoldsNothing'
<1> SUFFICES ASSUME TypeInv, IdleHoldsNothing, [Next]_vars PROVE IdleHoldsNothing'
  OBVIOUS
<1> USE NoJobAssumption DEF TypeInv, TypeOK, IdleHoldsNothing
<1>1. CASE UNCHANGED <<pc, hold>>
  BY <1>1
<1>2. ASSUME NEW a \in Agents, AgentStep(a) PROVE IdleHoldsNothing'
  BY <1>2 DEF AgentStep, Register, PickUp, PatchReturns, PatchTimesOut, LosePatch,
              InjectReturns, Crash, Continue, StartInjection, FinishJob, agent
<1> HIDE DEF IdleHoldsNothing, TypeInv
<1>3. QED
  BY <1>1, <1>2 DEF Next, DashboardStep, StampJob, CreateJob, LoadForPatch, CommitPatch, SendCancel,
     CheckCancel, CommitCancel, vars, agent

LEMMA OwnReportsStep ==
  TypeInv /\ OwnReports /\ [Next]_vars => OwnReports'
<1> SUFFICES ASSUME TypeInv, OwnReports, [Next]_vars PROVE OwnReports'
  OBVIOUS
<1> USE DEF TypeInv, TypeOK, OwnReports
<1>1. CASE UNCHANGED agent /\ patches' \subseteq patches
  BY <1>1 DEF agent
<1>2. ASSUME NEW r \in patches, LoadForPatch(r) PROVE OwnReports'
  <2>1. /\ r \in Patch
        /\ patches' = (patches \ {r}) \cup {[r EXCEPT !.seen = status[r.job]]}
    BY <1>2 DEF LoadForPatch
  <2>2. LET q == [r EXCEPT !.seen = status[r.job]]
        IN  q.by = r.by /\ q.n = r.n /\ q.job = r.job
    BY <2>1 DEF Patch
  <2>3. QED
    BY <1>2, <2>1, <2>2 DEF LoadForPatch, agent
<1>3. ASSUME NEW a \in Agents, AgentStep(a) PROVE OwnReports'
  <2>1. CASE Register(a)
    BY <2>1 DEF Register, network
  <2>2. ASSUME NEW k \in Jobs, PickUp(a, k) PROVE OwnReports'
    BY <2>2 DEF PickUp, Send, Patch
  <2>3. CASE PatchReturns(a)
    BY <2>3 DEF PatchReturns, Continue, StartInjection, FinishJob, network, Patch
  <2>4. CASE PatchTimesOut(a)
    BY <2>4 DEF PatchTimesOut, Continue, StartInjection, FinishJob, network, Patch
  <2>5. ASSUME NEW r \in patches, LosePatch(a, r) PROVE OwnReports'
    BY <2>5 DEF LosePatch, agent
  <2>6. ASSUME NEW ok \in BOOLEAN, InjectReturns(a, ok)
        PROVE OwnReports'
    BY <2>6 DEF InjectReturns, Send, Patch
  <2>7. ASSUME Crash(a) PROVE OwnReports'
    BY <2>7 DEF Crash, network, Patch
  <2> HIDE DEF OwnReports
  <2>8. QED
    BY <1>3, <2>1, <2>2, <2>3, <2>4, <2>5, <2>6, <2>7 DEF AgentStep
<1> HIDE DEF OwnReports
<1>4. QED
  BY <1>1, <1>2, <1>3 DEF Next, DashboardStep, StampJob, CreateJob, CommitPatch, SendCancel,
     CheckCancel, CommitCancel, vars, network

\* The report an agent has just sent is the one it waits for.
LEMMA SentIsOutstanding ==
  ASSUME NEW b \in Agents, NEW j, NEW to,
         patches' = patches \cup {[by |-> b, n |-> attempt'[b], job |-> j, to |-> to,
                                   seen |-> Unread]},
         \/ to = "injecting" /\ pc'[b] = "claiming"
         \/ to # "injecting" /\ pc'[b] = "reporting"
  PROVE  Outstanding(b)' # {}
<1> DEFINE q == [by |-> b, n |-> attempt'[b], job |-> j, to |-> to, seen |-> Unread]
<1>1. q \in patches' /\ q.by = b /\ q.n = attempt'[b] /\ q.to = to
  OBVIOUS
<1> HIDE DEF q
<1>2. pc'[b] \in {"claiming", "reporting"} /\ (to = "injecting" <=> pc'[b] = "claiming")
  OBVIOUS
<1>3. q \in Outstanding(b)'
  BY <1>1, <1>2 DEF Outstanding, Waiting
<1>4. QED
  BY <1>3

\* A report that is loaded stays the one its agent waits for.
LEMMA LoadedIsOutstanding ==
  ASSUME NEW b \in Agents, NEW r \in patches, r \in Patch, LoadForPatch(r),
         Outstanding(b) # {}
  PROVE  Outstanding(b)' # {}
<1> DEFINE q == [r EXCEPT !.seen = status[r.job]]
<1>1. /\ q \in patches' /\ patches \ {r} \subseteq patches'
      /\ UNCHANGED <<pc, attempt>>
  BY DEF LoadForPatch, agent
<1>2. q.by = r.by /\ q.n = r.n /\ q.to = r.to
  BY DEF Patch
<1> HIDE DEF q
<1>3. PICK q0 : q0 \in Outstanding(b)
  OBVIOUS
<1>4. q0 # r => q0 \in Outstanding(b)'
  BY <1>1, <1>3 DEF Outstanding, Waiting
<1>5. q0 = r => q \in Outstanding(b)'
  BY <1>1, <1>2, <1>3 DEF Outstanding, Waiting
<1>6. QED
  BY <1>4, <1>5

LEMMA AccountStep == ReinjectionInv /\ [Next]_vars => Account'
<1> SUFFICES ASSUME ReinjectionInv, [Next]_vars, NEW b \in Agents, NEW j \in Jobs
             PROVE  AccountOf(b, j)'
  BY DEF Account
<1> USE DEF ReinjectionInv
<1>1. AccountOf(b, j)
  BY DEF Account
<1>2. Open(j)' => Open(j)
  BY OpenShrinks
<1>3. /\ tries[b][j] \in Nat /\ charged[b][j] \in Nat
      /\ pc \in [Agents -> {"idle", "claiming", "injecting", "reporting"}]
      /\ hold \in [Agents -> Jobs \cup {NoJob}]
      /\ attempt \in [Agents -> Nat]
      /\ tries \in [Agents -> [Jobs -> Nat]]
      /\ charged \in [Agents -> [Jobs -> Nat]]
      /\ \A a \in Agents : pc[a] # "idle" => hold[a] \in Jobs
      /\ \A a \in Agents : pc[a] = "idle" => hold[a] = NoJob
      /\ NoJob # j
  BY NoJobAssumption DEF TypeInv, TypeOK, IdleHoldsNothing
\* Nothing that Account counts changes and the agent's report stays.
<1>4. ASSUME UNCHANGED <<agent, history>>,
             Outstanding(b)' = {} /\ hold[b] = j => Outstanding(b) = {} \/ ~Open(j)'
      PROVE  AccountOf(b, j)'
  BY <1>1, <1>2, <1>4 DEF AccountOf, agent, history
<1>5. ASSUME UNCHANGED <<patches, agent, history>>
      PROVE  AccountOf(b, j)'
  <2>1. Outstanding(b)' = Outstanding(b)
    BY <1>5, OutstandingKept DEF agent
  <2>2. QED
    BY <1>4, <1>5, <2>1
<1>6. ASSUME NEW r \in patches, LoadForPatch(r) PROVE AccountOf(b, j)'
  <2>1. r \in Patch
    BY <1>6 DEF TypeInv, TypeOK
  <2>2. Outstanding(b)' = {} => Outstanding(b) = {}
    BY <1>6, <2>1, LoadedIsOutstanding
  <2>3. QED
    BY <1>4, <1>6, <2>2 DEF LoadForPatch
<1>7. ASSUME NEW r \in patches, CommitPatch(r) PROVE AccountOf(b, j)'
  <2>1. patches' = patches \ {r} /\ UNCHANGED <<agent, history>>
    BY <1>7 DEF CommitPatch
  <2>2. CASE r \in Outstanding(b)
    <3>1. r.job = hold[b]
      BY <2>2 DEF OwnReports, Outstanding, Waiting
    <3>2. hold[b] = j => ~Open(j)'
      BY <1>7, <3>1, CommitCloses
    <3>3. QED
      BY <1>4, <2>1, <3>2
  <2>3. CASE r \notin Outstanding(b)
    <3>1. Outstanding(b)' = Outstanding(b)
      BY <2>1, <2>3 DEF Outstanding, Waiting, agent
    <3>2. QED
      BY <1>4, <2>1, <3>1
  <2>4. QED
    BY <2>2, <2>3
<1>8. ASSUME NEW a \in Agents, Register(a) PROVE AccountOf(b, j)'
  <2>1. Outstanding(b)' = Outstanding(b)
    BY <1>8, OutstandingKept DEF Register, network
  <2>2. QED
    BY <1>1, <1>2, <1>8, <2>1 DEF Register, AccountOf, history
<1>9. ASSUME NEW a \in Agents, NEW k \in Jobs, PickUp(a, k) PROVE AccountOf(b, j)'
  <2>1. CASE a = b
    <3>1. Outstanding(b)' # {}
      <4>1. attempt'[b] = attempt[b] + 1 /\ pc'[b] = "claiming"
        BY <1>3, <1>9, <2>1 DEF PickUp
      <4>2. QED
        BY <1>9, <2>1, <4>1, SentIsOutstanding DEF PickUp, Send
    <3>2. hold[b] = NoJob /\ pc'[b] = "claiming" /\ hold'[b] = k
      BY <1>3, <1>9, <2>1 DEF PickUp
    <3>3. k = j => Open(j)
      BY <1>9 DEF PickUp, NextJob, Matches, Open
    <3>4. QED
      BY <1>1, <1>2, <1>3, <1>9, <3>1, <3>2, <3>3 DEF PickUp, AccountOf, history
  <2>2. CASE a # b
    <3>1. Outstanding(b)' = Outstanding(b)
      BY <1>3, <1>9, <2>2 DEF PickUp, Send, Outstanding, Waiting
    <3>2. QED
      BY <1>1, <1>2, <1>3, <1>9, <2>2, <3>1 DEF PickUp, AccountOf, history
  <2>3. QED
    BY <2>1, <2>2
\* The agent goes on: its books are balanced if they would be with the
\* charges it has by then.
<1>10. ASSUME NEW a \in Agents, Waiting(a), Continue(a),
              UNCHANGED <<status, patches, attempt>>,
              \/ Outstanding(a) = {} /\ charged' = charged
              \/ Charge(a, hold[a])
       PROVE  AccountOf(b, j)'
  <2>1. CASE a # b
    <3>1. /\ pc'[b] = pc[b] /\ hold'[b] = hold[b] /\ tries'[b] = tries[b]
          /\ charged'[b] = charged[b]
      BY <1>3, <1>10, <2>1 DEF Continue, StartInjection, FinishJob, Charge
    <3>2. Outstanding(b)' = Outstanding(b)
      BY <1>10, <3>1, OutstandingKept
    <3>3. QED
      BY <1>1, <1>2, <3>1, <3>2 DEF AccountOf
  <2>2. CASE a = b /\ hold[b] # j
    <3>1. tries'[b][j] = tries[b][j] /\ charged'[b][j] = charged[b][j]
      BY <1>3, <1>10, <2>2 DEF Continue, StartInjection, FinishJob, Charge
    <3>2. hold'[b] # j
      BY <1>3, <1>10, <2>2 DEF Continue, FinishJob
    <3>3. QED
      BY <1>1, <1>2, <2>2, <3>1, <3>2 DEF AccountOf
  <2>3. CASE a = b /\ hold[b] = j
    <3>1. \/ Outstanding(b) = {} /\ charged'[b][j] = charged[b][j]
          \/ charged'[b][j] = charged[b][j] + 1
      BY <1>3, <1>10, <2>3 DEF Charge
    <3>2. CASE StartInjection(b) /\ UNCHANGED hold
      <4>1. /\ pc[b] = "claiming" /\ pc'[b] = "injecting" /\ hold'[b] = j
            /\ tries'[b][j] = tries[b][j] + 1
        BY <1>3, <2>3, <3>2 DEF StartInjection
      <4>2. 2 * tries[b][j] <= charged[b][j]
        BY <1>1, <2>3, <4>1 DEF AccountOf
      <4>3. Open(j) /\ Outstanding(b) = {} => 2 * tries[b][j] + 1 <= charged[b][j]
        BY <1>1, <2>3, <4>1 DEF AccountOf
      <4>4. QED
        BY <1>2, <1>3, <3>1, <4>1, <4>2, <4>3 DEF AccountOf
    <3>3. CASE FinishJob(b) /\ UNCHANGED tries
      <4>1. pc[b] = "reporting" /\ pc'[b] = "idle" /\ hold'[b] = NoJob
        BY <1>3, <3>3 DEF FinishJob
      <4>2. tries'[b][j] = tries[b][j]
        BY <3>3
      <4>3. /\ tries[b][j] > 0 => 2 * (tries[b][j] - 1) <= charged[b][j]
            /\ Open(j) => /\ 2 * tries[b][j] - 1 <= charged[b][j]
                          /\ Outstanding(b) = {} => 2 * tries[b][j] <= charged[b][j]
        BY <1>1, <2>3, <4>1 DEF AccountOf
      <4>4. QED
        BY <1>2, <1>3, <3>1, <4>1, <4>2, <4>3 DEF AccountOf
    <3>4. QED
      BY <1>10, <2>3, <3>2, <3>3 DEF Continue
  <2>4. QED
    BY <2>1, <2>2, <2>3
<1>11. ASSUME NEW a \in Agents, PatchReturns(a) PROVE AccountOf(b, j)'
  <2>1. Waiting(a)
    BY <1>11 DEF PatchReturns, Continue, StartInjection, FinishJob, Waiting
  <2>2. QED
    BY <1>10, <1>11, <2>1 DEF PatchReturns, network
<1>12. ASSUME NEW a \in Agents, PatchTimesOut(a) PROVE AccountOf(b, j)'
  <2>1. Waiting(a)
    BY <1>12 DEF PatchTimesOut, Continue, StartInjection, FinishJob, Waiting
  <2>2. QED
    BY <1>10, <1>12, <2>1 DEF PatchTimesOut, network
<1>13. ASSUME NEW a \in Agents, NEW r \in patches, LosePatch(a, r) PROVE AccountOf(b, j)'
  <2>1. CASE a # b
    <3>1. charged'[b] = charged[b]
      BY <1>3, <1>13, <2>1 DEF LosePatch, Charge
    <3>2. Outstanding(b)' = Outstanding(b)
      BY <1>13, <2>1 DEF LosePatch, Outstanding, Waiting, agent
    <3>3. QED
      BY <1>1, <1>2, <1>13, <3>1, <3>2 DEF LosePatch, AccountOf, agent
  <2>2. CASE a = b
    <3>1. hold[b] \in Jobs /\ pc[b] \in {"claiming", "reporting"}
      BY <1>3, <1>13, <2>2 DEF LosePatch, Outstanding, Waiting
    <3>2. /\ hold[b] = j => charged'[b][j] = charged[b][j] + 1
          /\ hold[b] # j => charged'[b][j] = charged[b][j]
      BY <1>3, <1>13, <2>2, <3>1 DEF LosePatch, Charge
    <3>3. UNCHANGED <<pc, hold, tries>>
      BY <1>13 DEF LosePatch, agent
    <3>4. QED
      BY <1>1, <1>2, <1>3, <3>1, <3>2, <3>3 DEF AccountOf
  <2>3. QED
    BY <2>1, <2>2
<1>14. ASSUME NEW a \in Agents, NEW ok \in BOOLEAN, InjectReturns(a, ok)
       PROVE  AccountOf(b, j)'
  <2>1. CASE a = b
    <3>1. Outstanding(b)' # {}
      <4>1. attempt'[b] = attempt[b] /\ pc'[b] = "reporting" /\ Verdict(ok) # "injecting"
        BY <1>3, <1>14, <2>1 DEF InjectReturns, Verdict
      <4>2. QED
        BY <1>14, <2>1, <4>1, SentIsOutstanding DEF InjectReturns, Send
    <3>2. pc[b] = "injecting" /\ pc'[b] = "reporting" /\ UNCHANGED <<hold, tries, charged>>
      BY <1>3, <1>14, <2>1 DEF InjectReturns
    <3>3. QED
      BY <1>1, <1>2, <1>3, <3>1, <3>2 DEF AccountOf
  <2>2. CASE a # b
    <3>1. Outstanding(b)' = Outstanding(b)
      BY <1>3, <1>14, <2>2 DEF InjectReturns, Send, Outstanding, Waiting
    <3>2. pc'[b] = pc[b] /\ UNCHANGED <<hold, tries, charged>>
      BY <1>3, <1>14, <2>2 DEF InjectReturns
    <3>3. QED
      BY <1>1, <1>2, <1>3, <3>1, <3>2 DEF AccountOf
  <2>3. QED
    BY <2>1, <2>2
<1>15. ASSUME NEW a \in Agents, Crash(a)
       PROVE  AccountOf(b, j)'
  <2>1. CASE a # b
    <3>1. pc'[b] = pc[b] /\ hold'[b] = hold[b] /\ charged'[b] = charged[b]
      BY <1>3, <1>15, <2>1 DEF Crash, Charge
    <3>2. Outstanding(b)' = Outstanding(b)
      BY <1>15, <3>1, OutstandingKept DEF Crash, network
    <3>3. QED
      BY <1>1, <1>2, <1>15, <3>1, <3>2 DEF Crash, AccountOf
  <2>2. CASE a = b
    <3>1. pc'[b] = "idle" /\ hold'[b] = NoJob /\ tries' = tries
      BY <1>3, <1>15, <2>2 DEF Crash
    <3>2. /\ hold[b] = j /\ pc[b] \in {"injecting", "reporting"} =>
                charged'[b][j] = charged[b][j] + 1
          /\ ~(hold[b] = j /\ pc[b] \in {"injecting", "reporting"}) =>
                charged'[b][j] = charged[b][j]
      BY <1>3, <1>15, <2>2 DEF Crash, Charge
    <3>3. QED
      BY <1>1, <1>2, <1>3, <3>1, <3>2 DEF AccountOf
  <2>3. QED
    BY <2>1, <2>2
<1>16. CASE \E a \in Agents : AgentStep(a)
  BY <1>8, <1>9, <1>11, <1>12, <1>13, <1>14, <1>15, <1>16 DEF AgentStep
<1>17. QED
  BY <1>5, <1>6, <1>7, <1>16 DEF Next, DashboardStep, StampJob, CreateJob, SendCancel, CheckCancel,
     CommitCancel, vars, network

LEMMA ReinjectionStep == ReinjectionInv /\ [Next]_vars => ReinjectionInv'
  BY TypeStep, SeenIsPastStep, OwnReportsStep, IdleStep, AccountStep DEF ReinjectionInv

\* An agent injects a job once for each pair of swallowed reports, and once
\* more: for all numbers of agents, jobs and faults.
THEOREM ReinjectionPaid == Spec => []ReinjectionIsPaidFor
<1>1. ReinjectionInv => ReinjectionIsPaidFor
  BY DEF ReinjectionInv, Account, AccountOf, ReinjectionIsPaidFor
<1>2. QED
  BY <1>1, ReinjectionInit, ReinjectionStep, PTL DEF Spec

-----------------------------------------------------------------------------
(***************************************************************************)
(* What a closed row shows.                                                *)
(***************************************************************************)

\* The steps that write a row.
LEMMA RowWriters ==
  ASSUME [Next]_vars
  PROVE  \/ \E j \in Jobs : CreateJob(j)
         \/ \E r \in patches : CommitPatch(r)
         \/ \E d \in deletes : CommitCancel(d)
         \/ UNCHANGED <<status, stamps>>
  BY DEF Next, DashboardStep, AgentStep, StampJob, LoadForPatch, SendCancel, CheckCancel,
     Register, PickUp, PatchReturns, PatchTimesOut, LosePatch, InjectReturns, Crash, vars

\* A row closed as failed or cancelled has its completion time, for any
\* number of handlers that write over each other.
THEOREM ClosedStamped == Spec => []ClosedIsStamped
<1>1. Init => ClosedIsStamped
  BY DEF Init, ClosedIsStamped
<1>2. TypeInv /\ ClosedIsStamped /\ [Next]_vars => ClosedIsStamped'
  <2> SUFFICES ASSUME TypeInv, ClosedIsStamped, [Next]_vars,
                      NEW k \in Jobs, status'[k] \in {"failed", "cancelled"}
               PROVE  completedAt'[k]
    BY DEF ClosedIsStamped
  <2>1. /\ status \in [Jobs -> JobStatus \cup {"absent"}]
        /\ completedAt \in [Jobs -> BOOLEAN]
        /\ \A r \in patches : r.job \in Jobs
        /\ \A d \in deletes : d.job \in Jobs
        /\ status[k] \in {"failed", "cancelled"} => completedAt[k]
    BY DEF TypeInv, TypeOK, Patch, Delete, ClosedIsStamped
  <2>2. ASSUME NEW j \in Jobs, CreateJob(j) PROVE completedAt'[k]
    BY <2>1, <2>2 DEF CreateJob, stamps
  <2>3. ASSUME NEW r \in patches, CommitPatch(r) PROVE completedAt'[k]
    BY <2>1, <2>3 DEF CommitPatch, Written, Closes
  <2>4. ASSUME NEW d \in deletes, CommitCancel(d) PROVE completedAt'[k]
    BY <2>1, <2>4 DEF CommitCancel, Written, Closes
  <2>5. CASE UNCHANGED <<status, stamps>>
    BY <2>1, <2>5 DEF stamps
  <2>6. QED
    BY <2>2, <2>3, <2>4, <2>5, RowWriters
<1>3. QED
  BY <1>1, <1>2, TypeInvariance, PTL DEF Spec

\* "sent" is reported only after a backend answered with success: also a
\* late report of an agent that has crashed says what the backend said.
ReportedIsVouched == \A r \in patches : r.to = "sent" => r.job \in vouched

LEMMA ReportedIsVouchedStep ==
  TypeInv /\ ReportedIsVouched /\ [Next]_vars => ReportedIsVouched' /\ vouched \subseteq vouched'
<1> SUFFICES ASSUME TypeInv, ReportedIsVouched, [Next]_vars
             PROVE  ReportedIsVouched' /\ vouched \subseteq vouched'
  OBVIOUS
<1>1. ASSUME patches' \subseteq patches, vouched \subseteq vouched'
      PROVE  ReportedIsVouched'
  BY <1>1 DEF ReportedIsVouched
<1>2. ASSUME NEW r \in patches, LoadForPatch(r)
      PROVE  ReportedIsVouched' /\ vouched' = vouched
  <2> DEFINE q == [r EXCEPT !.seen = status[r.job]]
  <2>1. q.job = r.job /\ q.to = r.to
    BY DEF TypeInv, TypeOK, Patch
  <2>2. patches' = (patches \ {r}) \cup {q} /\ vouched' = vouched
    BY <1>2 DEF LoadForPatch, history
  <2> HIDE DEF q
  <2>3. QED
    BY <2>1, <2>2 DEF ReportedIsVouched
<1>3. ASSUME NEW a \in Agents, NEW j \in Jobs, PickUp(a, j)
      PROVE  ReportedIsVouched' /\ vouched' = vouched
  BY <1>3 DEF PickUp, Send, ReportedIsVouched, history
<1>4. ASSUME NEW a \in Agents, NEW ok \in BOOLEAN, InjectReturns(a, ok)
      PROVE  ReportedIsVouched' /\ vouched \subseteq vouched'
  BY <1>4 DEF InjectReturns, Send, Verdict, ReportedIsVouched
<1>5. ASSUME NEW a \in Agents, Crash(a)
      PROVE  patches' = patches /\ vouched \subseteq vouched'
  BY <1>5 DEF Crash, network
<1>6. QED
  BY <1>1, <1>2, <1>3, <1>4, <1>5 DEF Next, DashboardStep, AgentStep, StampJob, CreateJob, CommitPatch,
     SendCancel, CheckCancel, CommitCancel, Register, PatchReturns, PatchTimesOut, LosePatch,
     vars, network, history

\* A job shown as sent is one a backend answered for with success, for any
\* number of agents and faults.
THEOREM SentVouched == Spec => []SentMeansSuccess
<1>1. Init => SentMeansSuccess /\ ReportedIsVouched
  BY DEF Init, SentMeansSuccess, ReportedIsVouched
<1>2. TypeInv /\ ReportedIsVouched /\ SentMeansSuccess /\ [Next]_vars => SentMeansSuccess'
  <2> SUFFICES ASSUME TypeInv, ReportedIsVouched, SentMeansSuccess, [Next]_vars,
                      NEW k \in Jobs, status'[k] = "sent"
               PROVE  k \in vouched'
    BY DEF SentMeansSuccess
  <2>1. /\ status \in [Jobs -> JobStatus \cup {"absent"}]
        /\ \A r \in patches : r.job \in Jobs
        /\ \A d \in deletes : d.job \in Jobs
        /\ status[k] = "sent" => k \in vouched
        /\ vouched \subseteq vouched'
    BY ReportedIsVouchedStep DEF TypeInv, TypeOK, Patch, Delete, SentMeansSuccess
  <2>2. ASSUME NEW j \in Jobs, CreateJob(j) PROVE k \in vouched'
    BY <2>1, <2>2 DEF CreateJob
  <2>3. ASSUME NEW r \in patches, CommitPatch(r) PROVE k \in vouched'
    BY <2>1, <2>3 DEF CommitPatch, Written, ReportedIsVouched
  <2>4. ASSUME NEW d \in deletes, CommitCancel(d) PROVE k \in vouched'
    BY <2>1, <2>4 DEF CommitCancel, Written
  <2>5. CASE UNCHANGED <<status, stamps>>
    BY <2>1, <2>5
  <2>6. QED
    BY <2>2, <2>3, <2>4, <2>5, RowWriters
<1>3. QED
  BY <1>1, <1>2, ReportedIsVouchedStep, TypeInvariance, PTL DEF Spec
-----------------------------------------------------------------------------
(***************************************************************************)
(* Who owes the outcome of a job that shows "injecting".                   *)
(*                                                                         *)
(* As long as nothing went wrong with a job, the agent whose claim was     *)
(* stored still works on it (AllAwaited: a report under way is the one its *)
(* agent waits for), and its outcome, not yet loaded or loaded over        *)
(* "injecting", will be written.                                           *)
(***************************************************************************)
Faultless(j) == crashes = 0 /\ \A a \in Agents : charged[a][j] = 0

Awaited(r) == hold[r.by] = r.job /\ r \in Outstanding(r.by)

AllAwaited == \A r \in patches : Faultless(r.job) => Awaited(r)

\* Agent a will still store an outcome of j.
Owes(a, j) ==
    /\ hold[a] = j
    /\ \/ pc[a] \in {"claiming", "injecting"}
       \/ /\ pc[a] = "reporting"
          /\ \E r \in Outstanding(a) : r.job = j /\ r.seen \in {Unread, "injecting"}

SomebodyOwes ==
    \A j \in Jobs : status[j] = "injecting" /\ Faultless(j) => \E a \in Agents : Owes(a, j)

StuckInv == TypeInv /\ IdleHoldsNothing /\ OwnReports /\ AllAwaited /\ SomebodyOwes

LEMMA FaultsStay ==
  ASSUME TypeInv, [Next]_vars, NEW j \in Jobs, Faultless(j)'
  PROVE  Faultless(j)
<1> USE DEF TypeInv, TypeOK, Faultless
<1>1. CASE UNCHANGED <<crashes, charged>>
  BY <1>1
<1>2. ASSUME NEW a \in Agents, hold[a] \in Jobs, Charge(a, hold[a]), crashes' = crashes
      PROVE  Faultless(j)
  BY <1>2 DEF Charge
<1>3. ASSUME NEW a \in Agents, Crash(a) PROVE FALSE
  BY <1>3 DEF Crash
<1>4. ASSUME NEW a \in Agents, PatchTimesOut(a) PROVE Faultless(j)
  <2>1. hold[a] \in Jobs
    BY <1>4 DEF PatchTimesOut, Outstanding, Waiting
  <2>2. QED
    BY <1>2, <1>4, <2>1 DEF PatchTimesOut
<1>5. ASSUME NEW a \in Agents, NEW r \in patches, LosePatch(a, r) PROVE Faultless(j)
  <2>1. hold[a] \in Jobs
    BY <1>5 DEF LosePatch, Outstanding, Waiting
  <2>2. QED
    BY <1>2, <1>5, <2>1 DEF LosePatch
<1> HIDE DEF TypeInv, TypeOK, Faultless
<1>6. QED
  BY <1>1, <1>3, <1>4, <1>5 DEF Next, DashboardStep, AgentStep, StampJob, CreateJob, LoadForPatch,
     CommitPatch, SendCancel, CheckCancel, CommitCancel, Register, PickUp, PatchReturns,
     InjectReturns, history, bounds, vars

\* What agent b awaits, and the outcome it owes, do not depend on others.
LEMMA OthersAwait ==
  ASSUME NEW r \in patches, r \in patches', Awaited(r),
         UNCHANGED <<pc[r.by], hold[r.by], attempt[r.by]>>
  PROVE  Awaited(r)'
  BY DEF Awaited, Outstanding, Waiting

LEMMA OthersOwe ==
  ASSUME NEW b \in Agents, NEW j, Owes(b, j), UNCHANGED <<pc[b], hold[b], attempt[b]>>,
         \A r \in patches : r.by = b => r \in patches'
  PROVE  Owes(b, j)'
  BY DEF Owes, Outstanding, Waiting

\* A report that is loaded keeps everything but `seen'.
LEMMA Loaded ==
  ASSUME TypeInv, NEW r \in patches, LoadForPatch(r)
  PROVE  \E q : /\ patches' = (patches \ {r}) \cup {q}
                /\ q.by = r.by /\ q.n = r.n /\ q.job = r.job /\ q.to = r.to
                /\ q.seen = status[r.job]
<1> DEFINE q == [r EXCEPT !.seen = status[r.job]]
<1>1. q.by = r.by /\ q.n = r.n /\ q.job = r.job /\ q.to = r.to /\ q.seen = status[r.job]
  BY DEF TypeInv, TypeOK, Patch
<1>2. patches' = (patches \ {r}) \cup {q}
  BY DEF LoadForPatch
<1> HIDE DEF q
<1>3. QED
  BY <1>1, <1>2

\* An agent that waits for nothing has no faultless report under way.
LEMMA NothingAwaited ==
  ASSUME AllAwaited, NEW a \in Agents, Outstanding(a) = {},
         NEW r \in patches, r.by = a
  PROVE  ~Faultless(r.job)
  BY DEF AllAwaited, Awaited

LEMMA AllAwaitedStep == StuckInv /\ [Next]_vars => AllAwaited'
<1> SUFFICES ASSUME StuckInv, [Next]_vars, NEW q \in patches', Faultless(q.job)'
             PROVE  Awaited(q)'
  BY DEF AllAwaited
<1>1. /\ TypeInv /\ AllAwaited /\ IdleHoldsNothing
      /\ \A r \in patches : r.by \in Agents /\ r.job \in Jobs
      /\ pc \in [Agents -> {"idle", "claiming", "injecting", "reporting"}]
      /\ hold \in [Agents -> Jobs \cup {NoJob}]
      /\ attempt \in [Agents -> Nat]
      /\ charged \in [Agents -> [Jobs -> Nat]]
  BY DEF StuckInv, TypeInv, TypeOK, Patch
<1>2. ASSUME q \in patches PROVE Faultless(q.job) /\ Awaited(q)
  BY <1>1, <1>2, FaultsStay DEF AllAwaited
<1>3. CASE UNCHANGED agent /\ patches' \subseteq patches
  BY <1>2, <1>3, OthersAwait DEF agent
<1>4. ASSUME NEW r \in patches, LoadForPatch(r) PROVE Awaited(q)'
  <2>1. UNCHANGED agent /\ UNCHANGED <<charged, crashes>>
    BY <1>4 DEF LoadForPatch, history, bounds
  <2>2. CASE q \in patches
    BY <1>2, <2>1, <2>2, OthersAwait DEF agent
  <2>3. CASE q \notin patches
    <3>1. q.by = r.by /\ q.n = r.n /\ q.job = r.job /\ q.to = r.to
      BY <1>1, <1>4, <2>3, Loaded
    <3>2. Awaited(r)
      BY <1>1, <2>1, <3>1 DEF AllAwaited, Faultless
    <3>3. QED
      BY <2>1, <3>1, <3>2 DEF Awaited, Outstanding, Waiting, agent
  <2>4. QED
    BY <2>2, <2>3
<1>5. ASSUME NEW a \in Agents, NEW k \in Jobs, PickUp(a, k) PROVE Awaited(q)'
  <2>1. CASE q \in patches
    <3>1. q.by # a
      BY <1>1, <1>2, <1>5, <2>1, NoJobAssumption DEF PickUp, IdleHoldsNothing, Awaited
    <3>2. QED
      BY <1>1, <1>2, <1>5, <2>1, <3>1, OthersAwait DEF PickUp
  <2>2. CASE q \notin patches
    <3>1. q.by = a /\ q.n = attempt[a] + 1 /\ q.job = k /\ q.to = "injecting"
      BY <1>5, <2>2 DEF PickUp, Send
    <3>2. pc'[a] = "claiming" /\ hold'[a] = k /\ attempt'[a] = attempt[a] + 1
      BY <1>1, <1>5 DEF PickUp
    <3>3. QED
      BY <3>1, <3>2 DEF Awaited, Outstanding, Waiting
  <2>3. QED
    BY <2>1, <2>2
<1>6. ASSUME NEW a \in Agents, PatchReturns(a) PROVE Awaited(q)'
  <2>1. q \in patches
    BY <1>6 DEF PatchReturns, network
  <2>2. q.by # a
    BY <1>1, <1>2, <1>6, <2>1, NothingAwaited DEF PatchReturns
  <2>3. QED
    BY <1>1, <1>2, <1>6, <2>1, <2>2, OthersAwait
       DEF PatchReturns, Continue, StartInjection, FinishJob
<1>7. ASSUME NEW a \in Agents, PatchTimesOut(a) PROVE Awaited(q)'
  <2>1. q \in patches
    BY <1>7 DEF PatchTimesOut, network
  <2>2. hold[a] \in Jobs
    BY <1>1, <1>7 DEF PatchTimesOut, Outstanding, Waiting, TypeInv, TypeOK
  <2>3. charged'[a][hold[a]] # 0
    BY <1>1, <1>7, <2>2 DEF PatchTimesOut, Charge
  <2>4. q.by # a
    BY <1>2, <2>1, <2>3 DEF Awaited, Faultless
  <2>5. QED
    BY <1>1, <1>2, <1>7, <2>1, <2>4, OthersAwait
       DEF PatchTimesOut, Continue, StartInjection, FinishJob
<1>8. ASSUME NEW a \in Agents, NEW ok \in BOOLEAN, InjectReturns(a, ok)
      PROVE  Awaited(q)'
  <2>1. UNCHANGED <<hold, attempt>> /\ pc[a] = "injecting" /\ pc'[a] = "reporting"
    BY <1>1, <1>8 DEF InjectReturns
  <2>2. CASE q \in patches
    <3>1. q.by # a
      BY <1>2, <2>1, <2>2 DEF Awaited, Outstanding, Waiting
    <3>2. QED
      BY <1>1, <1>2, <1>8, <2>1, <2>2, <3>1, OthersAwait DEF InjectReturns
  <2>3. CASE q \notin patches
    <3>1. q.by = a /\ q.n = attempt[a] /\ q.job = hold[a] /\ q.to # "injecting"
      BY <1>8, <2>3 DEF InjectReturns, Send, Verdict
    <3>2. QED
      BY <2>1, <2>3, <3>1 DEF Awaited, Outstanding, Waiting
  <2>4. QED
    BY <2>2, <2>3
<1>9. ASSUME NEW a \in Agents, Crash(a) PROVE FALSE
  <2>1. crashes' = crashes + 1 /\ crashes \in Nat
    BY <1>1, <1>9 DEF Crash, TypeInv, TypeOK
  <2>2. QED
    BY <2>1 DEF Faultless
<1>10. ASSUME NEW a \in Agents, Register(a) PROVE Awaited(q)'
  BY <1>2, <1>10, OthersAwait DEF Register, network
<1>11. QED
  BY <1>3, <1>4, <1>5, <1>6, <1>7, <1>8, <1>9, <1>10 DEF Next, DashboardStep, AgentStep,
     StampJob, CreateJob, CommitPatch, SendCancel, CheckCancel, CommitCancel, LosePatch,
     network, vars

LEMMA SomebodyOwesStep == StuckInv /\ [Next]_vars => SomebodyOwes'
<1> SUFFICES ASSUME StuckInv, [Next]_vars, NEW j \in Jobs,
                    status'[j] = "injecting", Faultless(j)'
             PROVE  \E a \in Agents : Owes(a, j)'
  BY DEF SomebodyOwes
<1>1. /\ TypeInv /\ AllAwaited /\ IdleHoldsNothing
      /\ status \in [Jobs -> JobStatus \cup {"absent"}]
      /\ \A r \in patches : r.by \in Agents /\ r.job \in Jobs
      /\ \A d \in deletes : d.job \in Jobs
      /\ pc \in [Agents -> {"idle", "claiming", "injecting", "reporting"}]
      /\ hold \in [Agents -> Jobs \cup {NoJob}]
      /\ attempt \in [Agents -> Nat]
      /\ charged \in [Agents -> [Jobs -> Nat]]
      /\ NoJob # j
  BY NoJobAssumption DEF StuckInv, TypeInv, TypeOK, Patch, Delete
<1>2. Faultless(j)
  BY <1>1, FaultsStay
<1>3. ASSUME status[j] = "injecting" PROVE \E b \in Agents : Owes(b, j)
  BY <1>2, <1>3 DEF StuckInv, SomebodyOwes
<1>4. CASE UNCHANGED <<status, agent, patches>>
  BY <1>3, <1>4, OthersOwe DEF agent
<1>5. ASSUME NEW k \in Jobs, CreateJob(k) PROVE \E a \in Agents : Owes(a, j)'
  <2>1. status[j] = "injecting"
    BY <1>1, <1>5 DEF CreateJob
  <2>2. QED
    BY <1>3, <1>5, <2>1, OthersOwe DEF CreateJob, network, agent
<1>6. ASSUME NEW r \in patches, LoadForPatch(r) PROVE \E a \in Agents : Owes(a, j)'
  <2>1. UNCHANGED <<status, agent>>
    BY <1>6 DEF LoadForPatch
  <2>2. PICK b \in Agents : Owes(b, j)
    BY <1>3, <2>1
  <2>3. PICK q : /\ patches' = (patches \ {r}) \cup {q}
                 /\ q.by = r.by /\ q.n = r.n /\ q.job = r.job /\ q.to = r.to
                 /\ q.seen = status[r.job]
    BY <1>1, <1>6, Loaded
  <2>4. CASE pc[b] = "reporting"
    <3>1. PICK o \in Outstanding(b) : o.job = j /\ o.seen \in {Unread, "injecting"}
      BY <2>2, <2>4 DEF Owes
    <3>2. CASE o # r
      BY <2>1, <2>2, <2>3, <2>4, <3>1, <3>2 DEF Owes, Outstanding, Waiting, agent
    <3>3. CASE o = r
      <4>1. q \in Outstanding(b)'
        BY <2>1, <2>3, <3>1, <3>3 DEF Outstanding, Waiting, agent
      <4>2. q.job = j /\ q.seen = "injecting"
        BY <2>1, <2>3, <3>1, <3>3
      <4>3. QED
        BY <2>1, <2>2, <2>4, <4>1, <4>2 DEF Owes, agent
    <3>4. QED
      BY <3>2, <3>3
  <2>5. CASE pc[b] # "reporting"
    BY <2>1, <2>2, <2>5 DEF Owes, agent
  <2>6. QED
    BY <2>4, <2>5
<1>7. ASSUME NEW r \in patches, CommitPatch(r) PROVE \E a \in Agents : Owes(a, j)'
  <2>1. patches' = patches \ {r} /\ UNCHANGED agent
    BY <1>7 DEF CommitPatch
  <2>2. status' = [status EXCEPT ![r.job] = Written(r.job, r.seen, r.to)]
    BY <1>7 DEF CommitPatch
  <2>3. CASE status[j] = "injecting"
    <3>1. PICK b \in Agents : Owes(b, j)
      BY <1>3, <2>3
    <3>2. CASE pc[b] = "reporting"
      <4>1. PICK o \in Outstanding(b) : o.job = j /\ o.seen \in {Unread, "injecting"}
        BY <3>1, <3>2 DEF Owes
      <4>2. o.to # "injecting"
        BY <3>2, <4>1 DEF Outstanding
      <4>3. o # r
        <5>1. SUFFICES ASSUME o = r PROVE FALSE
          OBVIOUS
        <5>2. r.seen # r.to /\ r.job = j
          BY <1>7, <4>1, <4>2, <5>1 DEF CommitPatch
        <5>3. status'[j] = r.to
          BY <1>1, <2>2, <5>2 DEF Written
        <5>4. QED
          BY <4>2, <5>1, <5>3
      <4>4. QED
        BY <2>1, <3>1, <3>2, <4>1, <4>3 DEF Owes, Outstanding, Waiting, agent
    <3>3. CASE pc[b] # "reporting"
      BY <2>1, <3>1, <3>3 DEF Owes, agent
    <3>4. QED
      BY <3>2, <3>3
  <2>4. CASE status[j] # "injecting"
    <3>1. r.job = j /\ r.to = "injecting"
      BY <1>1, <2>2, <2>4 DEF Written
    <3>2. Awaited(r)
      BY <1>1, <1>2, <3>1 DEF AllAwaited
    <3>3. pc[r.by] = "claiming" /\ hold[r.by] = j
      BY <3>1, <3>2 DEF Awaited, Outstanding
    <3>4. QED
      BY <1>1, <2>1, <3>3 DEF Owes, agent
  <2>5. QED
    BY <2>3, <2>4
<1>8. ASSUME NEW d \in deletes, CommitCancel(d) PROVE \E a \in Agents : Owes(a, j)'
  <2>1. status[j] = "injecting"
    BY <1>1, <1>8 DEF CommitCancel, Written
  <2>2. QED
    BY <1>3, <1>8, <2>1, OthersOwe DEF CommitCancel, agent
<1>9. ASSUME NEW a \in Agents, AgentStep(a) PROVE \E b \in Agents : Owes(b, j)'
  <2>1. UNCHANGED status
    BY <1>9 DEF AgentStep, Register, PickUp, PatchReturns, PatchTimesOut, LosePatch,
       InjectReturns, Crash
  <2>2. PICK b \in Agents : Owes(b, j)
    BY <1>3, <2>1
  <2>3. pc[b] # "idle" /\ hold[b] = j
    BY <1>1, <2>2 DEF Owes
  <2>4. CASE a # b
    <3>1. UNCHANGED <<pc[b], hold[b], attempt[b]>>
      BY <1>1, <1>9, <2>4 DEF AgentStep, Register, PickUp, PatchReturns, PatchTimesOut,
         LosePatch, InjectReturns, Crash, Continue, StartInjection, FinishJob, agent
    <3>2. \A r \in patches : r.by = b => r \in patches'
      BY <1>9, <2>4 DEF AgentStep, Register, PickUp, PatchReturns, PatchTimesOut,
         LosePatch, InjectReturns, Crash, Send, Outstanding, network
    <3>3. QED
      BY <2>2, <3>1, <3>2, OthersOwe
  <2>5. CASE a = b
    <3>1. ~ \E k \in Jobs : PickUp(b, k)
      BY <2>3 DEF PickUp
    <3>2. ASSUME Charge(b, hold[b]) PROVE FALSE
      BY <1>1, <2>3, <3>2 DEF Charge, Faultless
    <3>3. ~Crash(b)
      <4>1. crashes \in Nat
        BY <1>1 DEF TypeInv, TypeOK
      <4>2. QED
        BY <4>1 DEF Crash, Faultless
    <3>4. ASSUME Register(b) PROVE Owes(b, j)'
      BY <2>2, <3>4, OthersOwe DEF Register, network
    <3>5. ASSUME PatchReturns(b) PROVE Owes(b, j)'
      <4>1. pc[b] = "claiming"
        BY <2>2, <3>5 DEF PatchReturns, Owes, Continue, StartInjection, FinishJob
      <4>2. pc'[b] = "injecting" /\ hold'[b] = j
        BY <1>1, <2>3, <3>5, <4>1 DEF PatchReturns, Continue, StartInjection, FinishJob
      <4>3. QED
        BY <4>2 DEF Owes
    <3>6. ASSUME NEW ok \in BOOLEAN, InjectReturns(b, ok)
          PROVE  Owes(b, j)'
      <4>1. /\ pc'[b] = "reporting" /\ hold'[b] = j /\ attempt'[b] = attempt[b]
            /\ patches' = patches \cup {[by |-> b, n |-> attempt[b], job |-> j,
                                         to |-> Verdict(ok), seen |-> Unread]}
        BY <1>1, <2>3, <3>6 DEF InjectReturns, Send
      <4> DEFINE q == [by |-> b, n |-> attempt[b], job |-> j, to |-> Verdict(ok),
                       seen |-> Unread]
      <4>2. /\ q \in patches' /\ q.by = b /\ q.n = attempt[b] /\ q.job = j
            /\ q.to # "injecting" /\ q.seen = Unread
        BY <4>1 DEF Verdict
      <4> HIDE DEF q
      <4>3. q \in Outstanding(b)'
        BY <4>1, <4>2 DEF Outstanding, Waiting
      <4>4. QED
        BY <4>1, <4>2, <4>3 DEF Owes
    <3>7. ~ PatchTimesOut(b) /\ ~ \E r \in patches : LosePatch(b, r)
      BY <3>2 DEF PatchTimesOut, LosePatch
    <3>8. QED
      BY <1>9, <2>5, <3>1, <3>3, <3>4, <3>5, <3>6, <3>7 DEF AgentStep
  <2>6. QED
    BY <2>4, <2>5
<1>10. QED
  BY <1>4, <1>5, <1>6, <1>7, <1>8, <1>9 DEF Next, DashboardStep, StampJob, SendCancel,
     CheckCancel, vars, network

\* A job nobody works on shows "injecting" only after a swallowed report on
\* it or a crash: however many agents raced for it.
THEOREM StuckAfterFault == Spec => []StuckOnlyAfterAFault
<1>1. Init => StuckInv
  <2>1. Init => IdleHoldsNothing /\ OwnReports /\ AllAwaited /\ SomebodyOwes
    BY DEF Init, IdleHoldsNothing, OwnReports, AllAwaited, SomebodyOwes
  <2>2. QED
    BY <2>1, TypeInit DEF StuckInv
<1>2. StuckInv /\ [Next]_vars => StuckInv'
  BY TypeStep, IdleStep, OwnReportsStep, AllAwaitedStep, SomebodyOwesStep DEF StuckInv
<1>3. StuckInv => StuckOnlyAfterAFault
  <2> SUFFICES ASSUME StuckInv, NEW j \in Jobs, status[j] = "injecting", Quiet(j)
               PROVE  crashes > 0 \/ \E a \in Agents : charged[a][j] > 0
    BY DEF StuckOnlyAfterAFault
  <2>1. ~Faultless(j)
    BY DEF StuckInv, SomebodyOwes, Owes, Quiet
  <2>2. QED
    BY <2>1 DEF Faultless, StuckInv, TypeInv, TypeOK
<1>4. QED
  BY <1>1, <1>2, <1>3, PTL DEF Spec
-----------------------------------------------------------------------------
(***************************************************************************)
(* Cancelling, and the order of the queue.                                 *)
(***************************************************************************)

\* A cancel that nobody races with is final, for any number of agents.
THEOREM CancelFinal == Spec => CancelSticks
<1> DEFINE Kept(j) == /\ status'[j] = "cancelled"
                      /\ \A a \in Agents : tries'[a][j] = tries[a][j] /\ hold'[a] # j
           Sticks == \A j \in Jobs : status[j] = "cancelled" /\ Quiet(j) => Kept(j)
<1>1. ASSUME TypeInv, [Next]_vars PROVE Sticks
  <2> SUFFICES ASSUME NEW j \in Jobs, status[j] = "cancelled", Quiet(j)
               PROVE  Kept(j)
    OBVIOUS
  <2>1. /\ status \in [Jobs -> JobStatus \cup {"absent"}]
        /\ hold \in [Agents -> Jobs \cup {NoJob}]
        /\ tries \in [Agents -> [Jobs -> Nat]]
        /\ \A r \in patches : r.job \in Jobs /\ r.job # j
        /\ \A d \in deletes : d.job \in Jobs
        /\ \A a \in Agents : hold[a] # j
        /\ \A a \in Agents : pc[a] # "idle" => hold[a] \in Jobs
        /\ NoJob # j
        /\ \A k \in posting : status[k] = "absent"
    BY <1>1, NoJobAssumption DEF TypeInv, TypeOK, NamesRows, Patch, Delete, Quiet
  <2>2. CASE UNCHANGED <<status, hold, tries>>
    BY <2>1, <2>2
  <2>3. ASSUME NEW k \in Jobs, CreateJob(k) PROVE Kept(j)
    BY <2>1, <2>3 DEF CreateJob, agent, history
  <2>4. ASSUME NEW r \in patches, CommitPatch(r) PROVE Kept(j)
    BY <2>1, <2>4 DEF CommitPatch, agent, history
  <2>5. ASSUME NEW d \in deletes, CommitCancel(d) PROVE Kept(j)
    BY <2>1, <2>5 DEF CommitCancel, Written, agent, history
  <2>6. ASSUME NEW a \in Agents, NEW k \in Jobs, PickUp(a, k) PROVE Kept(j)
    BY <2>1, <2>6 DEF PickUp, NextJob, Matches, history
  <2>7. ASSUME NEW a \in Agents, Continue(a), UNCHANGED status PROVE Kept(j)
    BY <2>1, <2>7 DEF Continue, StartInjection, FinishJob
  <2>8. ASSUME NEW a \in Agents, Crash(a) PROVE Kept(j)
    BY <2>1, <2>8 DEF Crash
  <2> HIDE DEF Kept
  <2>9. QED
    BY <1>1, <2>2, <2>3, <2>4, <2>5, <2>6, <2>7, <2>8 DEF Next, DashboardStep, AgentStep,
       StampJob, LoadForPatch, SendCancel, CheckCancel, Register, PatchReturns, PatchTimesOut,
       LosePatch, InjectReturns, vars, agent, history
<1>2. CancelSticks <=> [][Sticks]_vars
  BY DEF CancelSticks
<1> HIDE DEF Sticks
<1>3. QED
  BY <1>1, <1>2, TypeInvariance, PTL DEF Spec

\* Stamps are given in rising order; a POST that began after a row was stored
\* has the larger stamp.
Stamped(j) == status[j] # "absent" \/ j \in posting

StampsRise ==
    /\ \A j \in Jobs : Stamped(j) => created[j] < posted
    /\ \A k \in Jobs : ~Stamped(k) => before[k] = {}
    /\ \A k \in Jobs : \A j \in before[k] : status[j] # "absent" /\ created[j] < created[k]

Taken(a, k) == hold[a] = k \/ tries[a][k] > 0

\* A job an agent has taken is of its type, and none that was stored before
\* its POST began still waits for any agent of that type.
TakenInOrder ==
    \A a \in Agents, k \in Jobs : Taken(a, k) =>
        /\ status[k] # "absent"
        /\ type[k] = AgentType[a]
        /\ \A j \in before[k] : ~ (/\ status[j] = "pending"
                                   /\ target[j] = NoPrinter
                                   /\ type[j] = type[k])

OrderInv == TypeInv /\ StampsRise /\ TakenInOrder

LEMMA OrderStep == OrderInv /\ [Next]_vars => OrderInv'
<1> SUFFICES ASSUME OrderInv, [Next]_vars PROVE OrderInv'
  OBVIOUS
<1>1. /\ TypeInv /\ TypeInv' /\ StampsRise /\ TakenInOrder
      /\ status \in [Jobs -> JobStatus \cup {"absent"}]
      /\ target \in [Jobs -> Agents \cup {NoPrinter}]
      /\ created \in [Jobs -> Nat]
      /\ before \in [Jobs -> SUBSET Jobs]
      /\ posting \subseteq Jobs
      /\ posted \in Nat
      /\ hold \in [Agents -> Jobs \cup {NoJob}]
      /\ tries \in [Agents -> [Jobs -> Nat]]
      /\ \A r \in patches : r.job \in Jobs /\ r.to \notin {"pending", "absent"}
      /\ \A d \in deletes : d.job \in Jobs
      /\ \A a \in Agents : pc[a] # "idle" => hold[a] \in Jobs
      /\ \A k \in Jobs : NoJob # k
  BY TypeStep, NoJobAssumption
     DEF OrderInv, TypeInv, TypeOK, Patch, Delete, Outcome
\* No row opens, nothing is taken.
<1>2. ASSUME UNCHANGED <<columns, posts>>,
             \A j \in Jobs : /\ status'[j] = "pending" => status[j] = "pending"
                             /\ status'[j] = "absent" <=> status[j] = "absent",
             \A a \in Agents, k \in Jobs : Taken(a, k)' => Taken(a, k)
      PROVE  OrderInv'
  <2>1. StampsRise'
    BY <1>1, <1>2 DEF StampsRise, Stamped, columns, posts
  <2>2. TakenInOrder'
    BY <1>1, <1>2 DEF TakenInOrder, columns, posts
  <2>3. QED
    BY <1>1, <2>1, <2>2 DEF OrderInv
<1>3. ASSUME NEW j \in Jobs, CreateJob(j)
      PROVE  OrderInv'
  <2>1. /\ j \in posting /\ posting' = posting \ {j} /\ status[j] = "absent"
        /\ UNCHANGED <<columns, before, posted, hold, tries>>
        /\ \A k \in Jobs : status'[k] = IF k = j THEN "pending" ELSE status[k]
    BY <1>1, <1>3 DEF CreateJob, agent, history, TypeInv, NamesRows
  <2>2. \A k \in Jobs : j \notin before[k]
    BY <1>1, <2>1 DEF StampsRise
  <2>3. StampsRise'
    BY <1>1, <2>1 DEF StampsRise, Stamped, columns
  <2>4. TakenInOrder'
    BY <1>1, <2>1, <2>2 DEF TakenInOrder, Taken, columns
  <2>5. QED
    BY <1>1, <2>3, <2>4 DEF OrderInv
<1>4. ASSUME NEW j \in Jobs, NEW p \in Agents \cup {NoPrinter}, StampJob(j, p)
      PROVE  OrderInv'
  <2>1. /\ status[j] = "absent" /\ j \notin posting /\ posting' = posting \cup {j}
        /\ posted' = posted + 1
        /\ UNCHANGED <<status, type, hold, tries>>
        /\ \A k \in Jobs : created'[k] = IF k = j THEN posted ELSE created[k]
        /\ \A k \in Jobs : k # j => target'[k] = target[k] /\ before'[k] = before[k]
        /\ before'[j] = {k \in Jobs : status[k] # "absent"}
    BY <1>1, <1>4 DEF StampJob, agent, history
  <2>2. \A k \in Jobs : j \notin before[k]
    BY <1>1, <2>1 DEF StampsRise
  <2>3. StampsRise'
    BY <1>1, <2>1, <2>2 DEF StampsRise, Stamped
  <2>4. TakenInOrder'
    BY <1>1, <2>1, <2>2 DEF TakenInOrder, Taken
  <2>5. QED
    BY <1>1, <2>3, <2>4 DEF OrderInv
<1>5. ASSUME NEW a \in Agents, NEW k \in Jobs, PickUp(a, k) PROVE OrderInv'
  <2>1. UNCHANGED <<status, columns, posts>>
    BY <1>5 DEF PickUp, bounds
  <2>2. /\ Matches(a, k)
        /\ \A i \in Jobs : Matches(a, i) => created[k] <= created[i]
    BY <1>5 DEF PickUp, NextJob
  <2>3. \A b \in Agents, i \in Jobs : Taken(b, i)' => Taken(b, i) \/ (b = a /\ i = k)
    BY <1>1, <1>5 DEF PickUp, Taken, history
  <2>4. \A i \in before[k] : ~Matches(a, i)
    BY <1>1, <2>2 DEF StampsRise
  <2>5. StampsRise'
    BY <1>1, <2>1 DEF StampsRise, Stamped, columns, posts
  <2>6. TakenInOrder'
    BY <1>1, <2>1, <2>2, <2>3, <2>4 DEF TakenInOrder, Matches, columns, posts
  <2>7. QED
    BY <1>1, <2>5, <2>6 DEF OrderInv
<1>6. ASSUME NEW r \in patches, CommitPatch(r) PROVE OrderInv'
  <2>1. \A j \in Jobs : /\ status'[j] = "pending" => status[j] = "pending"
                        /\ status'[j] = "absent" => status[j] = "absent"
    BY <1>1, <1>6 DEF CommitPatch, Written
  <2>2. \A j \in Jobs : status[j] = "absent" => status'[j] = "absent"
    BY <1>1, <1>6 DEF CommitPatch, TypeInv, NamesRows
  <2>3. QED
    BY <1>2, <1>6, <2>1, <2>2 DEF CommitPatch, bounds, agent, history, Taken
<1>7. ASSUME NEW d \in deletes, CommitCancel(d) PROVE OrderInv'
  <2>1. \A j \in Jobs : /\ status'[j] = "pending" => status[j] = "pending"
                        /\ status'[j] = "absent" => status[j] = "absent"
    BY <1>1, <1>7 DEF CommitCancel, Written
  <2>2. \A j \in Jobs : status[j] = "absent" => status'[j] = "absent"
    BY <1>1, <1>7 DEF CommitCancel, TypeInv, NamesRows
  <2>3. QED
    BY <1>2, <1>7, <2>1, <2>2 DEF CommitCancel, bounds, agent, history, Taken
<1>8. ASSUME NEW a \in Agents, Continue(a), UNCHANGED <<status, columns, posts>>
      PROVE  OrderInv'
  <2>1. \A b \in Agents, k \in Jobs : Taken(b, k)' => Taken(b, k)
    BY <1>1, <1>8 DEF Continue, StartInjection, FinishJob, Taken
  <2>2. QED
    BY <1>2, <1>8, <2>1
<1>9. ASSUME NEW a \in Agents, Crash(a) PROVE OrderInv'
  <2>1. \A b \in Agents, k \in Jobs : Taken(b, k)' => Taken(b, k)
    BY <1>1, <1>9 DEF Crash, Taken
  <2>2. QED
    BY <1>2, <1>9, <2>1 DEF Crash
<1>10. CASE UNCHANGED <<status, columns, posts, hold, tries>>
  BY <1>2, <1>10 DEF Taken
<1>11. QED
  BY <1>3, <1>4, <1>5, <1>6, <1>7, <1>8, <1>9, <1>10 DEF Next, DashboardStep, AgentStep,
     LoadForPatch, SendCancel, CheckCancel, Register, PatchReturns, PatchTimesOut, LosePatch,
     InjectReturns, vars, agent, history, bounds

\* No agent injects a job while one of its type waits that was stored before
\* the POST of the first began, for any number of agents, jobs and faults.
THEOREM QueueInOrder == Spec => []FirstComeFirstServed
<1>1. Init => OrderInv
  BY TypeInit, NoJobAssumption DEF Init, OrderInv, StampsRise, Stamped, TakenInOrder, Taken
<1>2. OrderInv => FirstComeFirstServed
  <2> SUFFICES ASSUME OrderInv, NEW k \in Jobs, NEW j \in before[k], NEW a \in Agents,
                      status[j] = "pending", target[j] = NoPrinter, type[k] = type[j]
               PROVE  tries[a][k] = 0
    BY DEF FirstComeFirstServed
  <2>1. tries[a][k] \in Nat
    BY DEF OrderInv, TypeInv, TypeOK
  <2>2. QED
    BY <2>1 DEF OrderInv, TakenInOrder, Taken
<1>3. QED
  BY <1>1, <1>2, OrderStep, PTL DEF Spec
-----------------------------------------------------------------------------
(***************************************************************************)
(* JobDispatch implements JobLifecycle.                                    *)
(***************************************************************************)

Busy == {j \in Jobs : ~Quiet(j)}

abstract == <<status, completedAt, vouched, Busy>>

\* A handler that loaded "failed" has loaded a row with its time, and a
\* cancel goes on only from a row that is not cancelled: where the mapper
\* skips the status column there is nothing left to stamp.
SeenIsStamped ==
    /\ \A r \in patches : r.seen = "failed" => completedAt[r.job]
    /\ \A d \in deletes : d.seen # "cancelled"

LifeInv == /\ TypeInv
           /\ IdleHoldsNothing
           /\ ClosedIsStamped
           /\ ReportedIsVouched
           /\ SeenIsStamped

\* Stamps are never taken back.
LEMMA StampsStay ==
  ASSUME TypeInv, [Next]_vars, NEW j \in Jobs, completedAt[j]
  PROVE  completedAt'[j]
<1>1. completedAt \in [Jobs -> BOOLEAN] /\ patches \subseteq Patch /\ deletes \subseteq Delete
  BY DEF TypeInv, TypeOK
<1>2. ASSUME NEW r \in patches, CommitPatch(r) PROVE completedAt'[j]
  BY <1>1, <1>2 DEF CommitPatch, Patch
<1>3. ASSUME NEW d \in deletes, CommitCancel(d) PROVE completedAt'[j]
  BY <1>1, <1>3 DEF CommitCancel, Delete
<1>4. ASSUME NEW i \in Jobs, CreateJob(i) PROVE completedAt'[j]
  BY <1>4 DEF CreateJob, stamps
<1>5. CASE UNCHANGED <<status, stamps>>
  BY <1>5 DEF stamps
<1>6. QED
  BY <1>2, <1>3, <1>4, <1>5, RowWriters

LEMMA SeenIsStampedStep ==
  ASSUME TypeInv, ClosedIsStamped, SeenIsStamped, [Next]_vars
  PROVE  SeenIsStamped'
<1>1. /\ patches \subseteq Patch /\ deletes \subseteq Delete
      /\ \A r \in patches : r.job \in Jobs
  BY DEF TypeInv, TypeOK, Patch
<1>2. ASSUME NEW r \in patches', r.seen = "failed" PROVE completedAt'[r.job]
  <2>1. CASE r \in patches
    BY <1>1, <1>2, <2>1, StampsStay DEF SeenIsStamped
  <2>2. CASE r \notin patches
    <3>1. r.seen = Unread \/ \E q \in patches : LoadForPatch(q) /\ r = [q EXCEPT !.seen = status[q.job]]
      BY <2>2 DEF Next, DashboardStep, AgentStep, StampJob, CreateJob, LoadForPatch, CommitPatch,
         SendCancel, CheckCancel, CommitCancel, Register, PickUp, PatchReturns, PatchTimesOut,
         LosePatch, InjectReturns, Crash, Send, vars, network
    <3>2. ASSUME NEW q \in patches, LoadForPatch(q), r = [q EXCEPT !.seen = status[q.job]]
          PROVE  completedAt'[r.job]
      <4>1. q \in Patch /\ r.job = q.job /\ status[q.job] = "failed"
        BY <1>1, <1>2, <3>2 DEF Patch
      <4>2. completedAt[q.job]
        BY <4>1 DEF ClosedIsStamped, Patch
      <4>3. QED
        BY <1>1, <3>2, <4>1, <4>2, StampsStay
    <3>3. QED
      BY <1>2, <3>1, <3>2 DEF Unread
  <2>3. QED
    BY <2>1, <2>2
<1>3. ASSUME NEW d \in deletes' PROVE d.seen # "cancelled"
  <2>1. CASE d \in deletes
    BY <2>1 DEF SeenIsStamped
  <2>2. CASE d \notin deletes
    <3>1. d.seen = Unread \/ \E e \in deletes : CheckCancel(e)
      BY <2>2 DEF Next, DashboardStep, AgentStep, StampJob, CreateJob, LoadForPatch, CommitPatch,
         SendCancel, CheckCancel, CommitCancel, Register, PickUp, PatchReturns, PatchTimesOut,
         LosePatch, InjectReturns, Crash, vars, network
    <3>2. ASSUME NEW e \in deletes, CheckCancel(e) PROVE d.seen # "cancelled"
      <4>1. status[e.job] \notin {"failed", "cancelled"}
        BY <2>2, <3>2 DEF CheckCancel
      <4>2. d = [e EXCEPT !.seen = status[e.job]]
        BY <2>2, <3>2, <4>1 DEF CheckCancel
      <4>3. QED
        BY <1>1, <4>1, <4>2 DEF Delete
    <3>3. QED
      BY <3>1, <3>2 DEF Unread
  <2>3. QED
    BY <2>1, <2>2
<1>4. QED
  BY <1>2, <1>3 DEF SeenIsStamped
-----------------------------------------------------------------------------
(***************************************************************************)
(* Who is busy after a step.                                               *)
(***************************************************************************)

LEMMA BusyIs ==
  ASSUME NEW j \in Jobs
  PROVE  j \in Busy <=> \/ \E a \in Agents : hold[a] = j
                        \/ \E r \in patches : r.job = j
  BY DEF Busy, Quiet

LEMMA BusyIsNext ==
  ASSUME NEW j \in Jobs
  PROVE  j \in Busy' <=> \/ \E a \in Agents : hold'[a] = j
                         \/ \E r \in patches' : r.job = j
  BY DEF Busy, Quiet

\* Requests about the same jobs, in the same hands.
LEMMA BusyKept ==
  ASSUME UNCHANGED hold,
         \A r \in patches' : \E q \in patches : q.job = r.job,
         \A r \in patches : \E q \in patches' : q.job = r.job
  PROVE  Busy' = Busy
<1>1. \A j \in Jobs : j \in Busy' <=> j \in Busy
  BY BusyIs, BusyIsNext
<1>2. QED
  BY <1>1 DEF Busy

\* A report on j is gone.
LEMMA BusyWithoutReport ==
  ASSUME NEW r \in patches, UNCHANGED hold, patches' = patches \ {r}
  PROVE  Busy' \in {Busy, Busy \ {r.job}}
<1>1. \A j \in Jobs : j # r.job => (j \in Busy' <=> j \in Busy)
  BY BusyIs, BusyIsNext
<1>2. \A j \in Jobs : j \in Busy' => j \in Busy
  BY BusyIs, BusyIsNext
<1>3. QED
  BY <1>1, <1>2 DEF Busy

\* An agent is done with its job.
LEMMA BusyWithoutAgent ==
  ASSUME NEW a \in Agents, hold \in [Agents -> Jobs \cup {NoJob}], UNCHANGED patches,
         hold' = [hold EXCEPT ![a] = NoJob]
  PROVE  Busy' \in {Busy, Busy \ {hold[a]}}
<1>1. \A j \in Jobs : j # hold[a] => (j \in Busy' <=> j \in Busy)
  BY BusyIs, BusyIsNext, NoJobAssumption
<1>2. \A j \in Jobs : j \in Busy' => j \in Busy
  BY BusyIs, BusyIsNext, NoJobAssumption
<1>3. QED
  BY <1>1, <1>2 DEF Busy
-----------------------------------------------------------------------------
(***************************************************************************)
(* Each step is a step of JobLifecycle or changes nothing there.           *)
(***************************************************************************)

LEMMA DashboardImplements ==
  ASSUME LifeInv, DashboardStep
  PROVE  Lifecycle!Next \/ UNCHANGED abstract
<1>1. /\ status \in [Jobs -> JobStatus \cup {"absent"}]
      /\ completedAt \in [Jobs -> BOOLEAN]
      /\ patches \subseteq Patch /\ deletes \subseteq Delete
      /\ \A r \in patches : r.job \in Jobs /\ status[r.job] # "absent"
      /\ \A d \in deletes : d.job \in Jobs /\ status[d.job] # "absent"
      /\ \A j \in posting : status[j] = "absent"
  BY DEF LifeInv, TypeInv, TypeOK, NamesRows, Patch, Delete
<1>2. ASSUME NEW j \in Jobs, CreateJob(j)
      PROVE  Lifecycle!Next
  <2>1. Busy' = Busy
    BY <1>2, BusyKept DEF CreateJob, agent, network
  <2>2. Lifecycle!Post(j)
    BY <1>1, <1>2, <2>1 DEF CreateJob, stamps, history, Lifecycle!Post, Busy
  <2>3. QED
    BY <2>2 DEF Lifecycle!Next
<1>3. ASSUME NEW r \in patches, LoadForPatch(r)
      PROVE  UNCHANGED abstract
  <2> DEFINE q == [r EXCEPT !.seen = status[r.job]]
  <2>1. q.job = r.job
    BY <1>1 DEF Patch
  <2>2. patches' = (patches \ {r}) \cup {q} /\ UNCHANGED hold
    BY <1>3 DEF LoadForPatch, agent
  <2> HIDE DEF q
  <2>3. Busy' = Busy
    BY <2>1, <2>2, BusyKept
  <2>4. QED
    BY <1>3, <2>3 DEF LoadForPatch, stamps, history, abstract
<1>4. ASSUME NEW r \in patches, CommitPatch(r)
      PROVE  Lifecycle!Next \/ UNCHANGED abstract
  <2>1. r \in Patch /\ r.job \in Jobs /\ r.job \in Busy
    BY <1>1, BusyIs
  <2>2. Busy' \in {Busy, Busy \ {r.job}}
    BY <1>4, BusyWithoutReport DEF CommitPatch, agent
  <2>3. CASE r.seen # r.to
    <3>1. Lifecycle!Store(r.job, r.to)
      BY <1>1, <1>4, <2>1, <2>3 DEF CommitPatch, Written, Closes, Lifecycle!Store
    <3>2. r.to = "sent" => r.job \in vouched
      BY DEF LifeInv, ReportedIsVouched
    <3>3. r.to \in {"injecting", "sent", "failed"}
      BY <2>1 DEF Patch, Outcome
    <3>4. Lifecycle!Report(r.job, r.to)
      BY <1>4, <2>1, <2>2, <3>1, <3>2
         DEF CommitPatch, history, Lifecycle!Report, Lifecycle!MayRest, Busy
    <3>5. QED
      BY <2>1, <3>3, <3>4 DEF Lifecycle!Next
  <2>4. CASE r.seen = r.to
    <3>1. r.to # "cancelled" /\ (r.to = "failed" => completedAt[r.job])
      BY <2>1, <2>4 DEF LifeInv, SeenIsStamped, Patch, Outcome
    <3>2. UNCHANGED <<status, completedAt, vouched>>
      BY <1>1, <1>4, <2>1, <2>4, <3>1 DEF CommitPatch, Written, Closes, history
    <3>3. CASE Busy' = Busy
      BY <3>2, <3>3 DEF abstract
    <3>4. CASE Busy' = Busy \ {r.job}
      <4>1. Lifecycle!Rest(r.job)
        BY <3>2, <3>4 DEF Lifecycle!Rest, Busy
      <4>2. QED
        BY <2>1, <4>1 DEF Lifecycle!Next
    <3>5. QED
      BY <2>2, <3>3, <3>4
  <2>5. QED
    BY <2>3, <2>4
<1>5. ASSUME NEW j \in Jobs, SendCancel(j)
      PROVE  UNCHANGED abstract
  <2>1. Busy' = Busy
    BY <1>5, BusyKept DEF SendCancel, agent
  <2>2. QED
    BY <1>5, <2>1 DEF SendCancel, stamps, history, abstract
<1>6. ASSUME NEW d \in deletes, CheckCancel(d)
      PROVE  UNCHANGED abstract
  <2>1. Busy' = Busy
    BY <1>6, BusyKept DEF CheckCancel, agent
  <2>2. QED
    BY <1>6, <2>1 DEF CheckCancel, stamps, history, abstract
<1>7. ASSUME NEW d \in deletes, CommitCancel(d)
      PROVE  Lifecycle!Next
  <2>1. Busy' = Busy
    BY <1>7, BusyKept DEF CommitCancel, agent
  <2>2. d.job \in Jobs /\ status[d.job] # "absent" /\ d.seen # "cancelled"
    BY <1>1 DEF LifeInv, SeenIsStamped
  <2>3. Lifecycle!Store(d.job, "cancelled")
    BY <1>1, <1>7, <2>2 DEF CommitCancel, Written, Closes, Lifecycle!Store
  <2>4. Lifecycle!Cancel(d.job)
    BY <1>7, <2>1, <2>2, <2>3 DEF CommitCancel, history, Lifecycle!Cancel, Busy
  <2>5. QED
    BY <2>2, <2>4 DEF Lifecycle!Next
<1>8. ASSUME NEW j \in Jobs, NEW p, StampJob(j, p)
      PROVE  UNCHANGED abstract
  <2>1. Busy' = Busy
    BY <1>8, BusyKept DEF StampJob, agent, network
  <2>2. QED
    BY <1>8, <2>1 DEF StampJob, stamps, history, abstract
<1>9. QED
  BY <1>2, <1>3, <1>4, <1>5, <1>6, <1>7, <1>8 DEF DashboardStep

\* An agent that lets go of its job and writes nothing.
LEMMA LettingGo ==
  ASSUME TypeInv, NEW a \in Agents, hold' = [hold EXCEPT ![a] = NoJob],
         UNCHANGED <<status, completedAt, vouched, patches>>
  PROVE  Lifecycle!Next \/ UNCHANGED abstract
<1>1. hold \in [Agents -> Jobs \cup {NoJob}]
  BY DEF TypeInv, TypeOK
<1>2. Busy' \in {Busy, Busy \ {hold[a]}}
  BY <1>1, BusyWithoutAgent
<1>3. CASE Busy' = Busy
  BY <1>3 DEF abstract
<1>4. CASE hold[a] \in Jobs /\ Busy' = Busy \ {hold[a]}
  <2>1. Lifecycle!Rest(hold[a])
    BY <1>4 DEF Lifecycle!Rest, Busy
  <2>2. QED
    BY <1>4, <2>1 DEF Lifecycle!Next
<1>5. CASE hold[a] = NoJob
  BY <1>2, <1>3, <1>5, NoJobAssumption DEF Busy
<1>6. QED
  BY <1>1, <1>2, <1>3, <1>4, <1>5

LEMMA ContinueImplements ==
  ASSUME TypeInv, NEW a \in Agents, Continue(a),
         UNCHANGED <<status, completedAt, vouched, patches>>
  PROVE  Lifecycle!Next \/ UNCHANGED abstract
<1>1. CASE UNCHANGED hold
  <2>1. Busy' = Busy
    BY <1>1, BusyKept
  <2>2. QED
    BY <2>1 DEF abstract
<1>2. CASE FinishJob(a)
  BY <1>2, LettingGo DEF FinishJob
<1>3. QED
  BY <1>1, <1>2 DEF Continue

LEMMA AgentImplements ==
  ASSUME LifeInv, NEW a \in Agents, AgentStep(a)
  PROVE  Lifecycle!Next \/ UNCHANGED abstract
<1>1. /\ TypeInv
      /\ hold \in [Agents -> Jobs \cup {NoJob}]
      /\ pc[a] # "idle" => hold[a] \in Jobs
      /\ pc[a] = "idle" => hold[a] = NoJob
      /\ patches \subseteq Patch
  BY DEF LifeInv, TypeInv, TypeOK, IdleHoldsNothing
<1>2. CASE Register(a)
  <2>1. Busy' = Busy
    BY <1>2, BusyKept DEF Register, network
  <2>2. QED
    BY <1>2, <2>1 DEF Register, stamps, history, abstract
<1>3. ASSUME NEW j \in Jobs, PickUp(a, j)
      PROVE  Lifecycle!Next
  <2>1. /\ hold' = [hold EXCEPT ![a] = j] /\ hold[a] = NoJob
        /\ patches' = patches \cup {[by |-> a, n |-> attempt[a] + 1, job |-> j,
                                     to |-> "injecting", seen |-> Unread]}
    BY <1>1, <1>3 DEF PickUp, Send
  <2>2. \A k \in Jobs : k \in Busy' <=> k \in Busy \/ k = j
    BY <1>1, <2>1, BusyIs, BusyIsNext, NoJobAssumption
  <2>3. Busy' = Busy \cup {j}
    BY <2>2 DEF Busy
  <2>4. Lifecycle!Take(j)
    BY <1>3, <2>3 DEF PickUp, NextJob, Matches, stamps, history, Lifecycle!Take, Busy
  <2>5. QED
    BY <2>4 DEF Lifecycle!Next
<1>4. CASE PatchReturns(a)
  BY <1>1, <1>4, ContinueImplements DEF PatchReturns, stamps, network
<1>5. CASE PatchTimesOut(a)
  BY <1>1, <1>5, ContinueImplements DEF PatchTimesOut, stamps, network
<1>6. ASSUME NEW r \in patches, LosePatch(a, r)
      PROVE  Lifecycle!Next \/ UNCHANGED abstract
  <2>1. r.job \in Jobs
    BY <1>1 DEF Patch
  <2>2. Busy' \in {Busy, Busy \ {r.job}}
    BY <1>6, BusyWithoutReport DEF LosePatch, agent
  <2>3. UNCHANGED <<status, completedAt, vouched>>
    BY <1>6 DEF LosePatch, stamps
  <2>4. CASE Busy' = Busy
    BY <2>3, <2>4 DEF abstract
  <2>5. CASE Busy' = Busy \ {r.job}
    <3>1. Lifecycle!Rest(r.job)
      BY <2>3, <2>5 DEF Lifecycle!Rest, Busy
    <3>2. QED
      BY <2>1, <3>1 DEF Lifecycle!Next
  <2>6. QED
    BY <2>2, <2>4, <2>5
<1>7. ASSUME NEW ok \in BOOLEAN, InjectReturns(a, ok)
      PROVE  Lifecycle!Next \/ UNCHANGED abstract
  <2>1. /\ hold[a] \in Jobs
        /\ UNCHANGED <<status, completedAt, hold>>
        /\ patches' = patches \cup {[by |-> a, n |-> attempt[a], job |-> hold[a],
                                     to |-> Verdict(ok), seen |-> Unread]}
    BY <1>1, <1>7 DEF InjectReturns, Send, stamps
  <2>2. hold[a] \in Busy
    BY <2>1, BusyIs
  <2>3. \A k \in Jobs : k \in Busy' <=> k \in Busy
    BY <2>1, BusyIs, BusyIsNext
  <2>4. Busy' = Busy
    BY <2>3 DEF Busy
  <2>5. CASE ok
    <3>1. Lifecycle!Vouch(hold[a])
      BY <1>7, <2>1, <2>2, <2>4, <2>5 DEF InjectReturns, Lifecycle!Vouch, Busy
    <3>2. QED
      BY <2>1, <3>1 DEF Lifecycle!Next
  <2>6. CASE ~ok
    BY <1>7, <2>1, <2>4, <2>6 DEF InjectReturns, abstract
  <2>7. QED
    BY <2>5, <2>6
<1>8. CASE Crash(a)
  BY <1>1, <1>8, LettingGo DEF Crash, stamps, network
<1>9. QED
  BY <1>2, <1>3, <1>4, <1>5, <1>6, <1>7, <1>8 DEF AgentStep

\* Every behaviour of the dashboard and the agents is a life of its jobs
\* that JobLifecycle allows.
THEOREM LifecycleImplemented == Spec => ImplementsLifecycle
<1>1. Init => LifeInv
  BY TypeInit, NoJobAssumption
     DEF Init, LifeInv, IdleHoldsNothing, ClosedIsStamped, ReportedIsVouched, SeenIsStamped
<1>2. Spec => []LifeInv
  <2>1. Init => TypeInv /\ IdleHoldsNothing /\ ReportedIsVouched /\ SeenIsStamped
    BY <1>1 DEF LifeInv
  <2>2. TypeInv /\ IdleHoldsNothing /\ ReportedIsVouched /\ SeenIsStamped /\ ClosedIsStamped
        /\ [Next]_vars => (TypeInv /\ IdleHoldsNothing /\ ReportedIsVouched /\ SeenIsStamped)'
    BY TypeStep, IdleStep, ReportedIsVouchedStep, SeenIsStampedStep
  <2>3. LifeInv <=> TypeInv /\ IdleHoldsNothing /\ ClosedIsStamped /\ ReportedIsVouched
                    /\ SeenIsStamped
    BY DEF LifeInv
  <2>4. QED
    BY <2>1, <2>2, <2>3, ClosedStamped, PTL DEF Spec
<1>3. Init => Lifecycle!Init
  BY NoJobAssumption DEF Init, Lifecycle!Init, Quiet
<1>4. LifeInv /\ [Next]_vars => [Lifecycle!Next]_abstract
  <2>1. ASSUME LifeInv, Next PROVE Lifecycle!Next \/ UNCHANGED abstract
    BY <2>1, DashboardImplements, AgentImplements DEF Next
  <2>2. ASSUME UNCHANGED vars PROVE UNCHANGED abstract
    BY <2>2, BusyKept DEF vars, stamps, network, agent, history, abstract
  <2>3. QED
    BY <2>1, <2>2
<1>5. QED
  BY <1>2, <1>3, <1>4, PTL DEF Spec, ImplementsLifecycle, Lifecycle!Spec, abstract, Busy

\* A step of the life of a job, over the state of the processes.
LEMMA LifeGoesForward ==
  ASSUME TypeOK, Lifecycle!Next, NEW j \in Jobs
  PROVE  /\ status[j] \notin {"absent", "pending"} => status'[j] \notin {"absent", "pending"}
         /\ j \notin Busy /\ status[j] # "absent"
               => status'[j] \in {status[j], "cancelled"} /\ (j \in vouched' => j \in vouched)
<1>1. DOMAIN status = Jobs
  BY DEF TypeOK
<1>2. PICK k \in Jobs :
         \/ Lifecycle!Post(k) \/ Lifecycle!Take(k) \/ Lifecycle!Vouch(k) \/ Lifecycle!Cancel(k)
         \/ Lifecycle!Rest(k)
         \/ \E to \in {"injecting", "sent", "failed"} : Lifecycle!Report(k, to)
  BY DEF Lifecycle!Next
<1>3. CASE Lifecycle!Post(k) \/ Lifecycle!Cancel(k)
  BY <1>1, <1>3 DEF Lifecycle!Post, Lifecycle!Cancel, Lifecycle!Store
<1>4. CASE Lifecycle!Take(k) \/ Lifecycle!Rest(k)
  BY <1>4 DEF Lifecycle!Take, Lifecycle!Rest
<1>5. CASE Lifecycle!Vouch(k)
  BY <1>5 DEF Lifecycle!Vouch, Busy
<1>6. ASSUME NEW to \in {"injecting", "sent", "failed"}, Lifecycle!Report(k, to)
      PROVE  /\ UNCHANGED vouched /\ k \in Busy
             /\ status'[j] = IF j = k THEN to ELSE status[j]
  BY <1>1, <1>6 DEF Lifecycle!Report, Lifecycle!Store, Busy
<1>7. QED
  BY <1>2, <1>3, <1>4, <1>5, <1>6

\* Work once begun never puts a row back into the queue, and a row at rest
\* stays as it is until it is cancelled, for any number of agents and faults:
\* JobLifecycle allows nothing else.
THEOREM NoRowReturns == Spec => RowsGoForward
<1> DEFINE Forward ==
      \A j \in Jobs :
         /\ status[j] \notin {"absent", "pending"} => status'[j] \notin {"absent", "pending"}
         /\ j \notin Busy /\ status[j] # "absent"
               => status'[j] \in {status[j], "cancelled"} /\ (j \in vouched' => j \in vouched)
<1>1. TypeOK /\ [Lifecycle!Next]_abstract => Forward
  <2> SUFFICES ASSUME TypeOK, [Lifecycle!Next]_abstract PROVE Forward
    OBVIOUS
  <2>1. CASE Lifecycle!Next
    BY <2>1, LifeGoesForward
  <2>2. CASE UNCHANGED abstract
    BY <2>2 DEF abstract
  <2>3. QED
    BY <2>1, <2>2
<1>2. Forward => \A j \in Jobs :
        /\ status[j] \notin {"absent", "pending"} => status'[j] \notin {"absent", "pending"}
        /\ Quiet(j) /\ status[j] # "absent"
               => status'[j] \in {status[j], "cancelled"} /\ (j \in vouched' => j \in vouched)
  BY DEF Busy
<1> HIDE DEF Forward
<1>3. QED
  BY <1>1, <1>2, TypeCorrect, LifecycleImplemented, PTL
     DEF ImplementsLifecycle, Lifecycle!Spec, RowsGoForward, abstract, Busy
=============================================================================
