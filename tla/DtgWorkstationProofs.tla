------------------------ MODULE DtgWorkstationProofs ------------------------
(***************************************************************************)
(* Proofs about DtgWorkstation, for any injections, failures and restarts. *)
(***************************************************************************)
EXTENDS DtgWorkstation, TLAPS

-----------------------------------------------------------------------------
(***************************************************************************)
(* The invariants.                                                         *)
(***************************************************************************)

Calling(j) == stage[j] \in {"locating", "scanning", "checking", "aiming", "writing"}
Selects(j) == Calling(j) /\ wants[j] # Both

\* Nothing of the injection has left the agent.
Unsent(j) == j \notin transit /\ printed[j] = {}

\* Where an injection stands, and what it can have done by then.
Injection(j) ==
    /\ stage[j] = "new" => ws[j] = NoWs
    /\ stage[j] = "new" \/ Selects(j) => ~chosen[j]
    /\ stage[j] \in {"new", "patching"} \/ Selects(j) => ~named[j]
    /\ stage[j] \in {"new", "patching", "sending"} \/ Selects(j) => Unsent(j)
    /\ Selects(j) => ws[j] \in Platens /\ wants[j] = Bit(ws[j])
    /\ Calling(j) => ws[j] # NoWs
    /\ chosen[j] => ws[j] \in Platens
    /\ restored[j] # "no" => stage[j] = "done"
    /\ stage[j] = "done" /\ chosen[j] => restored[j] # "no"
    /\ stage[j] = "writing" => addr[j] # "none"
    /\ pid[j] <= epoch

InjectionInv == \A j \in Jobs : Injection(j)

Original == up /\ epoch = 0

\* Before PrintExp has been restarted every address is that of an object in it,
\* and of the mask if nothing else passes for it.
Good(a) == a # "stale" /\ (mask["lookalike"] = 0 => a # "lookalike")

ProcessInv ==
    /\ epoch + (IF up THEN 0 ELSE 1) <= restarts
    /\ Original => Good(cache) /\ \A j \in Jobs : Good(addr[j])

CoreInv == TypeOK /\ InjectionInv /\ ProcessInv

\* Injections whose jobs PrintExp may still take.
Present == Active \cup transit

\* Injections that are under way beside one of these have met it.
MetInv == \A j \in Present : \A k \in Active : j = k \/ k \in met[j]

Alone(j) ==
    /\ ws[j] \in Platens /\ chosen[j] /\ Undisturbed
    /\ \A k \in met[j] : ws[k] = NoWs

\* The platen of an injection that nobody else with a workstation meets stays
\* as it was chosen until the injection itself restores.
PlatenOf(j) ==
    /\ j \in Present /\ restored[j] # "yes" => mask["real"] = Bit(ws[j])
    /\ \A p \in printed[j] : p.late \/ p.platen = ws[j]

PlatenInv == \A j \in Jobs : Alone(j) => PlatenOf(j)

\* The name under which the job of one injection is, or will be, printed.
NameOf(j) ==
    /\ j \in Present /\ named[j] /\ name \in Jobs \ {j} => name \in met[j]
    /\ \A p \in printed[j] : p.name \in Jobs \ {j} => p.name \in met[j] \/ ~named[j]

NameInv == \A j \in Jobs : NameOf(j)
-----------------------------------------------------------------------------
(***************************************************************************)
(* Masks, and what the pieces of the actions do.                           *)
(***************************************************************************)

LEMMA Powers == 2 ^ 0 = 1 /\ 2 ^ 1 = 2
  OBVIOUS

\* The mask of a workstation enables this one and no other.
LEMMA Bits ==
  ASSUME NEW w \in Platens
  PROVE  Bit(w) \in {1, 2} /\ Enabled(Bit(w)) = {w}
<1>1. CASE w = 0
  <2>1. Bit(w) = 1
    BY <1>1, Powers DEF Bit
  <2>2. (1 \div 2 ^ 0) % 2 = 1 /\ (1 \div 2 ^ 1) % 2 = 0
    BY Powers
  <2>3. \A v \in Platens : ((1 \div 2 ^ v) % 2 = 1) <=> (v = 0)
    BY <2>2 DEF Platens
  <2>4. QED
    BY <1>1, <2>1, <2>3 DEF Enabled
<1>2. CASE w = 1
  <2>1. Bit(w) = 2
    BY <1>2, Powers DEF Bit
  <2>2. (2 \div 2 ^ 0) % 2 = 0 /\ (2 \div 2 ^ 1) % 2 = 1
    BY Powers
  <2>3. \A v \in Platens : ((2 \div 2 ^ v) % 2 = 1) <=> (v = 1)
    BY <2>2 DEF Platens
  <2>4. QED
    BY <1>2, <2>1, <2>3 DEF Enabled
<1>3. QED
  BY <1>1, <1>2 DEF Platens

LEMMA Facts ==
  /\ MaxFaults \in Nat /\ MaxRestarts \in Nat
  /\ NoWs \notin Platens /\ Unnamed \notin Jobs
<1>1. MaxFaults \in Nat /\ MaxRestarts \in Nat
  BY BoundAssumption
<1>2. NoWs \notin Platens
  <2>1. 0 \in Nat /\ 1 \in Nat
    OBVIOUS
  <2>2. QED
    BY <2>1, NoWsAssumption, Zenon DEF Platens
<1>3. Unnamed \notin Jobs
  BY JobsAssumption
<1>4. QED
  BY <1>1, <1>2, <1>3

LEMMA BitTyped ==
  ASSUME NEW w \in Platens
  PROVE  Bit(w) \in 0 .. Both /\ Bit(w) # 0 /\ Bit(w) # Both
  BY Bits DEF Both

\* A failure stays within its bound.
LEMMA FailsTyped ==
  ASSUME TypeOK, NEW avoidable, Fails(avoidable) \/ UNCHANGED faults
  PROVE  faults' \in 0 .. MaxFaults
  BY Facts DEF Fails, TypeOK

\* What a call of select_workstation leaves of the types.
CallTyped ==
    /\ stage' \in [Jobs -> Stages]
    /\ wants' \in [Jobs -> 0 .. Both] /\ pid' \in [Jobs -> 0 .. MaxRestarts]
    /\ addr' \in [Jobs -> Addresses]

OutcomeTyped ==
    /\ chosen' \in [Jobs -> BOOLEAN] /\ named' \in [Jobs -> BOOLEAN]
    /\ restored' \in [Jobs -> {"no", "yes", "failed"}]

LEMMA CallsTyped ==
  ASSUME TypeOK, NEW j \in Jobs, NEW m \in 0 .. Both, Calls(j, m)
  PROVE  CallTyped
<1>1. "locating" \in Stages
  BY DEF Stages
<1>2. QED
  BY <1>1 DEF Calls, Moves, CallTyped, TypeOK

LEMMA ReturnsTyped ==
  ASSUME TypeOK, NEW j \in Jobs, NEW ok \in BOOLEAN, Returns(j, ok)
  PROVE  CallTyped /\ OutcomeTyped
<1>1. "done" \in Stages /\ "patching" \in Stages /\ "none" \in Addresses
      /\ 0 \in 0 .. Both /\ 0 \in 0 .. MaxRestarts
  BY Facts DEF Stages, Addresses, Both
<1>2. CallTyped
  BY <1>1 DEF Returns, Moves, CallTyped, TypeOK
<1>3. OutcomeTyped
  BY DEF Returns, OutcomeTyped, TypeOK
<1>4. QED
  BY <1>2, <1>3

LEMMA MovesTyped ==
  ASSUME TypeOK, NEW j \in Jobs, NEW s \in Stages, Moves(j, s)
  PROVE  /\ stage' \in [Jobs -> Stages] /\ stage'[j] = s
         /\ \A k \in Jobs : k # j => stage'[k] = stage[k]
  BY DEF Moves, TypeOK

\* What a mask can be when a thread writes.
LEMMA WantsTyped ==
  ASSUME CoreInv, NEW j \in Jobs, Calling(j)
  PROVE  wants[j] \in 1 .. Both
<1>1. CASE wants[j] = Both
  BY <1>1 DEF Both
<1>2. CASE wants[j] # Both
  BY <1>2, Bits DEF CoreInv, InjectionInv, Injection, Selects, Both
<1>3. QED
  BY <1>1, <1>2
-----------------------------------------------------------------------------
(***************************************************************************)
(* Type correctness.                                                       *)
(***************************************************************************)

LEMMA CoreInit == Init => CoreInv
<1> SUFFICES ASSUME Init PROVE CoreInv
  OBVIOUS
<1>1. /\ 0 \in 0 .. Both /\ 0 \in 0 .. MaxRestarts /\ 0 \in 0 .. MaxFaults
      /\ NoWs \in Workstations /\ "new" \in Stages /\ "none" \in Addresses
  BY Facts DEF Both, Workstations, Stages, Addresses
<1>2. mask \in [Objects -> 0 .. Both] /\ mask["real"] # 0
  BY DEF Init, Both, Objects
<1>3. TypeOK
  BY <1>1, <1>2 DEF Init, TypeOK
<1>4. InjectionInv
  BY DEF Init, InjectionInv, Injection, Selects, Calling, Unsent
<1>5. ProcessInv
  BY DEF Init, ProcessInv, Good
<1>6. QED
  BY <1>3, <1>4, <1>5 DEF CoreInv

LEMMA BeginTyped ==
  ASSUME CoreInv, NEW j \in Jobs, NEW w \in Workstations, Begin(j, w)
  PROVE  TypeOK'
<1> USE DEF call, outcome, process
<1>a. TypeOK /\ UNCHANGED <<outcome, transit, printed, mask, name, process, cache>>
  BY DEF CoreInv, Begin
<1>1. CallTyped
  <2>1. CASE w \in Platens /\ Calls(j, Bit(w))
    BY <1>a, <2>1, CallsTyped, BitTyped
  <2>2. CASE Moves(j, "patching") /\ UNCHANGED call
    <3>1. "patching" \in Stages
      BY DEF Stages
    <3>2. QED
      BY <1>a, <2>2, <3>1, MovesTyped DEF CallTyped, TypeOK
  <2>3. QED
    BY <2>1, <2>2 DEF Begin
<1>2. ws' \in [Jobs -> Workstations] /\ met' \in [Jobs -> SUBSET Jobs]
  BY <1>a DEF Begin, TypeOK, Active
<1>3. faults' \in 0 .. MaxFaults
  BY <1>a, FailsTyped DEF Begin
<1>4. QED
  BY <1>a, <1>1, <1>2, <1>3 DEF TypeOK, CallTyped

LEMMA ThreadTyped ==
  ASSUME CoreInv, NEW j \in Jobs, ThreadStep(j)
  PROVE  TypeOK'
<1> USE DEF call, outcome, process
<1>a. TypeOK
  BY DEF CoreInv
<1>b. {"scanning", "checking", "aiming", "writing", "sent", "raised"} \subseteq Stages
  BY DEF Stages
<1>1. CASE Locate(j)
  <2>1. UNCHANGED <<ws, transit, printed, mask, name, process, cache, met>>
    BY <1>1 DEF Locate
  <2>2. CallTyped /\ OutcomeTyped
    <3>1. CASE Returns(j, FALSE)
      BY <1>a, <3>1, ReturnsTyped
    <3>2. CASE Moves(j, IF cache = "none" THEN "scanning" ELSE "checking") /\ UNCHANGED <<call, outcome>>
      BY <1>a, <1>b, <3>2, MovesTyped DEF CallTyped, OutcomeTyped, TypeOK
    <3>3. QED
      BY <1>1, <3>1, <3>2 DEF Locate
  <2>3. faults' \in 0 .. MaxFaults
    BY <1>1, <1>a, FailsTyped DEF Locate
  <2>4. QED
    BY <1>a, <2>1, <2>2, <2>3 DEF TypeOK, CallTyped, OutcomeTyped
<1>2. CASE Scan(j)
  <2>1. UNCHANGED <<ws, call, outcome, transit, printed, mask, name, process, met>>
    BY <1>2 DEF Scan
  <2>2. cache' \in Addresses
    BY <1>2 DEF Scan, Candidates, Addresses
  <2>3. stage' \in [Jobs -> Stages]
    BY <1>2, <1>a, <1>b, MovesTyped DEF Scan
  <2>4. faults' \in 0 .. MaxFaults
    BY <1>2, <1>a, FailsTyped DEF Scan
  <2>5. QED
    BY <1>a, <2>1, <2>2, <2>3, <2>4 DEF TypeOK
<1>3. CASE Check(j)
  <2>1. UNCHANGED <<ws, transit, printed, mask, name, process, cache, met, faults>>
    BY <1>3 DEF Check
  <2>2. CallTyped /\ OutcomeTyped
    <3>1. CASE Returns(j, FALSE)
      BY <1>a, <3>1, ReturnsTyped
    <3>2. CASE Moves(j, "aiming") /\ UNCHANGED <<call, outcome>>
      BY <1>a, <1>b, <3>2, MovesTyped DEF CallTyped, OutcomeTyped, TypeOK
    <3>3. QED
      BY <1>3, <3>1, <3>2 DEF Check
  <2>3. QED
    BY <1>a, <2>1, <2>2 DEF TypeOK, CallTyped, OutcomeTyped
<1>4. CASE Aim(j)
  <2>1. /\ UNCHANGED <<ws, wants, pid, outcome, transit, printed, mask, name, process, cache, met, faults>>
        /\ addr' \in {addr, [addr EXCEPT ![j] = cache]}
        /\ Moves(j, "raised") \/ Moves(j, "writing")
    BY <1>4 DEF Aim
  <2>2. stage' \in [Jobs -> Stages]
    BY <1>a, <1>b, <2>1, MovesTyped
  <2>3. QED
    BY <1>a, <2>1, <2>2 DEF TypeOK
<1>5. CASE Write(j)
  <2>1. /\ UNCHANGED <<ws, transit, printed, name, process, cache, met>>
        /\ \E ok \in BOOLEAN : Returns(j, ok)
        /\ mask' = mask \/ \E o \in Objects : mask' = [mask EXCEPT ![o] = wants[j]]
    BY <1>5 DEF Write
  <2>2. wants[j] \in 1 .. Both
    BY <1>5, WantsTyped DEF Write, Calling
  <2>3. mask' \in [Objects -> 0 .. Both] /\ mask'["real"] # 0
    BY <1>a, <2>1, <2>2 DEF TypeOK, Both, Objects
  <2>4. CallTyped /\ OutcomeTyped
    BY <1>a, <2>1, ReturnsTyped
  <2>5. faults' \in 0 .. MaxFaults
    BY <1>5, <1>a, FailsTyped DEF Write
  <2>6. QED
    BY <1>a, <2>1, <2>3, <2>4, <2>5 DEF TypeOK, CallTyped, OutcomeTyped
<1>6. CASE StreamEnds(j)
  <2>1. /\ UNCHANGED <<ws, call, outcome, transit, printed, mask, name, process, cache, met>>
        /\ Moves(j, "sent") \/ Moves(j, "raised")
    BY <1>6 DEF StreamEnds, Raises
  <2>2. stage' \in [Jobs -> Stages]
    BY <1>a, <1>b, <2>1, MovesTyped
  <2>3. faults' \in 0 .. MaxFaults
    BY <1>6, <1>a, FailsTyped DEF StreamEnds, Raises
  <2>4. QED
    BY <1>a, <2>1, <2>2, <2>3 DEF TypeOK
<1>7. QED
  BY <1>1, <1>2, <1>3, <1>4, <1>5, <1>6 DEF ThreadStep

LEMMA ResumesTyped ==
  ASSUME CoreInv, NEW j \in Jobs, Resumes(j)
  PROVE  TypeOK'
<1> USE DEF call, outcome, process
<1>a. TypeOK
  BY DEF CoreInv
<1>b. {"sending", "streaming", "raised", "done"} \subseteq Stages
  BY DEF Stages
<1>1. CASE PatchName(j)
  <2>1. /\ UNCHANGED <<ws, call, chosen, restored, transit, printed, mask, process, cache, met>>
        /\ name' \in {name, j} /\ named' \in {named, [named EXCEPT ![j] = TRUE]}
        /\ Moves(j, "sending")
    BY <1>1 DEF PatchName, Patched
  <2>2. stage' \in [Jobs -> Stages]
    BY <1>a, <1>b, <2>1, MovesTyped
  <2>3. faults' \in 0 .. MaxFaults
    BY <1>1, <1>a, FailsTyped DEF PatchName
  <2>4. QED
    BY <1>a, <2>1, <2>2, <2>3 DEF TypeOK
<1>2. CASE Stream(j)
  <2>1. /\ UNCHANGED <<ws, call, outcome, printed, mask, name, process, cache, met>>
        /\ transit' \in {transit, transit \cup {j}}
        /\ Moves(j, "streaming") \/ Moves(j, "raised")
    BY <1>2 DEF Stream, Raises
  <2>2. stage' \in [Jobs -> Stages]
    BY <1>a, <1>b, <2>1, MovesTyped
  <2>3. faults' \in 0 .. MaxFaults
    BY <1>2, <1>a, FailsTyped DEF Stream, Raises
  <2>4. QED
    BY <1>a, <2>1, <2>2, <2>3 DEF TypeOK
<1>3. CASE Restore(j)
  <2>1. /\ UNCHANGED <<ws, chosen, named, transit, printed, mask, name, process, cache, met>>
        /\ restored' \in {restored, [restored EXCEPT ![j] = "failed"]}
        /\ Calls(j, Both) \/ (Moves(j, "done") /\ UNCHANGED call)
    BY <1>3 DEF Restore
  <2>2. CallTyped
    <3>1. CASE Calls(j, Both)
      BY <1>a, <3>1, CallsTyped DEF Both
    <3>2. CASE Moves(j, "done") /\ UNCHANGED call
      BY <1>a, <1>b, <3>2, MovesTyped DEF CallTyped, TypeOK
    <3>3. QED
      BY <2>1, <3>1, <3>2
  <2>3. faults' \in 0 .. MaxFaults
    BY <1>3, <1>a, FailsTyped DEF Restore
  <2>4. QED
    BY <1>a, <2>1, <2>2, <2>3 DEF TypeOK, CallTyped
<1>4. QED
  BY <1>1, <1>2, <1>3 DEF Resumes

\* What PrintExp takes.
LEMMA TakesOne ==
  ASSUME TypeOK, NEW j \in Jobs, Take(j)
  PROVE  /\ transit' = transit \ {j} /\ j \in transit /\ up
         /\ \A k \in Jobs : k # j => printed'[k] = printed[k]
         /\ \E w \in Enabled(mask["real"]) :
               printed'[j] = printed[j] \cup {[name |-> name, platen |-> w, late |-> restored[j] = "yes"]}
         /\ printed' \in [Jobs -> SUBSET Taken]
<1>1. PICK w \in Enabled(mask["real"]) :
         printed' = [printed EXCEPT
              ![j] = @ \cup {[name |-> name, platen |-> w, late |-> restored[j] = "yes"]}]
  BY DEF Take
<1> DEFINE late == restored[j] = "yes"
<1>2. w \in Platens /\ name \in Jobs \cup {Unnamed} /\ late \in BOOLEAN
  BY <1>1 DEF Enabled, TypeOK
<1> DEFINE p == [name |-> name, platen |-> w, late |-> late]
<1>3. p \in Taken
  <2> HIDE DEF late
  <2>1. QED
    BY <1>2 DEF Taken
<1>4. printed' = [printed EXCEPT ![j] = printed[j] \cup {p}]
  BY <1>1
<1> HIDE DEF p, late
<1>5. /\ printed'[j] = printed[j] \cup {p}
      /\ \A k \in Jobs : k # j => printed'[k] = printed[k]
      /\ printed' \in [Jobs -> SUBSET Taken]
  BY <1>3, <1>4 DEF TypeOK
<1>6. QED
  BY <1>1, <1>5 DEF Take, p, late

LEMMA TypeStep == CoreInv /\ [Next]_vars => TypeOK'
<1> SUFFICES ASSUME CoreInv, [Next]_vars PROVE TypeOK'
  OBVIOUS
<1> USE DEF call, outcome, process
<1>a. TypeOK /\ epoch + (IF up THEN 0 ELSE 1) <= restarts
  BY DEF CoreInv, ProcessInv
<1>1. ASSUME NEW j \in Jobs, NEW w \in Asked[j], Begin(j, w) PROVE TypeOK'
  BY <1>1, BeginTyped, AskedAssumption
<1>2. ASSUME NEW j \in Jobs, ThreadStep(j) \/ Resumes(j) PROVE TypeOK'
  BY <1>2, ThreadTyped, ResumesTyped
<1>3. ASSUME NEW j \in Jobs, Take(j) PROVE TypeOK'
  <2>1. /\ UNCHANGED <<stage, ws, call, outcome, mask, name, process, cache, met, faults>>
        /\ transit' = transit \ {j}
    BY <1>3 DEF Take
  <2>2. printed' \in [Jobs -> SUBSET Taken]
    BY <1>a, <1>3, TakesOne
  <2>3. transit' \subseteq Jobs
    BY <1>a, <2>1 DEF TypeOK
  <2>4. QED
    BY <1>a, <2>1, <2>2, <2>3 DEF TypeOK
<1>4. CASE PrintExpDies
  <2>1. /\ UNCHANGED <<stage, ws, call, outcome, printed, mask, name, epoch, cache, met, faults>>
        /\ transit' = {} /\ up' = FALSE /\ restarts < MaxRestarts /\ restarts' = restarts + 1
    BY <1>4 DEF PrintExpDies
  <2>2. restarts' \in 0 .. MaxRestarts
    BY <1>a, <2>1, Facts DEF TypeOK
  <2>3. QED
    BY <1>a, <2>1, <2>2 DEF TypeOK
<1>5. CASE PrintExpStarts
  <2>1. /\ UNCHANGED <<stage, ws, wants, pid, outcome, transit, printed, restarts, met, faults>>
        /\ up' = TRUE /\ epoch' = epoch + 1 /\ name' = Unnamed /\ ~up
    BY <1>5 DEF PrintExpStarts
  <2>2. mask' \in [Objects -> 0 .. Both] /\ mask'["real"] # 0
    BY <1>5, <1>a DEF PrintExpStarts, TypeOK, Objects, Both
  <2>3. cache' \in Addresses /\ addr' \in [Jobs -> Addresses]
    BY <1>5 DEF PrintExpStarts, Outdated, Addresses
  <2>4. epoch' \in 0 .. MaxRestarts
    BY <1>a, <2>1, Facts DEF TypeOK
  <2>5. QED
    BY <1>a, <2>1, <2>2, <2>3, <2>4 DEF TypeOK
<1>6. CASE AgentRestarts
  <2>1. /\ UNCHANGED <<ws, call, outcome, transit, printed, mask, name, up, epoch, met, faults>>
        /\ cache' = "none" /\ restarts' \in 0 .. MaxRestarts
    BY <1>6, <1>a, Facts DEF AgentRestarts, TypeOK
  <2>2. stage' \in [Jobs -> Stages]
    BY <1>6, <1>a DEF AgentRestarts, TypeOK, Stages
  <2>3. QED
    BY <1>a, <2>1, <2>2 DEF TypeOK, Addresses
<1>7. CASE UNCHANGED vars
  BY <1>7, <1>a DEF vars, TypeOK
<1>8. QED
  BY <1>1, <1>2, <1>3, <1>4, <1>5, <1>6, <1>7 DEF Next
-----------------------------------------------------------------------------
(***************************************************************************)
(* Where injections stand.                                                 *)
(***************************************************************************)

\* What a step of another injection leaves alone.
Same(k) ==
    /\ stage'[k] = stage[k] /\ ws'[k] = ws[k]
    /\ wants'[k] = wants[k] /\ pid'[k] = pid[k] /\ addr'[k] = addr[k]
    /\ chosen'[k] = chosen[k] /\ named'[k] = named[k] /\ restored'[k] = restored[k]
    /\ printed'[k] = printed[k] /\ (k \in transit' <=> k \in transit)

LEMMA ReturnsSpares ==
  ASSUME TypeOK, NEW j \in Jobs, NEW ok \in BOOLEAN, Returns(j, ok)
  PROVE  /\ \A k \in Jobs : k # j =>
               /\ stage'[k] = stage[k] /\ wants'[k] = wants[k] /\ pid'[k] = pid[k]
               /\ addr'[k] = addr[k] /\ chosen'[k] = chosen[k] /\ named'[k] = named[k]
               /\ restored'[k] = restored[k]
         /\ wants'[j] = 0 /\ pid'[j] = 0 /\ addr'[j] = "none" /\ named'[j] = named[j]
         /\ wants[j] = Both => /\ stage'[j] = "done" /\ chosen'[j] = chosen[j]
                               /\ restored'[j] = IF ok THEN "yes" ELSE "failed"
         /\ wants[j] # Both => /\ stage'[j] = "patching" /\ chosen'[j] = ok
                               /\ restored'[j] = restored[j]
  BY DEF Returns, Moves, TypeOK

LEMMA CallsSpares ==
  ASSUME TypeOK, NEW j \in Jobs, NEW m, Calls(j, m)
  PROVE  /\ \A k \in Jobs : k # j =>
               stage'[k] = stage[k] /\ wants'[k] = wants[k] /\ pid'[k] = pid[k]
         /\ stage'[j] = "locating" /\ wants'[j] = m /\ pid'[j] = epoch /\ UNCHANGED addr
  BY DEF Calls, Moves, TypeOK

StepOf(j) ==
    ThreadStep(j) \/ Resumes(j) \/ Take(j) \/ \E w \in Asked[j] : Begin(j, w)

LEMMA StepSpares ==
  ASSUME TypeOK, NEW j \in Jobs, StepOf(j), NEW k \in Jobs, k # j
  PROVE  Same(k) /\ UNCHANGED process
<1> USE DEF call, outcome, process
<1>a. ASSUME UNCHANGED <<ws, transit, printed, process>>, NEW ok \in BOOLEAN, Returns(j, ok)
      PROVE  Same(k) /\ UNCHANGED process
  BY <1>a, ReturnsSpares DEF Same
<1>b. ASSUME UNCHANGED <<ws, call, outcome, transit, printed, process>>, NEW s, Moves(j, s)
      PROVE  Same(k) /\ UNCHANGED process
  BY <1>b DEF Moves, Same, TypeOK
<1>1. CASE Locate(j)
  <2>1. UNCHANGED <<ws, transit, printed, process>>
    BY <1>1 DEF Locate
  <2>2. Returns(j, FALSE) \/ \E s \in Stages : Moves(j, s) /\ UNCHANGED <<call, outcome>>
    BY <1>1 DEF Locate, Stages
  <2>3. QED
    BY <1>a, <1>b, <2>1, <2>2
<1>2. CASE Scan(j)
  BY <1>2, <1>b DEF Scan
<1>3. CASE Check(j)
  <2>1. UNCHANGED <<ws, transit, printed, process>>
    BY <1>3 DEF Check
  <2>2. Returns(j, FALSE) \/ \E s \in Stages : Moves(j, s) /\ UNCHANGED <<call, outcome>>
    BY <1>3 DEF Check, Stages
  <2>3. QED
    BY <1>a, <1>b, <2>1, <2>2
<1>4. CASE Aim(j)
  BY <1>4 DEF Aim, Moves, Same, TypeOK
<1>5. CASE Write(j)
  BY <1>5, ReturnsSpares DEF Write, Same
<1>6. CASE StreamEnds(j)
  BY <1>6 DEF StreamEnds, Raises, Moves, Same, TypeOK
<1>7. CASE PatchName(j)
  BY <1>7 DEF PatchName, Moves, Same, TypeOK
<1>8. CASE Stream(j)
  BY <1>8 DEF Stream, Raises, Moves, Same, TypeOK
<1>9. CASE Restore(j)
  BY <1>9, CallsSpares DEF Restore, Moves, Same, TypeOK
<1>10. CASE Take(j)
  BY <1>10, TakesOne DEF Take, Same
<1>11. ASSUME NEW w \in Asked[j], Begin(j, w) PROVE Same(k) /\ UNCHANGED process
  BY <1>11, CallsSpares DEF Begin, Moves, Same, TypeOK
<1>12. QED
  BY <1>1, <1>2, <1>3, <1>4, <1>5, <1>6, <1>7, <1>8, <1>9, <1>10, <1>11
     DEF StepOf, ThreadStep, Resumes

\* An injection that nothing of has changed is where it was.
LEMMA SameInjection ==
  ASSUME NEW k \in Jobs, Injection(k), Same(k), UNCHANGED epoch
  PROVE  Injection(k)'
  BY DEF Injection, Same, Selects, Calling, Unsent

LEMMA ReturnsInjection ==
  ASSUME CoreInv, NEW j \in Jobs, NEW ok \in BOOLEAN, Calling(j), Returns(j, ok),
         UNCHANGED <<ws, transit, printed, epoch>>
  PROVE  Injection(j)'
<1>1. TypeOK /\ Injection(j)
  BY DEF CoreInv, InjectionInv
<1>2. 0 <= epoch /\ restored[j] = "no"
  BY <1>1 DEF TypeOK, Injection, Calling
<1>3. CASE wants[j] = Both
  <2>1. /\ stage'[j] = "done" /\ pid'[j] = 0 /\ restored'[j] \in {"yes", "failed"}
        /\ chosen'[j] = chosen[j]
    BY <1>1, <1>3, ReturnsSpares
  <2>2. QED
    BY <1>1, <1>2, <2>1 DEF Injection, Selects, Calling
<1>4. CASE wants[j] # Both
  <2>1. /\ stage'[j] = "patching" /\ pid'[j] = 0 /\ restored'[j] = restored[j]
        /\ named'[j] = named[j] /\ chosen'[j] = ok
    BY <1>1, <1>4, ReturnsSpares
  <2>2. Selects(j)
    BY <1>4 DEF Selects
  <2>3. QED
    BY <1>1, <1>2, <2>1, <2>2 DEF Injection, Selects, Calling, Unsent
<1>5. QED
  BY <1>3, <1>4

\* A thread that has not come to its end leaves its injection where it is.
LEMMA StaysInjection ==
  ASSUME CoreInv, NEW j \in Jobs, Calling(j),
         NEW s \in {"scanning", "checking", "aiming", "raised"}, Moves(j, s),
         UNCHANGED <<ws, wants, pid, outcome, transit, printed, epoch>>
  PROVE  Injection(j)'
<1>1. TypeOK /\ Injection(j) /\ stage'[j] = s
  BY DEF CoreInv, InjectionInv, Moves, TypeOK
<1>2. QED
  BY <1>1 DEF outcome, Injection, Selects, Calling, Unsent

LEMMA ThreadInjection ==
  ASSUME CoreInv, NEW j \in Jobs, ThreadStep(j)
  PROVE  Injection(j)'
<1> USE DEF call, outcome, process
<1>a. TypeOK /\ Injection(j)
  BY DEF CoreInv, InjectionInv
<1>1. CASE Locate(j)
  <2>1. Calling(j) /\ UNCHANGED <<ws, transit, printed, epoch>>
    BY <1>1 DEF Locate, Calling
  <2>2. CASE Returns(j, FALSE)
    BY <2>1, <2>2, ReturnsInjection
  <2>3. CASE Moves(j, IF cache = "none" THEN "scanning" ELSE "checking") /\ UNCHANGED <<call, outcome>>
    BY <2>1, <2>3, StaysInjection
  <2>4. QED
    BY <1>1, <2>2, <2>3 DEF Locate
<1>2. CASE Scan(j)
  BY <1>2, StaysInjection DEF Scan, Calling
<1>3. CASE Check(j)
  <2>1. Calling(j) /\ UNCHANGED <<ws, transit, printed, epoch>>
    BY <1>3 DEF Check, Calling
  <2>2. CASE Returns(j, FALSE)
    BY <2>1, <2>2, ReturnsInjection
  <2>3. CASE Moves(j, "aiming") /\ UNCHANGED <<call, outcome>>
    BY <2>1, <2>3, StaysInjection
  <2>4. QED
    BY <1>3, <2>2, <2>3 DEF Check
<1>4. CASE Aim(j)
  <2>1. Calling(j) /\ UNCHANGED <<ws, wants, pid, outcome, transit, printed, epoch>>
    BY <1>4 DEF Aim, Calling
  <2>2. CASE Moves(j, "raised")
    BY <2>1, <2>2, StaysInjection
  <2>3. CASE Moves(j, "writing") /\ addr' = [addr EXCEPT ![j] = cache] /\ cache # "none"
    <3>1. stage'[j] = "writing" /\ addr'[j] # "none"
      BY <1>a, <2>3 DEF Moves, TypeOK
    <3>2. QED
      BY <1>a, <2>1, <3>1 DEF Injection, Selects, Calling, Unsent
  <2>4. QED
    BY <1>4, <2>2, <2>3 DEF Aim
<1>5. CASE Write(j)
  <2>1. Calling(j) /\ UNCHANGED <<ws, transit, printed, epoch>> /\ \E ok \in BOOLEAN : Returns(j, ok)
    BY <1>5 DEF Write, Calling
  <2>2. QED
    BY <2>1, ReturnsInjection
<1>6. CASE StreamEnds(j)
  <2>1. /\ UNCHANGED <<ws, call, outcome, transit, printed, epoch>>
        /\ stage[j] = "streaming" /\ stage'[j] \in {"sent", "raised"}
    BY <1>6, <1>a DEF StreamEnds, Raises, Moves, TypeOK
  <2>2. QED
    BY <1>a, <2>1 DEF Injection, Selects, Calling, Unsent
<1>7. QED
  BY <1>1, <1>2, <1>3, <1>4, <1>5, <1>6 DEF ThreadStep

LEMMA ResumesInjection ==
  ASSUME CoreInv, NEW j \in Jobs, Resumes(j)
  PROVE  Injection(j)'
<1> USE DEF call, outcome, process
<1>a. TypeOK /\ Injection(j)
  BY DEF CoreInv, InjectionInv
<1>1. CASE PatchName(j)
  <2>1. /\ UNCHANGED <<ws, call, chosen, restored, transit, printed, epoch>>
        /\ stage[j] = "patching" /\ stage'[j] = "sending"
    BY <1>1, <1>a DEF PatchName, Moves, TypeOK
  <2>2. QED
    BY <1>a, <2>1 DEF Injection, Selects, Calling, Unsent
<1>2. CASE Stream(j)
  <2>1. /\ UNCHANGED <<ws, call, outcome, printed, epoch>>
        /\ stage[j] = "sending" /\ stage'[j] \in {"streaming", "raised"}
    BY <1>2, <1>a DEF Stream, Raises, Moves, TypeOK
  <2>2. QED
    BY <1>a, <2>1 DEF Injection, Selects, Calling
<1>3. CASE Restore(j)
  <2>1. /\ UNCHANGED <<ws, chosen, named, transit, printed, epoch>> /\ stage[j] = "sent"
    BY <1>3 DEF Restore
  <2>2. CASE Restores(j) /\ Calls(j, Both) /\ UNCHANGED restored
    <3>1. stage'[j] = "locating" /\ wants'[j] = Both /\ pid'[j] = epoch /\ ws[j] # NoWs
      BY <1>a, <2>2, CallsSpares DEF Restores
    <3>2. epoch <= epoch
      BY <1>a DEF TypeOK
    <3>3. QED
      BY <1>a, <2>1, <2>2, <3>1, <3>2 DEF Injection, Selects, Calling, Unsent
  <2>3. CASE /\ Moves(j, "done") /\ UNCHANGED call
             /\ restored' = [restored EXCEPT ![j] = "failed"] \/ (~Restores(j) /\ UNCHANGED restored)
    <3>1. stage'[j] = "done"
      BY <1>a, <2>3 DEF Moves, TypeOK
    <3>2. chosen[j] => ws[j] # NoWs
      BY <1>a, Facts DEF Injection
    <3>3. restored'[j] = "failed" \/ (ws[j] = NoWs /\ UNCHANGED restored)
      BY <1>a, <2>3 DEF Restores, TypeOK
    <3>4. QED
      BY <1>a, <2>1, <2>3, <3>1, <3>2, <3>3 DEF Injection, Selects, Calling
  <2>4. QED
    BY <1>3, <2>2, <2>3 DEF Restore
<1>4. QED
  BY <1>1, <1>2, <1>3 DEF Resumes

LEMMA BeginInjection ==
  ASSUME CoreInv, NEW j \in Jobs, NEW w \in Workstations, Begin(j, w)
  PROVE  Injection(j)'
<1> USE DEF call, outcome, process
<1>a. TypeOK /\ Injection(j) /\ stage[j] = "new"
  BY DEF CoreInv, InjectionInv, Begin
<1>b. ws'[j] = w /\ UNCHANGED <<outcome, transit, printed, epoch>>
  BY <1>a DEF Begin, TypeOK
<1>1. CASE w \in Platens /\ Calls(j, Bit(w))
  <2>1. stage'[j] = "locating" /\ wants'[j] = Bit(w) /\ pid'[j] = epoch /\ epoch <= epoch
    BY <1>a, <1>1, CallsSpares DEF TypeOK
  <2>2. w # NoWs
    BY <1>1, Facts
  <2>3. QED
    BY <1>a, <1>b, <1>1, <2>1, <2>2 DEF Injection, Selects, Calling, Unsent
<1>2. CASE Moves(j, "patching") /\ UNCHANGED call
  <2>1. stage'[j] = "patching"
    BY <1>a, <1>2 DEF Moves, TypeOK
  <2>2. QED
    BY <1>a, <1>b, <1>2, <2>1 DEF Injection, Selects, Calling, Unsent
<1>3. QED
  BY <1>1, <1>2 DEF Begin

\* PrintExp takes a job when nobody is looking.
LEMMA TakeInjection ==
  ASSUME CoreInv, NEW j \in Jobs, Take(j)
  PROVE  Injection(j)'
<1>1. TypeOK /\ Injection(j) /\ j \in transit
  BY DEF CoreInv, InjectionInv, Take
<1>2. UNCHANGED <<stage, ws, call, outcome, epoch>>
  BY DEF Take, process
<1>3. ~(stage[j] \in {"new", "patching", "sending"} \/ Selects(j))
  BY <1>1 DEF Injection, Unsent
<1>4. QED
  BY <1>1, <1>2, <1>3 DEF call, outcome, Injection, Selects, Calling

LEMMA InjectionStep == CoreInv /\ [Next]_vars => InjectionInv'
<1> SUFFICES ASSUME CoreInv, [Next]_vars, NEW k \in Jobs PROVE Injection(k)'
  BY DEF InjectionInv
<1> USE DEF call, outcome, process
<1>a. TypeOK /\ Injection(k)
  BY DEF CoreInv, InjectionInv
<1>1. ASSUME NEW j \in Jobs, StepOf(j) PROVE Injection(k)'
  <2>1. CASE k = j
    BY <1>1, <2>1, ThreadInjection, ResumesInjection, TakeInjection, BeginInjection,
       AskedAssumption DEF StepOf
  <2>2. CASE k # j
    BY <1>a, <1>1, <2>2, StepSpares, SameInjection
  <2>3. QED
    BY <2>1, <2>2
<1>2. CASE PrintExpDies
  <2>1. UNCHANGED <<stage, ws, call, outcome, printed, epoch>> /\ transit' = {}
    BY <1>2 DEF PrintExpDies
  <2>2. QED
    BY <1>a, <2>1 DEF Injection, Selects, Calling, Unsent
<1>3. CASE PrintExpStarts
  <2>1. /\ UNCHANGED <<stage, ws, wants, pid, outcome, transit, printed>>
        /\ epoch' = epoch + 1 /\ addr'[k] = Outdated(addr[k])
    BY <1>3 DEF PrintExpStarts
  <2>2. pid[k] \in Nat /\ epoch \in Nat
    BY <1>a, Facts DEF TypeOK
  <2>3. pid'[k] <= epoch'
    BY <1>a, <2>1, <2>2 DEF Injection
  <2>4. stage'[k] = "writing" => addr'[k] # "none"
    BY <1>a, <2>1 DEF Injection, Outdated
  <2>5. QED
    BY <1>a, <2>1, <2>3, <2>4 DEF Injection, Selects, Calling, Unsent
<1>4. CASE AgentRestarts
  <2>1. /\ UNCHANGED <<ws, call, outcome, transit, printed, epoch>>
        /\ stage'[k] = IF k \in Active THEN "gone" ELSE stage[k]
    BY <1>4 DEF AgentRestarts
  <2>2. CASE k \in Active
    <3>1. restored[k] = "no"
      BY <1>a, <2>2 DEF Injection, Active, Ended, TypeOK
    <3>2. QED
      BY <1>a, <2>1, <2>2, <3>1 DEF Injection, Selects, Calling
  <2>3. CASE k \notin Active
    BY <1>a, <2>1, <2>3 DEF Injection, Selects, Calling, Unsent
  <2>4. QED
    BY <2>2, <2>3
<1>5. CASE UNCHANGED vars
  BY <1>5, <1>a DEF vars, Injection, Selects, Calling, Unsent
<1>6. QED
  BY <1>1, <1>2, <1>3, <1>4, <1>5 DEF Next, StepOf
-----------------------------------------------------------------------------
(***************************************************************************)
(* Addresses in the PrintExp of the start.                                 *)
(***************************************************************************)

\* PrintExp starts again only after it died.
LEMMA OriginalBefore ==
  ASSUME CoreInv, [Next]_vars, Original'
  PROVE  Original /\ ~PrintExpStarts /\ ~PrintExpDies
<1> USE DEF call, outcome, process
<1>1. epoch \in Nat
  BY Facts DEF CoreInv, TypeOK
<1>2. ~PrintExpStarts
  BY <1>1 DEF PrintExpStarts, Original
<1>3. ~PrintExpDies
  BY DEF PrintExpDies, Original
<1>4. UNCHANGED <<up, epoch>>
  <2>1. ASSUME NEW j \in Jobs, StepOf(j) PROVE UNCHANGED <<up, epoch>>
    BY <2>1 DEF StepOf, ThreadStep, Resumes, Begin, Locate, Scan, Check, Aim, Write,
       StreamEnds, PatchName, Stream, Restore, Take
  <2>2. CASE AgentRestarts
    BY <2>2 DEF AgentRestarts
  <2>3. CASE UNCHANGED vars
    BY <2>3 DEF vars
  <2>4. QED
    BY <1>2, <1>3, <2>1, <2>2, <2>3 DEF Next, StepOf
<1>5. QED
  BY <1>2, <1>3, <1>4 DEF Original

\* Until then a thread writes into the PrintExp it has opened, and what it
\* writes is not nothing.
LEMMA WriteHits ==
  ASSUME CoreInv, Original, NEW j \in Jobs, Write(j)
  PROVE  /\ mask["lookalike"] # 0 => mask'["lookalike"] # 0
         /\ mask["lookalike"] = 0 =>
               /\ mask'["lookalike"] = 0
               /\ \/ mask'["real"] = wants[j] /\ Returns(j, TRUE)
                  \/ mask' = mask /\ Returns(j, FALSE)
<1>1. TypeOK /\ addr[j] # "none" /\ Good(addr[j]) /\ wants[j] # 0
  BY WantsTyped DEF CoreInv, InjectionInv, Injection, ProcessInv, Write, Calling
<1>2. CASE mask' = mask /\ Returns(j, FALSE)
  BY <1>2
<1>3. ASSUME NEW o \in Targets(addr[j]),
             mask' = IF o \in Objects THEN [mask EXCEPT ![o] = wants[j]] ELSE mask,
             Returns(j, TRUE)
      PROVE  /\ mask["lookalike"] # 0 => mask'["lookalike"] # 0
             /\ mask["lookalike"] = 0 =>
                   mask'["lookalike"] = 0 /\ mask'["real"] = wants[j] /\ Returns(j, TRUE)
  <2>1. o \in Objects /\ (mask["lookalike"] = 0 => o = "real")
    BY <1>1, <1>3 DEF Targets, Good, TypeOK, Addresses, Objects
  <2>2. mask' = [mask EXCEPT ![o] = wants[j]]
    BY <1>3, <2>1
  <2>3. QED
    BY <1>1, <1>3, <2>1, <2>2 DEF TypeOK, Objects
<1>4. QED
  BY <1>2, <1>3 DEF Write

LEMMA MaskStep ==
  ASSUME CoreInv, [Next]_vars, Original'
  PROVE  mask' = mask \/ \E j \in Jobs : Write(j)
<1>1. ASSUME NEW j \in Jobs, StepOf(j) PROVE mask' = mask \/ Write(j)
  BY <1>1 DEF StepOf, ThreadStep, Resumes, Begin, Locate, Scan, Check, Aim,
     StreamEnds, PatchName, Stream, Restore, Take
<1>2. CASE AgentRestarts
  BY <1>2 DEF AgentRestarts
<1>3. CASE UNCHANGED vars
  BY <1>3 DEF vars
<1>4. QED
  BY <1>1, <1>2, <1>3, OriginalBefore DEF Next, StepOf

\* What passes for the mask later did so from the start.
LEMMA LookalikeStays ==
  ASSUME CoreInv, [Next]_vars, Original', mask'["lookalike"] = 0
  PROVE  mask["lookalike"] = 0
  BY OriginalBefore, MaskStep, WriteHits

\* Addresses come from the cache, and the cache from a scan of this PrintExp.
LEMMA AddressStep ==
  ASSUME CoreInv, [Next]_vars, Original'
  PROVE  /\ cache' \in {cache, "none"} \cup Candidates
         /\ \A k \in Jobs : addr'[k] \in {addr[k], "none", cache}
<1> USE DEF call, outcome, process
<1>a. TypeOK /\ InjectionInv /\ Original
  BY OriginalBefore DEF CoreInv
<1> DEFINE Kept == cache' = cache /\ UNCHANGED addr
           Goal == /\ cache' \in {cache, "none"} \cup Candidates
                   /\ \A k \in Jobs : addr'[k] \in {addr[k], "none", cache}
<1>1. Kept => Goal
  OBVIOUS
<1>2. ASSUME NEW j \in Jobs, StepOf(j) PROVE Goal
  <2>1. CASE Scan(j)
    <3>1. pid[j] = 0 /\ epoch = 0 /\ up
      BY <1>a, Facts DEF TypeOK, InjectionInv, Injection, Original
    <3>2. cache' \in {"none"} \cup Candidates
      BY <2>1, <3>1 DEF Scan, Reaches
    <3>3. UNCHANGED addr
      BY <2>1 DEF Scan
    <3>4. QED
      BY <3>2, <3>3
  <2>2. CASE Aim(j)
    BY <1>a, <2>2 DEF Aim, TypeOK
  <2>3. CASE cache' = cache /\ \E ok \in BOOLEAN : Returns(j, ok)
    BY <1>a, <2>3, ReturnsSpares
  <2>4. CASE Locate(j) \/ Check(j) \/ Write(j)
    BY <1>1, <2>3, <2>4 DEF Locate, Check, Write
  <2>5. CASE StreamEnds(j) \/ Resumes(j) \/ Take(j) \/ \E w \in Asked[j] : Begin(j, w)
    <3>1. Kept
      BY <2>5 DEF StreamEnds, Resumes, PatchName, Stream, Restore, Take, Begin, Calls
    <3>2. QED
      BY <1>1, <3>1
  <2>6. QED
    BY <1>2, <2>1, <2>2, <2>4, <2>5 DEF StepOf, ThreadStep
<1>3. CASE AgentRestarts
  BY <1>3 DEF AgentRestarts
<1>4. CASE UNCHANGED vars
  BY <1>1, <1>4 DEF vars
<1>5. QED
  BY <1>2, <1>3, <1>4, OriginalBefore DEF Next, StepOf

LEMMA ProcessStep == CoreInv /\ [Next]_vars => ProcessInv'
<1> SUFFICES ASSUME CoreInv, [Next]_vars PROVE ProcessInv'
  OBVIOUS
<1>a. TypeOK /\ ProcessInv
  BY DEF CoreInv
<1>1. (epoch + (IF up THEN 0 ELSE 1) <= restarts)'
  <2>0. epoch \in Nat /\ restarts \in Nat /\ epoch + (IF up THEN 0 ELSE 1) <= restarts
    BY <1>a, Facts DEF TypeOK, ProcessInv
  <2>1. CASE UNCHANGED process
    BY <2>0, <2>1 DEF process
  <2>2. CASE PrintExpDies
    BY <2>0, <2>2 DEF PrintExpDies
  <2>3. CASE PrintExpStarts
    BY <2>0, <2>3 DEF PrintExpStarts
  <2>4. CASE AgentRestarts
    BY <2>0, <2>4 DEF AgentRestarts
  <2>5. ASSUME NEW j \in Jobs, StepOf(j) PROVE UNCHANGED process
    BY <2>5 DEF StepOf, ThreadStep, Resumes, Begin, Locate, Scan, Check, Aim, Write,
       StreamEnds, PatchName, Stream, Restore, Take
  <2>6. CASE UNCHANGED vars
    BY <2>1, <2>6 DEF vars
  <2>7. QED
    BY <2>1, <2>2, <2>3, <2>4, <2>5, <2>6 DEF Next, StepOf
<1>2. ASSUME Original' PROVE Good(cache)' /\ \A k \in Jobs : Good(addr[k])'
  <2>1. Good(cache) /\ \A k \in Jobs : Good(addr[k])
    BY <1>a, <1>2, OriginalBefore DEF ProcessInv
  <2>2. mask'["lookalike"] = 0 => mask["lookalike"] = 0
    BY <1>2, LookalikeStays
  <2>3. \A a \in {"none"} \cup Candidates : Good(a)
    BY DEF Candidates, Good, Objects
  <2>4. \A a : Good(a) => a # "stale" /\ (mask'["lookalike"] = 0 => a # "lookalike")
    BY <2>2 DEF Good
  <2>5. Good(cache') /\ \A k \in Jobs : Good(addr'[k])
    BY <1>2, <2>1, <2>3, AddressStep
  <2>6. QED
    BY <2>4, <2>5 DEF Good
<1>3. QED
  BY <1>1, <1>2 DEF ProcessInv

LEMMA CoreStep == CoreInv /\ [Next]_vars => CoreInv'
  BY TypeStep, InjectionStep, ProcessStep DEF CoreInv

\* Every state is of its type, and the mask always enables a platen: no restart,
\* late write or address of an earlier PrintExp can disable both.
THEOREM TypeCorrect == Spec => []TypeOK
<1>1. CoreInv => TypeOK
  BY DEF CoreInv
<1>2. QED
  BY <1>1, CoreInit, CoreStep, PTL DEF Spec

LEMMA CoreAlways == Spec => []CoreInv
  BY CoreInit, CoreStep, PTL DEF Spec
-----------------------------------------------------------------------------
(***************************************************************************)
(* Platens that stay disabled.                                             *)
(***************************************************************************)

\* What disturbs PrintExp disturbs it for good.
LEMMA UndisturbedBefore ==
  ASSUME CoreInv, [Next]_vars, Undisturbed'
  PROVE  Undisturbed /\ Original /\ Original'
<1>1. Original'
  BY DEF Undisturbed, Original
<1>2. QED
  BY <1>1, OriginalBefore, LookalikeStays DEF Undisturbed, Original

\* An injection lets go of its platen only by a restore that works.
LEMMA HoldsOn ==
  ASSUME CoreInv, [Next]_vars, Undisturbed', NEW k \in Jobs, Holds(k)
  PROVE  Holds(k)' \/ mask'["real"] = Both
<1> USE DEF call, outcome, process
<1>a. TypeOK /\ Injection(k)
  BY DEF CoreInv, InjectionInv
<1>b. Undisturbed /\ ~PrintExpStarts /\ ~PrintExpDies
  BY UndisturbedBefore, OriginalBefore DEF Undisturbed, Original
<1>1. ASSUME NEW j \in Jobs, j # k, StepOf(j) PROVE Holds(k)'
  BY <1>1, <1>a, StepSpares DEF Same, Holds
<1>2. Calling(k) => wants[k] = Both
  BY <1>a DEF Injection, Selects, Holds
<1>3. ASSUME Calling(k), Returns(k, FALSE) PROVE Holds(k)'
  BY <1>a, <1>2, <1>3, ReturnsSpares DEF Holds
<1>4. ASSUME UNCHANGED chosen, stage'[k] # "done" PROVE Holds(k)'
  BY <1>4 DEF Holds
<1>5. CASE Locate(k) \/ Check(k)
  <2>1. ASSUME NEW s \in {"scanning", "checking", "aiming"}, Moves(k, s), UNCHANGED outcome
        PROVE  Holds(k)'
    BY <1>a, <1>4, <2>1 DEF Moves, TypeOK
  <2>2. Calling(k)
    BY <1>5 DEF Locate, Check, Calling
  <2>3. QED
    BY <1>3, <1>5, <2>1, <2>2 DEF Locate, Check
<1>6. CASE Write(k)
  <2>1. \/ mask'["real"] = Both
        \/ Returns(k, FALSE)
    BY <1>b, <1>2, <1>6, WriteHits, UndisturbedBefore DEF Undisturbed, Write, Calling
  <2>2. QED
    BY <1>3, <1>6, <2>1 DEF Write, Calling
<1>7. CASE Scan(k) \/ Aim(k) \/ StreamEnds(k) \/ PatchName(k) \/ Stream(k)
  BY <1>a, <1>4, <1>7 DEF Scan, Aim, StreamEnds, PatchName, Stream, Raises, Moves, TypeOK
<1>8. CASE Restore(k)
  <2>1. ws[k] # NoWs /\ UNCHANGED chosen
    BY <1>a, <1>8, Facts DEF Injection, Holds, Restore
  <2>2. CASE Calls(k, Both)
    BY <1>a, <1>4, <2>1, <2>2, CallsSpares
  <2>3. CASE restored' = [restored EXCEPT ![k] = "failed"]
    BY <1>a, <2>1, <2>3 DEF Holds, TypeOK
  <2>4. QED
    BY <1>8, <2>1, <2>2, <2>3 DEF Restore, Restores
<1>9. CASE Take(k)
  BY <1>9 DEF Take, Holds
<1>10. ASSUME NEW w \in Asked[k] PROVE ~Begin(k, w)
  BY <1>a DEF Begin, Injection, Holds
<1>11. CASE AgentRestarts
  <2>1. UNCHANGED outcome /\ stage'[k] \in {"gone", stage[k]}
    BY <1>11 DEF AgentRestarts
  <2>2. QED
    BY <2>1 DEF Holds
<1>12. CASE UNCHANGED vars
  BY <1>12 DEF vars, Holds
<1>13. QED
  BY <1>b, <1>1, <1>5, <1>6, <1>7, <1>8, <1>9, <1>10, <1>11, <1>12
     DEF Next, StepOf, ThreadStep, Resumes

LEMMA LockInit == Init => LockedOnlyByUnfinished
  BY DEF Init, LockedOnlyByUnfinished, Objects

\* The one step that disables a platen is the write of a select, and who wrote
\* holds it.
LEMMA LockStep == CoreInv /\ LockedOnlyByUnfinished /\ [Next]_vars => LockedOnlyByUnfinished'
<1> SUFFICES ASSUME CoreInv, LockedOnlyByUnfinished, [Next]_vars,
                    mask'["real"] # Both, Undisturbed'
             PROVE  \E k \in Jobs : Holds(k)'
  BY DEF LockedOnlyByUnfinished
<1>a. TypeOK /\ InjectionInv /\ Undisturbed /\ Original'
  BY UndisturbedBefore DEF CoreInv
<1>1. CASE mask["real"] # Both
  <2>1. PICK k \in Jobs : Holds(k)
    BY <1>a, <1>1 DEF LockedOnlyByUnfinished
  <2>2. QED
    BY <2>1, HoldsOn
<1>2. CASE mask["real"] = Both
  <2>1. PICK j \in Jobs : Write(j)
    BY <1>a, <1>2, MaskStep
  <2>2. mask'["real"] = wants[j] /\ Returns(j, TRUE)
    BY <1>a, <1>2, <2>1, WriteHits, UndisturbedBefore DEF Undisturbed
  <2>3. stage'[j] = "patching" /\ chosen'[j] = TRUE
    BY <1>a, <2>2, ReturnsSpares
  <2>4. QED
    BY <2>3 DEF Holds
<1>3. QED
  BY <1>1, <1>2

\* A platen is disabled only while an injection that selected is under way, or
\* after one that broke off or whose restore failed, unless PrintExp restarted
\* or something else passes for the mask.
THEOREM LocksAreHeld == Spec => []LockedOnlyByUnfinished
<1>1. Init /\ [][Next]_vars /\ []CoreInv => []LockedOnlyByUnfinished
  BY LockInit, LockStep, PTL
<1>2. QED
  BY <1>1, CoreAlways, PTL DEF Spec
-----------------------------------------------------------------------------
(***************************************************************************)
(* Who meets whom.                                                         *)
(***************************************************************************)

\* An injection begins, or none does and some may end.
LEMMA PresentStep ==
  ASSUME CoreInv, [Next]_vars
  PROVE  \/ \E j \in Jobs : \E w \in Workstations : Begin(j, w) /\ Active' = Active \cup {j}
         \/ met' = met /\ ws' = ws /\ Active' \subseteq Active /\ transit' \subseteq Present
<1> USE DEF call, outcome, process
<1>a. TypeOK
  BY DEF CoreInv
<1> DEFINE Ends == met' = met /\ ws' = ws /\ Active' \subseteq Active /\ transit' \subseteq Present
<1>1. ASSUME NEW j \in Jobs, NEW w \in Asked[j], Begin(j, w)
      PROVE  w \in Workstations /\ Active' = Active \cup {j}
  <2>1. stage'[j] \in {"locating", "patching"}
    BY <1>a, <1>1, CallsSpares DEF Begin, Moves, TypeOK
  <2>2. \A k \in Jobs : k # j => stage'[k] = stage[k]
    BY <1>a, <1>1, StepSpares DEF StepOf, Same
  <2>3. QED
    BY <1>1, <2>1, <2>2, AskedAssumption DEF Active, Ended
<1>2. ASSUME NEW j \in Jobs, ThreadStep(j) \/ Resumes(j) PROVE Ends
  <2>1. /\ met' = met /\ ws' = ws /\ transit' \subseteq transit \cup {j} /\ j \in Active
    BY <1>2 DEF ThreadStep, Resumes, Locate, Scan, Check, Aim, Write, StreamEnds,
       PatchName, Stream, Restore, Active, Ended
  <2>2. \A k \in Jobs : k # j => stage'[k] = stage[k]
    BY <1>a, <1>2, StepSpares DEF StepOf, Same
  <2>3. QED
    BY <2>1, <2>2 DEF Active, Present
<1>3. ASSUME NEW j \in Jobs, Take(j) PROVE Ends
  BY <1>3 DEF Take, Active, Present
<1>4. CASE PrintExpDies \/ PrintExpStarts
  BY <1>4 DEF PrintExpDies, PrintExpStarts, Active, Present
<1>5. CASE AgentRestarts
  BY <1>5 DEF AgentRestarts, Active, Ended, Present
<1>6. CASE UNCHANGED vars
  BY <1>6 DEF vars, Active, Present
<1>7. QED
  BY <1>1, <1>2, <1>3, <1>4, <1>5, <1>6 DEF Next

LEMMA MetInit == Init => MetInv
  BY DEF Init, MetInv, Present, Active

\* An injection begins beside all that are under way and all whose jobs are
\* still to be taken.
LEMMA MetStep == CoreInv /\ MetInv /\ [Next]_vars => MetInv'
<1> SUFFICES ASSUME CoreInv, MetInv, [Next]_vars,
                    NEW i \in Present', NEW k \in Active', i # k
             PROVE  k \in met'[i]
  BY DEF MetInv
<1>a. TypeOK /\ i \in Jobs /\ k \in Jobs
  <2>1. transit' \subseteq Jobs
    BY TypeStep DEF TypeOK
  <2>2. QED
    BY <2>1 DEF CoreInv, Present, Active
<1>1. ASSUME NEW j \in Jobs, NEW w \in Workstations, Begin(j, w), Active' = Active \cup {j}
      PROVE  k \in met'[i]
  <2>1. /\ met'[j] = Active /\ transit' = transit
        /\ \A l \in Jobs \ {j} : l \in Present => met'[l] = met[l] \cup {j}
    BY <1>1 DEF Begin, Present
  <2>2. CASE i = j
    BY <1>1, <2>1, <2>2
  <2>3. CASE i # j
    <3>1. i \in Present /\ met'[i] = met[i] \cup {j}
      BY <1>a, <1>1, <2>1, <2>3 DEF Present
    <3>2. QED
      BY <1>1, <3>1 DEF MetInv
  <2>4. QED
    BY <2>2, <2>3
<1>2. CASE met' = met /\ ws' = ws /\ Active' \subseteq Active /\ transit' \subseteq Present
  <2>1. i \in Present /\ k \in Active
    BY <1>2 DEF Present
  <2>2. QED
    BY <1>2, <2>1 DEF MetInv
<1>3. QED
  BY <1>1, <1>2, PresentStep

LEMMA MetAlways == Spec => []MetInv
<1>1. Init /\ [][Next]_vars /\ []CoreInv => []MetInv
  BY MetInit, MetStep, PTL
<1>2. QED
  BY <1>1, CoreAlways, PTL DEF Spec
-----------------------------------------------------------------------------
(***************************************************************************)
(* Platens of injections that meet nobody.                                 *)
(***************************************************************************)

\* Only a write that works reports a selection that works.
LEMMA ChosenBy ==
  ASSUME CoreInv, [Next]_vars, NEW j \in Jobs, chosen[j] # chosen'[j], chosen'[j]
  PROVE  Write(j)
<1> USE DEF call, outcome, process
<1>a. TypeOK
  BY DEF CoreInv
<1>1. ASSUME NEW i \in Jobs, StepOf(i) PROVE i = j
  BY <1>a, <1>1, StepSpares DEF Same
<1>2. CASE Locate(j) \/ Check(j)
  <2>1. UNCHANGED chosen \/ Returns(j, FALSE)
    BY <1>2 DEF Locate, Check
  <2>2. QED
    BY <1>a, <2>1, ReturnsSpares
<1>3. CASE \/ Scan(j) \/ Aim(j) \/ StreamEnds(j) \/ Resumes(j) \/ Take(j)
           \/ \E w \in Asked[j] : Begin(j, w)
  BY <1>3 DEF Scan, Aim, StreamEnds, Resumes, PatchName, Stream, Restore, Take, Begin
<1>4. CASE PrintExpDies \/ PrintExpStarts \/ AgentRestarts
  BY <1>4 DEF PrintExpDies, PrintExpStarts, AgentRestarts
<1>5. CASE UNCHANGED vars
  BY <1>5 DEF vars
<1>6. QED
  BY <1>1, <1>2, <1>3, <1>4, <1>5 DEF Next, StepOf, ThreadStep

\* Nobody an injection has met asks for a workstation afterwards.
LEMMA AloneBefore ==
  ASSUME CoreInv, [Next]_vars, NEW j \in Jobs, Alone(j)', chosen[j]
  PROVE  Alone(j) /\ ws'[j] = ws[j] /\ (j \in Present' => j \in Present)
<1>a. TypeOK /\ InjectionInv /\ stage[j] # "new" /\ ws[j] \in Platens /\ Undisturbed
  BY UndisturbedBefore DEF CoreInv, InjectionInv, Injection, Alone
<1>1. ASSUME NEW i \in Jobs, NEW w \in Workstations, Begin(i, w), Active' = Active \cup {i}
      PROVE  Alone(j) /\ ws'[j] = ws[j] /\ (j \in Present' => j \in Present)
  <2>1. i # j /\ ws[i] = NoWs
    BY <1>a, <1>1 DEF Begin, InjectionInv, Injection
  <2>2. transit' = transit /\ \A k \in Jobs : k # i => ws'[k] = ws[k]
    BY <1>a, <1>1 DEF Begin, TypeOK
  <2>3. met[j] \subseteq met'[j] /\ met'[j] \subseteq Jobs
    BY <1>a, <1>1, <2>1, BeginTyped DEF Begin, TypeOK
  <2>4. \A k \in met[j] : ws[k] = NoWs
    BY <2>1, <2>2, <2>3 DEF Alone
  <2>5. QED
    BY <1>a, <1>1, <2>1, <2>2, <2>4 DEF Alone, Present
<1>2. CASE met' = met /\ ws' = ws /\ Active' \subseteq Active /\ transit' \subseteq Present
  BY <1>a, <1>2 DEF Alone, Present
<1>3. QED
  BY <1>1, <1>2, PresentStep

\* A restore that worked is not taken back.
LEMMA RestoredStays ==
  ASSUME CoreInv, [Next]_vars, NEW j \in Jobs, restored[j] = "yes"
  PROVE  restored'[j] = "yes"
<1> USE DEF call, outcome, process
<1>a. TypeOK /\ stage[j] = "done"
  BY DEF CoreInv, InjectionInv, Injection
<1>1. ASSUME NEW i \in Jobs, i # j, StepOf(i) PROVE restored'[j] = "yes"
  BY <1>a, <1>1, StepSpares DEF Same
<1>2. ~ThreadStep(j) /\ ~Resumes(j)
  BY <1>a DEF ThreadStep, Resumes, Locate, Scan, Check, Aim, Write, StreamEnds,
     PatchName, Stream, Restore
<1>3. CASE Take(j) \/ \E w \in Asked[j] : Begin(j, w)
  BY <1>3 DEF Take, Begin
<1>4. CASE PrintExpDies \/ PrintExpStarts \/ AgentRestarts
  BY <1>4 DEF PrintExpDies, PrintExpStarts, AgentRestarts
<1>5. CASE UNCHANGED vars
  BY <1>5 DEF vars
<1>6. QED
  BY <1>1, <1>2, <1>3, <1>4, <1>5 DEF Next, StepOf

\* What a step adds to what PrintExp has taken.
LEMMA PrintedStep ==
  ASSUME CoreInv, [Next]_vars, NEW j \in Jobs
  PROVE  \/ printed'[j] = printed[j]
         \/ /\ j \in transit /\ UNCHANGED <<name, named, met>>
            /\ \E w \in Enabled(mask["real"]) :
                  printed'[j] = printed[j] \cup
                      {[name |-> name, platen |-> w, late |-> restored[j] = "yes"]}
<1> USE DEF call, outcome, process
<1>a. TypeOK
  BY DEF CoreInv
<1>1. ASSUME NEW i \in Jobs, i # j, StepOf(i) PROVE printed'[j] = printed[j]
  BY <1>a, <1>1, StepSpares DEF Same
<1>2. CASE ThreadStep(j) \/ Resumes(j) \/ \E w \in Asked[j] : Begin(j, w)
  BY <1>2 DEF ThreadStep, Resumes, Begin, Locate, Scan, Check, Aim, Write, StreamEnds,
     PatchName, Stream, Restore
<1>3. CASE Take(j)
  BY <1>a, <1>3, TakesOne DEF Take
<1>4. CASE PrintExpDies \/ PrintExpStarts \/ AgentRestarts
  BY <1>4 DEF PrintExpDies, PrintExpStarts, AgentRestarts
<1>5. CASE UNCHANGED vars
  BY <1>5 DEF vars
<1>6. QED
  BY <1>1, <1>2, <1>3, <1>4, <1>5 DEF Next, StepOf

\* The platen of an injection that meets nobody with a workstation is changed by
\* its own restore only.
LEMMA PlatenStays ==
  ASSUME CoreInv, MetInv, PlatenInv, [Next]_vars,
         NEW j \in Jobs, Alone(j), chosen[j], Original', mask["lookalike"] = 0,
         j \in Present, restored'[j] # "yes"
  PROVE  mask'["real"] = Bit(ws[j])
<1>a. TypeOK /\ InjectionInv /\ Original /\ restored[j] # "yes"
  BY OriginalBefore, RestoredStays DEF CoreInv
<1>b. mask["real"] = Bit(ws[j])
  BY <1>a DEF PlatenInv, PlatenOf
<1>1. ASSUME NEW k \in Jobs, Write(k) PROVE mask'["real"] = mask["real"]
  <2>1. CASE k = j
    <3>1. wants[j] = Both
      BY <1>a, <1>1, <2>1 DEF InjectionInv, Injection, Selects, Calling, Write
    <3>2. ~Returns(j, TRUE)
      BY <1>a, <3>1, ReturnsSpares
    <3>3. QED
      BY <1>a, <1>1, <2>1, <3>2, WriteHits
  <2>2. CASE k # j
    <3>1. k \in Active /\ ws[k] # NoWs
      BY <1>a, <1>1 DEF InjectionInv, Injection, Calling, Write, Active, Ended
    <3>2. QED
      BY <2>2, <3>1 DEF MetInv, Alone
  <2>3. QED
    BY <2>1, <2>2
<1>2. QED
  BY <1>b, <1>1, MaskStep

LEMMA PlatenInit == Init => PlatenInv
  BY DEF Init, PlatenInv, Alone

LEMMA PlatenStep == CoreInv /\ MetInv /\ PlatenInv /\ [Next]_vars => PlatenInv'
<1> SUFFICES ASSUME CoreInv, MetInv, PlatenInv, [Next]_vars, NEW j \in Jobs, Alone(j)'
             PROVE  PlatenOf(j)'
  BY DEF PlatenInv
<1>a. TypeOK /\ InjectionInv /\ Undisturbed /\ Original /\ Original'
  BY UndisturbedBefore DEF CoreInv, Alone
<1>1. CASE chosen[j]
  <2>1. Alone(j) /\ ws'[j] = ws[j] /\ (j \in Present' => j \in Present)
    BY <1>1, AloneBefore
  <2>2. PlatenOf(j) /\ ws[j] \in Platens
    BY <2>1 DEF PlatenInv, Alone
  <2>3. j \in Present' /\ restored'[j] # "yes" => mask'["real"] = Bit(ws'[j])
    BY <1>1, <1>a, <2>1, PlatenStays DEF Undisturbed
  <2>4. ASSUME NEW p \in printed'[j] PROVE p.late \/ p.platen = ws'[j]
    <3>1. CASE p \in printed[j]
      BY <2>1, <2>2, <3>1 DEF PlatenOf
    <3>2. CASE p \notin printed[j]
      <4>1. /\ j \in Present
            /\ \E w \in Enabled(mask["real"]) : \E late \in {restored[j] = "yes"} :
                  p = [name |-> name, platen |-> w, late |-> late]
        BY <2>4, <3>2, PrintedStep DEF Present
      <4>2. restored[j] # "yes" => Enabled(mask["real"]) = {ws[j]}
        <5>1. restored[j] # "yes" => mask["real"] = Bit(ws[j])
          BY <2>2, <4>1 DEF PlatenOf
        <5>2. Enabled(Bit(ws[j])) = {ws[j]}
          BY <2>2, Bits
        <5>3. QED
          BY <5>1, <5>2, Zenon
      <4>3. PICK w \in Enabled(mask["real"]), late \in {restored[j] = "yes"} :
               p = [name |-> name, platen |-> w, late |-> late]
        BY <4>1, Zenon
      <4>4. p.late = late /\ p.platen = w
        BY <4>3
      <4>5. late = (restored[j] = "yes")
        BY <4>3, Zenon
      <4>6. QED
        BY <2>1, <4>2, <4>4, <4>5, Zenon
    <3>3. QED
      BY <3>1, <3>2
  <2>5. QED
    BY <2>3, <2>4 DEF PlatenOf
<1>2. CASE ~chosen[j]
  <2>1. Write(j)
    BY <1>2, ChosenBy DEF Alone
  <2>2. ~Returns(j, FALSE)
    <3>1. ~Returns(j, FALSE) \/ ~chosen'[j]
      BY <1>a, <1>2, ReturnsSpares
    <3>2. QED
      BY <3>1 DEF Alone
  <2>3. mask'["real"] = wants[j] /\ Returns(j, TRUE)
    BY <1>a, <2>1, <2>2, WriteHits DEF Undisturbed
  <2>4. Selects(j)
    BY <1>a, <1>2, <2>1, <2>3, ReturnsSpares DEF Alone, Write, Selects, Calling
  <2>5. wants[j] = Bit(ws[j]) /\ printed[j] = {}
    BY <1>a, <2>4 DEF InjectionInv, Injection, Unsent
  <2>6. UNCHANGED <<ws, printed>>
    BY <2>1 DEF Write
  <2>7. QED
    BY <2>3, <2>5, <2>6 DEF PlatenOf
<1>3. QED
  BY <1>1, <1>2

LEMMA PlatenKept == CoreInv /\ PlatenInv => WrongPlatenNeedsCompany
<1> SUFFICES ASSUME CoreInv, PlatenInv,
                    NEW j \in Jobs, NEW p \in printed[j],
                    ws[j] \in Platens, chosen[j], p.platen # ws[j],
                    ~p.late, \A k \in met[j] : ws[k] = NoWs, Undisturbed
             PROVE  FALSE
  BY DEF WrongPlatenNeedsCompany
<1>1. PlatenOf(j)
  BY DEF PlatenInv, Alone
<1>2. QED
  BY <1>1 DEF PlatenOf

\* A job whose selection was reported to work prints on another platen only if
\* PrintExp took it after its own restore, or in company of another injection
\* with a workstation, or if PrintExp was disturbed.
THEOREM PlatensAreKept == Spec => []WrongPlatenNeedsCompany
<1>1. Init /\ [][Next]_vars /\ []CoreInv /\ []MetInv => []PlatenInv
  BY PlatenInit, PlatenStep, PTL
<1>2. Spec => []PlatenInv
  BY <1>1, CoreAlways, MetAlways, PTL DEF Spec
<1>3. QED
  BY <1>2, CoreAlways, PlatenKept, PTL
-----------------------------------------------------------------------------
(***************************************************************************)
(* Names of other injections.                                              *)
(***************************************************************************)

\* A patch that worked is the one that the job was sent after.
LEMMA NamedStep ==
  ASSUME CoreInv, [Next]_vars, NEW j \in Jobs
  PROVE  \/ /\ named'[j] = named[j]
            /\ \/ name' \in {name, Unnamed}
               \/ name' \in Active
         \/ name' = j /\ printed[j] = {} /\ UNCHANGED <<printed, met>>
<1> USE DEF call, outcome, process
<1>a. TypeOK /\ InjectionInv
  BY DEF CoreInv, InjectionInv
<1>1. ASSUME NEW i \in Jobs, i # j, StepOf(i)
      PROVE  named'[j] = named[j] /\ (name' = name \/ name' \in Active)
  <2>1. named'[j] = named[j]
    BY <1>a, <1>1, StepSpares DEF Same
  <2>2. CASE PatchName(i)
    BY <2>1, <2>2 DEF PatchName, Patched, Active, Ended
  <2>3. CASE ~PatchName(i)
    BY <1>1, <2>1, <2>3 DEF StepOf, ThreadStep, Resumes, Begin, Locate, Scan, Check, Aim, Write,
       StreamEnds, Stream, Restore, Take
  <2>4. QED
    BY <2>1, <2>2, <2>3
<1>2. CASE PatchName(j)
  <2>1. printed[j] = {} /\ UNCHANGED <<printed, met>>
    BY <1>a, <1>2 DEF PatchName, InjectionInv, Injection, Unsent
  <2>2. QED
    BY <1>2, <2>1 DEF PatchName, Patched
<1>3. CASE ThreadStep(j)
  <2>1. name' = name
    BY <1>3 DEF ThreadStep, Locate, Scan, Check, Aim, Write, StreamEnds
  <2>2. named'[j] = named[j]
    BY <1>a, <1>3, ReturnsSpares DEF ThreadStep, Locate, Scan, Check, Aim, Write, StreamEnds
  <2>3. QED
    BY <2>1, <2>2
<1>4. CASE Stream(j) \/ Restore(j) \/ Take(j) \/ \E w \in Asked[j] : Begin(j, w)
  BY <1>4 DEF Stream, Restore, Take, Begin
<1>5. CASE PrintExpDies \/ PrintExpStarts \/ AgentRestarts
  BY <1>5 DEF PrintExpDies, PrintExpStarts, AgentRestarts
<1>6. CASE UNCHANGED vars
  BY <1>6 DEF vars
<1>7. QED
  BY <1>1, <1>2, <1>3, <1>4, <1>5, <1>6 DEF Next, StepOf, Resumes

\* Nobody who has met an injection is forgotten.
LEMMA MetGrows ==
  ASSUME CoreInv, [Next]_vars, NEW j \in Jobs, stage[j] # "new"
  PROVE  met[j] \subseteq met'[j]
<1>1. ASSUME NEW i \in Jobs, NEW w \in Workstations, Begin(i, w)
      PROVE  met[j] \subseteq met'[j]
  BY <1>1 DEF Begin
<1>2. QED
  BY <1>1, PresentStep

LEMMA NameInit == Init => NameInv
  BY DEF Init, NameInv, NameOf, Present, Active

LEMMA NameStep == CoreInv /\ MetInv /\ NameInv /\ [Next]_vars => NameInv'
<1> SUFFICES ASSUME CoreInv, MetInv, NameInv, [Next]_vars, NEW j \in Jobs
             PROVE  NameOf(j)'
  BY DEF NameInv
<1>a. TypeOK /\ Injection(j) /\ NameOf(j)
  BY DEF CoreInv, InjectionInv, NameInv
<1>1. CASE name' = j /\ printed[j] = {} /\ UNCHANGED <<printed, met>>
  BY <1>1 DEF NameOf
<1>2. CASE stage[j] = "new"
  <2>1. ~named[j] /\ printed[j] = {} /\ j \notin transit
    BY <1>a, <1>2 DEF Injection, Unsent
  <2>2. printed'[j] = {}
    BY <2>1, PrintedStep
  <2>3. CASE named'[j] = named[j]
    BY <2>1, <2>2, <2>3 DEF NameOf
  <2>4. QED
    BY <1>1, <2>3, NamedStep
<1>3. CASE /\ stage[j] # "new" /\ named'[j] = named[j]
           /\ name' \in {name, Unnamed} \/ name' \in Active
  <2>1. met[j] \subseteq met'[j]
    BY <1>3, MetGrows
  <2>2. j \in Present' => j \in Present
    BY <1>3, PresentStep DEF Present, Begin
  <2>3. ASSUME j \in Present', named[j], name' \in Jobs \ {j} PROVE name' \in met[j]
    <3>1. CASE name' = name
      BY <1>a, <2>2, <2>3, <3>1 DEF NameOf
    <3>2. CASE name' \in Active
      BY <2>2, <2>3, <3>2 DEF MetInv
    <3>3. QED
      BY <1>3, <2>3, <3>1, <3>2, Facts
  <2>4. ASSUME NEW p \in printed'[j], p.name \in Jobs \ {j} PROVE p.name \in met[j] \/ ~named[j]
    <3>1. CASE p \in printed[j]
      BY <1>a, <2>4, <3>1 DEF NameOf
    <3>2. CASE p \notin printed[j]
      <4>1. j \in Present /\ p.name = name
        BY <2>4, <3>2, PrintedStep DEF Present
      <4>2. QED
        BY <1>a, <2>4, <4>1 DEF NameOf
    <3>3. QED
      BY <3>1, <3>2
  <2>5. QED
    BY <1>3, <2>1, <2>3, <2>4 DEF NameOf
<1>4. QED
  BY <1>1, <1>2, <1>3, NamedStep

\* A job is printed under the name of another only if that one was under way
\* between the start of its injection and the moment PrintExp took it, or if its
\* own patch failed.
THEOREM NamesAreOwn == Spec => []WrongNameNeedsCompany
<1>1. Init /\ [][Next]_vars /\ []CoreInv /\ []MetInv => []NameInv
  BY NameInit, NameStep, PTL
<1>2. NameInv => WrongNameNeedsCompany
  BY DEF NameInv, NameOf, WrongNameNeedsCompany
<1>3. QED
  BY <1>1, <1>2, CoreAlways, MetAlways, PTL DEF Spec
=============================================================================
