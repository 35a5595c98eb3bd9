----------------------- MODULE PrinterRegistryProofs -----------------------
(***************************************************************************)
(* Proofs about PrinterRegistry, for any addresses, thresholds, numbers of *)
(* requests and of commits that fail.                                      *)
(***************************************************************************)
EXTENDS PrinterRegistry, FiniteSetTheorems, WellFoundedInduction, TLAPS

-----------------------------------------------------------------------------
(***************************************************************************)
(* The invariants.                                                         *)
(***************************************************************************)

\* Each row, and each request that may still insert one, costs an operation:
\* there is an id for the next row.
IdsInReach ==
    /\ IsFiniteSet(regs) /\ Cardinality(regs) <= ops
    /\ \A i \in Ids : Exists(i) => i + Cardinality(regs) <= ops

TypeInv == TypeOK /\ IdsInReach /\ lostDeletes <= faults

RowsAreUnique == \A i, j \in Ids : Exists(i) /\ url[i] = url[j] => i = j

RowInv == RowsAreUnique /\ EntriesNameTheirRow /\ EveryPrinterIsPolled

\* A removed entry that comes back is new, and is not polled before its old
\* poll is over.
StaleIsOver ==
    \A p \in stale :
        p.url \notin todo /\ (entries[p.url] # None => entries[p.url].missed = 0)

\* What an entry has counted was silence.
MissedIsSilence ==
    \A u \in AnyUrl : entries[u] # None => entries[u].missed <= silent[u]

SilenceInv == StaleIsOver /\ MissedIsSilence
-----------------------------------------------------------------------------
(***************************************************************************)
(* Operators.                                                              *)
(***************************************************************************)

\* Numbers are well founded.
LEMMA Least ==
  ASSUME NEW S, S \subseteq Nat, S # {}
  PROVE  \E b \in S : \A c \in S : b <= c
<1> DEFINE R == OpToRel(<, Nat)
<1>1. IsWellFoundedOn(R, Nat)
  BY NatLessThanWellFounded
<1>2. \A x, y \in Nat : y < x => <<y, x>> \in R
  BY DEF OpToRel
<1> HIDE DEF R
<1>3. PICK b \in S : \A c \in S : ~(<<c, b>> \in R)
  BY <1>1, WFMin
<1>4. \A c \in S : c \in Nat /\ b \in Nat /\ ~(c < b)
  BY <1>2, <1>3
<1>5. QED
  BY <1>4

LEMMA ConstantFacts ==
  /\ MaxOps \in Nat /\ MaxFaults \in Nat /\ OfflineThreshold \in Nat /\ OfflineThreshold > 0
  /\ Ids \subseteq Nat /\ None \notin Ids /\ None \notin AnyUrl /\ None \notin Entry
  /\ Urls \subseteq AnyUrl /\ PostUrls \subseteq AnyUrl /\ Blank \in AnyUrl
  BY BoundAssumption, NoneAssumption, NoEntryAssumption, UrlAssumption DEF Ids, AnyUrl

\* The row of an address, if there is one, has that address.
LEMMA RowFacts ==
  ASSUME NEW u \in AnyUrl
  PROVE  \/ RowOf(u) \in Ids /\ RowOf(u) # None /\ url[RowOf(u)] = u
         \/ RowOf(u) = None /\ \A i \in Ids : url[i] # u
  BY ConstantFacts DEF RowOf

\* There is a next id, and no row has it.
LEMMA NewIdFacts ==
  ASSUME TypeInv, regs # {}
  PROVE  /\ NewId \in Ids /\ ~Exists(NewId)
         /\ NewId > 1 => NewId - 1 \in Ids /\ Exists(NewId - 1)
<1>a. /\ MaxOps \in Nat /\ ops \in 0 .. MaxOps /\ Cardinality(regs) \in Nat
      /\ Cardinality(regs) # 0 /\ Cardinality(regs) <= ops
      /\ \A i \in Ids : Exists(i) => i + Cardinality(regs) <= ops
  BY ConstantFacts, FS_CardinalityType, FS_EmptySet DEF TypeInv, TypeOK, IdsInReach
<1> DEFINE above == {b \in Nat : \A k \in Ids : Exists(k) => k <= b}
<1>1. ops - 1 \in above
  BY <1>a, ConstantFacts
<1>2. PICK b \in above : \A c \in above : b <= c
  BY <1>1, Least
<1>3. b \in Nat /\ b <= ops - 1 /\ \A k \in Ids : Exists(k) => k <= b
  BY <1>1, <1>2
<1>4. b + 1 \in Ids
  BY <1>a, <1>3 DEF Ids
<1>5. b > 0 => b \in Ids /\ Exists(b)
  <2>1. CASE b > 0
    <3>1. b - 1 \in Nat /\ ~(b <= b - 1)
      BY <1>3, <2>1
    <3>2. b - 1 \notin above
      BY <1>2, <3>1
    <3>3. PICK k \in Ids : Exists(k) /\ ~(k <= b - 1)
      BY <3>1, <3>2
    <3>4. k <= b /\ k \in Nat
      BY <1>3, <3>3, ConstantFacts
    <3>5. QED
      BY <1>3, <3>3, <3>4
  <2>2. QED
    BY <2>1
<1> HIDE DEF above
<1> DEFINE Next1(i) == /\ \A k \in Ids : Exists(k) => k < i
                       /\ i > 1 => Exists(i - 1)
<1>6. Next1(b + 1)
  BY <1>3, <1>5, ConstantFacts
<1>7. NewId \in Ids /\ Next1(NewId)
  BY <1>4, <1>6 DEF NewId
<1>8. NewId \in 1 .. MaxOps /\ NewId \in Int
  BY <1>7, <1>a DEF Ids
<1>9. NewId > 1 => NewId - 1 \in Ids
  BY <1>8, <1>a DEF Ids
<1>10. QED
  BY <1>7, <1>8, <1>9

LEMMA Typed ==
  ASSUME TypeOK
  PROVE  /\ url \in [Ids -> AnyUrl \cup {None}]
         /\ entries \in [AnyUrl -> Entry \cup {None}]
         /\ \A u \in AnyUrl :
               /\ u \in todo => entries[u] # None
               /\ entries[u] # None =>
                     /\ entries[u] \in Entry /\ entries[u].id \in Ids
                     /\ entries[u].missed \in 0 .. OfflineThreshold
                     /\ entries[u].left \in BOOLEAN
               /\ silent[u] \in 0 .. OfflineThreshold
         /\ todo \subseteq AnyUrl
         /\ \A p \in stale : /\ p.id \in Ids /\ p.url \in AnyUrl
                             /\ p.missed \in 0 .. OfflineThreshold
         /\ \A r \in regs : r.url \in AnyUrl /\ r.found \in Ids \cup {None}
  BY ConstantFacts DEF TypeOK, Entry

LEMMA FreshTyped ==
  ASSUME NEW i \in Ids
  PROVE  /\ Fresh(i) \in Entry /\ Fresh(i) # None
         /\ Fresh(i).id = i /\ Fresh(i).missed = 0 /\ ~Fresh(i).left
<1>1. 0 \in 0 .. OfflineThreshold /\ "none" \in Live
  BY ConstantFacts DEF Live
<1>2. Fresh(i) \in Entry
  BY <1>1 DEF Fresh, Entry
<1>3. Fresh(i).id = i /\ Fresh(i).missed = 0 /\ Fresh(i).left = FALSE
  BY DEF Fresh
<1>4. QED
  BY <1>2, <1>3, ConstantFacts

LEMMA MissedTyped ==
  ASSUME NEW n \in 0 .. OfflineThreshold
  PROVE  Missed(n) \in 0 .. OfflineThreshold
  BY ConstantFacts DEF Missed

\* What an answer makes of the entry.
LEMMA AliveTyped ==
  ASSUME TypeOK, NEW u \in AnyUrl, entries[u] # None, NEW connected \in BOOLEAN,
         entries' = Alive(entries, u, connected)
  PROVE  /\ entries' \in [AnyUrl -> Entry \cup {None}]
         /\ entries'[u] # None /\ entries'[u].id = entries[u].id /\ entries'[u].missed = 0
         /\ entries'[u].left = entries[u].left
         /\ \A w \in AnyUrl : w # u => entries'[w] = entries[w]
<1> DEFINE live == IF connected THEN "up" ELSE "down"
<1>1. live \in Live
  BY DEF Live
<1>2. entries[u] \in Entry /\ entries \in [AnyUrl -> Entry \cup {None}]
  BY Typed
<1>3. entries' = [entries EXCEPT ![u] = [entries[u] EXCEPT !.live = live, !.missed = 0]]
  BY <1>2 DEF Alive
<1> HIDE DEF live
<1>4. [entries[u] EXCEPT !.live = live, !.missed = 0] \in Entry
  <2>1. 0 \in 0 .. OfflineThreshold
    BY ConstantFacts
  <2>2. QED
    BY <1>1, <1>2, <2>1 DEF Entry
<1>5. /\ [entries[u] EXCEPT !.live = live, !.missed = 0].id = entries[u].id
      /\ [entries[u] EXCEPT !.live = live, !.missed = 0].left = entries[u].left
  BY <1>2 DEF Entry
<1>6. [entries[u] EXCEPT !.live = live, !.missed = 0].missed = 0
  BY <1>2 DEF Entry
<1>7. QED
  BY <1>2, <1>3, <1>4, <1>5, <1>6, ConstantFacts

\* What a poll that fails makes of it.
LEMMA FailedTyped ==
  ASSUME TypeOK, NEW u \in AnyUrl, u \in todo, PollFails(u)
  PROVE  /\ entries' \in [AnyUrl -> Entry \cup {None}]
         /\ entries'[u] # None /\ entries'[u].id = entries[u].id
         /\ entries'[u].left = entries[u].left
         /\ entries'[u].missed = Missed(entries[u].missed)
         /\ \A w \in AnyUrl : w # u => entries'[w] = entries[w]
<1> DEFINE missed == Missed(entries[u].missed)
           live   == IF missed >= OfflineThreshold THEN "down" ELSE entries[u].live
           new    == [entries[u] EXCEPT !.missed = missed, !.live = live]
<1>1. entries[u] \in Entry /\ entries \in [AnyUrl -> Entry \cup {None}]
  BY Typed
<1>2. missed \in 0 .. OfflineThreshold /\ live \in Live
  BY <1>1, MissedTyped DEF Entry, Live
<1>3. entries' = [entries EXCEPT ![u] = new]
  BY <1>1 DEF PollFails
<1> HIDE DEF missed, live
<1>4. new \in Entry /\ new.id = entries[u].id /\ new.left = entries[u].left /\ new.missed = missed
  BY <1>1, <1>2 DEF Entry
<1> HIDE DEF new
<1>5. QED
  BY <1>1, <1>3, <1>4, ConstantFacts DEF missed

LEMMA PersistTyped ==
  ASSUME TypeOK, NEW i \in Ids, NEW u \in AnyUrl, NEW st \in {"online", "offline"},
         Persist(i, u, st) \/ UNCHANGED <<shown, shownBy, faults>>
  PROVE  /\ shown' \in [Ids -> {"online", "offline"}]
         /\ shownBy' \in [Ids -> AnyUrl \cup {None}]
         /\ faults' \in 0 .. MaxFaults /\ faults' >= faults
  BY ConstantFacts DEF TypeOK, Persist

\* An entry that is removed takes its poll out of the round.
LEMMA RemoveTyped ==
  ASSUME TypeOK, NEW u \in AnyUrl, RemovePrinter(u)
  PROVE  /\ todo' = todo \ {u}
         /\ stale' \subseteq [id: Ids, url: AnyUrl, missed: 0 .. OfflineThreshold]
         /\ \A p \in stale' : p \in stale \/ p.url = u
<1>1. CASE u \in todo
  <2>1. [id |-> entries[u].id, url |-> u, missed |-> entries[u].missed]
           \in [id: Ids, url: AnyUrl, missed: 0 .. OfflineThreshold]
    BY <1>1, Typed
  <2>2. QED
    BY <1>1, <2>1 DEF RemovePrinter, TypeOK
<1>2. CASE u \notin todo
  BY <1>2 DEF RemovePrinter, TypeOK
<1>3. QED
  BY <1>1, <1>2

\* An entry that is left behind is marked, and is otherwise as it was.
LEMMA LeaveTyped ==
  ASSUME TypeOK, NEW i \in Ids, Exists(i), LeaveEntry(i)
  PROVE  /\ entries' \in [AnyUrl -> Entry \cup {None}]
         /\ UNCHANGED <<todo, stale>>
         /\ entries'[url[i]] = None <=> entries[url[i]] = None
         /\ entries[url[i]] # None =>
               /\ entries'[url[i]].id = entries[url[i]].id
               /\ entries'[url[i]].missed = entries[url[i]].missed
               /\ entries'[url[i]].left
         /\ \A u \in AnyUrl : u # url[i] => entries'[u] = entries[u]
<1>1. /\ url[i] \in AnyUrl /\ entries \in [AnyUrl -> Entry \cup {None}]
      /\ UNCHANGED <<todo, stale>>
  BY Typed DEF Exists, LeaveEntry
<1>2. CASE entries[url[i]] = None
  BY <1>1, <1>2 DEF LeaveEntry
<1>3. CASE entries[url[i]] # None
  <2> DEFINE e   == entries[url[i]]
             new == [e EXCEPT !.left = TRUE]
  <2>1. entries' = [entries EXCEPT ![url[i]] = new] /\ e \in Entry
    BY <1>1, <1>3 DEF LeaveEntry
  <2>2. new \in Entry /\ new.id = e.id /\ new.missed = e.missed /\ new.left
    BY <2>1 DEF Entry
  <2> HIDE DEF e, new
  <2>3. entries'[url[i]] = new /\ new # None
    BY <1>1, <2>1, <2>2, ConstantFacts
  <2>4. QED
    BY <1>1, <1>3, <2>1, <2>2, <2>3 DEF e
<1>4. QED
  BY <1>2, <1>3

\* What the new address of a row does to the entries.
LEMMA MoveTyped ==
  ASSUME TypeOK, NEW i \in Ids, Exists(i), NEW w \in AnyUrl, MoveEntry(i, w)
  PROVE  /\ entries' \in [AnyUrl -> Entry \cup {None}]
         /\ todo' \subseteq todo /\ \A u \in todo' : entries'[u] # None
         /\ stale' \subseteq [id: Ids, url: AnyUrl, missed: 0 .. OfflineThreshold]
         /\ \A p \in stale' : p \in stale \/ (p.url = url[i] /\ entries'[url[i]] = None)
         /\ \A u \in AnyUrl : \/ entries'[u] = entries[u]
                              \/ u = url[i] /\ entries'[u] = None /\ u \notin todo'
                              \/ u = w /\ entries[w] = None /\ entries'[u] = Fresh(i)
                              \/ /\ u = url[i] /\ w = Blank /\ w # url[i]
                                 /\ entries[u] # None /\ entries'[u] # None
                                 /\ entries'[u].id = entries[u].id
                                 /\ entries'[u].missed = entries[u].missed
                                 /\ entries'[u].left
         /\ w # Blank /\ w # url[i] => entries'[url[i]] = None /\ entries'[w] # None
<1>1. url[i] \in AnyUrl /\ entries \in [AnyUrl -> Entry \cup {None}]
  BY Typed DEF Exists
<1>2. CASE w = url[i]
  BY <1>2, Typed DEF MoveEntry, memory, TypeOK
<1>3. CASE w # Blank /\ w # url[i]
  <2>1. RemovePrinter(url[i]) /\ entries' = Added(Removed(entries, url[i]), i, w)
    BY <1>3 DEF MoveEntry
  <2>2. /\ todo' = todo \ {url[i]}
        /\ stale' \subseteq [id: Ids, url: AnyUrl, missed: 0 .. OfflineThreshold]
        /\ \A p \in stale' : p \in stale \/ p.url = url[i]
    BY <1>1, <2>1, RemoveTyped
  <2>3. entries' = IF entries[w] = None
                   THEN [entries EXCEPT ![url[i]] = None, ![w] = Fresh(i)]
                   ELSE [entries EXCEPT ![url[i]] = None]
    BY <1>1, <1>3, <2>1 DEF Added, Removed
  <2>4. Fresh(i) \in Entry /\ Fresh(i) # None
    BY FreshTyped
  <2>5. /\ entries' \in [AnyUrl -> Entry \cup {None}] /\ entries'[url[i]] = None
        /\ entries[w] = None => entries'[w] = Fresh(i)
        /\ \A u \in AnyUrl : u # url[i] /\ u # w => entries'[u] = entries[u]
        /\ entries[w] # None => entries'[w] = entries[w]
    BY <1>1, <1>3, <2>3, <2>4
  <2>6. QED
    BY <1>1, <1>3, <2>2, <2>4, <2>5, Typed
<1>4. CASE w = Blank /\ w # url[i]
  <2>1. LeaveEntry(i)
    BY <1>4 DEF MoveEntry
  <2>2. /\ entries' \in [AnyUrl -> Entry \cup {None}] /\ UNCHANGED <<todo, stale>>
        /\ entries'[url[i]] = None <=> entries[url[i]] = None
        /\ \A u \in AnyUrl : u # url[i] => entries'[u] = entries[u]
    BY <2>1, LeaveTyped
  <2>3. \A u \in todo' : u \in AnyUrl /\ entries'[u] # None
    BY <1>1, <2>2, Typed
  <2>4. QED
    BY <1>1, <1>4, <2>1, <2>2, <2>3, LeaveTyped DEF TypeOK
<1>5. QED
  BY <1>2, <1>3, <1>4
-----------------------------------------------------------------------------
(***************************************************************************)
(* Type correctness.                                                       *)
(***************************************************************************)

LEMMA TypeInit == Init => TypeInv
<1> SUFFICES ASSUME Init PROVE TypeInv
  OBVIOUS
<1>1. TypeOK
  BY ConstantFacts DEF Init, TypeOK
<1>2. IdsInReach
  BY FS_EmptySet DEF Init, IdsInReach, Exists
<1>3. QED
  BY <1>1, <1>2 DEF TypeInv, Init

\* Requests come and go, and so does the reach of the ids.
LEMMA ReachStep ==
  ASSUME TypeInv, ops' \in {ops, ops + 1}, regs' \subseteq regs,
         \A i \in Ids : Exists(i)' => Exists(i)
  PROVE  IdsInReach'
<1>1. /\ IsFiniteSet(regs) /\ Cardinality(regs) \in Nat /\ ops \in Nat
      /\ Cardinality(regs) <= ops
  BY ConstantFacts, FS_CardinalityType DEF TypeInv, TypeOK, IdsInReach
<1>2. IsFiniteSet(regs') /\ Cardinality(regs') \in Nat /\ Cardinality(regs') <= Cardinality(regs)
  BY <1>1, FS_Subset, FS_CardinalityType
<1>3. QED
  BY <1>1, <1>2, ConstantFacts DEF TypeInv, IdsInReach

LEMMA OperationTyped ==
  ASSUME TypeOK, Operation
  PROVE  ops' = ops + 1 /\ ops' \in 0 .. MaxOps
  BY ConstantFacts DEF TypeOK, Operation

LEMMA RequestsTyped == TypeInv /\ Requests => TypeInv'
<1> SUFFICES ASSUME TypeInv, Requests PROVE TypeInv'
  OBVIOUS
<1>a. TypeOK
  BY DEF TypeInv
<1> USE DEF rows, memory, bounds
<1>1. ASSUME NEW u \in PostUrls, RegisterStarts(u) PROVE TypeInv'
  <2> DEFINE r == [n |-> ops, url |-> u, found |-> RowOf(u)]
  <2>1. RowOf(u) \in Ids \cup {None} /\ ops \in Nat /\ u \in AnyUrl
    BY <1>a, RowFacts, ConstantFacts DEF TypeOK
  <2>2. r \in [n : Nat, url : AnyUrl, found : Ids \cup {None}]
    BY <2>1
  <2>3. regs' = regs \cup {r} /\ ops' = ops + 1 /\ ops' \in 0 .. MaxOps
    BY <1>1, <1>a, OperationTyped DEF RegisterStarts
  <2>4. UNCHANGED <<rows, memory, silent, faults, lostDeletes>>
    BY <1>1 DEF RegisterStarts
  <2> HIDE DEF r
  <2>5. TypeOK'
    BY <1>a, <2>2, <2>3, <2>4 DEF TypeOK
  <2>6. /\ IsFiniteSet(regs') /\ Cardinality(regs') \in Nat
        /\ Cardinality(regs') <= Cardinality(regs) + 1 /\ Cardinality(regs) \in Nat
    <3>1. IsFiniteSet(regs) /\ Cardinality(regs) \in Nat
      BY FS_CardinalityType DEF TypeInv, IdsInReach
    <3>2. /\ IsFiniteSet(regs \cup {r})
          /\ Cardinality(regs \cup {r}) = IF r \in regs THEN Cardinality(regs)
                                          ELSE Cardinality(regs) + 1
      BY <3>1, FS_AddElement
    <3>3. QED
      BY <2>3, <3>1, <3>2
  <2>7. IdsInReach'
    BY <2>1, <2>3, <2>4, <2>6, ConstantFacts DEF TypeInv, IdsInReach, Exists
  <2>8. QED
    BY <2>4, <2>5, <2>7 DEF TypeInv
<1>2. ASSUME NEW r \in regs, RegisterAgain(r) \/ RegisterRefused(r) PROVE TypeInv'
  <2>1. regs' \subseteq regs /\ UNCHANGED <<rows, memory, silent, bounds>>
    BY <1>2 DEF RegisterAgain, RegisterRefused
  <2>2. IdsInReach'
    BY <2>1, ReachStep DEF Exists
  <2>3. QED
    BY <1>a, <2>1, <2>2 DEF TypeInv, TypeOK
<1>3. ASSUME NEW r \in regs, RegisterNew(r) PROVE TypeInv'
  <2> DEFINE i == NewId
  <2>1. i \in Ids /\ (i > 1 => i - 1 \in Ids /\ Exists(i - 1))
    BY NewIdFacts
  <2>2. r.url \in AnyUrl
    BY <1>a, Typed
  <2>3. /\ url' = [url EXCEPT ![i] = r.url] /\ entries' = Added(entries, i, r.url)
        /\ shown' = [shown EXCEPT ![i] = "offline"] /\ shownBy' = [shownBy EXCEPT ![i] = None]
        /\ regs' = regs \ {r}
        /\ UNCHANGED <<todo, stale, silent, bounds>>
    BY <1>3 DEF RegisterNew
  <2> HIDE DEF i
  <2>4. entries' \in [AnyUrl -> Entry \cup {None}] /\ \A u \in todo' : entries'[u] # None
    BY <1>a, <2>1, <2>2, <2>3, FreshTyped, Typed DEF Added
  <2>5. TypeOK'
    BY <1>a, <2>1, <2>2, <2>3, <2>4 DEF TypeOK
  <2>6. /\ IsFiniteSet(regs') /\ Cardinality(regs') = Cardinality(regs) - 1
        /\ Cardinality(regs') \in Nat /\ Cardinality(regs) \in Nat /\ ops \in Nat
    BY <1>a, <2>3, FS_RemoveElement, FS_CardinalityType, ConstantFacts DEF TypeInv, IdsInReach, TypeOK
  <2>7. i + Cardinality(regs') <= ops
    <3>1. CASE i > 1
      BY <2>1, <2>6, <3>1, ConstantFacts DEF TypeInv, IdsInReach
    <3>2. CASE i = 1
      BY <2>6, <3>2 DEF TypeInv, IdsInReach
    <3>3. QED
      BY <2>1, <3>1, <3>2 DEF Ids
  <2>8. \A k \in Ids : Exists(k)' => k = i \/ Exists(k)
    BY <1>a, <2>1, <2>3, Typed DEF Exists
  <2>9. IdsInReach'
    <3>1. ops' = ops /\ Cardinality(regs) <= ops
      BY <2>3 DEF TypeInv, IdsInReach
    <3>2. \A k \in Ids : Exists(k) => k + Cardinality(regs') <= ops
      BY <2>6, ConstantFacts DEF TypeInv, IdsInReach
    <3>3. QED
      BY <2>6, <2>7, <2>8, <3>1, <3>2 DEF IdsInReach
  <2>10. QED
    BY <2>3, <2>5, <2>9 DEF TypeInv
<1>4. ASSUME NEW i \in Ids, DeletePrinter(i) \/ DeleteFails(i) PROVE TypeInv'
  <2>1. /\ ops' = ops + 1 /\ ops' \in 0 .. MaxOps
        /\ Exists(i) /\ RemovePrinter(url[i]) /\ entries' = Removed(entries, url[i])
        /\ url' \in {url, [url EXCEPT ![i] = None]}
        /\ UNCHANGED <<shown, shownBy, regs, silent>>
    BY <1>4, <1>a, OperationTyped DEF DeletePrinter, DeleteFails
  <2>2. url[i] \in AnyUrl
    BY <1>a, <2>1, Typed DEF Exists
  <2>3. /\ todo' = todo \ {url[i]}
        /\ stale' \subseteq [id: Ids, url: AnyUrl, missed: 0 .. OfflineThreshold]
    BY <1>a, <2>1, <2>2, RemoveTyped
  <2>4. /\ entries' \in [AnyUrl -> Entry \cup {None}]
        /\ \A u \in AnyUrl : u # url[i] => entries'[u] = entries[u]
    BY <1>a, <2>1, <2>2, Typed DEF Removed
  <2>5. faults' \in 0 .. MaxFaults /\ lostDeletes' \in 0 .. MaxFaults /\ lostDeletes' <= faults'
    BY <1>4, <1>a, ConstantFacts DEF DeletePrinter, DeleteFails, TypeOK, TypeInv
  <2>6. url' \in [Ids -> AnyUrl \cup {None}] /\ \A k \in Ids : Exists(k)' => Exists(k)
    BY <1>a, <2>1, Typed DEF Exists
  <2>7. TypeOK'
    BY <1>a, <2>1, <2>3, <2>4, <2>5, <2>6, Typed DEF TypeOK
  <2>8. IdsInReach'
    BY <2>1, <2>6, ReachStep
  <2>9. QED
    BY <2>5, <2>7, <2>8 DEF TypeInv
<1>5. ASSUME NEW i \in Ids, NEW w \in AnyUrl, UpdatePrinter(i, w) PROVE TypeInv'
  <2>1. /\ ops' = ops + 1 /\ ops' \in 0 .. MaxOps
        /\ Exists(i) /\ url' = [url EXCEPT ![i] = w] /\ MoveEntry(i, w)
        /\ UNCHANGED <<shown, shownBy, regs, silent, faults, lostDeletes>>
    BY <1>5, <1>a, OperationTyped DEF UpdatePrinter
  <2>2. url' \in [Ids -> AnyUrl \cup {None}] /\ \A k \in Ids : Exists(k)' => Exists(k)
    BY <1>a, <2>1, Typed, ConstantFacts DEF Exists
  <2>3. /\ entries' \in [AnyUrl -> Entry \cup {None}]
        /\ todo' \subseteq todo /\ \A u \in todo' : entries'[u] # None
        /\ stale' \subseteq [id: Ids, url: AnyUrl, missed: 0 .. OfflineThreshold]
    BY <1>a, <2>1, MoveTyped
  <2>4. TypeOK'
    BY <1>a, <2>1, <2>2, <2>3 DEF TypeOK
  <2>5. IdsInReach'
    BY <2>1, <2>2, ReachStep
  <2>6. QED
    BY <2>1, <2>4, <2>5 DEF TypeInv
<1>6. ASSUME NEW u \in Urls, NEW connected \in BOOLEAN, Heartbeat(u, connected) PROVE TypeInv'
  <2>1. u \in AnyUrl /\ RowOf(u) \in Ids
    BY <1>6, RowFacts, ConstantFacts DEF Heartbeat
  <2>2. /\ entries' \in [AnyUrl -> Entry \cup {None}]
        /\ \A w \in AnyUrl : entries[w] # None => entries'[w] # None
    BY <1>6, <1>a, <2>1, AliveTyped, Typed DEF Heartbeat
  <2>3. /\ UNCHANGED <<url, todo, stale, regs, bounds>>
        /\ shown' = [shown EXCEPT ![RowOf(u)] = Said(connected)]
        /\ shownBy' = [shownBy EXCEPT ![RowOf(u)] = u]
        /\ silent' = [silent EXCEPT ![u] = 0]
    BY <1>6 DEF Heartbeat
  <2>4. TypeOK'
    BY <1>a, <2>1, <2>2, <2>3, ConstantFacts DEF TypeOK, Said
  <2>5. IdsInReach'
    BY <2>3, ReachStep DEF Exists
  <2>6. QED
    BY <2>3, <2>4, <2>5 DEF TypeInv
<1>7. QED
  BY <1>1, <1>2, <1>3, <1>4, <1>5, <1>6 DEF Requests

LEMMA PollsTyped == TypeInv /\ (PollLoop \/ Restart) => TypeInv'
<1> SUFFICES ASSUME TypeInv, PollLoop \/ Restart PROVE TypeInv'
  OBVIOUS
<1>a. TypeOK
  BY DEF TypeInv
<1> USE DEF rows, bounds
<1>b. faults \in Nat /\ lostDeletes \in Nat /\ lostDeletes <= faults
  BY <1>a, ConstantFacts DEF TypeInv, TypeOK
<1>c. ASSUME UNCHANGED <<url, regs, ops>> PROVE IdsInReach'
  BY <1>c, ReachStep DEF Exists
<1>1. CASE StartRound
  BY <1>1, <1>a, <1>c DEF StartRound, TypeInv, TypeOK
<1>2. ASSUME NEW u \in todo, NEW connected \in BOOLEAN, PollAnswers(u, connected) PROVE TypeInv'
  <2>1. u \in AnyUrl /\ entries[u] # None /\ entries[u].id \in Ids
    BY <1>a, Typed
  <2>2. /\ entries' \in [AnyUrl -> Entry \cup {None}]
        /\ \A w \in AnyUrl : entries[w] # None => entries'[w] # None
    BY <1>2, <1>a, <2>1, AliveTyped DEF PollAnswers
  <2>3. /\ shown' \in [Ids -> {"online", "offline"}]
        /\ shownBy' \in [Ids -> AnyUrl \cup {None}]
        /\ faults' \in 0 .. MaxFaults /\ faults' >= faults
    BY <1>2, <1>a, <2>1, PersistTyped DEF PollAnswers, Said
  <2>4. /\ todo' = todo \ {u} /\ silent' = [silent EXCEPT ![u] = 0]
        /\ UNCHANGED <<url, stale, regs, ops, lostDeletes>>
    BY <1>2 DEF PollAnswers
  <2>5. QED
    BY <1>a, <1>b, <1>c, <2>2, <2>3, <2>4, ConstantFacts DEF TypeInv, TypeOK
<1>3. ASSUME NEW u \in todo, PollFails(u) PROVE TypeInv'
  <2>1. u \in AnyUrl /\ entries[u] # None /\ entries[u].id \in Ids
    BY <1>a, Typed
  <2>2. /\ entries' \in [AnyUrl -> Entry \cup {None}]
        /\ \A w \in AnyUrl : entries[w] # None => entries'[w] # None
    BY <1>3, <1>a, <2>1, FailedTyped
  <2>3. /\ shown' \in [Ids -> {"online", "offline"}]
        /\ shownBy' \in [Ids -> AnyUrl \cup {None}]
        /\ faults' \in 0 .. MaxFaults /\ faults' >= faults
    BY <1>3, <1>a, <2>1, PersistTyped DEF PollFails, Quietly
  <2>4. /\ todo' = todo \ {u} /\ silent' = [silent EXCEPT ![u] = Missed(silent[u])]
        /\ UNCHANGED <<url, stale, regs, ops, lostDeletes>>
    BY <1>3 DEF PollFails
  <2>5. silent' \in [AnyUrl -> 0 .. OfflineThreshold]
    BY <1>a, <2>1, <2>4, MissedTyped DEF TypeOK
  <2>6. QED
    BY <1>a, <1>b, <1>c, <2>2, <2>3, <2>4, <2>5 DEF TypeInv, TypeOK
<1>4. ASSUME NEW p \in stale, StaleFails(p) \/ \E connected \in BOOLEAN : StaleAnswers(p, connected)
      PROVE  TypeInv'
  <2>1. p.url \in AnyUrl /\ p.id \in Ids
    BY <1>a, Typed
  <2>2. /\ shown' \in [Ids -> {"online", "offline"}]
        /\ shownBy' \in [Ids -> AnyUrl \cup {None}]
        /\ faults' \in 0 .. MaxFaults /\ faults' >= faults
    BY <1>4, <1>a, <2>1, PersistTyped DEF StaleFails, StaleAnswers, Quietly, Said
  <2>3. /\ stale' = stale \ {p}
        /\ silent' \in {[silent EXCEPT ![p.url] = 0], [silent EXCEPT ![p.url] = Missed(silent[p.url])]}
        /\ UNCHANGED <<url, entries, todo, regs, ops, lostDeletes>>
    BY <1>4 DEF StaleFails, StaleAnswers
  <2>4. silent' \in [AnyUrl -> 0 .. OfflineThreshold]
    BY <1>a, <2>1, <2>3, MissedTyped, ConstantFacts DEF TypeOK
  <2>5. QED
    BY <1>a, <1>b, <1>c, <2>2, <2>3, <2>4 DEF TypeInv, TypeOK
<1>5. CASE Restart
  <2>1. /\ entries' = [u \in AnyUrl |-> IF RowOf(u) = None THEN None ELSE Fresh(RowOf(u))]
        /\ todo' = {} /\ stale' = {} /\ regs' = {} /\ lostDeletes' = 0
        /\ UNCHANGED <<rows, silent, faults>>
        /\ ops' = ops + 1 /\ ops' \in 0 .. MaxOps
    BY <1>5, <1>a, OperationTyped DEF Restart
  <2>2. entries' \in [AnyUrl -> Entry \cup {None}]
    BY <2>1, RowFacts, FreshTyped
  <2>3. IdsInReach'
    BY <2>1, ReachStep DEF Exists
  <2>4. QED
    BY <1>a, <1>b, <2>1, <2>2, <2>3, ConstantFacts DEF TypeInv, TypeOK
<1>6. QED
  BY <1>1, <1>2, <1>3, <1>4, <1>5 DEF PollLoop, PollReturns, StaleReturns

LEMMA TypeStep == TypeInv /\ [Next]_vars => TypeInv'
<1>1. TypeInv /\ UNCHANGED vars => TypeInv'
  BY DEF vars, rows, memory, bounds, TypeInv, TypeOK, IdsInReach, Exists
<1>2. QED
  BY <1>1, RequestsTyped, PollsTyped DEF Next

\* However rows are inserted, deleted and moved while polls and pings are under
\* way: each row gets an id that no other row has, an entry that is polled is
\* there, and the polls of removed entries keep what they need.
THEOREM TypeCorrect == Spec => []TypeOK
<1>1. Spec => []TypeInv
  BY TypeInit, TypeStep, PTL DEF Spec
<1>2. TypeInv => TypeOK
  BY DEF TypeInv
<1>3. QED
  BY <1>1, <1>2, PTL
-----------------------------------------------------------------------------
(***************************************************************************)
(* Entries and rows.                                                       *)
(***************************************************************************)

\* Polls and heartbeats, which find entries as they are: rows stay, and
\* entries remain those of their rows.
EntriesStay ==
    /\ UNCHANGED <<url, lostDeletes>>
    /\ \A u \in AnyUrl :
          /\ entries'[u] = None <=> entries[u] = None
          /\ entries[u] # None => /\ entries'[u].id = entries[u].id
                                  /\ entries'[u].left = entries[u].left

LEMMA SignsKeepEntries ==
  ASSUME TypeInv,
         PollLoop \/ \E u \in Urls, connected \in BOOLEAN : Heartbeat(u, connected)
  PROVE  EntriesStay
<1>a. TypeOK
  BY DEF TypeInv
<1> USE DEF rows, bounds
<1>1. ASSUME NEW u \in Urls, NEW connected \in BOOLEAN, Heartbeat(u, connected)
      PROVE  EntriesStay
  <2>1. u \in AnyUrl /\ UNCHANGED <<url, lostDeletes>>
    BY <1>1, ConstantFacts DEF Heartbeat
  <2>2. QED
    BY <1>1, <1>a, <2>1, AliveTyped DEF Heartbeat, EntriesStay
<1>2. CASE StartRound
  BY <1>2 DEF StartRound, EntriesStay
<1>3. ASSUME NEW u \in todo, NEW connected \in BOOLEAN, PollAnswers(u, connected)
      PROVE  EntriesStay
  BY <1>3, <1>a, Typed, AliveTyped DEF PollAnswers, EntriesStay
<1>4. ASSUME NEW u \in todo, PollFails(u) PROVE EntriesStay
  <2>1. UNCHANGED <<url, lostDeletes>>
    BY <1>4 DEF PollFails
  <2>2. QED
    BY <1>4, <1>a, <2>1, Typed, FailedTyped DEF EntriesStay
<1>5. ASSUME NEW p \in stale, StaleReturns(p) PROVE EntriesStay
  BY <1>5 DEF StaleReturns, StaleFails, StaleAnswers, EntriesStay
<1>6. QED
  BY <1>1, <1>2, <1>3, <1>4, <1>5 DEF PollLoop, PollReturns

LEMMA UniqueStep == TypeInv /\ RowsAreUnique /\ [Next]_vars => RowsAreUnique'
<1> SUFFICES ASSUME TypeInv, RowsAreUnique, [Next]_vars PROVE RowsAreUnique'
  OBVIOUS
<1>a. url \in [Ids -> AnyUrl \cup {None}]
  BY Typed DEF TypeInv
<1> USE DEF rows, memory, bounds
<1>1. ASSUME UNCHANGED url PROVE RowsAreUnique'
  BY <1>1 DEF RowsAreUnique, Exists
<1>2. ASSUME NEW i \in Ids, NEW w \in AnyUrl, url' = [url EXCEPT ![i] = w],
             RowOf(w) \in {i, None}
      PROVE  RowsAreUnique'
  <2>1. \A j \in Ids : j # i => url[j] # w
    <3>1. CASE RowOf(w) = None
      BY <3>1, ConstantFacts, RowFacts
    <3>2. CASE RowOf(w) = i
      BY <3>2, ConstantFacts, RowFacts DEF RowsAreUnique, Exists
    <3>3. QED
      BY <1>2, <3>1, <3>2
  <2>2. QED
    BY <1>2, <1>a, <2>1 DEF RowsAreUnique, Exists
<1>3. ASSUME NEW r \in regs, RegisterNew(r) PROVE RowsAreUnique'
  BY <1>2, <1>3, NewIdFacts, Typed DEF RegisterNew, TypeInv
<1>4. ASSUME NEW i \in Ids, DeletePrinter(i) PROVE RowsAreUnique'
  BY <1>4, <1>a DEF DeletePrinter, RowsAreUnique, Exists
<1>5. ASSUME NEW i \in Ids, NEW w \in AnyUrl, UpdatePrinter(i, w) PROVE RowsAreUnique'
  BY <1>2, <1>5, ConstantFacts DEF UpdatePrinter
<1>6. CASE PollLoop \/ \E u \in Urls, connected \in BOOLEAN : Heartbeat(u, connected)
  BY <1>1, <1>6, SignsKeepEntries DEF EntriesStay
<1>7. QED
  BY <1>1, <1>3, <1>4, <1>5, <1>6
     DEF Next, Requests, RegisterStarts, RegisterAgain, RegisterRefused, DeleteFails, Restart, vars

LEMMA RowInit == Init => RowInv
<1> SUFFICES ASSUME Init PROVE RowInv
  OBVIOUS
<1>1. /\ \A i \in Ids : url[i] = None
      /\ \A u \in AnyUrl : entries[u] = None
  BY DEF Init
<1>2. QED
  BY <1>1 DEF RowInv, RowsAreUnique, EntriesNameTheirRow, EveryPrinterIsPolled, Exists

LEMMA RowStep ==
  ASSUME TypeInv, RowInv, [Next]_vars
  PROVE  RowInv'
<1>a. /\ TypeOK /\ lostDeletes \in Nat
      /\ RowsAreUnique /\ EntriesNameTheirRow /\ EveryPrinterIsPolled
  BY ConstantFacts DEF TypeInv, RowInv, TypeOK
<1>b. /\ url \in [Ids -> AnyUrl \cup {None}]
      /\ entries \in [AnyUrl -> Entry \cup {None}]
      /\ None \notin AnyUrl
      /\ \A u \in AnyUrl : entries[u] # None => entries[u].id \in Ids
      /\ \A u \in AnyUrl : entries[u] # None /\ ~entries[u].left => url[entries[u].id] = u
      /\ \A i \in Ids : Exists(i) => url[i] \in AnyUrl
  BY <1>a, ConstantFacts, Typed DEF EntriesNameTheirRow, Left, Exists
<1>c. RowsAreUnique'
  BY <1>a, UniqueStep
<1> USE DEF rows, memory, bounds
<1>1. ASSUME EntriesStay PROVE RowInv'
  <2>1. EntriesNameTheirRow'
    BY <1>1, <1>b DEF EntriesStay, EntriesNameTheirRow, Left
  <2>2. EveryPrinterIsPolled'
    BY <1>1, <1>a, <1>b DEF EntriesStay, EveryPrinterIsPolled, Exists
  <2>3. QED
    BY <1>c, <2>1, <2>2 DEF RowInv
<1>2. ASSUME UNCHANGED <<url, entries, lostDeletes>> PROVE RowInv'
  BY <1>1, <1>2 DEF EntriesStay
<1>3. ASSUME NEW r \in regs, RegisterNew(r) PROVE RowInv'
  <2> DEFINE i == NewId
             u == r.url
  <2>1. i \in Ids /\ ~Exists(i) /\ u \in AnyUrl
    BY <1>a, NewIdFacts, Typed
  <2>2. /\ url' = [url EXCEPT ![i] = u] /\ RowOf(u) = None
        /\ entries' = Added(entries, i, u) /\ UNCHANGED lostDeletes
    BY <1>3 DEF RegisterNew
  <2> HIDE DEF i, u
  <2>3. /\ entries[u] = None => entries' = [entries EXCEPT ![u] = Fresh(i)]
        /\ entries[u] # None => entries' = entries /\ entries[u].left
        /\ Fresh(i) # None /\ Fresh(i).id = i
    BY <1>b, <2>1, <2>2, RowFacts, FreshTyped DEF Added
  <2>4. /\ entries'[u] # None
        /\ entries'[u].left \/ entries'[u].id = i
        /\ \A w \in AnyUrl : w # u => entries'[w] = entries[w]
    BY <1>b, <2>1, <2>3
  <2>5. EntriesNameTheirRow'
    BY <1>b, <2>1, <2>2, <2>4 DEF EntriesNameTheirRow, Left, Exists
  <2>6. EveryPrinterIsPolled'
    BY <1>a, <1>b, <2>1, <2>2, <2>4 DEF EveryPrinterIsPolled, Exists
  <2>7. QED
    BY <1>c, <2>5, <2>6 DEF RowInv
<1>4. ASSUME NEW i \in Ids, DeletePrinter(i) PROVE RowInv'
  <2>1. /\ url[i] \in AnyUrl /\ url' = [url EXCEPT ![i] = None]
        /\ entries' = [entries EXCEPT ![url[i]] = None] /\ UNCHANGED lostDeletes
    BY <1>4, <1>b DEF DeletePrinter, Removed
  <2>2. EntriesNameTheirRow'
    BY <1>b, <2>1 DEF EntriesNameTheirRow, Left
  <2>3. EveryPrinterIsPolled'
    BY <1>a, <1>b, <2>1 DEF EveryPrinterIsPolled, RowsAreUnique, Exists
  <2>4. QED
    BY <1>c, <2>2, <2>3 DEF RowInv
<1>5. ASSUME NEW i \in Ids, DeleteFails(i) PROVE RowInv'
  <2>1. /\ url[i] \in AnyUrl /\ UNCHANGED url
        /\ entries' = [entries EXCEPT ![url[i]] = None] /\ lostDeletes' = lostDeletes + 1
    BY <1>5, <1>b DEF DeleteFails, Removed
  <2>2. EntriesNameTheirRow'
    BY <1>b, <2>1 DEF EntriesNameTheirRow, Left
  <2>3. EveryPrinterIsPolled'
    BY <1>a, <2>1 DEF EveryPrinterIsPolled
  <2>4. QED
    BY <1>c, <2>2, <2>3 DEF RowInv
<1>6. ASSUME NEW i \in Ids, NEW w \in AnyUrl, UpdatePrinter(i, w) PROVE RowInv'
  <2>1. /\ Exists(i) /\ url' = [url EXCEPT ![i] = w] /\ MoveEntry(i, w)
        /\ UNCHANGED lostDeletes /\ url[i] \in AnyUrl
    BY <1>6, <1>b DEF UpdatePrinter
  <2>2. CASE w = url[i]
    <3>1. UNCHANGED <<url, entries>>
      BY <1>b, <2>1, <2>2, ConstantFacts DEF MoveEntry
    <3>2. QED
      BY <1>2, <2>1, <3>1
  <2>3. CASE w # url[i] /\ w # Blank
    <3>1. /\ entries'[url[i]] = None /\ entries'[w] # None
          /\ \A u \in AnyUrl : \/ entries'[u] = entries[u]
                               \/ u = url[i]
                               \/ u = w /\ entries'[u] = Fresh(i)
      BY <1>a, <2>1, <2>3, MoveTyped
    <3>2. Fresh(i).id = i
      BY FreshTyped
    <3>3. EntriesNameTheirRow'
      BY <1>b, <2>1, <3>1, <3>2 DEF EntriesNameTheirRow, Left
    <3>4. EveryPrinterIsPolled'
      BY <1>a, <1>b, <2>1, <3>1 DEF EveryPrinterIsPolled, RowsAreUnique, Exists
    <3>5. QED
      BY <1>c, <3>3, <3>4 DEF RowInv
  <2>4. CASE w # url[i] /\ w = Blank
    <3>1. LeaveEntry(i)
      BY <2>1, <2>4 DEF MoveEntry
    <3>2. /\ entries'[url[i]] = None <=> entries[url[i]] = None
          /\ entries[url[i]] # None => entries'[url[i]].left
          /\ \A u \in AnyUrl : u # url[i] => entries'[u] = entries[u]
      BY <1>a, <2>1, <3>1, LeaveTyped
    <3>3. EntriesNameTheirRow'
      BY <1>b, <2>1, <3>2 DEF EntriesNameTheirRow, Left
    <3>4. EveryPrinterIsPolled'
      BY <1>a, <1>b, <2>1, <2>4, <3>2 DEF EveryPrinterIsPolled, RowsAreUnique, Exists
    <3>5. QED
      BY <1>c, <3>3, <3>4 DEF RowInv
  <2>5. QED
    BY <2>2, <2>3, <2>4
<1>7. CASE Restart
  <2>1. /\ UNCHANGED url
        /\ entries' = [u \in AnyUrl |-> IF RowOf(u) = None THEN None ELSE Fresh(RowOf(u))]
    BY <1>7 DEF Restart
  <2>2. EntriesNameTheirRow'
    BY <2>1, RowFacts, FreshTyped DEF EntriesNameTheirRow
  <2>3. \A i \in Ids : Exists(i) => entries'[url[i]] # None
    BY <1>b, <2>1, RowFacts, FreshTyped
  <2>4. EveryPrinterIsPolled'
    BY <2>1, <2>3 DEF EveryPrinterIsPolled, Exists
  <2>5. QED
    BY <1>c, <2>2, <2>4 DEF RowInv
<1>8. CASE PollLoop \/ \E u \in Urls, connected \in BOOLEAN : Heartbeat(u, connected)
  BY <1>1, <1>8, SignsKeepEntries
<1>9. QED
  BY <1>2, <1>3, <1>4, <1>5, <1>6, <1>7, <1>8
     DEF Next, Requests, RegisterStarts, RegisterAgain, RegisterRefused, vars

\* Every entry that is polled is that of the row with its address, so that no
\* poll writes the status of another printer, unless its entry was removed
\* while it ran, or was left behind when a PATCH emptied the address of its row.
THEOREM EntriesAreTheirRows ==
  Spec => []EntriesNameTheirRow
<1>1. TypeInv /\ RowInv /\ [Next]_vars => RowInv'
  BY RowStep
<1>2. Spec => [](TypeInv /\ RowInv)
  BY <1>1, TypeInit, TypeStep, RowInit, PTL DEF Spec
<1>3. RowInv => EntriesNameTheirRow
  BY DEF RowInv
<1>4. QED
  BY <1>2, <1>3, PTL

\* ... and every printer with an address is polled, if no delete has failed
\* half-way since the dashboard was started.
THEOREM PrintersArePolled ==
  Spec => []EveryPrinterIsPolled
<1>1. TypeInv /\ RowInv /\ [Next]_vars => RowInv'
  BY RowStep
<1>2. Spec => [](TypeInv /\ RowInv)
  BY <1>1, TypeInit, TypeStep, RowInit, PTL DEF Spec
<1>3. RowInv => EveryPrinterIsPolled
  BY DEF RowInv
<1>4. QED
  BY <1>2, <1>3, PTL
-----------------------------------------------------------------------------
(***************************************************************************)
(* Silence.                                                                *)
(***************************************************************************)

LEMMA SilenceInit == Init => SilenceInv
  BY DEF Init, SilenceInv, StaleIsOver, MissedIsSilence

\* Less is polled, and entries change only by giving way to new ones, or in
\* what they do not count.
LEMMA SilenceKept ==
  ASSUME TypeInv, SilenceInv, UNCHANGED silent, todo' \subseteq todo,
         \A u \in AnyUrl : \/ entries'[u] = entries[u]
                           \/ entries'[u] = None
                           \/ entries'[u].missed = 0
                           \/ entries[u] # None /\ entries'[u].missed = entries[u].missed,
         \A p \in stale' : p \in stale \/ (p.url \notin todo' /\ entries'[p.url] = None)
  PROVE  SilenceInv'
<1>1. /\ \A p \in stale : p.url \in AnyUrl
      /\ \A u \in AnyUrl : silent[u] \in Nat
  BY Typed, ConstantFacts DEF TypeInv
<1>2. StaleIsOver'
  BY <1>1 DEF SilenceInv, StaleIsOver
<1>3. MissedIsSilence'
  BY <1>1 DEF SilenceInv, MissedIsSilence
<1>4. QED
  BY <1>2, <1>3 DEF SilenceInv

LEMMA MissedGrows ==
  ASSUME NEW n \in 0 .. OfflineThreshold, NEW m \in 0 .. OfflineThreshold
  PROVE  n <= Missed(n) /\ (n <= m => Missed(n) <= Missed(m))
  BY ConstantFacts DEF Missed

LEMMA SilenceStep == TypeInv /\ SilenceInv /\ [Next]_vars => SilenceInv'
<1> SUFFICES ASSUME TypeInv, SilenceInv, [Next]_vars PROVE SilenceInv'
  OBVIOUS
<1>a. /\ TypeOK /\ StaleIsOver /\ MissedIsSilence
      /\ entries \in [AnyUrl -> Entry \cup {None}] /\ silent \in [AnyUrl -> 0 .. OfflineThreshold]
      /\ \A u \in AnyUrl :
            /\ u \in todo => entries[u] # None
            /\ entries[u] # None => entries[u].missed \in 0 .. OfflineThreshold
            /\ silent[u] \in 0 .. OfflineThreshold
      /\ \A p \in stale : p.url \in AnyUrl
      /\ OfflineThreshold \in Nat /\ todo \subseteq AnyUrl
  BY ConstantFacts, Typed DEF TypeInv, SilenceInv, TypeOK
<1> USE DEF rows, memory, bounds
<1>1. ASSUME UNCHANGED <<entries, todo, stale, silent>> PROVE SilenceInv'
  BY <1>1, SilenceKept
<1>2. ASSUME NEW r \in regs, RegisterNew(r) PROVE SilenceInv'
  <2>1. NewId \in Ids /\ r.url \in AnyUrl
    BY <1>a, NewIdFacts, Typed
  <2>2. entries' = Added(entries, NewId, r.url) /\ UNCHANGED <<todo, stale, silent>>
    BY <1>2 DEF RegisterNew
  <2>3. \A u \in AnyUrl : entries'[u] = entries[u] \/ entries'[u].missed = 0
    BY <1>a, <2>1, <2>2, FreshTyped DEF Added
  <2>4. QED
    BY <2>2, <2>3, SilenceKept
<1>3. ASSUME NEW i \in Ids, DeletePrinter(i) \/ DeleteFails(i) PROVE SilenceInv'
  <2>1. /\ Exists(i) /\ RemovePrinter(url[i]) /\ entries' = Removed(entries, url[i])
        /\ UNCHANGED silent
    BY <1>3 DEF DeletePrinter, DeleteFails
  <2>2. url[i] \in AnyUrl
    BY <1>a, <2>1, Typed DEF Exists
  <2>3. /\ todo' = todo \ {url[i]}
        /\ \A p \in stale' : p \in stale \/ p.url = url[i]
    BY <1>a, <2>1, <2>2, RemoveTyped
  <2>4. /\ entries'[url[i]] = None
        /\ \A u \in AnyUrl : u # url[i] => entries'[u] = entries[u]
    BY <1>a, <2>1, <2>2 DEF Removed
  <2>5. QED
    BY <2>1, <2>3, <2>4, SilenceKept
<1>4. ASSUME NEW i \in Ids, NEW w \in AnyUrl, UpdatePrinter(i, w) PROVE SilenceInv'
  <2>1. Exists(i) /\ MoveEntry(i, w) /\ UNCHANGED silent
    BY <1>4 DEF UpdatePrinter
  <2>2. /\ todo' \subseteq todo /\ \A u \in todo' : entries'[u] # None
        /\ \A p \in stale' : p \in stale \/ (p.url = url[i] /\ entries'[url[i]] = None)
        /\ \A u \in AnyUrl : \/ entries'[u] = entries[u]
                             \/ entries'[u] = None
                             \/ entries'[u] = Fresh(i)
                             \/ entries[u] # None /\ entries'[u].missed = entries[u].missed
    BY <1>a, <2>1, MoveTyped
  <2>3. Fresh(i).missed = 0
    BY FreshTyped
  <2>4. \A u \in AnyUrl : \/ entries'[u] = entries[u]
                          \/ entries'[u] = None
                          \/ entries'[u].missed = 0
                          \/ entries[u] # None /\ entries'[u].missed = entries[u].missed
    BY <2>2, <2>3
  <2>5. \A p \in stale' : p \in stale \/ (p.url \notin todo' /\ entries'[p.url] = None)
    BY <2>2
  <2>6. QED
    BY <2>1, <2>2, <2>4, <2>5, SilenceKept
<1>5. ASSUME NEW u \in AnyUrl, NEW connected \in BOOLEAN, entries[u] # None,
             entries' = Alive(entries, u, connected), silent' = [silent EXCEPT ![u] = 0],
             todo' \subseteq todo, UNCHANGED stale
      PROVE  SilenceInv'
  <2>1. /\ entries'[u].missed = 0
        /\ \A w \in AnyUrl : w # u => entries'[w] = entries[w]
    BY <1>5, <1>a, AliveTyped
  <2>2. \A w \in AnyUrl : silent'[w] = IF w = u THEN 0 ELSE silent[w]
    BY <1>5, <1>a
  <2>3. StaleIsOver'
    BY <1>5, <1>a, <2>1 DEF StaleIsOver
  <2>4. MissedIsSilence'
    BY <1>5, <1>a, <2>1, <2>2 DEF MissedIsSilence
  <2>5. QED
    BY <2>3, <2>4 DEF SilenceInv
<1>6. ASSUME NEW u \in Urls, NEW connected \in BOOLEAN, Heartbeat(u, connected) PROVE SilenceInv'
  <2>1. u \in AnyUrl /\ silent' = [silent EXCEPT ![u] = 0] /\ UNCHANGED <<todo, stale>>
    BY <1>6, ConstantFacts DEF Heartbeat
  <2>2. CASE entries[u] = None
    <3>1. UNCHANGED entries /\ \A w \in AnyUrl : w # u => silent'[w] = silent[w]
      BY <1>6, <1>a, <2>1, <2>2 DEF Heartbeat
    <3>2. QED
      BY <1>a, <2>1, <2>2, <3>1 DEF SilenceInv, StaleIsOver, MissedIsSilence
  <2>3. CASE entries[u] # None
    BY <1>5, <1>6, <2>1, <2>3 DEF Heartbeat
  <2>4. QED
    BY <2>2, <2>3
<1>7. ASSUME NEW u \in todo, NEW connected \in BOOLEAN, PollAnswers(u, connected)
      PROVE  SilenceInv'
  BY <1>5, <1>7, <1>a DEF PollAnswers
<1>8. ASSUME NEW u \in todo, PollFails(u) PROVE SilenceInv'
  <2>1. /\ u \in AnyUrl /\ entries[u] # None
        /\ entries[u].missed \in 0 .. OfflineThreshold /\ silent[u] \in 0 .. OfflineThreshold
        /\ entries[u].missed <= silent[u]
    BY <1>a DEF MissedIsSilence
  <2>2. /\ entries'[u].missed = Missed(entries[u].missed)
        /\ \A w \in AnyUrl : w # u => entries'[w] = entries[w]
    BY <1>8, <1>a, <2>1, FailedTyped
  <2>3. /\ todo' = todo \ {u} /\ silent' = [silent EXCEPT ![u] = Missed(silent[u])]
        /\ UNCHANGED stale
    BY <1>8 DEF PollFails
  <2>4. \A w \in AnyUrl : silent'[w] = IF w = u THEN Missed(silent[u]) ELSE silent[w]
    BY <1>a, <2>3
  <2>5. StaleIsOver'
    BY <1>a, <1>8, <2>2, <2>3 DEF StaleIsOver
  <2>6. Missed(entries[u].missed) <= Missed(silent[u])
    BY <2>1, MissedGrows
  <2>7. MissedIsSilence'
    <3> SUFFICES ASSUME NEW w \in AnyUrl, entries'[w] # None
                 PROVE  entries'[w].missed <= silent'[w]
      BY DEF MissedIsSilence
    <3>1. QED
      BY <1>a, <2>2, <2>4, <2>6 DEF MissedIsSilence
  <2>8. QED
    BY <2>5, <2>7 DEF SilenceInv
<1>9. ASSUME NEW p \in stale, StaleReturns(p) PROVE SilenceInv'
  <2>1. /\ p.url \in AnyUrl
        /\ entries[p.url] # None => entries[p.url].missed = 0
    BY <1>a DEF StaleIsOver
  <2>2. /\ stale' = stale \ {p} /\ UNCHANGED <<entries, todo>>
        /\ silent' \in {[silent EXCEPT ![p.url] = 0],
                        [silent EXCEPT ![p.url] = Missed(silent[p.url])]}
    BY <1>9 DEF StaleReturns, StaleFails, StaleAnswers
  <2>3. silent'[p.url] >= 0 /\ \A w \in AnyUrl : w # p.url => silent'[w] = silent[w]
    BY <1>a, <2>1, <2>2, MissedTyped
  <2>4. QED
    BY <1>a, <2>1, <2>2, <2>3 DEF SilenceInv, StaleIsOver, MissedIsSilence
<1>10. CASE StartRound
  BY <1>10 DEF StartRound, SilenceInv, StaleIsOver, MissedIsSilence
<1>11. CASE Restart
  <2>1. /\ todo' = {} /\ stale' = {} /\ UNCHANGED silent
        /\ entries' = [u \in AnyUrl |-> IF RowOf(u) = None THEN None ELSE Fresh(RowOf(u))]
    BY <1>11 DEF Restart
  <2>2. \A u \in AnyUrl : entries'[u] = None \/ entries'[u].missed = 0
    BY <2>1, RowFacts, FreshTyped
  <2>3. QED
    BY <2>1, <2>2, SilenceKept
<1>12. QED
  BY <1>1, <1>2, <1>3, <1>4, <1>6, <1>7, <1>8, <1>9, <1>10, <1>11
     DEF Next, Requests, PollLoop, PollReturns, RegisterStarts, RegisterAgain, RegisterRefused, vars

\* However pushes, polls and removals interleave: a poll that turns a printer
\* offline has just heard from its agent, which said so, or was the last of
\* OfflineThreshold failures in a row without any sign of life.
THEOREM OfflineTakesSilence == Spec => OfflineIsEarned
<1> DEFINE Earned ==
      \A u \in todo :
         /\ u \notin todo' /\ entries'[u] # None
         /\ shown[entries[u].id] = "online"
         /\ shown'[entries[u].id] = "offline"
         => silent'[u] \in {0, OfflineThreshold}
<1>1. TypeInv /\ SilenceInv /\ [Next]_vars => [Earned]_vars
  <2> SUFFICES ASSUME TypeInv, SilenceInv, Next, NEW u \in todo,
                      u \notin todo', entries'[u] # None,
                      shown'[entries[u].id] # shown[entries[u].id]
               PROVE  silent'[u] \in {0, OfflineThreshold}
    OBVIOUS
  <2>a. /\ TypeOK /\ u \in AnyUrl /\ entries[u] # None
        /\ entries[u].missed \in 0 .. OfflineThreshold /\ silent[u] \in 0 .. OfflineThreshold
        /\ entries[u].missed <= silent[u] /\ OfflineThreshold \in Nat
        /\ silent \in [AnyUrl -> 0 .. OfflineThreshold]
    BY Typed, ConstantFacts DEF TypeInv, SilenceInv, MissedIsSilence, TypeOK
  <2>1. CASE \E connected \in BOOLEAN : PollAnswers(u, connected)
    BY <2>1, <2>a DEF PollAnswers
  <2>2. CASE PollFails(u)
    <3>1. Missed(entries[u].missed) >= OfflineThreshold
      BY <2>2 DEF PollFails, Quietly
    <3>2. silent'[u] = Missed(silent[u])
      BY <2>2, <2>a DEF PollFails
    <3>3. /\ Missed(entries[u].missed) <= Missed(silent[u])
          /\ Missed(entries[u].missed) \in 0 .. OfflineThreshold
          /\ Missed(silent[u]) \in 0 .. OfflineThreshold
      BY <2>a, MissedGrows, MissedTyped
    <3>4. QED
      BY <2>a, <3>1, <3>2, <3>3
  <2>3. CASE \E w \in todo : w # u /\ PollReturns(w)
    BY <2>3 DEF PollReturns, PollAnswers, PollFails
  <2>4. CASE StartRound \/ \E p \in stale : StaleReturns(p)
    BY <2>4 DEF StartRound, StaleReturns, StaleAnswers, StaleFails
  <2>5. CASE Requests
    BY <2>5 DEF Requests, RegisterStarts, RegisterAgain, RegisterNew, RegisterRefused,
                DeletePrinter, DeleteFails, UpdatePrinter, Heartbeat, rows, memory
  <2>6. CASE Restart
    BY <2>6 DEF Restart, rows
  <2>7. QED
    BY <2>1, <2>2, <2>3, <2>4, <2>5, <2>6 DEF Next, PollLoop, PollReturns
<1>2. Spec => [](TypeInv /\ SilenceInv)
  BY TypeInit, TypeStep, SilenceInit, SilenceStep, PTL DEF Spec
<1>3. QED
  BY <1>1, <1>2, PTL DEF Spec, OfflineIsEarned

-----------------------------------------------------------------------------
(***************************************************************************)
(* How rows heal, step by step.                                            *)
(***************************************************************************)

LEMMA SignIsLive ==
  ASSUME TypeOK, NEW u \in AnyUrl, entries[u] # None, NEW connected \in BOOLEAN,
         entries' = Alive(entries, u, connected)
  PROVE  entries'[u].live = IF connected THEN "up" ELSE "down"
<1>1. entries \in [AnyUrl -> Entry \cup {None}] /\ entries[u] \in Entry
  BY Typed
<1>2. QED
  BY <1>1 DEF Alive, Entry

LEMMA FailureIsLive ==
  ASSUME TypeOK, NEW u \in AnyUrl, u \in todo, PollFails(u)
  PROVE  entries'[u].live = IF Missed(entries[u].missed) >= OfflineThreshold
                            THEN "down" ELSE entries[u].live
<1>1. entries \in [AnyUrl -> Entry \cup {None}] /\ entries[u] \in Entry
  BY Typed
<1>2. QED
  BY <1>1 DEF PollFails, Entry

\* What is written of one printer concerns the row and the card of no other.
LEMMA OthersShow ==
  ASSUME TypeInv, RowInv, NEW u \in AnyUrl, NEW i \in Ids, Exists(i), url[i] # u,
         ShowsItsAgent(i), UNCHANGED url,
         shown'[i] = shown[i], shownBy'[i] = shownBy[i],
         \A w \in AnyUrl : w # u => entries'[w] = entries[w]
  PROVE  ShowsItsAgent(i)'
<1>1. url[i] \in AnyUrl
  BY Typed DEF TypeInv, Exists
<1>2. QED
  BY <1>1 DEF ShowsItsAgent

\* A sign of life that is stored makes its own row right and spares the others.
LEMMA SignShows ==
  ASSUME TypeInv, RowInv, NEW k \in Ids, NEW u \in AnyUrl, url[k] = u, entries[u] # None,
         NEW connected \in BOOLEAN,
         entries' = Alive(entries, u, connected), UNCHANGED url,
         shown' = [shown EXCEPT ![k] = Said(connected)],
         shownBy' = [shownBy EXCEPT ![k] = u],
         NEW i \in Ids, Exists(i), i = k \/ ShowsItsAgent(i)
  PROVE  ShowsItsAgent(i)'
<1>1. /\ entries'[u] # None /\ entries'[u].live = IF connected THEN "up" ELSE "down"
      /\ \A w \in AnyUrl : w # u => entries'[w] = entries[w]
  BY AliveTyped, SignIsLive DEF TypeInv
<1>2. /\ shown \in [Ids -> {"online", "offline"}] /\ shownBy \in [Ids -> AnyUrl \cup {None}]
  BY DEF TypeInv, TypeOK
<1>3. /\ shown'[k] = Said(connected) /\ shownBy'[k] = u
      /\ i # k => shown'[i] = shown[i] /\ shownBy'[i] = shownBy[i]
  BY <1>2
<1>4. CASE i = k
  BY <1>1, <1>3, <1>4 DEF ShowsItsAgent, Said
<1>5. CASE i # k
  <2>1. url[i] # u
    BY <1>5 DEF RowInv, RowsAreUnique
  <2>2. QED
    BY <1>1, <1>3, <1>5, <2>1, OthersShow
<1>6. QED
  BY <1>4, <1>5

\* An entry is the one of the only row with its address, or was left behind.
LEMMA EntryIsOfRow ==
  ASSUME TypeInv, RowInv, NEW u \in AnyUrl, entries[u] # None
  PROVE  /\ entries[u].id \in Ids
         /\ ~Left(u) => /\ Exists(entries[u].id) /\ url[entries[u].id] = u
                        /\ \A i \in Ids : url[i] = u => i = entries[u].id
<1>1. entries[u].id \in Ids /\ u # None
  BY Typed, ConstantFacts DEF TypeInv
<1>2. ~Left(u) => url[entries[u].id] = u
  BY DEF RowInv, EntriesNameTheirRow
<1>3. QED
  BY <1>1, <1>2 DEF RowInv, RowsAreUnique, Exists

\* What is written through an entry that was left behind goes to no row that is
\* not mixed.
LEMMA LeftSpares ==
  ASSUME TypeInv, NEW u \in AnyUrl, Left(u), NEW i \in Ids, Exists(i), ~Mixed(i)
  PROVE  url[i] # u /\ entries[u].id # i
  BY DEF Mixed

\* A row that is not mixed keeps what it shows while it is not written and the
\* entry of another address changes.
LEMMA Spared ==
  ASSUME TypeInv, NEW u \in AnyUrl, NEW i \in Ids, Exists(i), url[i] # u, ShowsItsAgent(i),
         UNCHANGED url, NEW k \in Ids, k # i, NEW st, NEW by,
         \/ UNCHANGED <<shown, shownBy>>
         \/ shown' = [shown EXCEPT ![k] = st] /\ shownBy' = [shownBy EXCEPT ![k] = by],
         \A w \in AnyUrl : w # u => entries'[w] = entries[w]
  PROVE  ShowsItsAgent(i)'
<1>1. shown'[i] = shown[i] /\ shownBy'[i] = shownBy[i]
  BY DEF TypeInv, TypeOK
<1>2. url[i] \in AnyUrl
  BY Typed DEF TypeInv, Exists
<1>3. QED
  BY <1>1, <1>2 DEF ShowsItsAgent

\* A heartbeat writes to the row of its address.
LEMMA HeartbeatShows ==
  ASSUME TypeInv, RowInv, NEW u \in Urls, NEW connected \in BOOLEAN, Heartbeat(u, connected),
         NEW i \in Ids, Exists(i), \/ url[i] = u /\ entries[u] # None
                                   \/ ShowsItsAgent(i)
  PROVE  ShowsItsAgent(i)'
<1>1. PICK k \in Ids : k = RowOf(u) /\ url[k] = u
  BY ConstantFacts, RowFacts DEF Heartbeat
<1>2. /\ UNCHANGED url /\ u \in AnyUrl /\ Exists(k)
      /\ shown' = [shown EXCEPT ![k] = Said(connected)]
      /\ shownBy' = [shownBy EXCEPT ![k] = u]
      /\ entries' = IF entries[u] = None THEN entries ELSE Alive(entries, u, connected)
  BY <1>1, ConstantFacts DEF Heartbeat, Exists
<1>3. CASE entries[u] # None
  <2>1. url[i] = u => i = k
    BY <1>1, <1>2 DEF RowInv, RowsAreUnique
  <2>2. QED
    BY <1>1, <1>2, <1>3, <2>1, SignShows
<1>4. CASE entries[u] = None
  <2>1. url[i] # u /\ i # k /\ ShowsItsAgent(i)
    BY <1>1, <1>4 DEF ShowsItsAgent
  <2>2. QED
    BY <1>2, <1>4, <2>1, Spared
<1>5. QED
  BY <1>3, <1>4

\* The answer of a poll writes to the row of the entry, which for an entry left
\* behind is a mixed one.
LEMMA AnswerShows ==
  ASSUME TypeInv, RowInv, NEW u \in AnyUrl, entries[u] # None, NEW connected \in BOOLEAN,
         PollAnswers(u, connected), UNCHANGED faults,
         NEW i \in Ids, Exists(i), ~Mixed(i), url[i] = u \/ ShowsItsAgent(i)
  PROVE  ShowsItsAgent(i)'
<1>1. PICK k \in Ids : k = entries[u].id
  BY EntryIsOfRow
<1>2. /\ entries' = Alive(entries, u, connected) /\ UNCHANGED url
      /\ Persist(k, u, Said(connected)) /\ faults \in Int
  BY <1>1, ConstantFacts DEF PollAnswers, TypeInv, TypeOK
<1>3. \/ UNCHANGED <<shown, shownBy>> /\ ~Exists(k)
      \/ /\ shown' = [shown EXCEPT ![k] = Said(connected)]
         /\ shownBy' = [shownBy EXCEPT ![k] = u]
  BY <1>2 DEF Persist
<1>4. CASE Left(u)
  <2>1. url[i] # u /\ k # i
    BY <1>1, <1>4, LeftSpares
  <2>2. \A w \in AnyUrl : w # u => entries'[w] = entries[w]
    BY <1>2, AliveTyped DEF TypeInv
  <2>3. QED
    BY <1>2, <1>3, <2>1, <2>2, Spared
<1>5. CASE ~Left(u)
  <2>1. Exists(k) /\ url[k] = u /\ (url[i] = u => i = k)
    BY <1>1, <1>5, EntryIsOfRow
  <2>2. QED
    BY <1>2, <1>3, <2>1, SignShows
<1>6. QED
  BY <1>4, <1>5

\* However often a row showed what a late poll or a reused id left there: the
\* next answer or heartbeat that is stored puts row and card right, unless an
\* entry that an emptied address left behind has to do with the row.
THEOREM SignsHeal ==
  Spec => AnswersShow
<1> DEFINE Healed ==
      \A i \in Ids, u \in Urls, connected \in BOOLEAN :
         /\ url[i] = u /\ entries[u] # None /\ ~Mixed(i)
         /\ (u \in todo /\ PollAnswers(u, connected)) \/ Heartbeat(u, connected)
         /\ UNCHANGED faults
         => ShowsItsAgent(i)'
<1>1. TypeInv /\ RowInv => Healed
  <2> SUFFICES ASSUME TypeInv, RowInv, NEW i \in Ids, NEW u \in Urls, NEW connected \in BOOLEAN,
                      url[i] = u, entries[u] # None, ~Mixed(i), UNCHANGED faults,
                      PollAnswers(u, connected) \/ Heartbeat(u, connected)
               PROVE  ShowsItsAgent(i)'
    OBVIOUS
  <2>1. u \in AnyUrl /\ Exists(i)
    BY ConstantFacts DEF Exists, AnyUrl
  <2>2. QED
    BY <2>1, AnswerShows, HeartbeatShows
<1>2. Spec => [](TypeInv /\ RowInv)
  BY TypeInit, TypeStep, RowInit, RowStep, PTL DEF Spec
<1>3. TypeInv /\ RowInv /\ [Next]_vars => [Healed]_vars
  BY <1>1
<1>4. QED
  BY <1>2, <1>3, PTL DEF Spec, AnswersShow

\* A failed poll that is stored, if there is anything to store, spares every
\* row and card that are right.
LEMMA StoredFailure ==
  ASSUME TypeInv, RowInv, NEW u \in AnyUrl, u \in todo, entries[u] # None, PollFails(u),
         UNCHANGED faults, NEW i \in Ids, Exists(i), ~Mixed(i), ShowsItsAgent(i)
  PROVE  ShowsItsAgent(i)'
<1>1. PICK k \in Ids : k = entries[u].id
  BY EntryIsOfRow
<1> DEFINE missed == Missed(entries[u].missed)
<1>2. /\ entries'[u] # None
      /\ entries'[u].live = IF missed >= OfflineThreshold THEN "down" ELSE entries[u].live
      /\ \A w \in AnyUrl : w # u => entries'[w] = entries[w]
  BY FailedTyped, FailureIsLive DEF TypeInv
<1>3. UNCHANGED url /\ Quietly(k, u, missed)
  BY <1>1 DEF PollFails
<1> HIDE DEF missed
<1>4. /\ faults \in Int /\ shown \in [Ids -> {"online", "offline"}]
      /\ shownBy \in [Ids -> AnyUrl \cup {None}] /\ url[i] \in AnyUrl
  BY ConstantFacts, Typed DEF TypeInv, TypeOK, Exists
<1>5. \/ UNCHANGED <<shown, shownBy>>
      \/ shown' = [shown EXCEPT ![k] = "offline"] /\ shownBy' = [shownBy EXCEPT ![k] = u]
  BY <1>3, <1>4 DEF Quietly, Persist
<1>6. CASE Left(u) \/ i # k
  <2>1. url[i] # u /\ k # i
    BY <1>1, <1>6, LeftSpares, EntryIsOfRow
  <2>2. QED
    BY <1>2, <1>3, <1>5, <2>1, Spared
<1>7. CASE ~Left(u) /\ i = k
  <2>1. url[i] = u
    BY <1>1, <1>7, EntryIsOfRow
  <2>2. CASE missed >= OfflineThreshold
    <3>1. /\ shown' = [shown EXCEPT ![k] = "offline"]
          /\ shownBy' = [shownBy EXCEPT ![k] = u]
      BY <1>3, <1>4, <1>7, <2>2 DEF Quietly, Persist
    <3>2. QED
      BY <1>2, <1>3, <1>4, <1>7, <2>1, <2>2, <3>1 DEF ShowsItsAgent
  <2>3. CASE ~(missed >= OfflineThreshold)
    <3>1. UNCHANGED <<url, shown, shownBy>> /\ entries'[u].live = entries[u].live
      BY <1>2, <1>3, <2>3 DEF Quietly
    <3>2. QED
      BY <1>2, <2>1, <3>1 DEF ShowsItsAgent
  <2>4. QED
    BY <2>2, <2>3
<1>8. QED
  BY <1>6, <1>7

\* A new row takes nothing from the others.
LEMMA NewRowShows ==
  ASSUME TypeInv, NEW r \in regs, RegisterNew(r),
         NEW i \in Ids, Exists(i), ShowsItsAgent(i)
  PROVE  ShowsItsAgent(i)'
<1>1. i # NewId
  BY NewIdFacts
<1>2. /\ url' = [url EXCEPT ![NewId] = r.url]
      /\ shown' = [shown EXCEPT ![NewId] = "offline"]
      /\ shownBy' = [shownBy EXCEPT ![NewId] = None]
      /\ entries' = Added(entries, NewId, r.url)
  BY DEF RegisterNew
<1>3. url'[i] = url[i] /\ shown'[i] = shown[i] /\ shownBy'[i] = shownBy[i]
  BY <1>1, <1>2 DEF TypeInv, TypeOK
<1>4. url[i] \in AnyUrl /\ entries[url[i]] # None
  BY Typed DEF TypeInv, Exists, ShowsItsAgent
<1>5. entries'[url[i]] = entries[url[i]]
  BY <1>2, <1>4 DEF Added, TypeInv, TypeOK
<1>6. QED
  BY <1>3, <1>4, <1>5 DEF ShowsItsAgent

\* A row and a card that agree keep agreeing with each other and with their
\* agent through answers, failures, heartbeats and registrations, whatever
\* their order, if no entry left behind has to do with the row.
THEOREM HealedLasts ==
  Spec => ShownStays
<1> DEFINE Stays ==
      \A i \in Ids :
         Exists(i) /\ Exists(i)' /\ ~Mixed(i) /\ ShowsItsAgent(i) /\ ~ShowsItsAgent(i)'
             => stale' # stale \/ ops' # ops \/ faults' # faults
<1>1. TypeInv /\ RowInv /\ Next => Stays
  <2> SUFFICES ASSUME TypeInv, RowInv, Next, UNCHANGED <<stale, ops, faults>>,
                      NEW i \in Ids, Exists(i), ~Mixed(i), ShowsItsAgent(i)
               PROVE  ShowsItsAgent(i)'
    OBVIOUS
  <2>1. CASE UNCHANGED <<url, shown, shownBy, entries>>
    BY <2>1 DEF ShowsItsAgent
  <2>2. ASSUME NEW r \in regs, RegisterNew(r) PROVE ShowsItsAgent(i)'
    BY <2>2, NewRowShows
  <2>3. ASSUME NEW u \in Urls, NEW connected \in BOOLEAN, Heartbeat(u, connected)
        PROVE  ShowsItsAgent(i)'
    BY <2>3, HeartbeatShows
  <2>4. ASSUME NEW u \in todo, PollReturns(u) PROVE ShowsItsAgent(i)'
    <3>1. u \in AnyUrl /\ entries[u] # None
      BY DEF TypeInv, TypeOK
    <3>2. QED
      BY <2>4, <3>1, AnswerShows, StoredFailure DEF PollReturns
  <2>5. ASSUME Operation PROVE FALSE
    BY <2>5, ConstantFacts DEF Operation, TypeInv, TypeOK
  <2>6. ASSUME NEW p \in stale, StaleReturns(p) PROVE FALSE
    BY <2>6 DEF StaleReturns, StaleAnswers, StaleFails
  <2>7. CASE Requests
    BY <2>1, <2>2, <2>3, <2>5, <2>7
       DEF Requests, RegisterStarts, RegisterAgain, RegisterRefused, DeletePrinter,
           DeleteFails, UpdatePrinter, rows, memory
  <2>8. CASE PollLoop
    BY <2>1, <2>4, <2>6, <2>8 DEF PollLoop, StartRound, rows
  <2>9. QED
    BY <2>5, <2>7, <2>8 DEF Next, Restart
<1>2. Spec => [](TypeInv /\ RowInv)
  BY TypeInit, TypeStep, RowInit, RowStep, PTL DEF Spec
<1>3. TypeInv /\ RowInv /\ [Next]_vars => [Stays]_vars
  BY <1>1
<1>4. QED
  BY <1>2, <1>3, PTL DEF Spec, ShownStays
=============================================================================
