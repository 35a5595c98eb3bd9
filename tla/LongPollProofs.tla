--------------------------- MODULE LongPollProofs ---------------------------
(***************************************************************************)
(* Proofs about LongPoll, for any number of polls, POSTs, connections and  *)
(* rounds.                                                                 *)
(***************************************************************************)
EXTENDS LongPoll, FiniteSetTheorems, TLAPS

\* The connections in use can be counted.
TypeInv == TypeOK /\ IsFiniteSet(held)

\* Taking a connection when there is one stays within the pool.
LEMMA TakeOne ==
  ASSUME NEW x, IsFiniteSet(held), Cardinality(held) <= PoolSize, HasConnection(x)
  PROVE  IsFiniteSet(held \cup {x}) /\ Cardinality(held \cup {x}) <= PoolSize
<1>1. Cardinality(held) \in Nat
  BY FS_CardinalityType
<1>2. CASE x \in held
  <2>1. held \cup {x} = held
    BY <1>2
  <2>2. QED
    BY <2>1
<1>3. CASE x \notin held
  <2>1. Cardinality(held \cup {x}) = Cardinality(held) + 1
    BY <1>3, FS_AddElement
  <2>2. Cardinality(held) < PoolSize
    BY <1>3 DEF HasConnection
  <2>3. QED
    BY <1>1, <2>1, <2>2, FS_AddElement, BoundAssumption
<1>4. QED
  BY <1>2, <1>3

\* Giving one back does, too.
LEMMA GiveBack ==
  ASSUME NEW x, IsFiniteSet(held), Cardinality(held) <= PoolSize
  PROVE  IsFiniteSet(held \ {x}) /\ Cardinality(held \ {x}) <= PoolSize
<1>1. Cardinality(held) \in Nat
  BY FS_CardinalityType
<1>2. QED
  BY <1>1, FS_RemoveElement, BoundAssumption

LEMMA TypeInit == Init => TypeInv
<1> SUFFICES ASSUME Init PROVE TypeInv
  OBVIOUS
<1>1. PoolSize \in Nat /\ 0 \in 0 .. Rounds - 1
  BY BoundAssumption
<1>2. IsFiniteSet(held) /\ Cardinality(held) <= PoolSize
  BY <1>1, FS_EmptySet DEF Init
<1>3. TypeOK
  BY <1>1, <1>2, NobodyAssumption DEF Init, TypeOK, Stages, PostStages
<1>4. QED
  BY <1>2, <1>3 DEF TypeInv

LEMMA TypeStep == TypeInv /\ [Next]_vars => TypeInv'
<1> SUFFICES ASSUME TypeInv, [Next]_vars PROVE TypeInv'
  OBVIOUS
<1> USE NobodyAssumption, KindsAssumption, BoundAssumption
    DEF TypeInv, TypeOK, Stages, PostStages, polls, posts, table, GoesTo, Reaches, Turn
<1>1. ASSUME NEW p \in Polls, Arrive(p) PROVE TypeInv'
  BY <1>1 DEF Arrive
<1>2. ASSUME NEW p \in Polls, Query(p) \/ Unblock(p) PROVE TypeInv'
  <2>1. HasConnection(p) /\ Answer(p) /\ stage[p] \in {"asking", "blocked"}
    BY <1>2 DEF Query, Unblock
  <2>2. IsFiniteSet(held)' /\ (Cardinality(held) <= PoolSize)'
    BY <2>1, TakeOne DEF Answer
  <2>3. QED
    BY <2>1, <2>2 DEF Answer
<1>3. ASSUME NEW p \in Polls, Block(p) PROVE TypeInv'
  BY <1>3 DEF Block
<1>4. ASSUME NEW p \in Polls, PoolTimesOut(p) PROVE TypeInv'
  BY <1>4 DEF PoolTimesOut
<1>5. ASSUME NEW p \in Polls, Clear(p) PROVE TypeInv'
  BY <1>5 DEF Clear
<1>6. ASSUME NEW p \in Polls, Check(p) PROVE TypeInv'
  BY <1>6 DEF Check, NextRound
<1>7. ASSUME NEW p \in Polls, Sleep(p) PROVE TypeInv'
  BY <1>7 DEF Sleep, WaitersChange
<1>8. ASSUME NEW p \in Polls, Wake(p) PROVE TypeInv'
  BY <1>8 DEF Wake, WaitersChange, NextRound
<1>9. ASSUME NEW p \in Polls, Close(p) PROVE TypeInv'
  <2>1. IsFiniteSet(held)' /\ (Cardinality(held) <= PoolSize)'
    BY <1>9, GiveBack DEF Close, Closed
  <2>2. QED
    BY <1>9, <2>1 DEF Close, Closed
<1>10. ASSUME NEW j \in Jobs, Take(j) PROVE TypeInv'
  <2>1. IsFiniteSet(held)' /\ (Cardinality(held) <= PoolSize)'
    BY <1>10, TakeOne DEF Take
  <2>2. QED
    BY <1>10, <2>1 DEF Take
<1>11. ASSUME NEW j \in Jobs, Commit(j) PROVE TypeInv'
  <2>1. IsFiniteSet(held)' /\ (Cardinality(held) <= PoolSize)'
    BY <1>11, GiveBack DEF Commit
  <2>2. QED
    BY <1>11, <2>1 DEF Commit
<1>12. ASSUME NEW j \in Jobs, Notify(j) PROVE TypeInv'
  BY <1>12 DEF Notify
<1>13. ASSUME NEW j \in Jobs, WakeAll(j) PROVE TypeInv'
  BY <1>13 DEF WakeAll, Waiters
<1>14. ASSUME NEW j \in Jobs, EndPost(j) PROVE TypeInv'
  <2>1. IsFiniteSet(held)' /\ (Cardinality(held) <= PoolSize)'
    BY <1>14, GiveBack DEF EndPost, Closed
  <2>2. QED
    BY <1>14, <2>1 DEF EndPost, Closed
<1>15. ASSUME NEW j \in Jobs, Claim(j) PROVE TypeInv'
  BY <1>15 DEF Claim
<1>16. CASE UNCHANGED vars
  BY <1>16 DEF vars
<1>17. QED
  BY <1>1, <1>2, <1>3, <1>4, <1>5, <1>6, <1>7, <1>8, <1>9, <1>10, <1>11, <1>12, <1>13,
     <1>14, <1>15, <1>16 DEF Next, OnLoop, InThread

\* Whatever the interleaving of loop and threads, the pool is never overdrawn,
\* nobody holds a connection that it has given back, and only one poll has
\* the loop.
THEOREM TypeCorrect == Spec => []TypeOK
<1>1. Spec => []TypeInv
  BY TypeInit, TypeStep, PTL DEF Spec
<1>2. TypeInv => TypeOK
  BY DEF TypeInv
<1>3. QED
  BY <1>1, <1>2, PTL
-----------------------------------------------------------------------------
\* A poll that has asked in vain and does not wait yet.
InGap(p) == stage[p] \in {"nojob", "cleared", "unset"}

Notifying == \E k \in Jobs : post[k] = "waking"

\* What was notified while a poll was in the gap, it has missed.
GapIsMissed ==
    \A p \in Polls, j \in rows :
        InGap(p) /\ post[j] \in {"waking", "ok"} => p \in missed

\* A poll goes to sleep with the event set, or sleeps on while it is set, only
\* if it missed it or somebody is going through the waiters.
SetIsMissed ==
    \A p \in Polls :
        /\ stage[p] = "unset" /\ event => p \in missed
        /\ Asleep(p) /\ event => p \in missed \/ Notifying

SleepInv == SleepsOnlyIfMissed /\ GapIsMissed /\ SetIsMissed

LEMMA SleepInit == Init => SleepInv
  BY DEF Init, SleepInv, SleepsOnlyIfMissed, GapIsMissed, SetIsMissed, Asleep

LEMMA SleepStep == TypeInv /\ SleepInv /\ [Next]_vars => SleepInv'
<1> SUFFICES ASSUME TypeInv, SleepInv, [Next]_vars PROVE SleepInv'
  OBVIOUS
<1> USE DEF SleepInv, SleepsOnlyIfMissed, GapIsMissed, SetIsMissed, Asleep, InGap, Notifying,
            polls, posts, table, GoesTo, Reaches
<1>0. /\ stage \in [Polls -> Stages] /\ post \in [Jobs -> PostStages]
      /\ rows \subseteq Jobs /\ missed \subseteq Polls
  BY DEF TypeInv, TypeOK
<1>1. ASSUME NEW p \in Polls, Arrive(p) PROVE SleepInv'
  BY <1>0, <1>1 DEF Arrive
<1>2. ASSUME NEW p \in Polls, Query(p) \/ Unblock(p) PROVE SleepInv'
  <2>1. Answer(p)
    BY <1>2 DEF Query, Unblock
  <2>2. QED
    BY <1>0, <2>1 DEF Answer
<1>3. ASSUME NEW p \in Polls, Block(p) \/ PoolTimesOut(p) PROVE SleepInv'
  BY <1>0, <1>3 DEF Block, PoolTimesOut
<1>4. ASSUME NEW p \in Polls, Clear(p) PROVE SleepInv'
  BY <1>0, <1>4 DEF Clear
<1>5. ASSUME NEW p \in Polls, Check(p) PROVE SleepInv'
  BY <1>0, <1>5 DEF Check, NextRound
<1>6. ASSUME NEW p \in Polls, Sleep(p) PROVE SleepInv'
  BY <1>0, <1>6 DEF Sleep
<1>7. ASSUME NEW p \in Polls, Wake(p) PROVE SleepInv'
  BY <1>0, <1>7 DEF Wake, NextRound
<1>8. ASSUME NEW p \in Polls, Close(p) PROVE SleepInv'
  BY <1>0, <1>8 DEF Close
<1>9. ASSUME NEW j \in Jobs, Take(j) \/ Commit(j) \/ EndPost(j) PROVE SleepInv'
  BY <1>0, <1>9 DEF Take, Commit, EndPost
<1>10. ASSUME NEW j \in Jobs, Notify(j) PROVE SleepInv'
  BY <1>0, <1>10 DEF Notify
<1>11. ASSUME NEW j \in Jobs, WakeAll(j) PROVE SleepInv'
  BY <1>0, <1>11 DEF WakeAll, Waiters
<1>12. ASSUME NEW j \in Jobs, Claim(j) PROVE SleepInv'
  BY <1>0, <1>12 DEF Claim
<1>13. CASE UNCHANGED vars
  BY <1>13 DEF vars
<1>14. QED
  BY <1>1, <1>2, <1>3, <1>4, <1>5, <1>6, <1>7, <1>8, <1>9, <1>10, <1>11, <1>12, <1>13
     DEF Next, OnLoop, InThread

\* However many polls and POSTs share the event: a poll sleeps through a job
\* only if it was in the gap between its query and its wait, or if another
\* notification stuck among the waiters.
THEOREM SleepersMissed == Spec => []SleepsOnlyIfMissed
<1>1. Spec => []TypeInv
  BY TypeInit, TypeStep, PTL DEF Spec
<1>2. Spec => []SleepInv
  BY <1>1, SleepInit, SleepStep, PTL DEF Spec
<1>3. SleepInv => SleepsOnlyIfMissed
  BY DEF SleepInv
<1>4. QED
  BY <1>2, <1>3, PTL
=============================================================================
