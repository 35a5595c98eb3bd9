------------------------ MODULE StatusSocketsProofs ------------------------
(***************************************************************************)
(* Proofs about StatusSockets, for any finite set of connections.          *)
(***************************************************************************)
EXTENDS StatusSockets, TLAPS, WellFoundedInduction, FiniteSetTheorems

(***************************************************************************)
(* What a broadcast leaves of the list.  The list is shortened position by *)
(* position, so this takes an induction over the positions, here in the    *)
(* form of a least position at which it goes wrong.                        *)
(***************************************************************************)

Less == {p \in Nat \X Nat : p[1] < p[2]}

LEMMA Least ==
  ASSUME NEW T, T \subseteq Nat, T # {}
  PROVE  \E n \in T : \A k \in T : n <= k
<1>1. OpToRel(<, Nat) = Less
  BY DEF OpToRel, Less
<1>2. IsWellFoundedOn(Less, Nat)
  BY <1>1, NatLessThanWellFounded, Zenon
<1>3. PICK n \in T : \A k \in T : ~(<<k, n>> \in Less)
  BY <1>2, WFMin, Zenon
<1>4. \A k \in T : ~(k < n)
  BY <1>3 DEF Less
<1>5. QED
  BY <1>4

\* What is left up to position n, if f holds that for the positions before it.
Left(D, f, n) ==
    IF n = 0 THEN <<>>
    ELSE IF connections[n] \in D THEN f[n - 1] ELSE Append(f[n - 1], connections[n])

HoldsLeft(D, f, m) == f = [n \in 0 .. m |-> Left(D, f, n)]

LEMMA LeftExists ==
  ASSUME NEW D, NEW m \in Nat
  PROVE  \E f : HoldsLeft(D, f, m)
<1> DEFINE T == {n \in Nat : ~\E f : HoldsLeft(D, f, n)}
<1>1. SUFFICES ASSUME m \in T PROVE FALSE
  OBVIOUS
<1>2. PICK n \in T : \A k \in T : n <= k
  BY <1>1, Least
<1>3. CASE n = 0
  <2>1. HoldsLeft(D, [i \in 0 .. 0 |-> <<>>], 0)
    BY DEF HoldsLeft, Left
  <2>2. QED
    BY <1>2, <1>3, <2>1
<1>4. CASE n # 0
  <2>1. n \in Nat /\ n - 1 \in Nat /\ n - 1 \notin T
    BY <1>2, <1>4
  <2>2. PICK f : HoldsLeft(D, f, n - 1)
    BY <2>1
  <2> DEFINE g == [i \in 0 .. n |-> IF i = n THEN Left(D, f, n) ELSE f[i]]
  <2>3. f = [i \in 0 .. n - 1 |-> Left(D, f, i)]
    BY <2>2 DEF HoldsLeft
  <2>4. \A i \in 0 .. n : g[i] = Left(D, f, i)
    BY <2>1, <2>3
  <2>5. \A i \in 0 .. n : Left(D, f, i) = Left(D, g, i)
    BY <1>4, <2>1 DEF Left
  <2>6. HoldsLeft(D, g, n)
    BY <2>4, <2>5 DEF HoldsLeft
  <2>7. QED
    BY <1>2, <2>6
<1>5. QED
  BY <1>3, <1>4

\* c is what is left of the first n connections: who is not in D, once, and
\* nobody further back than before.
IsLeft(D, c, n) ==
    /\ c \in Seq(Sockets) /\ IsInjective(c)
    /\ \A i \in 1 .. Len(c) :
          \E k \in i .. n : c[i] = connections[k] /\ connections[k] \notin D
    /\ \A k \in 1 .. n : connections[k] \notin D => Contains(c, connections[k])

LEMMA LeftIsLeft ==
  ASSUME connections \in Seq(Sockets), IsInjective(connections), NEW D, NEW f,
         HoldsLeft(D, f, Len(connections))
  PROVE  IsLeft(D, f[Len(connections)], Len(connections))
<1> DEFINE T == {n \in 0 .. Len(connections) : ~IsLeft(D, f[n], n)}
<1>1. /\ Len(connections) \in Nat
      /\ \A k \in 1 .. Len(connections) : connections[k] \in Sockets
      /\ \A k, m \in 1 .. Len(connections) : connections[k] = connections[m] => k = m
  BY DEF IsInjective
<1>2. \A n \in 0 .. Len(connections) : f[n] = Left(D, f, n)
  BY <1>1 DEF HoldsLeft
<1>3. SUFFICES ASSUME Len(connections) \in T PROVE FALSE
  BY <1>1
<1>4. PICK n \in T : \A k \in T : n <= k
  <2>1. T \subseteq Nat /\ T # {}
    BY <1>1, <1>3
  <2> HIDE DEF T
  <2>2. QED
    BY <2>1, Least
<1>5. CASE n = 0
  <2>1. f[0] = <<>>
    BY <1>1, <1>2 DEF Left
  <2>2. IsLeft(D, <<>>, 0)
    BY DEF IsLeft, IsInjective
  <2>3. QED
    BY <1>4, <1>5, <2>1, <2>2
<1>6. CASE n # 0
  <2> DEFINE c == f[n - 1]
  <2>1. /\ n \in 1 .. Len(connections) /\ n - 1 \in 0 .. Len(connections)
        /\ n - 1 \notin T
    BY <1>1, <1>4, <1>6
  <2>2. IsLeft(D, c, n - 1)
    BY <2>1
  <2> HIDE DEF c
  <2>3. c \in Seq(Sockets) /\ Len(c) \in Nat
    BY <2>2 DEF IsLeft
  <2>4. CASE connections[n] \in D
    <3>1. f[n] = c
      BY <1>2, <1>6, <2>1, <2>4 DEF Left, c
    <3>2. \A i \in 1 .. Len(c) :
            \E k \in i .. n : c[i] = connections[k] /\ connections[k] \notin D
      BY <1>1, <2>1, <2>2 DEF IsLeft
    <3>3. \A k \in 1 .. n : connections[k] \notin D => Contains(c, connections[k])
      BY <2>1, <2>2, <2>4 DEF IsLeft
    <3>4. IsLeft(D, f[n], n)
      BY <2>2, <3>1, <3>2, <3>3 DEF IsLeft
    <3>5. QED
      BY <1>4, <3>4
  <2>5. CASE connections[n] \notin D
    <3> DEFINE e == Append(c, connections[n])
    <3>1. f[n] = e
      BY <1>2, <1>6, <2>1, <2>5 DEF Left, c
    <3>2. /\ e \in Seq(Sockets) /\ Len(e) = Len(c) + 1
          /\ e[Len(c) + 1] = connections[n]
          /\ \A i \in 1 .. Len(c) : e[i] = c[i]
      BY <1>1, <2>1, <2>3
    <3> HIDE DEF e
    <3>3. \A i \in 1 .. Len(c) :
            \E k \in i .. n - 1 : c[i] = connections[k] /\ connections[k] \notin D
      BY <2>2 DEF IsLeft
    <3>4. Len(c) + 1 <= n
      <4>1. CASE Len(c) = 0
        BY <2>1, <4>1
      <4>2. CASE Len(c) # 0
        <5>1. PICK k \in Len(c) .. n - 1 : TRUE
          BY <2>3, <3>3, <4>2
        <5>2. QED
          BY <2>1, <2>3, <5>1
      <4>3. QED
        BY <4>1, <4>2
    <3>5. \A i \in 1 .. Len(e) :
            \E k \in i .. n : e[i] = connections[k] /\ connections[k] \notin D
      <4>1. ASSUME NEW i \in 1 .. Len(c)
            PROVE  \E k \in i .. n : e[i] = connections[k] /\ connections[k] \notin D
        BY <2>1, <2>3, <3>2, <3>3
      <4>2. \E k \in Len(c) + 1 .. n :
              e[Len(c) + 1] = connections[k] /\ connections[k] \notin D
        BY <2>1, <2>3, <2>5, <3>2, <3>4
      <4>3. QED
        BY <2>3, <3>2, <4>1, <4>2
    <3>6. \A i \in 1 .. Len(c) : c[i] # connections[n]
      BY <1>1, <2>1, <2>3, <3>3
    <3>7. IsInjective(e)
      <4>1. \A i, k \in 1 .. Len(c) : c[i] = c[k] => i = k
        BY <2>2, <2>3 DEF IsLeft, IsInjective
      <4>2. DOMAIN e = 1 .. Len(c) + 1
        BY <3>2
      <4>3. \A i, k \in 1 .. Len(c) + 1 : e[i] = e[k] => i = k
        BY <2>3, <3>2, <3>6, <4>1
      <4>4. QED
        BY <4>2, <4>3 DEF IsInjective
    <3>8. \A k \in 1 .. n : connections[k] \notin D => Contains(e, connections[k])
      <4>1. ASSUME NEW k \in 1 .. n - 1, connections[k] \notin D
            PROVE  Contains(e, connections[k])
        <5>1. PICK i \in 1 .. Len(c) : c[i] = connections[k]
          BY <2>2, <4>1 DEF IsLeft, Contains
        <5>2. QED
          BY <2>3, <3>2, <5>1 DEF Contains
      <4>2. Contains(e, connections[n])
        BY <2>3, <3>2 DEF Contains
      <4>3. QED
        BY <2>1, <4>1, <4>2
    <3>9. IsLeft(D, f[n], n)
      BY <3>1, <3>2, <3>5, <3>7, <3>8 DEF IsLeft
    <3>10. QED
      BY <1>4, <3>9
  <2>6. QED
    BY <2>4, <2>5
<1>7. QED
  BY <1>5, <1>6

\* The list without D is what is left of the list.
LEMMA WithoutIsLeft ==
  ASSUME connections \in Seq(Sockets), IsInjective(connections), NEW D
  PROVE  IsLeft(D, Without(D), Len(connections))
<1>1. Len(connections) \in Nat
  OBVIOUS
<1>2. Without(D) = (CHOOSE f : HoldsLeft(D, f, Len(connections)))[Len(connections)]
  BY DEF Without, HoldsLeft, Left
<1>3. HoldsLeft(D, CHOOSE f : HoldsLeft(D, f, Len(connections)), Len(connections))
  BY <1>1, LeftExists
<1>4. QED
  BY <1>2, <1>3, LeftIsLeft
-----------------------------------------------------------------------------
(***************************************************************************)
(* The invariant.  A broadcast that has reached a position has met nobody  *)
(* who stands behind it: what is taken out moves the rest of the list only *)
(* to the front, and who joins has not been met by anybody.                *)
(***************************************************************************)

\* d has met nobody from position i on.
HasNotMet(d, i) == \A k \in i .. Len(connections) : ~Contains(d, connections[k])

\* What a broadcast has found dead left before, and is not met again.
Found(d) == \A t \in Sockets : Contains(d, t) => at[t] # "new" /\ t \notin open

Broadcasts ==
    \A s \in Sockets :
        /\ Found(dead[s])
        /\ at[s] = "sending" =>
              /\ at[target[s]] # "new"
              /\ ~Contains(dead[s], target[s])
              /\ HasNotMet(Append(dead[s], target[s]), next[s])

Listing == \A t \in Sockets : Contains(connections, t) => at[t] # "new"

SocketInv == TypeOK /\ Listing /\ Broadcasts /\ ListenersAreListed

\* The end of a sequence, and what stands before it.
LEMMA Appended ==
  ASSUME NEW S, NEW d \in Seq(S), NEW e \in S
  PROVE  /\ Append(d, e) \in Seq(S) /\ Len(Append(d, e)) = Len(d) + 1
         /\ \A t : Contains(Append(d, e), t) <=> Contains(d, t) \/ t = e
         /\ IsInjective(d) /\ ~Contains(d, e) => IsInjective(Append(d, e))
<1> DEFINE c == Append(d, e)
<1>1. /\ c \in Seq(S) /\ Len(c) = Len(d) + 1 /\ Len(d) \in Nat
      /\ c[Len(d) + 1] = e /\ \A i \in 1 .. Len(d) : c[i] = d[i]
  OBVIOUS
<1> HIDE DEF c
<1>2. ASSUME NEW t PROVE Contains(c, t) <=> Contains(d, t) \/ t = e
  BY <1>1 DEF Contains
<1>3. ASSUME IsInjective(d), ~Contains(d, e) PROVE IsInjective(c)
  <2>1. \A i, k \in 1 .. Len(d) + 1 : c[i] = c[k] => i = k
    BY <1>1, <1>3 DEF IsInjective, Contains
  <2>2. DOMAIN c = 1 .. Len(d) + 1
    BY <1>1
  <2>3. QED
    BY <2>1, <2>2 DEF IsInjective
<1>4. QED
  BY <1>1, <1>2, <1>3 DEF c

\* A list of connections is no longer than there are connections.
LEMMA ListFits ==
  ASSUME TypeOK
  PROVE  /\ Len(connections) \in Nat /\ Cardinality(Sockets) \in Nat
         /\ Len(connections) <= Cardinality(Sockets)
<1>1. Len(connections) \in Nat /\ connections \in [1 .. Len(connections) -> Sockets]
  BY DEF TypeOK
<1>2. connections \in Injection(1 .. Len(connections), Sockets)
  BY <1>1 DEF TypeOK, Injection
<1>3. Cardinality(1 .. Len(connections)) <= Cardinality(Sockets)
  BY <1>2, FS_Injection, SocketsAssumption
<1>4. Cardinality(1 .. Len(connections)) = Len(connections)
  BY <1>1, FS_Interval
<1>5. QED
  BY <1>1, <1>3, <1>4, FS_CardinalityType, SocketsAssumption

\* The start: nobody is connected.
LEMMA SocketInit == Init => SocketInv
<1>1. Cardinality(Sockets) \in Nat
  BY FS_CardinalityType, SocketsAssumption
<1>2. \A t : ~Contains(<<>>, t)
  BY DEF Contains
<1>3. QED
  BY <1>1, <1>2 DEF Init, SocketInv, TypeOK, IsInjective, Listing, Broadcasts, Found,
     ListenersAreListed

LEMMA ConnectKeeps ==
  ASSUME SocketInv, NEW s \in Sockets, Connect(s)
  PROVE  SocketInv'
<1>1. /\ TypeOK /\ connections \in Seq(Sockets) /\ at[s] = "new"
      /\ at' = [at EXCEPT ![s] = "idle"]
      /\ connections' = Append(connections, s) /\ open' = open \cup {s}
      /\ target' = target /\ next' = next /\ dead' = dead
  BY DEF SocketInv, TypeOK, Connect, Goes, broadcasts
<1>2. ~Contains(connections, s)
  BY <1>1 DEF SocketInv, Listing
<1>3. /\ connections' \in Seq(Sockets) /\ IsInjective(connections')
      /\ Len(connections') = Len(connections) + 1
      /\ \A t : Contains(connections', t) <=> Contains(connections, t) \/ t = s
  BY <1>1, <1>2, Appended DEF TypeOK
<1>4. TypeOK'
  BY <1>1, <1>3 DEF TypeOK
<1>5. Listing' /\ ListenersAreListed'
  BY <1>1, <1>3, <1>4 DEF SocketInv, Listing, ListenersAreListed, TypeOK
<1>6. ASSUME NEW r \in Sockets
      PROVE  /\ Found(dead[r])'
             /\ (at[r] = "sending" =>
                    /\ at[target[r]] # "new"
                    /\ ~Contains(dead[r], target[r])
                    /\ HasNotMet(Append(dead[r], target[r]), next[r]))'
  <2>1. Found(dead[r]) /\ ~Contains(dead[r], s)
    BY <1>1 DEF SocketInv, Broadcasts, Found
  <2>2. Found(dead[r])'
    BY <1>1, <2>1 DEF Found, TypeOK
  <2>3. ASSUME at'[r] = "sending"
        PROVE  /\ at'[target[r]] # "new" /\ ~Contains(dead[r], target[r])
               /\ HasNotMet(Append(dead[r], target[r]), next[r])'
    <3>1. /\ at[r] = "sending" /\ at[target[r]] # "new" /\ ~Contains(dead[r], target[r])
          /\ HasNotMet(Append(dead[r], target[r]), next[r])
          /\ dead[r] \in Seq(Sockets) /\ target[r] \in Sockets /\ next[r] \in Nat
      BY <1>1, <2>3, ListFits DEF TypeOK, SocketInv, Broadcasts
    <3>2. at'[target[r]] # "new"
      BY <1>1, <3>1 DEF TypeOK
    <3>3. ~Contains(Append(dead[r], target[r]), s)
      BY <1>1, <2>1, <3>1, Appended
    <3>4. /\ Len(connections) \in Nat /\ connections'[Len(connections) + 1] = s
          /\ \A k \in 1 .. Len(connections) : connections'[k] = connections[k]
      BY <1>1
    <3>5. next[r] >= 1
      BY <1>1 DEF TypeOK
    <3>6. \A k \in next[r] .. Len(connections') :
            ~Contains(Append(dead[r], target[r]), connections'[k])
      BY <1>3, <3>1, <3>3, <3>4, <3>5 DEF HasNotMet
    <3>7. QED
      BY <1>1, <3>1, <3>2, <3>6 DEF HasNotMet
  <2>4. QED
    BY <1>1, <2>2, <2>3
<1>7. QED
  BY <1>4, <1>5, <1>6 DEF SocketInv, Broadcasts

\* A broadcast that goes on to position i, and has found d dead by then.
GoingOn(s, i, d) ==
    /\ at[s] \in {"idle", "sending"}
    /\ i \in 1 .. Cardinality(Sockets) + 1
    /\ d \in Seq(Sockets) /\ IsInjective(d)
    /\ Found(d) /\ HasNotMet(d, i)

LEMMA BeginGoesOn ==
  ASSUME SocketInv, NEW s \in Sockets, Begin(s)
  PROVE  GoingOn(s, 1, <<>>)
<1>1. \A t : ~Contains(<<>>, t)
  BY DEF Contains
<1>2. at[s] = "idle" /\ TypeOK
  BY DEF Begin, SocketInv
<1>3. 1 \in 1 .. Cardinality(Sockets) + 1
  BY <1>2, ListFits
<1>4. QED
  BY <1>1, <1>2, <1>3 DEF GoingOn, Found, HasNotMet, IsInjective

LEMMA SentGoesOn ==
  ASSUME SocketInv, NEW s \in Sockets, at[s] = "sending"
  PROVE  GoingOn(s, next[s], IF target[s] \in open THEN dead[s] ELSE Append(dead[s], target[s]))
<1>1. /\ dead[s] \in Seq(Sockets) /\ IsInjective(dead[s]) /\ target[s] \in Sockets
      /\ next[s] \in 1 .. Cardinality(Sockets) + 1
  BY DEF SocketInv, TypeOK
<1>2. /\ Found(dead[s]) /\ at[target[s]] # "new" /\ ~Contains(dead[s], target[s])
      /\ HasNotMet(Append(dead[s], target[s]), next[s])
  BY DEF SocketInv, Broadcasts
<1>3. /\ Append(dead[s], target[s]) \in Seq(Sockets)
      /\ IsInjective(Append(dead[s], target[s]))
      /\ \A t : Contains(Append(dead[s], target[s]), t) <=> Contains(dead[s], t) \/ t = target[s]
  BY <1>1, <1>2, Appended
<1>4. HasNotMet(dead[s], next[s])
  BY <1>2, <1>3 DEF HasNotMet
<1>5. target[s] \notin open => Found(Append(dead[s], target[s]))
  BY <1>2, <1>3 DEF Found
<1>6. QED
  BY <1>1, <1>2, <1>3, <1>4, <1>5 DEF GoingOn

LEMMA TurnsKeeps ==
  ASSUME SocketInv, NEW s \in Sockets, NEW i, NEW d, GoingOn(s, i, d), Turns(s, i, d)
  PROVE  SocketInv'
<1> DEFINE t == connections[i]
<1>1. /\ TypeOK /\ connections' = connections /\ open' = open
      /\ at' = [at EXCEPT ![s] = "sending"] /\ target' = [target EXCEPT ![s] = t]
      /\ next' = [next EXCEPT ![s] = i + 1] /\ dead' = [dead EXCEPT ![s] = d]
      /\ i <= Len(connections)
  BY DEF SocketInv, Turns, Goes, Further
<1>2. /\ at[s] \in {"idle", "sending"} /\ i \in 1 .. Len(connections)
      /\ d \in Seq(Sockets) /\ IsInjective(d) /\ Found(d) /\ HasNotMet(d, i)
      /\ i + 1 \in 1 .. Cardinality(Sockets) + 1
  BY <1>1, ListFits DEF GoingOn
<1>3. t \in Sockets /\ at[t] # "new" /\ ~Contains(d, t)
  <2>1. t \in Sockets /\ Contains(connections, t)
    BY <1>1, <1>2 DEF TypeOK, Contains
  <2>2. ~Contains(d, t)
    BY <1>2 DEF HasNotMet
  <2>3. QED
    BY <2>1, <2>2 DEF SocketInv, Listing
<1> HIDE DEF t
<1>4. /\ at \in [Sockets -> {"new", "idle", "sending", "ended"}]
      /\ \A r \in Sockets : at'[r] = IF r = s THEN "sending" ELSE at[r]
      /\ \A r \in Sockets : target'[r] = IF r = s THEN t ELSE target[r]
      /\ \A r \in Sockets : next'[r] = IF r = s THEN i + 1 ELSE next[r]
      /\ dead'[s] = d
      /\ \A r \in Sockets \ {s} : dead'[r] = dead[r]
  BY <1>1 DEF TypeOK
<1>5. TypeOK'
  <2>1. /\ at' \in [Sockets -> {"new", "idle", "sending", "ended"}]
        /\ target' \in [Sockets -> Sockets]
        /\ next' \in [Sockets -> 1 .. Cardinality(Sockets) + 1]
    BY <1>1, <1>2, <1>3 DEF TypeOK
  <2>2. open' \subseteq {r \in Sockets : at'[r] \in {"idle", "sending"}}
    BY <1>1, <1>4 DEF TypeOK
  <2>3. /\ dead' \in [Sockets -> Seq(Sockets)]
        /\ \A r \in Sockets : IsInjective(dead'[r])
    BY <1>1, <1>2, <1>4 DEF TypeOK
  <2>4. \A r \in Sockets : at'[r] # "sending" => dead'[r] = <<>>
    BY <1>1, <1>4 DEF TypeOK
  <2>5. QED
    BY <1>1, <2>1, <2>2, <2>3, <2>4 DEF TypeOK
<1>6. \A r \in Sockets : at'[r] = "new" => at[r] = "new"
  BY <1>4
<1>7. Listing' /\ ListenersAreListed'
  BY <1>1, <1>6 DEF SocketInv, Listing, ListenersAreListed
<1>8. \A c : Found(c) => Found(c)'
  BY <1>1, <1>6 DEF Found
<1>9. \A e : Contains(Append(d, t), e) <=> Contains(d, e) \/ e = t
  BY <1>2, <1>3, Appended
<1>10. HasNotMet(Append(d, t), i + 1)
  <2>1. \A k \in i + 1 .. Len(connections) : connections[k] # t
    <3>1. /\ DOMAIN connections = 1 .. Len(connections) /\ Len(connections) \in Nat
          /\ IsInjective(connections)
      BY <1>1 DEF TypeOK
    <3>2. \A k \in 1 .. Len(connections) : connections[k] = connections[i] => k = i
      BY <1>2, <3>1 DEF IsInjective
    <3>3. QED
      BY <1>2, <3>1, <3>2 DEF t
  <2>2. \A k \in i + 1 .. Len(connections) : ~Contains(d, connections[k])
    BY <1>2 DEF HasNotMet
  <2>3. QED
    BY <1>9, <2>1, <2>2 DEF HasNotMet
<1>11. ASSUME NEW r \in Sockets
       PROVE  /\ Found(dead[r])'
              /\ (at[r] = "sending" =>
                    /\ at[target[r]] # "new"
                    /\ ~Contains(dead[r], target[r])
                    /\ HasNotMet(Append(dead[r], target[r]), next[r]))'
  <2>1. CASE r = s
    BY <1>1, <1>2, <1>3, <1>4, <1>6, <1>8, <1>10, <2>1 DEF HasNotMet, Found
  <2>2. CASE r # s
    <3>1. dead'[r] = dead[r] /\ target'[r] = target[r] /\ next'[r] = next[r] /\ at'[r] = at[r]
          /\ target[r] \in Sockets
      BY <1>1, <1>4, <2>2 DEF TypeOK
    <3>2. QED
      BY <1>1, <1>6, <1>8, <3>1 DEF SocketInv, Broadcasts, HasNotMet, Found
  <2>3. QED
    BY <2>1, <2>2
<1>12. QED
  BY <1>5, <1>7, <1>11 DEF SocketInv, Broadcasts

LEMMA EndsKeeps ==
  ASSUME SocketInv, NEW s \in Sockets, NEW i, NEW d, GoingOn(s, i, d), Ends(s, i, d)
  PROVE  SocketInv'
<1> DEFINE D == Removed(d)
<1>1. /\ TypeOK /\ connections' = Without(D)
      /\ connections \in Seq(Sockets) /\ IsInjective(connections)
      /\ \/ at' = [at EXCEPT ![s] = "idle"] /\ open' = open
         \/ at' = [at EXCEPT ![s] = "ended"] /\ open' = open \ {s}
      /\ target' = [target EXCEPT ![s] = s]
      /\ next' = [next EXCEPT ![s] = 1] /\ dead' = [dead EXCEPT ![s] = <<>>]
  BY DEF SocketInv, TypeOK, Ends, Goes
<1>2. IsLeft(D, connections', Len(connections))
  BY <1>1, WithoutIsLeft
<1>3. \A t \in Sockets : t \in D => t \notin open
  <2>1. \A t \in D : Contains(d, t)
    BY DEF GoingOn, Removed, Contains
  <2>2. QED
    BY <2>1 DEF GoingOn, Found
<1> HIDE DEF D
<1>4. /\ connections' \in Seq(Sockets) /\ IsInjective(connections')
      /\ Len(connections) \in Nat /\ Len(connections') \in Nat
      /\ \A m \in 1 .. Len(connections') :
            \E k \in m .. Len(connections) : connections'[m] = connections[k]
      /\ \A k \in 1 .. Len(connections) :
            connections[k] \notin D => Contains(connections', connections[k])
  BY <1>1, <1>2 DEF IsLeft
<1>5. \A t : Contains(connections', t) => Contains(connections, t)
  BY <1>4 DEF Contains
<1>6. \A t : Contains(connections, t) /\ t \notin D => Contains(connections', t)
  BY <1>4 DEF Contains
<1>7. \A c, m : m \in Nat \ {0} /\ HasNotMet(c, m) => HasNotMet(c, m)'
  BY <1>4 DEF HasNotMet
<1>8. /\ at \in [Sockets -> {"new", "idle", "sending", "ended"}] /\ at[s] # "new"
      /\ \A r \in Sockets \ {s} : at'[r] = at[r]
      /\ at'[s] \in {"idle", "ended"} /\ (at'[s] = "ended" => s \notin open')
      /\ open' \subseteq open
      /\ \A r \in Sockets \ {s} : dead'[r] = dead[r] /\ target'[r] = target[r]
                                  /\ next'[r] = next[r]
      /\ dead'[s] = <<>>
  BY <1>1 DEF TypeOK, GoingOn
<1>9. TypeOK'
  <2>1. 1 \in 1 .. Cardinality(Sockets) + 1
    BY <1>1, ListFits
  <2>2. /\ at' \in [Sockets -> {"new", "idle", "sending", "ended"}]
        /\ target' \in [Sockets -> Sockets]
        /\ next' \in [Sockets -> 1 .. Cardinality(Sockets) + 1]
    BY <1>1, <2>1 DEF TypeOK
  <2>3. open' \subseteq {r \in Sockets : at'[r] \in {"idle", "sending"}}
    BY <1>1, <1>8 DEF TypeOK
  <2>4. /\ dead' \in [Sockets -> Seq(Sockets)]
        /\ \A r \in Sockets : IsInjective(dead'[r])
    <3>1. <<>> \in Seq(Sockets) /\ IsInjective(<<>>)
      BY DEF IsInjective
    <3>2. QED
      BY <1>1, <1>8, <3>1 DEF TypeOK
  <2>5. \A r \in Sockets : at'[r] # "sending" => dead'[r] = <<>>
    BY <1>1, <1>8 DEF TypeOK
  <2>6. QED
    BY <1>4, <2>2, <2>3, <2>4, <2>5 DEF TypeOK
<1>10. \A r \in Sockets : at'[r] = "new" => at[r] = "new"
  BY <1>8
<1>11. Listing' /\ ListenersAreListed'
  <2>1. open \subseteq Sockets
    BY <1>1 DEF TypeOK
  <2>2. QED
    BY <1>3, <1>5, <1>6, <1>8, <1>10, <2>1 DEF SocketInv, Listing, ListenersAreListed
<1>12. \A c : Found(c) => Found(c)'
  BY <1>8, <1>10 DEF Found
<1>13. ASSUME NEW r \in Sockets
       PROVE  /\ Found(dead[r])'
              /\ (at[r] = "sending" =>
                    /\ at[target[r]] # "new"
                    /\ ~Contains(dead[r], target[r])
                    /\ HasNotMet(Append(dead[r], target[r]), next[r]))'
  <2>1. CASE r = s
    BY <1>8, <2>1 DEF Found, Contains
  <2>2. CASE r # s
    <3>1. dead'[r] = dead[r] /\ target'[r] = target[r] /\ next'[r] = next[r] /\ at'[r] = at[r]
          /\ target[r] \in Sockets /\ next[r] \in Nat \ {0}
      BY <1>1, <1>8, <2>2, ListFits DEF TypeOK
    <3>2. Found(dead[r])'
      BY <1>12, <3>1 DEF SocketInv, Broadcasts, Found
    <3>3. ASSUME at[r] = "sending"
          PROVE  /\ at'[target[r]] # "new" /\ ~Contains(dead[r], target[r])
                 /\ HasNotMet(Append(dead[r], target[r]), next[r])'
      <4>1. /\ at[target[r]] # "new" /\ ~Contains(dead[r], target[r])
            /\ HasNotMet(Append(dead[r], target[r]), next[r])
        BY <3>3 DEF SocketInv, Broadcasts
      <4>2. HasNotMet(Append(dead[r], target[r]), next[r])'
        BY <1>4, <3>1, <4>1 DEF HasNotMet
      <4>3. QED
        BY <1>10, <3>1, <4>1, <4>2
    <3>4. QED
      BY <3>1, <3>2, <3>3
  <2>3. QED
    BY <2>1, <2>2
<1>14. QED
  BY <1>9, <1>11, <1>13 DEF SocketInv, Broadcasts

LEMMA LeaveKeeps ==
  ASSUME SocketInv, NEW s \in Sockets, Leave(s)
  PROVE  SocketInv'
<1>1. open' \subseteq open /\ UNCHANGED <<at, connections, target, next, dead>>
  BY DEF Leave, broadcasts
<1>2. TypeOK' /\ Listing' /\ ListenersAreListed'
  BY <1>1 DEF SocketInv, TypeOK, Listing, ListenersAreListed
<1>3. Broadcasts'
  BY <1>1 DEF SocketInv, Broadcasts, Found, HasNotMet
<1>4. QED
  BY <1>2, <1>3 DEF SocketInv

LEMMA SocketStep == SocketInv /\ [Next]_vars => SocketInv'
<1>1. ASSUME SocketInv, NEW s \in Sockets, Loop(s) PROVE SocketInv'
  <2>1. CASE Begin(s)
    BY <1>1, <2>1, BeginGoesOn, TurnsKeeps, EndsKeeps DEF Begin, GoesOn
  <2>2. CASE Sent(s)
    BY <1>1, <2>2, SentGoesOn, TurnsKeeps, EndsKeeps DEF Sent, GoesOn
  <2>3. QED
    BY <1>1, <2>1, <2>2 DEF Loop
<1>2. ASSUME SocketInv, UNCHANGED vars PROVE SocketInv'
  BY <1>2 DEF vars, broadcasts, SocketInv, TypeOK, Listing, Broadcasts, Found, HasNotMet,
     ListenersAreListed
<1>3. QED
  BY <1>1, <1>2, ConnectKeeps, LeaveKeeps DEF Next

LEMMA SocketsInvariant == Spec => []SocketInv
  BY SocketInit, SocketStep, PTL DEF Spec

\* The types: among them, that no list of connections or of dead ones names
\* anybody twice, and that the position stays within the list.
THEOREM TypeCorrect == Spec => []TypeOK
<1>1. SocketInv => TypeOK
  BY DEF SocketInv
<1>2. QED
  BY <1>1, SocketsInvariant, PTL

\* Whoever is connected stays on the list, whatever the broadcasts remove.
THEOREM ListenersStay == Spec => []ListenersAreListed
<1>1. SocketInv => ListenersAreListed
  BY DEF SocketInv
<1>2. QED
  BY <1>1, SocketsInvariant, PTL
=============================================================================
