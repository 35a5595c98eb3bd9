--------------------------- MODULE StatusSockets ---------------------------
(***************************************************************************)
(* The WebSocket of an agent: who gets the status, and when.               *)
(*                                                                         *)
(* Every connection has a loop of its own (websocket_status), and every    *)
(* loop sends what it has read to all connections (_ConnectionManager), so *)
(* as many broadcasts are under way as there are connections.  Each goes   *)
(* through the one list by position and lets the others run while it       *)
(* sends.  A connection that fails is taken from the list at the end; one  *)
(* that another broadcast has taken by then is an error, which ends the    *)
(* loop that meets it and with it the connection of that loop.             *)
(***************************************************************************)
EXTENDS Naturals, FiniteSets, Sequences, SequencesExt

CONSTANT Sockets   \* connections

ASSUME SocketsAssumption == IsFiniteSet(Sockets)

VARIABLES
    at,            \* where the loop of each connection stands
    connections,   \* _connections
    open,          \* connections whose two ends are there
    target,        \* whom each broadcast is sending to
    next,          \* the position in the list it goes on with
    dead           \* what it could not send to

broadcasts == <<target, next, dead>>
vars       == <<at, connections, open, broadcasts>>

\* No connection is listed twice, or twice among the dead of a broadcast.
TypeOK ==
    /\ at \in [Sockets -> {"new", "idle", "sending", "ended"}]
    /\ connections \in Seq(Sockets) /\ IsInjective(connections)
    /\ open \subseteq {s \in Sockets : at[s] \in {"idle", "sending"}}
    /\ target \in [Sockets -> Sockets]
    /\ next \in [Sockets -> 1 .. Cardinality(Sockets) + 1]
    /\ dead \in [Sockets -> Seq(Sockets)]
    /\ \A s \in Sockets : IsInjective(dead[s]) /\ (at[s] # "sending" => dead[s] = <<>>)

Init ==
    /\ at = [s \in Sockets |-> "new"]
    /\ connections = <<>>
    /\ open = {}
    /\ target = [s \in Sockets |-> s]
    /\ next = [s \in Sockets |-> 1]
    /\ dead = [s \in Sockets |-> <<>>]
-----------------------------------------------------------------------------
Goes(s, where) == at' = [at EXCEPT ![s] = where]

\* connect: accepted and added at the end.
Connect(s) ==
    /\ at[s] = "new"
    /\ Goes(s, "idle")
    /\ connections' = Append(connections, s)
    /\ open' = open \cup {s}
    /\ UNCHANGED broadcasts

\* Mutant: the position stays.
SamePosition(i) == i

Further(i) == i + 1

\* The broadcast turns to the connection that is in position i by now.
Turns(s, i, d) ==
    /\ i <= Len(connections)
    /\ Goes(s, "sending")
    /\ target' = [target EXCEPT ![s] = connections[i]]
    /\ next' = [next EXCEPT ![s] = Further(i)]
    /\ dead' = [dead EXCEPT ![s] = d]
    /\ UNCHANGED <<connections, open>>

\* The first n of d are on the list.  list.remove raises for one that is not.
Listed(d, n) == \A i \in 1 .. n : Contains(connections, d[i])

\* The part of d that is removed.
Removed(d) == {d[n] : n \in {n \in 1 .. Len(d) : Listed(d, n)}}

\* Mutant: as many as have failed are taken from the head of the list.
WithoutHead(D) == SubSeq(connections, Cardinality(D) + 1, Len(connections))

\* What is left of the list, position by position.
Without(D) ==
    LET kept[n \in 0 .. Len(connections)] ==
            IF n = 0 THEN <<>>
            ELSE IF connections[n] \in D THEN kept[n - 1] ELSE Append(kept[n - 1], connections[n])
    IN  kept[Len(connections)]

\* The end of the broadcast.  If it could not remove all of its dead, the loop
\* ends with an error, and the server closes the connection of the loop.
Ends(s, i, d) ==
    /\ i > Len(connections)
    /\ connections' = Without(Removed(d))
    /\ IF Listed(d, Len(d))
       THEN Goes(s, "idle") /\ UNCHANGED open
       ELSE Goes(s, "ended") /\ open' = open \ {s}
    /\ target' = [target EXCEPT ![s] = s]
    /\ next' = [next EXCEPT ![s] = 1]
    /\ dead' = [dead EXCEPT ![s] = <<>>]

\* Mutant: the first failure ends the broadcast, and nothing is removed.
BreaksOff(s, i, d) ==
    IF d = <<>> THEN Turns(s, i, d) \/ Ends(s, i, d) ELSE Ends(s, Len(connections) + 1, <<>>)

GoesOn(s, i, d) == Turns(s, i, d) \/ Ends(s, i, d)

\* The two seconds are over and the status has been read.
Begin(s) ==
    /\ at[s] = "idle"
    /\ GoesOn(s, 1, <<>>)

\* The send has come to an end.
Sent(s) ==
    /\ at[s] = "sending"
    /\ GoesOn(s, next[s], IF target[s] \in open THEN dead[s] ELSE Append(dead[s], target[s]))

\* The client closes the connection.  Its loop is not told: it never
\* receives, and broadcast keeps every failure of a send to itself.
Leave(s) ==
    /\ s \in open
    /\ open' = open \ {s}
    /\ UNCHANGED <<at, connections, broadcasts>>
-----------------------------------------------------------------------------
Loop(s) == Begin(s) \/ Sent(s)

Next == \E s \in Sockets : Connect(s) \/ Loop(s) \/ Leave(s)

\* Nothing makes a loop go on: the status of a backend is read from a pipe
\* without a timeout, a client need not read, and the event loop serves nobody
\* while an idle dispatch loop keeps it.
Spec == Init /\ [][Next]_vars
-----------------------------------------------------------------------------
\* Whoever is connected is on the list, so that the others' broadcasts reach
\* it too, whatever has been removed by whom (broadcast removes only what it
\* failed to send to).
ListenersAreListed == \A s \in open : Contains(connections, s)

\* The loop of a connection keeps going round.
Runs(s) == []<>(at[s] = "idle") /\ []<>(at[s] = "sending")

\* Every loop that keeps going round sends to every client that stays again and
\* again, although removals move the list under its broadcasts, and whether
\* the loop of that client itself goes on, hangs or has ended ("push printer
\* status every 2 seconds").
EveryLoopServesAll ==
    \A r, s \in Sockets :
        Runs(r) => []<>(s \notin open \/ (at[r] = "sending" /\ target[r] = s))
=============================================================================
