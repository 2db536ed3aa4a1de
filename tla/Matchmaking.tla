----------------------------- MODULE Matchmaking -----------------------------
(***************************************************************************)
(* What the room promises its players, without locks, seats or goroutines:  *)
(* a player joins, in one step, a table of the game it asked for that has   *)
(* room, or an empty one; a table whose party has been complete is called   *)
(* to start; a party that stays complete does start.  Room implements it    *)
(* for clients that ask for a seat only when they have none.                *)
(***************************************************************************)
EXTENDS Integers, FiniteSets

CONSTANTS Player, Game, SeatsOf, Table, NoGame

VARIABLES
    party,      \* party[t]: the players at table t
    kind,       \* kind[t]: the game they asked for
    called,     \* called[t]: the party was complete, and was not lost since
    playing,    \* playing[t]: their game has been started
    up          \* the server runs

vars == <<party, kind, called, playing, up>>

Complete(members, g) == g # NoGame /\ Cardinality(members) = SeatsOf[g]

Init ==
    /\ party = [t \in Table |-> {}]
    /\ kind = [t \in Table |-> NoGame]
    /\ called = [t \in Table |-> FALSE]
    /\ playing = [t \in Table |-> FALSE]
    /\ up = TRUE

\* A player without a table joins one: the party completes it or waits.
Join(p, t, g) ==
    /\ \A u \in Table : p \notin party[u]
    /\ kind[t] \in {NoGame, g}
    /\ Cardinality(party[t]) < SeatsOf[g]
    /\ party' = [party EXCEPT ![t] = @ \cup {p}]
    /\ kind' = [kind EXCEPT ![t] = g]
    /\ called' = [called EXCEPT ![t] = @ \/ Complete(party'[t], g)]
    /\ UNCHANGED <<playing, up>>

\* Somebody leaves.  A call that nobody heard yet may be lost; a table left
\* empty forgets everything.
Leave(p, t) ==
    /\ p \in party[t]
    /\ party' = [party EXCEPT ![t] = @ \ {p}]
    /\ LET empty == party[t] = {p}
       IN /\ kind' = [kind EXCEPT ![t] = IF empty THEN NoGame ELSE @]
          /\ playing' = [playing EXCEPT ![t] = @ /\ ~empty]
          /\ \E c \in {FALSE, called[t] /\ ~empty} :
                called' = [called EXCEPT ![t] = c]
    /\ UNCHANGED up

Start(t) ==
    /\ called[t]
    /\ playing' = [playing EXCEPT ![t] = TRUE]
    /\ UNCHANGED <<party, kind, called, up>>

Crash == up' = FALSE /\ UNCHANGED <<party, kind, called, playing>>

Next ==
    /\ up
    /\ \/ \E p \in Player, t \in Table :
            Leave(p, t) \/ \E g \in Game : Join(p, t, g)
       \/ \E t \in Table : Start(t)
       \/ Crash

\* What the room may do, whether or not anybody waits.
SafeSpec == Init /\ [][Next]_vars

\* A party that stays complete is given its game, as long as the server runs.
StartComplete(t) == up /\ Complete(party[t], kind[t]) /\ Start(t)

Spec == SafeSpec /\ \A t \in Table : WF_vars(StartComplete(t))
=============================================================================
