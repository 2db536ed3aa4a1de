----------------------------- MODULE Backgammon -----------------------------
(***************************************************************************)
(* A Backgammon session: the server keeps a copy of the state that the two  *)
(* clients share, applies each client's transactions to it and relays them  *)
(* to the other, rolls the dice for both, and introduces the clients to     *)
(* each other by their check-ins.  The rules are the clients'.              *)
(*                                                                         *)
(* All handlers run under the lock of the session, so each is one step; what *)
(* is concurrent are the messages under way, in order on each connection.   *)
(* The clients are not part of the repository.  They are modelled as the    *)
(* server expects them: a client checks in and asks for the state; it goes  *)
(* on when it has been told the check-ins of all seats, and the state; it   *)
(* applies a transaction of its own when it sends it, and only the one whose *)
(* turn it is sends one.                                                    *)
(*                                                                         *)
(* Of the entries of the state there are three.  Left out are the user IDs, *)
(* which follow from the check-ins, readyVotes, which nothing reads, the    *)
(* encoding of the dice, and the talk and timestamps that are only passed on. *)
(***************************************************************************)
EXTENDS Integers, Sequences, FiniteSets

CONSTANTS
    Die,             \* the values of a die, 1 to 6
    MaxQueue         \* a client says nothing when that much is under way to the
                     \* server, or more to a client: a bound

ASSUME DieAssumption == Die # {} /\ Die \subseteq Nat \ {0}
ASSUME QueueAssumption == MaxQueue \in Nat /\ MaxQueue >= 4

VARIABLES
    seated,          \* table.Seats, who is still there
    state,           \* the shared state, as the server has it
    checkedIn, delivered, initialRoll,
    up, down,        \* the messages under way from and to each client
    phase,           \* of a client: "out", "join", "play", "gone"
    got,             \* the seats whose check-ins a client has been told
    view,            \* the shared state, as a client has it
    dice,            \* the initial roll of each seat, as a client has it
    again            \* history: a client has begun another match

serverVars == <<state, checkedIn, delivered, initialRoll>>
clientVars == <<phase, got, view, dice, again>>
vars == <<seated, serverVars, up, down, clientVars>>

-----------------------------------------------------------------------------
(* The shared state *)

Seat == {0, 1}
Other(s) == 1 - s

Tags == {"BGState", "ActiveSeat", "Score"}
Counts == [BGState |-> 1, ActiveSeat |-> 1, Score |-> 2]

\* ResetForNewMatch.
NewState ==
    [BGState |-> [i \in {0} |-> "notInit"], ActiveSeat |-> [i \in {0} |-> 0],
     Score |-> [i \in {0, 1} |-> -1]]

Item(tag, idx, val) == [tag |-> tag, idx |-> idx, val |-> val]

\* validateTransaction, for one item: an entry without an index has the index -1.
IsValid(item) ==
    /\ item.tag \in Tags
    /\ IF Counts[item.tag] <= 1 THEN item.idx = -1 ELSE item.idx \in 0 .. Counts[item.tag] - 1

\* Apply: an item without an index is for the only one there is.
EntryOf(item) == IF item.idx < 0 THEN 0 ELSE item.idx

\* Apply and Set, item by item: of those for one entry the last one stays.
ApplyAll(st, items) ==
    [tag \in Tags |-> [i \in DOMAIN st[tag] |->
        LET writes == {n \in DOMAIN items : items[n].tag = tag /\ EntryOf(items[n]) = i}
        IN IF writes = {} THEN st[tag][i]
           ELSE items[CHOOSE n \in writes : \A k \in writes : k <= n].val]]

NoRoll == [s \in Seat |-> -1]
NoneOf == [s \in Seat |-> FALSE]
Undelivered == [s \in Seat |-> NoneOf]

-----------------------------------------------------------------------------
(* The handlers of the session *)

Takes(s, type) ==
    /\ up[s] # <<>> /\ Head(up[s]).type = type
    /\ up' = [up EXCEPT ![s] = Tail(@)]

\* SendToSeat: what is sent to an empty seat is dropped.
Send(msgs) ==
    down' = [s \in Seat |-> IF seated[s] THEN down[s] \o msgs[s] ELSE down[s]]

CheckInOf(s) == [type |-> "checkIn", seat |-> s]

If(condition, msg) == IF condition THEN <<msg>> ELSE <<>>

\* handleCheckIn: an echo, the check-in of the other if it is there, and one's own
\* to the other, those two once.
HandleCheckIn(s) ==
    LET opp   == Other(s)
        learn == checkedIn[opp] /\ ~delivered[s][opp]
        tell  == seated[opp] /\ ~delivered[opp][s]
    IN /\ Takes(s, "checkIn")
       /\ Head(up[s]).valid
       /\ checkedIn' = [checkedIn EXCEPT ![s] = TRUE]
       /\ delivered' = [delivered EXCEPT ![s][opp] = @ \/ learn, ![opp][s] = @ \/ tell]
       /\ Send([t \in Seat |->
            IF t = s THEN <<CheckInOf(s)>> \o If(learn, CheckInOf(opp))
            ELSE If(tell, CheckInOf(s))])
       /\ UNCHANGED <<seated, state, initialRoll, clientVars>>

\* A check-in with another signature, an older version or another seat.
RefuseCheckIn(s) ==
    /\ Takes(s, "checkIn")
    /\ ~Head(up[s]).valid
    /\ UNCHANGED <<seated, serverVars, down, clientVars>>

HandleGameStateRequest(s) ==
    /\ Takes(s, "stateRequest")
    /\ Send([t \in Seat |-> If(t = s, [type |-> "state", state |-> state])])
    /\ UNCHANGED <<seated, serverVars, clientVars>>

\* Mutant of HandleTransaction: the items are looked at one by one as they are
\* applied, up to the first that is not valid.
HandleTransactionByItem(s) ==
    LET tx    == Head(up[s])
        valid == {n \in 0 .. Len(tx.items) : \A i \in 1 .. n : IsValid(tx.items[i])}
        last  == CHOOSE n \in valid : \A k \in valid : k <= n
    IN /\ Takes(s, "transaction")
       /\ state' = ApplyAll(state, SubSeq(tx.items, 1, last))
       /\ Send([t \in Seat |-> If(t # s /\ last = Len(tx.items), tx)])
       /\ UNCHANGED <<seated, checkedIn, delivered, initialRoll, clientVars>>

\* handleTransaction: applied and relayed as a whole, or not at all.
HandleTransaction(s) ==
    LET tx == Head(up[s])
    IN /\ Takes(s, "transaction")
       /\ IF \A i \in DOMAIN tx.items : IsValid(tx.items[i])
          THEN /\ state' = ApplyAll(state, tx.items)
               /\ Send([t \in Seat |-> If(t # s, tx)])
          ELSE UNCHANGED <<state, down>>
       /\ UNCHANGED <<seated, checkedIn, delivered, initialRoll, clientVars>>

\* Mutant of HandleRollRequest: a die counts from nought.
HandleRollRequestFromNought(s) ==
    /\ Takes(s, "rollRequest")
    /\ \E d \in {n - 1 : n \in Die} :
        /\ initialRoll' = IF state["BGState"][0] = "initialRoll"
                          THEN [initialRoll EXCEPT ![s] = d] ELSE initialRoll
        /\ Send([t \in Seat |-> <<[type |-> "diceRoll", seat |-> s, value |-> d]>>])
    /\ UNCHANGED <<seated, state, checkedIn, delivered, clientVars>>

\* handleRollRequest: anybody may roll, at any time; the first of the two dice is
\* kept as the initial roll.
HandleRollRequest(s) ==
    /\ Takes(s, "rollRequest")
    /\ \E d \in Die :
        /\ initialRoll' = IF state["BGState"][0] = "initialRoll"
                          THEN [initialRoll EXCEPT ![s] = d] ELSE initialRoll
        /\ Send([t \in Seat |-> <<[type |-> "diceRoll", seat |-> s, value |-> d]>>])
    /\ UNCHANGED <<seated, state, checkedIn, delivered, clientVars>>

\* Mutant of HandleNewMatch: the clients count as introduced.
HandleNewMatchDelivered(s) ==
    /\ Takes(s, "newMatch")
    /\ state' = NewState /\ initialRoll' = NoRoll
    /\ UNCHANGED <<seated, checkedIn, delivered, down, clientVars>>

\* handleNewMatch: of the introductions it forgets that they were made, not the
\* check-ins; the other client is told nothing.
HandleNewMatch(s) ==
    /\ Takes(s, "newMatch")
    /\ state' = NewState /\ initialRoll' = NoRoll
    /\ delivered' = Undelivered
    /\ UNCHANGED <<seated, checkedIn, down, clientVars>>

-----------------------------------------------------------------------------
(* The clients *)

NoView == [BGState |-> <<>>]

Says(s, msgs) ==
    /\ Len(up[s]) + Len(msgs) <= MaxQueue
    /\ \A t \in Seat : Len(down[t]) <= MaxQueue
    /\ up' = [up EXCEPT ![s] = @ \o msgs]

CheckIn(valid) == [type |-> "checkIn", valid |-> valid]
Transaction(items) == [type |-> "transaction", items |-> items]
Introduction == <<CheckIn(TRUE), [type |-> "stateRequest"]>>

Join(s) ==
    /\ phase[s] = "out"
    /\ Says(s, Introduction)
    /\ phase' = [phase EXCEPT ![s] = "join"]
    /\ UNCHANGED <<seated, serverVars, down, got, view, dice, again>>

\* A client that waits for the other checks in once more.
CheckInAgain(s) ==
    /\ phase[s] = "join" /\ got[s] # Seat /\ up[s] = <<>>
    /\ Says(s, <<CheckIn(TRUE)>>)
    /\ UNCHANGED <<seated, serverVars, down, clientVars>>

\* What the server does not take: a check-in of another version, and a transaction
\* of which only the first item is valid.
Garbage(s) ==
    /\ phase[s] # "gone" /\ up[s] = <<>>
    /\ \E msg \in {CheckIn(FALSE), Transaction(<<Item("Score", s, 1), Item("Score", 2, 1)>>)} :
        Says(s, <<msg>>)
    /\ UNCHANGED <<seated, serverVars, down, clientVars>>

IsIn(s, bgState) == phase[s] = "play" /\ view[s]["BGState"][0] = bgState
MyTurn(s) == phase[s] = "play" /\ view[s]["ActiveSeat"][0] = s

SendTransaction(s, items) ==
    /\ Says(s, <<Transaction(items)>>)
    /\ view' = [view EXCEPT ![s] = ApplyAll(view[s], items)]
    /\ UNCHANGED <<seated, serverVars, down, phase, got, dice, again>>

Begin(s) ==
    /\ MyTurn(s) /\ IsIn(s, "notInit")
    /\ SendTransaction(s, <<Item("BGState", -1, "initialRoll")>>)

\* A move, scored or not, and the turn to the other.
Move(s) ==
    /\ MyTurn(s)
    /\ IsIn(s, "move") \/ (IsIn(s, "initialRoll") /\ \A t \in Seat : dice[s][t] # -1)
    /\ \E points \in 0 .. 1 :
        SendTransaction(s, <<Item("BGState", -1, "move"), Item("Score", s, points),
                             Item("ActiveSeat", -1, Other(s))>>)

EndMatch(s) ==
    /\ MyTurn(s) /\ IsIn(s, "move")
    /\ SendTransaction(s, <<Item("BGState", -1, "matchOver")>>)

\* s has asked for its roll, and the answer has not come.
HasAsked(s) ==
    \/ \E i \in DOMAIN up[s] : up[s][i].type = "rollRequest"
    \/ \E i \in DOMAIN down[s] : down[s][i].type = "diceRoll" /\ down[s][i].seat = s

Roll(s) ==
    /\ IsIn(s, "initialRoll") /\ dice[s][s] = -1 /\ ~HasAsked(s)
    /\ Says(s, <<[type |-> "rollRequest"]>>)
    /\ UNCHANGED <<seated, serverVars, down, clientVars>>

\* Each client begins the next match by itself, and anew.
NewMatch(s) ==
    /\ IsIn(s, "matchOver")
    /\ Says(s, <<[type |-> "newMatch"]>> \o Introduction)
    /\ phase' = [phase EXCEPT ![s] = "join"]
    /\ got' = [got EXCEPT ![s] = {}]
    /\ view' = [view EXCEPT ![s] = NoView]
    /\ dice' = [dice EXCEPT ![s] = NoRoll]
    /\ again' = TRUE
    /\ UNCHANGED <<seated, serverVars, down>>

\* A client takes the next message, and goes on when it has all it waits for.
Receive(s) ==
    LET msg == Head(down[s])
    IN /\ down[s] # <<>>
       /\ down' = [down EXCEPT ![s] = Tail(@)]
       /\ got' = [got EXCEPT ![s] = IF msg.type = "checkIn" THEN @ \cup {msg.seat} ELSE @]
       /\ view' = [view EXCEPT ![s] =
            CASE msg.type = "state" -> msg.state
              [] msg.type = "transaction" /\ @ # NoView -> ApplyAll(@, msg.items)
              [] OTHER -> @]
       /\ dice' = [dice EXCEPT ![s] =
            IF msg.type = "diceRoll" THEN [@ EXCEPT ![msg.seat] = msg.value] ELSE @]
       /\ phase' = [phase EXCEPT ![s] =
            IF @ = "join" /\ got'[s] = Seat /\ view'[s] # NoView THEN "play" ELSE @]
       /\ UNCHANGED <<seated, serverVars, up, again>>

\* A player leaves the table, with what is under way from and to it.
Leave(s) ==
    /\ phase[s] # "gone"
    /\ seated' = [seated EXCEPT ![s] = FALSE]
    /\ phase' = [phase EXCEPT ![s] = "gone"]
    /\ up' = [up EXCEPT ![s] = <<>>] /\ down' = [down EXCEPT ![s] = <<>>]
    /\ UNCHANGED <<serverVars, got, view, dice, again>>

-----------------------------------------------------------------------------
\* newBackgammonSession, with both players seated.
Init ==
    /\ seated = [s \in Seat |-> TRUE]
    /\ state = NewState
    /\ checkedIn = NoneOf /\ delivered = Undelivered /\ initialRoll = NoRoll
    /\ up = [s \in Seat |-> <<>>] /\ down = [s \in Seat |-> <<>>]
    /\ phase = [s \in Seat |-> "out"]
    /\ got = [s \in Seat |-> {}] /\ again = FALSE
    /\ view = [s \in Seat |-> NoView] /\ dice = [s \in Seat |-> NoRoll]

HandleMessage(s) ==
    \/ HandleCheckIn(s) \/ RefuseCheckIn(s) \/ HandleGameStateRequest(s)
    \/ HandleTransaction(s) \/ HandleRollRequest(s) \/ HandleNewMatch(s)

Client(s) ==
    \/ Join(s) \/ CheckInAgain(s) \/ Garbage(s)
    \/ Begin(s) \/ Roll(s) \/ Move(s) \/ EndMatch(s) \/ NewMatch(s)
    \/ Receive(s) \/ Leave(s)

Next == \E s \in Seat : HandleMessage(s) \/ Client(s)

Spec == Init /\ [][Next]_vars

-----------------------------------------------------------------------------
States ==
    [BGState : [{0} -> {"notInit", "initialRoll", "move", "matchOver"}],
     ActiveSeat : [{0} -> Seat], Score : [{0, 1} -> -1 .. 1]]
Rolls == [Seat -> Die \cup {-1}]

TypeOK ==
    /\ seated \in [Seat -> BOOLEAN]
    /\ state \in States
    /\ checkedIn \in [Seat -> BOOLEAN]
    /\ delivered \in [Seat -> [Seat -> BOOLEAN]]
    /\ initialRoll \in Rolls
    /\ \A s \in Seat : Len(up[s]) <= MaxQueue
    /\ phase \in [Seat -> {"out", "join", "play", "gone"}]
    /\ got \in [Seat -> SUBSET Seat]
    /\ view \in [Seat -> States \cup {NoView}]
    /\ dice \in [Seat -> Rolls]
    /\ again \in BOOLEAN

\* Nothing is under way, and both are there.
Quiet == \A s \in Seat : seated[s] /\ up[s] = <<>> /\ down[s] = <<>>

\* A client waits only as long as the other has not joined at all: in whatever order
\* they join, check in once more and begin the next matches, with their messages under
\* way both ways, each is told the check-ins of both and goes on (handleCheckIn,
\* handleNewMatch).
CheckInsComplete ==
    Quiet => \A s \in Seat : phase[s] = "join" => phase[Other(s)] = "out"

\* In the first match the clients never both think it is their turn, and when nothing
\* is under way they and the server have the same state and the same rolls: no
\* transaction is lost to one of them or applied in part, though one client may play
\* on while the other has yet to ask for the state (handleTransaction,
\* handleGameStateRequest, handleRollRequest).
ClientsAgree ==
    ~again /\ (\A s \in Seat : phase[s] = "play") =>
        /\ \E s \in Seat : ~MyTurn(s)
        /\ Quiet => \A s \in Seat : view[s] = state /\ dice[s] = initialRoll
=============================================================================
