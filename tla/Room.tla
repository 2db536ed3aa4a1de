-------------------------------- MODULE Room --------------------------------
(***************************************************************************)
(* The room: its tables, the goroutine that serves each connection, and    *)
(* the two locks they meet at, Room.mu (variable mu) and Table.mu (one      *)
(* action is one critical section of Table.mu, so it needs no variable).    *)
(*                                                                         *)
(* A Player is one accepted connection and the Player struct AddPlayer      *)
(* makes for it; its goroutine runs handleConn from AddPlayer on, then      *)
(* HandlePlayer, then the deferred cleanup.  pc[p] is where it stands.      *)
(* Reads and writes between two lock operations touch only the goroutine's  *)
(* own frame and are merged with the lock operation that follows them.      *)
(*                                                                         *)
(* Message contents, user names, chat flags, the Enter broadcast (module    *)
(* Lobby) and the rules of the games (modules Hearts and Spades) are not    *)
(* here: a session is known by the ID of the game it was made for.          *)
(***************************************************************************)
EXTENDS Integers, FiniteSets

CONSTANTS
    Player,        \* connections the server accepts
    Game,          \* the game definitions of gameRegistry
    SeatsOf,       \* GameDefinition.Seats
    Asks,          \* Asks[p]: the games whose service p's client may ask for
    NumTables,     \* len(Room.tables)
    MaxSeats,      \* seats a table is created with, Room.numSeats
    NoPlayer,      \* the nil *Player
    NoGame,        \* the nil *GameDefinition
    MaxRequests,   \* bound: room messages clients send in their message loops
    Polite         \* players whose client asks for a seat only when it has none

ASSUME ConstantsAssumption ==
    /\ SeatsOf \in [Game -> Nat \ {0}]
    /\ Asks \in [Player -> SUBSET Game]
    /\ NumTables \in Nat \ {0}
    /\ MaxSeats \in Nat \ {0}
    /\ MaxRequests \in Nat
    /\ Polite \subseteq Player
    /\ NoPlayer \notin Player
    /\ NoGame \notin Game

Tables == 0 .. NumTables - 1
NoTable == -1                    \* the nil *Table
NoSeat == -1                     \* Player.Seat of a new player
Nobody == 0                      \* no game ID, no session: GameID 0, Session nil

VARIABLES
    \* Room
    mu,          \* who write-locks Room.mu, or NoPlayer
    players,     \* Room.players
    nextGameID,  \* Room.nextGameID
    \* Table
    cap,         \* cap[t]: len(Table.Seats)
    seats,       \* seats[t][s]: Table.Seats[s]
    def,         \* Table.Definition
    gameID,      \* Table.GameID
    session,     \* Table.Session: the ID of the game it was made for, or Nobody
    status,      \* Table.Status: 0 idle, 1 gaming
    \* Player
    gameDef,     \* Player.GameDef
    at,          \* Player.Table
    seat,        \* Player.Seat
    open,        \* the server has not closed Player.Conn
    \* the frame of the player's goroutine
    pc,
    booted,      \* it has entered HandlePlayer
    table,       \* bestTable, then the table FindSeat returned
    count,       \* bestCount
    idx,         \* the loop variable of the loop it is in
    gid,         \* the game ID it was given by NextGameID
    opp,         \* the opponent it read and has not dealt with yet
    \* the bound on requests, what clients were told, the fate of the process
    requests,    \* room messages the clients have sent
    told,        \* told[p]: game ID of the last StartGameM since p sat down
    crashed      \* a method was called on a nil Session

roomVars   == <<mu, players, nextGameID>>
tableVars  == <<cap, seats, def, gameID, session, status>>
playerVars == <<gameDef, at, seat>>
frameVars  == <<booted, table, count, idx, gid, opp>>
ghostVars  == <<requests, told, crashed>>
vars == <<roomVars, tableVars, playerVars, open, pc, frameVars, ghostVars>>

-----------------------------------------------------------------------------
(* State formulae the handlers share *)

\* Where a goroutine can stand.  In Finding it holds Room.mu; in Starting it
\* has been seated by FindSeat and has not finished acting on that seat.
Finding  == {"scan", "sit", "empty"}
Starting == {"respond", "seated", "nextID", "start", "tell"}
Leaving  == {"leave", "remove"}
Places   == Finding \cup Starting \cup Leaving \cup
            {"new", "greet", "loop", "unseat", "closeOpp", "deliver", "done"}

SeatIdx(t) == 0 .. cap[t] - 1
Sitters(t) == {q \in Player : \E s \in SeatIdx(t) : seats[t][s] = q}
Taken(t)   == {s \in SeatIdx(t) : seats[t][s] # NoPlayer}
Full(t)    == \A s \in SeatIdx(t) : seats[t][s] # NoPlayer
Sits(p)    == at[p] \in Tables /\ p \in Sitters(at[p])

Goto(p, where) == pc' = [pc EXCEPT ![p] = where]

\* The message loop has a message to dispatch.
Spend(p) == /\ pc[p] = "loop"
            /\ requests < MaxRequests
            /\ requests' = requests + 1

\* Table.Opponent: the other seat of a two-seat table, else the first other
\* seat that is taken.  i is a seat number, possibly of another time.
Opponent(t, i) ==
    IF cap[t] = 2
    THEN seats[t][(i + 1) % 2]
    ELSE LET others == {s \in Taken(t) : s # i}
         IN IF others = {} THEN NoPlayer
            ELSE seats[t][CHOOSE s \in others : \A r \in others : s <= r]

\* sitDownLocked's conditions on table t once it has n seats laid out as row.
CanSit(p, t, row, n, s) ==
    /\ s < n
    /\ def[t] \in {NoGame, gameDef[p]}
    /\ row[s] = NoPlayer

\* Mutant of SitDown: Player.Seat is not set.
SitDownKeepsSeat(p, t, row, n, s) ==
    /\ cap' = [cap EXCEPT ![t] = n]
    /\ seats' = [seats EXCEPT ![t] = [row EXCEPT ![s] = p]]
    /\ def' = [def EXCEPT ![t] = gameDef[p]]
    /\ at' = [at EXCEPT ![p] = t]
    /\ seat' = seat
    /\ told' = [told EXCEPT ![p] = Nobody]

\* sitDownLocked's effect.
SitDown(p, t, row, n, s) ==
    /\ cap' = [cap EXCEPT ![t] = n]
    /\ seats' = [seats EXCEPT ![t] = [row EXCEPT ![s] = p]]
    /\ def' = [def EXCEPT ![t] = gameDef[p]]
    /\ at' = [at EXCEPT ![p] = t]
    /\ seat' = [seat EXCEPT ![p] = s]
    /\ told' = [told EXCEPT ![p] = Nobody]

\* Mutant of Vacated: clear the seat p remembers instead of the seats p is on.
VacatedBySeat(t, p) ==
    [s \in SeatIdx(t) |-> IF s = seat[p] THEN NoPlayer ELSE seats[t][s]]

\* Table.RemovePlayer clears every seat of p...
Vacated(t, p) ==
    [s \in SeatIdx(t) |-> IF seats[t][s] = p THEN NoPlayer ELSE seats[t][s]]

\* Mutant of TableRemovePlayer: an empty table keeps its definition.
TableRemoveKeepsDefinition(t, p) ==
    LET row   == Vacated(t, p)
        empty == \A s \in SeatIdx(t) : row[s] = NoPlayer
    IN /\ seats' = [seats EXCEPT ![t] = row]
       /\ status' = IF empty THEN [status EXCEPT ![t] = 0] ELSE status
       /\ session' = IF empty THEN [session EXCEPT ![t] = Nobody] ELSE session
       /\ gameID' = IF empty THEN [gameID EXCEPT ![t] = Nobody] ELSE gameID
       /\ UNCHANGED <<def, cap>>

\* Mutant of TableRemovePlayer: whoever leaves ends the session.
TableRemoveEndsSession(t, p) ==
    /\ seats' = [seats EXCEPT ![t] = Vacated(t, p)]
    /\ status' = [status EXCEPT ![t] = 0]
    /\ session' = [session EXCEPT ![t] = Nobody]
    /\ gameID' = [gameID EXCEPT ![t] = Nobody]
    /\ def' = IF Sitters(t) \subseteq {p} THEN [def EXCEPT ![t] = NoGame] ELSE def
    /\ cap' = cap

\* ... and makes a table that is empty now idle.
TableRemovePlayer(t, p) ==
    LET row   == Vacated(t, p)
        empty == \A s \in SeatIdx(t) : row[s] = NoPlayer
    IN /\ seats' = [seats EXCEPT ![t] = row]
       /\ status' = IF empty THEN [status EXCEPT ![t] = 0] ELSE status
       /\ session' = IF empty THEN [session EXCEPT ![t] = Nobody] ELSE session
       /\ gameID' = IF empty THEN [gameID EXCEPT ![t] = Nobody] ELSE gameID
       /\ def' = IF empty THEN [def EXCEPT ![t] = NoGame] ELSE def
       /\ cap' = cap

-----------------------------------------------------------------------------
(* handleConn up to the first FindSeat *)

\* The service named a registered game; the player is added to the room.
AddPlayer(p) ==
    /\ pc[p] = "new"
    /\ mu = NoPlayer
    /\ players' = players \cup {p}
    /\ \E g \in Asks[p] : gameDef' = [gameDef EXCEPT ![p] = g]
    /\ Goto(p, "greet")
    /\ UNCHANGED <<mu, nextGameID, tableVars, at, seat, open, frameVars, ghostVars>>

\* ZUserIDResponse or ServerStatus cannot be sent: handleConn returns, its deferred Close runs,
\* RemovePlayer does not.
GreetFails(p) ==
    /\ pc[p] = "greet"
    /\ open' = [open EXCEPT ![p] = FALSE]
    /\ Goto(p, "done")
    /\ UNCHANGED <<roomVars, tableVars, playerVars, frameVars, ghostVars>>

-----------------------------------------------------------------------------
(* FindSeat, holding Room.mu from the first step to the last *)

BeginFindSeat(p) ==
    /\ mu = NoPlayer
    /\ mu' = p
    /\ table' = [table EXCEPT ![p] = NoTable]
    /\ count' = [count EXCEPT ![p] = 0]
    /\ idx' = [idx EXCEPT ![p] = 0]
    /\ Goto(p, "scan")
    /\ UNCHANGED <<players, nextGameID, tableVars, playerVars, open,
                   booted, gid, opp, told, crashed>>

\* handleConn, once ZUserIDResponse, the Enter broadcast and ServerStatus are
\* out; the last two take Room.mu for reading and give it back.
AutoSeat(p) ==
    /\ pc[p] = "greet"
    /\ BeginFindSeat(p)
    /\ UNCHANGED requests

\* handleSeatRequest, for SitDown and QuickJoin.
RequestSeat(p) ==
    /\ Spend(p)
    /\ p \in Polite => ~Sits(p)
    /\ BeginFindSeat(p)

\* Mutant of HasRoom: a full table counts as one with room.
HasRoomWhenFull(p, t) ==
    LET seated == Cardinality(Taken(t))
    IN /\ def[t] \in {NoGame, gameDef[p]}
       /\ 0 < seated /\ seated <= SeatsOf[gameDef[p]]
       /\ cap[t] >= SeatsOf[gameDef[p]]

\* A table of p's game, or of none, with somebody there and room for p.
HasRoom(p, t) ==
    LET needed == SeatsOf[gameDef[p]]
        seated == Cardinality(Taken(t))
    IN /\ def[t] \in {NoGame, gameDef[p]}
       /\ 0 < seated /\ seated < needed
       /\ cap[t] >= needed

\* First pass, one table per step: remember the fullest table with room.
ScanTable(p) ==
    /\ pc[p] = "scan"
    /\ LET t == idx[p]
           better == HasRoom(p, t) /\ Cardinality(Taken(t)) > count[p]
           best   == IF better THEN t ELSE table[p]
           last   == t + 1 \notin Tables
       IN /\ table' = [table EXCEPT ![p] = best]
          /\ count' = [count EXCEPT ![p] =
                          IF last THEN 0
                          ELSE IF better THEN Cardinality(Taken(t)) ELSE @]
          /\ idx' = [idx EXCEPT ![p] = IF last THEN 0 ELSE @ + 1]
          /\ Goto(p, IF ~last THEN "scan"
                     ELSE IF best = NoTable THEN "empty" ELSE "sit")
    /\ UNCHANGED <<roomVars, tableVars, playerVars, open, booted, gid, opp, ghostVars>>

\* Only handleSeatRequest answers the client: handleConn does not.
AfterFindSeat(p) == IF booted[p] THEN "respond" ELSE "seated"

\* The seats of the best table as this pass lays them out: resized to the
\* game's number, keeping who sits on the seats that remain.
Resized(t, n) ==
    [s \in 0 .. n - 1 |-> IF s \in SeatIdx(t) THEN seats[t][s] ELSE NoPlayer]

\* Lock the best table again and take its first free seat.
SitAtBest(p) ==
    /\ pc[p] = "sit"
    /\ LET t      == table[p]
           needed == SeatsOf[gameDef[p]]
           row    == Resized(t, needed)
           free   == {s \in 0 .. needed - 1 : CanSit(p, t, row, needed, s)}
       IN IF free # {}
          THEN /\ SitDown(p, t, row, needed,
                          CHOOSE s \in free : \A r \in free : s <= r)
               /\ mu' = NoPlayer
               /\ Goto(p, AfterFindSeat(p))
               /\ UNCHANGED <<gameID, session, status>>
          ELSE /\ cap' = [cap EXCEPT ![t] = needed]
               /\ seats' = [seats EXCEPT ![t] = row]
               /\ Goto(p, "empty")
               /\ UNCHANGED <<mu, def, gameID, session, status, at, seat, told>>
    /\ UNCHANGED <<players, nextGameID, gameDef, open, frameVars, requests, crashed>>

\* Mutant of FreshRow: the new length is noted, the old seats are kept.
FreshRowForgotten(t, n) == seats[t]

\* The seats of table t as the second pass lays them out: made anew, without
\* looking at who sits there, when their number is not the game's.
FreshRow(t, n) ==
    IF cap[t] = n THEN seats[t] ELSE [s \in 0 .. n - 1 |-> NoPlayer]

\* Second pass, one table per step: seat 0 of a table of p's game or of none.
TryEmptyTable(p) ==
    /\ pc[p] = "empty"
    /\ idx[p] \in Tables
    /\ LET t      == idx[p]
           needed == SeatsOf[gameDef[p]]
           row    == FreshRow(t, needed)
       IN \/ /\ def[t] \in {NoGame, gameDef[p]}
             /\ CanSit(p, t, row, needed, 0)
             /\ SitDown(p, t, row, needed, 0)
             /\ mu' = NoPlayer
             /\ table' = [table EXCEPT ![p] = t]
             /\ idx' = [idx EXCEPT ![p] = 0]
             /\ Goto(p, AfterFindSeat(p))
          \/ /\ def[t] \notin {NoGame, gameDef[p]} \/ ~CanSit(p, t, row, needed, 0)
             /\ IF def[t] \in {NoGame, gameDef[p]}
                THEN /\ cap' = [cap EXCEPT ![t] = needed]
                     /\ seats' = [seats EXCEPT ![t] = row]
                ELSE UNCHANGED <<cap, seats>>
             /\ idx' = [idx EXCEPT ![p] = @ + 1]
             /\ UNCHANGED <<mu, def, at, seat, table, pc, told>>
    /\ UNCHANGED <<players, nextGameID, gameID, session, status, gameDef, open,
                   booted, count, gid, opp, requests, crashed>>

\* No table: handleConn returns; handleSeatRequest sends Denied, and the loop
\* ends if that fails.
NoTableAvailable(p) ==
    /\ pc[p] = "empty"
    /\ idx[p] \notin Tables
    /\ mu' = NoPlayer
    /\ idx' = [idx EXCEPT ![p] = 0]
    /\ table' = [table EXCEPT ![p] = NoTable]
    /\ \/ ~booted[p] /\ open' = [open EXCEPT ![p] = FALSE] /\ Goto(p, "done")
       \/ booted[p] /\ open[p] /\ Goto(p, "loop") /\ UNCHANGED open
       \/ booted[p] /\ Goto(p, "leave") /\ UNCHANGED open
    /\ UNCHANGED <<players, nextGameID, tableVars, playerVars,
                   booted, count, gid, opp, ghostVars>>

-----------------------------------------------------------------------------
(* Starting a game: AllSeated, NextGameID, StartGame, SendStartGameMessages *)

\* handleSeatRequest answers with a SeatResponse before it goes on.  If that
\* cannot be sent it returns the error, which ends the message loop.
SeatResponse(p) ==
    /\ pc[p] = "respond"
    /\ \/ open[p] /\ Goto(p, "seated") /\ UNCHANGED table
       \/ Goto(p, "leave") /\ table' = [table EXCEPT ![p] = NoTable]
    /\ UNCHANGED <<roomVars, tableVars, playerVars, open,
                   booted, count, idx, gid, opp, ghostVars>>

EnterLoop(p) ==
    /\ Goto(p, "loop")
    /\ booted' = [booted EXCEPT ![p] = TRUE]
    /\ table' = [table EXCEPT ![p] = NoTable]
    /\ idx' = [idx EXCEPT ![p] = 0]
    /\ gid' = [gid EXCEPT ![p] = Nobody]

\* Mutant of AllSeated: seats are counted against the room's, not the game's.
AllSeatedOfMax(p) ==
    /\ pc[p] = "seated"
    /\ IF Cardinality(Taken(table[p])) = MaxSeats
       THEN Goto(p, "nextID") /\ UNCHANGED <<booted, table, idx, gid>>
       ELSE EnterLoop(p)
    /\ UNCHANGED <<roomVars, tableVars, playerVars, open, count, opp, ghostVars>>

\* Mutant of AllSeated: one player is enough.
AllSeatedAtOne(p) ==
    /\ pc[p] = "seated"
    /\ Goto(p, "nextID")
    /\ UNCHANGED <<roomVars, tableVars, playerVars, open, frameVars, ghostVars>>

\* AllSeated, under the table's lock.
AllSeated(p) ==
    /\ pc[p] = "seated"
    /\ IF Full(table[p])
       THEN Goto(p, "nextID") /\ UNCHANGED <<booted, table, idx, gid>>
       ELSE EnterLoop(p)
    /\ UNCHANGED <<roomVars, tableVars, playerVars, open, count, opp, ghostVars>>

\* Mutant of NextGameID: the counter is read but not advanced.
NextGameIDAgain(p) ==
    /\ pc[p] = "nextID"
    /\ mu = NoPlayer
    /\ gid' = [gid EXCEPT ![p] = nextGameID]
    /\ Goto(p, "start")
    /\ UNCHANGED <<roomVars, tableVars, playerVars, open,
                   booted, table, count, idx, opp, ghostVars>>

NextGameID(p) ==
    /\ pc[p] = "nextID"
    /\ mu = NoPlayer
    /\ gid' = [gid EXCEPT ![p] = nextGameID]
    /\ nextGameID' = nextGameID + 1
    /\ Goto(p, "start")
    /\ UNCHANGED <<mu, players, tableVars, playerVars, open,
                   booted, table, count, idx, opp, ghostVars>>

StartGame(p) ==
    /\ pc[p] = "start"
    /\ LET t == table[p]
       IN /\ gameID' = [gameID EXCEPT ![t] = gid[p]]
          /\ session' = IF def[t] # NoGame THEN [session EXCEPT ![t] = gid[p]]
                        ELSE session
          /\ status' = [status EXCEPT ![t] = 1]
    /\ idx' = [idx EXCEPT ![p] = 0]
    /\ Goto(p, "tell")
    /\ UNCHANGED <<roomVars, cap, seats, def, playerVars, open,
                   booted, table, count, gid, opp, ghostVars>>

\* One StartGameM, to whoever is on seat idx now; a failed send is only logged.
\* After the last one the goroutine goes on to its message loop.
SendStartGameM(p) ==
    /\ pc[p] = "tell"
    /\ LET pl == seats[table[p]][idx[p]]
       IN told' = IF pl = NoPlayer THEN told ELSE [told EXCEPT ![pl] = gid[p]]
    /\ IF idx[p] + 1 \in SeatIdx(table[p])
       THEN /\ idx' = [idx EXCEPT ![p] = @ + 1]
            /\ UNCHANGED <<pc, booted, table, gid>>
       ELSE EnterLoop(p)
    /\ UNCHANGED <<roomVars, tableVars, playerVars, open, count, opp,
                   requests, crashed>>

-----------------------------------------------------------------------------
(* HandlePlayer: the messages a client sends.  Messages already read are     *)
(* dispatched even if the connection has been closed since.                  *)

\* LeaveTable: read the opponent, vacate the seat, close the opponent's
\* connection.  Player.Table and Player.Seat stay as they are.
LeaveTable(p) ==
    /\ Spend(p)
    /\ at[p] # NoTable
    /\ opp' = [opp EXCEPT ![p] = Opponent(at[p], seat[p])]
    /\ Goto(p, "unseat")
    /\ UNCHANGED <<roomVars, tableVars, playerVars, open,
                   booted, table, count, idx, gid, told, crashed>>

Unseat(p) ==
    /\ pc[p] = "unseat"
    /\ TableRemovePlayer(at[p], p)
    /\ Goto(p, IF opp[p] = NoPlayer THEN "loop" ELSE "closeOpp")
    /\ UNCHANGED <<roomVars, playerVars, open, frameVars, ghostVars>>

CloseOpponent(p) ==
    /\ pc[p] = "closeOpp"
    /\ open' = [open EXCEPT ![opp[p]] = FALSE]
    /\ opp' = [opp EXCEPT ![p] = NoPlayer]
    /\ Goto(p, "loop")
    /\ UNCHANGED <<roomVars, tableVars, playerVars,
                   booted, table, count, idx, gid, ghostVars>>

\* handleGameMessage finds a table with a session...
GameMessage(p) ==
    /\ Spend(p)
    /\ at[p] # NoTable
    /\ session[at[p]] # Nobody
    /\ Goto(p, "deliver")
    /\ UNCHANGED <<roomVars, tableVars, playerVars, open,
                   booted, table, count, idx, gid, opp, told, crashed>>

\* ... and reads the session again to call it, without a lock in between.
\* The session handles the message or returns an error.
Deliver(p) ==
    /\ pc[p] = "deliver"
    /\ IF session[at[p]] = Nobody
       THEN crashed' = TRUE /\ UNCHANGED pc
       ELSE /\ Goto(p, "loop") \/ Goto(p, "leave")
            /\ UNCHANGED crashed
    /\ UNCHANGED <<roomVars, tableVars, playerVars, open, frameVars, requests, told>>

-----------------------------------------------------------------------------
(* HandlePlayer's deferred cleanup *)

\* It reads the opponent first.
FindOpponent(p) ==
    /\ opp' = [opp EXCEPT ![p] = IF at[p] = NoTable THEN NoPlayer
                                 ELSE Opponent(at[p], seat[p])]
    /\ Goto(p, "remove")
    /\ UNCHANGED <<roomVars, tableVars, playerVars, open,
                   booted, table, count, idx, gid, ghostVars>>

\* The read failed: the client went away or the server closed the connection.
\* A Pong that cannot be sent ends the loop in the same way.
ReadFails(p) == pc[p] = "loop" /\ FindOpponent(p)

\* A handler returned an error.
DispatchFails(p) == pc[p] = "leave" /\ FindOpponent(p)

\* Mutant of RemovePlayer: the player is deleted from the room only.
RemoveFromRoomOnly(p) ==
    /\ pc[p] = "remove"
    /\ mu = NoPlayer
    /\ players' = players \ {p}
    /\ at' = [at EXCEPT ![p] = NoTable]
    /\ seat' = [seat EXCEPT ![p] = NoSeat]
    /\ opp' = [opp EXCEPT ![p] = NoPlayer]
    /\ open' = [open EXCEPT ![p] = FALSE]
    /\ told' = [told EXCEPT ![p] = Nobody]
    /\ Goto(p, "done")
    /\ UNCHANGED <<mu, nextGameID, tableVars, gameDef,
                   booted, table, count, idx, gid, requests, crashed>>

\* notifyOpponentLeft to the opponent read above, if there was one, then
\* Room.RemovePlayer under both locks, then Conn.Close.  Only p's goroutine
\* read p.Table and p.Seat once p has left Room.players: they are forgotten.
RemovePlayer(p) ==
    /\ pc[p] = "remove"
    /\ mu = NoPlayer
    /\ IF at[p] # NoTable THEN TableRemovePlayer(at[p], p)
       ELSE UNCHANGED tableVars
    /\ players' = players \ {p}
    /\ at' = [at EXCEPT ![p] = NoTable]
    /\ seat' = [seat EXCEPT ![p] = NoSeat]
    /\ opp' = [opp EXCEPT ![p] = NoPlayer]
    /\ open' = [open EXCEPT ![p] = FALSE]
    /\ told' = [told EXCEPT ![p] = Nobody]
    /\ Goto(p, "done")
    /\ UNCHANGED <<mu, nextGameID, gameDef,
                   booted, table, count, idx, gid, requests, crashed>>

-----------------------------------------------------------------------------
Init ==
    /\ mu = NoPlayer
    /\ players = {}
    /\ nextGameID = 1
    /\ cap = [t \in Tables |-> MaxSeats]
    /\ seats = [t \in Tables |-> [s \in 0 .. MaxSeats - 1 |-> NoPlayer]]
    /\ def = [t \in Tables |-> NoGame]
    /\ gameID = [t \in Tables |-> Nobody]
    /\ session = [t \in Tables |-> Nobody]
    /\ status = [t \in Tables |-> 0]
    /\ gameDef = [p \in Player |-> NoGame]
    /\ at = [p \in Player |-> NoTable]
    /\ seat = [p \in Player |-> NoSeat]
    /\ open = [p \in Player |-> TRUE]
    /\ pc = [p \in Player |-> "new"]
    /\ booted = [p \in Player |-> FALSE]
    /\ table = [p \in Player |-> NoTable]
    /\ count = [p \in Player |-> 0]
    /\ idx = [p \in Player |-> 0]
    /\ gid = [p \in Player |-> Nobody]
    /\ opp = [p \in Player |-> NoPlayer]
    /\ requests = 0
    /\ told = [p \in Player |-> Nobody]
    /\ crashed = FALSE

\* Steps a goroutine takes without waiting for its client.
Proceed(p) ==
    \/ AutoSeat(p) \/ GreetFails(p) \/ ScanTable(p) \/ SitAtBest(p)
    \/ TryEmptyTable(p) \/ NoTableAvailable(p)
    \/ SeatResponse(p) \/ AllSeated(p)
    \/ NextGameID(p) \/ StartGame(p) \/ SendStartGameM(p)
    \/ Unseat(p) \/ CloseOpponent(p) \/ Deliver(p)
    \/ DispatchFails(p) \/ RemovePlayer(p)

\* What a client does, when it pleases.
Client(p) ==
    \/ AddPlayer(p) \/ RequestSeat(p) \/ LeaveTable(p) \/ GameMessage(p)
    \/ ReadFails(p)

\* The process has crashed, or every connection has been served.
Stopped ==
    /\ crashed \/ \A p \in Player : pc[p] = "done"
    /\ UNCHANGED vars

Next ==
    \/ ~crashed /\ \E p \in Player : Proceed(p) \/ Client(p)
    \/ Stopped

Spec == Init /\ [][Next]_vars

\* A goroutine that can run does; one whose connection the server has closed
\* gets an error from its next read.
Fairness ==
    \A p \in Player :
        /\ WF_vars(~crashed /\ Proceed(p))
        /\ WF_vars(~crashed /\ ~open[p] /\ ReadFails(p))

FairSpec == Spec /\ Fairness

-----------------------------------------------------------------------------
(* Type correctness *)

Row(n) == [0 .. n - 1 -> Player \cup {NoPlayer}]

\* Every variable has its type; a table's seats are as many as cap says.
TypeOK ==
    /\ mu \in Player \cup {NoPlayer}
    /\ players \subseteq Player
    /\ nextGameID \in Nat \ {0}
    /\ cap \in [Tables -> Nat \ {0}]
    /\ DOMAIN seats = Tables
    /\ \A t \in Tables : seats[t] \in Row(cap[t])
    /\ def \in [Tables -> Game \cup {NoGame}]
    /\ gameID \in [Tables -> Nat]
    /\ session \in [Tables -> Nat]
    /\ status \in [Tables -> {0, 1}]
    /\ gameDef \in [Player -> Game \cup {NoGame}]
    /\ at \in [Player -> Tables \cup {NoTable}]
    /\ seat \in [Player -> Nat \cup {NoSeat}]
    /\ open \in [Player -> BOOLEAN]
    /\ pc \in [Player -> Places]
    /\ booted \in [Player -> BOOLEAN]
    /\ table \in [Player -> Tables \cup {NoTable}]
    /\ count \in [Player -> Nat]
    /\ idx \in [Player -> Nat]
    /\ gid \in [Player -> Nat]
    /\ opp \in [Player -> Player \cup {NoPlayer}]
    /\ requests \in Nat
    /\ told \in [Player -> Nat]
    /\ crashed \in BOOLEAN

-----------------------------------------------------------------------------
(* Safety, whatever the clients send *)

\* A table's definition, size, session, ID and status always fit the players on
\* it: a table is without definition exactly when nobody sits there, and is then
\* idle; else it has its game's number of seats and everyone there asked for
\* that game.  (FindSeat resizes, StartGame and RemovePlayer set the rest, each
\* in a critical section of its own.)
TableCoherent ==
    \A t \in Tables :
        IF def[t] = NoGame
        THEN /\ Sitters(t) = {}
             /\ status[t] = 0 /\ session[t] = Nobody /\ gameID[t] = Nobody
        ELSE /\ Sitters(t) # {}
             /\ cap[t] = SeatsOf[def[t]]
             /\ \A q \in Sitters(t) : gameDef[q] = def[t]
             /\ session[t] = gameID[t]
             /\ status[t] = 1 <=> session[t] # Nobody

\* From the moment FindSeat returns until the goroutine is done starting the
\* game, its player is on the seat it was given, although AllSeated, NextGameID,
\* StartGame and the StartGameM loop lock and unlock in between and other
\* goroutines join and leave the table meanwhile.
StarterStays ==
    \A p \in Player :
        pc[p] \in Starting =>
            /\ at[p] = table[p] /\ table[p] \in Tables
            /\ seat[p] \in SeatIdx(table[p])
            /\ seats[table[p]][seat[p]] = p

\* The table the first pass of FindSeat chose still has a seat for the player
\* when FindSeat locks it again: it released Table.mu in between and
\* handleSeatRequest's LeaveTable does not wait for Room.mu.
BestStillHasRoom ==
    \A p \in Player :
        pc[p] \in {"scan", "sit"} /\ table[p] # NoTable =>
            /\ def[table[p]] \in {NoGame, gameDef[p]}
            /\ \E s \in SeatIdx(table[p]) :
                    /\ s < SeatsOf[gameDef[p]]
                    /\ seats[table[p]][s] = NoPlayer

\* handleGameMessage calls Session after checking it without a lock; for a
\* player who still sits at the table the session cannot have gone in between.
SeatedSessionLives ==
    \A p \in Player :
        pc[p] = "deliver" /\ Sits(p) => session[at[p]] # Nobody

\* No two tables run the same game, and no game ID is given out twice.
GameIDsUnique ==
    /\ \A t, u \in Tables : gameID[t] = gameID[u] /\ gameID[t] # Nobody => t = u
    /\ \A p, q \in Player : gid[p] = gid[q] /\ gid[p] # Nobody => p = q
    /\ \A t \in Tables : gameID[t] < nextGameID

\* Only a player's own goroutine ever takes the player off a table, and only to
\* leave it: no resize in FindSeat, no other player's cleanup does.
OnlyOwnerVacates ==
    [][\A p \in Player, t \in Tables :
          p \in Sitters(t) /\ p \notin Sitters(t)' => pc[p] \in {"unseat", "remove"}]_vars

-----------------------------------------------------------------------------
(* Safety for the players whose clients ask for a seat only if they have none *)

\* A player sits on one seat at most, the one its Player struct names.
OneSeatEach ==
    \A p \in Polite, t \in Tables : \A s \in SeatIdx(t) :
        seats[t][s] = p => at[p] = t /\ seat[p] = s

\* Whoever sits at a table is in Room.players and its goroutine will still
\* run RemovePlayer: no seat is left to a connection that is gone.
NoGhostSeat ==
    \A t \in Tables : \A p \in Sitters(t) \cap Polite :
        p \in players /\ pc[p] \in Starting \cup Leaving \cup
                                   {"loop", "unseat", "deliver"}

-----------------------------------------------------------------------------
(* Liveness *)

\* If every seat of a player's table is taken, then the player is told of a
\* game, unless somebody leaves first: of the goroutines that sat down last, one
\* at least sees AllSeated.
FullTableStarts ==
    \A p \in Player :
        (Sits(p) /\ Full(at[p])) ~>
            (crashed \/ ~Sits(p) \/ ~Full(at[p]) \/ told[p] # Nobody)

\* A connection the server closed (LeaveTable closes the opponent's) is cleaned
\* up: its goroutine ends and its player is out of the room.
ClosedIsCleanedUp ==
    \A p \in Player : ~open[p] ~> 
            (crashed \/ (pc[p] = "done" /\ \A t \in Tables : p \notin Sitters(t)))

-----------------------------------------------------------------------------
(* What the room promises: the mapping to Matchmaking *)

\* A goroutine that has seen the table full is about to start its game.
AboutToStart(t) == \E p \in Player : pc[p] \in {"nextID", "start"} /\ table[p] = t

\* A table is called from the moment its last seat is taken, for as long as it
\* is full or somebody who saw it full is about to start the game, or has.
Called(t) == Full(t) \/ status[t] = 1 \/ AboutToStart(t)

Abstract == INSTANCE Matchmaking WITH
    Table   <- Tables,
    party   <- [t \in Tables |-> Sitters(t)],
    kind    <- def,
    called  <- [t \in Tables |-> Called(t)],
    playing <- [t \in Tables |-> status[t] = 1],
    up      <- ~crashed

\* The room as a whole does what Matchmaking promises (AddPlayer to
\* RemovePlayer, FindSeat and StartGame, seen from the players).
ImplementsMatchmaking == Abstract!Spec

-----------------------------------------------------------------------------
(* What comments and messages of the code say, and the code does not do *)

\* "game message but no table/session": no message reaches a nil session.
NoNilSession == ~crashed

\* "RemovePlayer removes a player from the room and any table."
RemovedFromAnyTable ==
    [][\A p \in Player :
          p \in players /\ p \notin players' =>
              \A t \in Tables : p \notin Sitters(t)']_vars
=============================================================================
