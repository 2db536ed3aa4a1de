--------------------------- MODULE RoomSeatProofs ---------------------------
(***************************************************************************)
(* Proofs about Room, continued: the game IDs, and the seats of the players *)
(* whose clients ask for a seat only if they have none.  Both invariants    *)
(* rest on FrameInv, the first layer of RoomProofs, and not on each other.  *)
(* With them, the room does what Matchmaking promises.                      *)
(***************************************************************************)
EXTENDS RoomProofs

-----------------------------------------------------------------------------
(* Game IDs *)

\* An ID is below the counter from the moment NextGameID returns it, and no
\* table has it until the goroutine that fetched it has run StartGame.
IDInv ==
    /\ GameIDsUnique
    /\ \A p \in Player : gid[p] < nextGameID
    /\ \A p \in Player, t \in Tables : pc[p] = "start" => gameID[t] # gid[p]

\* A step that fetches no ID and starts no game keeps it: a table's ID and a
\* goroutine's can only be forgotten.
LEMMA ForgetIDs ==
    ASSUME FrameInv, IDInv, nextGameID' = nextGameID,
           \A t \in Tables : gameID'[t] \in {gameID[t], Nobody},
           \A p \in Player : gid'[p] \in {gid[p], Nobody},
           \A p \in Player : pc'[p] = "start" => pc[p] = "start" /\ gid'[p] = gid[p]
    PROVE  IDInv'
<1>1. GameIDsUnique'
    <2>1. nextGameID \in Nat /\ nextGameID > 0
        BY DEF FrameInv, TypeOK
    <2>2. \A t \in Tables : gameID'[t] < nextGameID'
        BY <2>1 DEF IDInv, GameIDsUnique, Nobody
    <2>3. \A t, u \in Tables : gameID'[t] = gameID'[u] /\ gameID'[t] # Nobody => t = u
        BY DEF IDInv, GameIDsUnique
    <2>4. \A p, q \in Player : gid'[p] = gid'[q] /\ gid'[p] # Nobody => p = q
        BY DEF IDInv, GameIDsUnique
    <2> QED
        BY <2>2, <2>3, <2>4 DEF GameIDsUnique
<1>2. \A p \in Player : gid'[p] < nextGameID'
    BY DEF IDInv, FrameInv, TypeOK, Nobody
<1>3. \A p \in Player, t \in Tables : pc'[p] = "start" => gameID'[t] # gid'[p]
    BY DEF IDInv, FrameInv, TypeOK, LocalInv, Nobody
<1> QED
    BY <1>1, <1>2, <1>3 DEF IDInv

LEMMA IDInit == Init => IDInv
BY ConstantsAssumption DEF Init, IDInv, GameIDsUnique, Nobody

LEMMA IDStep == FrameInv /\ IDInv /\ [Next]_vars => IDInv'
<1> SUFFICES ASSUME FrameInv, IDInv, [Next]_vars PROVE IDInv'
    OBVIOUS
<1> USE DEF FrameInv
<1>1. CASE UNCHANGED vars
    BY <1>1, ForgetIDs DEF vars, roomVars, tableVars, frameVars
<1>2. ASSUME NEW p \in Player, NextGameID(p) PROVE IDInv'
    <2>1. /\ gid' = [gid EXCEPT ![p] = nextGameID] /\ nextGameID' = nextGameID + 1
          /\ pc' = [pc EXCEPT ![p] = "start"] /\ gameID' = gameID
        BY <1>2 DEF NextGameID, Goto, tableVars
    <2>2. GameIDsUnique'
        BY <2>1 DEF IDInv, GameIDsUnique, TypeOK
    <2>3. \A q \in Player : gid'[q] < nextGameID'
        BY <2>1 DEF IDInv, TypeOK
    <2>4. \A q \in Player, t \in Tables : pc'[q] = "start" => gameID'[t] # gid'[q]
        BY <2>1 DEF IDInv, GameIDsUnique, TypeOK
    <2> QED
        BY <2>2, <2>3, <2>4 DEF IDInv
<1>3. ASSUME NEW p \in Player, StartGame(p) PROVE IDInv'
    <2>1. /\ gameID' = [gameID EXCEPT ![table[p]] = gid[p]]
          /\ pc[p] = "start" /\ pc' = [pc EXCEPT ![p] = "tell"]
          /\ UNCHANGED <<gid, nextGameID>>
        BY <1>3 DEF StartGame, Goto, roomVars
    <2>2. GameIDsUnique'
        BY <2>1 DEF IDInv, GameIDsUnique, TypeOK
    <2>3. \A q \in Player, t \in Tables : pc'[q] = "start" => gameID'[t] # gid'[q]
        BY <2>1 DEF IDInv, GameIDsUnique, TypeOK, LocalInv, Nobody
    <2> QED
        BY <2>1, <2>2, <2>3 DEF IDInv
<1>4. ASSUME NEW p \in Player, EnterLoop(p), UNCHANGED <<nextGameID, gameID>> PROVE IDInv'
    BY <1>4, ForgetIDs DEF EnterLoop, Goto, TypeOK
<1>5. ASSUME NEW p \in Player, NEW where \in Places \ {"start"}, Goto(p, where),
             UNCHANGED <<nextGameID, gid>>,
             \A t \in Tables : gameID'[t] \in {gameID[t], Nobody}
      PROVE  IDInv'
    BY <1>5, ForgetIDs DEF Goto, TypeOK
<1>6. ASSUME NEW p \in Player, Unseat(p) \/ RemovePlayer(p) PROVE IDInv'
    <2>1. \A t \in Tables : gameID'[t] \in {gameID[t], Nobody}
        BY <1>6 DEF Unseat, RemovePlayer, TableRemovePlayer, tableVars, TypeOK
    <2>2. PICK where \in {"loop", "closeOpp", "done"} : Goto(p, where)
        BY <1>6, Zenon DEF Unseat, RemovePlayer
    <2> QED
        BY <1>5, <1>6, <2>1, <2>2 DEF Unseat, RemovePlayer, Places, roomVars, frameVars
<1>7. ASSUME NEW p \in Player, ScanTable(p) PROVE IDInv'
    <2>1. PICK where \in Finding : Goto(p, where)
        BY <1>7 DEF ScanTable, Finding
    <2> QED
        BY <1>5, <1>7, <2>1 DEF ScanTable, Finding, Places, roomVars, tableVars
<1>8. ASSUME NEW p \in Player, SitAtBest(p) \/ TryEmptyTable(p) PROVE IDInv'
    <2>1. UNCHANGED <<nextGameID, gid, gameID>>
        BY <1>8 DEF SitAtBest, TryEmptyTable, frameVars
    <2>2. AfterFindSeat(p) \in Places \ {"start"} /\ "empty" \in Places \ {"start"}
        BY AfterFindSeatPlace DEF Places, Starting, Finding
    <2>3. CASE UNCHANGED pc
        BY <2>1, <2>3, ForgetIDs
    <2>4. CASE Goto(p, AfterFindSeat(p)) \/ Goto(p, "empty")
        BY <1>5, <2>1, <2>2, <2>4
    <2> QED
        BY <1>8, <2>3, <2>4 DEF SitAtBest, TryEmptyTable
<1>9. ASSUME NEW p \in Player, AllSeated(p) \/ SendStartGameM(p) PROVE IDInv'
    <2>1. UNCHANGED <<nextGameID, gameID>>
        BY <1>9 DEF AllSeated, SendStartGameM, roomVars, tableVars
    <2>2. CASE EnterLoop(p)
        BY <1>4, <2>1, <2>2
    <2>3. CASE UNCHANGED <<pc, gid>>
        BY <2>1, <2>3, ForgetIDs
    <2>4. CASE Goto(p, "nextID") /\ UNCHANGED gid
        BY <1>5, <2>1, <2>4 DEF Places, Starting
    <2> QED
        BY <1>9, <2>2, <2>3, <2>4 DEF AllSeated, SendStartGameM
<1>10. ASSUME NEW p \in Player,
              \/ AddPlayer(p) \/ GreetFails(p) \/ AutoSeat(p) \/ RequestSeat(p)
              \/ NoTableAvailable(p) \/ SeatResponse(p) \/ LeaveTable(p)
              \/ CloseOpponent(p) \/ GameMessage(p) \/ Deliver(p)
              \/ ReadFails(p) \/ DispatchFails(p)
       PROVE  IDInv'
    <2>1. UNCHANGED <<nextGameID, gid, gameID>>
        BY <1>10 DEF AddPlayer, GreetFails, AutoSeat, RequestSeat, BeginFindSeat,
                NoTableAvailable, SeatResponse, LeaveTable, CloseOpponent, GameMessage,
                Deliver, ReadFails, DispatchFails, FindOpponent, Spend,
                roomVars, tableVars, frameVars
    <2>2. \/ UNCHANGED pc
          \/ \E where \in {"greet", "done", "scan", "loop", "leave", "seated", "unseat",
                           "deliver", "remove"} : Goto(p, where)
        BY <1>10, Zenon DEF AddPlayer, GreetFails, AutoSeat, RequestSeat, BeginFindSeat,
                NoTableAvailable, SeatResponse, LeaveTable, CloseOpponent, GameMessage,
                Deliver, ReadFails, DispatchFails, FindOpponent
    <2>3. {"greet", "done", "scan", "loop", "leave", "seated", "unseat", "deliver", "remove"}
             \subseteq Places \ {"start"}
        BY DEF Places, Finding, Starting, Leaving
    <2> QED
        BY <1>5, <2>1, <2>2, <2>3, ForgetIDs
<1> QED
    BY <1>1, <1>2, <1>3, <1>6, <1>7, <1>8, <1>9, <1>10
       DEF Next, Stopped, Proceed, Client

\* No two tables run the same game and no ID is given out twice, for any number
\* of goroutines between NextGameID and StartGame.
THEOREM IDsUnique == Spec => []GameIDsUnique
<1>1. Init => FrameInv /\ IDInv
    BY FrameInit, IDInit
<1>2. FrameInv /\ IDInv /\ [Next]_vars => (FrameInv /\ IDInv)'
    BY FrameStep, IDStep
<1>3. IDInv => GameIDsUnique
    BY DEF IDInv
<1> QED
    BY <1>1, <1>2, <1>3, PTL DEF Spec

-----------------------------------------------------------------------------
(* The seats of the polite *)

\* Where a polite player's goroutine stands while the player is on no seat.
Standing == Finding \cup {"new", "greet", "closeOpp", "done"}

\* A polite player is on the seat its Player struct names, if on any, and on none
\* when its goroutine has none to give up; between AddPlayer and the end of
\* handleConn it is in Room.players.
SeatInv ==
    /\ OneSeatEach
    /\ \A p \in Polite, t \in Tables : pc[p] \in Standing => p \notin Sitters(t)
    /\ \A p \in Player : pc[p] \notin {"new", "done"} => p \in players

LEMMA SeatInit == Init => SeatInv
<1> SUFFICES ASSUME Init PROVE SeatInv
    OBVIOUS
<1>1. \A t \in Tables : \A s \in SeatIdx(t) : seats[t][s] = NoPlayer
    BY DEF Init, SeatIdx
<1>2. \A p \in Player : p # NoPlayer /\ pc[p] = "new"
    BY ConstantsAssumption DEF Init
<1> QED
    BY <1>1, <1>2, ConstantsAssumption DEF SeatInv, OneSeatEach, Sitters

\* What a step of p has to do for its own player and leave alone of the others.
LEMMA SeatStepOf ==
    ASSUME FrameInv, SeatInv, NEW p \in Player,
           \A q \in Player \ {p} :
               pc'[q] = pc[q] /\ at'[q] = at[q] /\ seat'[q] = seat[q],
           \A q \in Player \ {p}, t \in Tables : \A s \in SeatIdx(t)' :
               seats'[t][s] = q => s \in SeatIdx(t) /\ seats[t][s] = q,
           p \in Polite =>
               \A t \in Tables : \A s \in SeatIdx(t)' : seats'[t][s] = p =>
                   at'[p] = t /\ seat'[p] = s /\ pc'[p] \notin Standing,
           players \subseteq players' \cup {p},
           pc'[p] \notin {"new", "done"} => p \in players'
    PROVE  SeatInv'
<1>1. Polite \subseteq Player
    BY ConstantsAssumption
<1>2. OneSeatEach'
    <2> SUFFICES ASSUME NEW q \in Polite, NEW t \in Tables, NEW s \in SeatIdx(t)',
                        seats'[t][s] = q
                 PROVE  at'[q] = t /\ seat'[q] = s
        BY DEF OneSeatEach
    <2>1. CASE q = p
        BY <2>1
    <2>2. CASE q # p
        BY <2>2, <1>1 DEF SeatInv, OneSeatEach
    <2> QED
        BY <2>1, <2>2
<1>3. ASSUME NEW q \in Polite, NEW t \in Tables, pc'[q] \in Standing, q \in Sitters(t)'
      PROVE  FALSE
    <2>1. PICK s \in SeatIdx(t)' : seats'[t][s] = q
        BY <1>3 DEF Sitters
    <2>2. CASE q = p
        BY <2>1, <2>2, <1>3
    <2>3. CASE q # p
        <3>1. pc[q] \in Standing /\ q \in Sitters(t)
            BY <2>1, <2>3, <1>1, <1>3 DEF Sitters
        <3> QED
            BY <3>1 DEF SeatInv
    <2> QED
        BY <2>2, <2>3
<1>4. \A q \in Player : pc'[q] \notin {"new", "done"} => q \in players'
    BY DEF SeatInv
<1> QED
    BY <1>2, <1>3, <1>4 DEF SeatInv

\* A step of p that moves nobody, and does not take p, if seated, to a place where
\* it stands.
LEMMA SameSeats ==
    ASSUME FrameInv, SeatInv, NEW p \in Player,
           UNCHANGED <<cap, seats, at, seat>>,
           \A q \in Player \ {p} : pc'[q] = pc[q],
           pc'[p] \in Standing => pc[p] \in Standing \/ p \notin Polite \/ ~Sits(p),
           players \subseteq players',
           pc'[p] \notin {"new", "done"} => pc[p] \notin {"new", "done"} \/ p \in players'
    PROVE  SeatInv'
<1>1. \A t \in Tables : SeatIdx(t)' = SeatIdx(t)
    BY DEF SeatIdx
<1>2. ASSUME p \in Polite, NEW t \in Tables, NEW s \in SeatIdx(t), seats[t][s] = p
      PROVE  at[p] = t /\ seat[p] = s /\ pc'[p] \notin Standing
    <2>1. at[p] = t /\ seat[p] = s /\ p \in Sitters(t)
        BY <1>2 DEF SeatInv, OneSeatEach, Sitters
    <2>2. Sits(p) /\ pc[p] \notin Standing
        BY <1>2, <2>1 DEF Sits, SeatInv
    <2> QED
        BY <1>2, <2>1, <2>2
<1>3. pc'[p] \notin {"new", "done"} => p \in players'
    BY DEF SeatInv
<1> QED
    BY <1>1, <1>2, <1>3, SeatStepOf

\* The rows FindSeat lays out put nobody on a seat who was not on it.
LEMMA RowsKeep ==
    ASSUME TypeOK, NEW t \in Tables, NEW n \in Nat \ {0},
           NEW row \in {Resized(t, n), FreshRow(t, n)}, NEW s \in 0 .. n - 1,
           row[s] # NoPlayer
    PROVE  s \in SeatIdx(t) /\ seats[t][s] = row[s]
BY DEF Resized, FreshRow, SeatIdx

\* p lays out a row at a table, with itself on it or not.
LEMMA LaidOut ==
    ASSUME FrameInv, SeatInv, NEW p \in Player, pc[p] \in Finding,
           NEW t \in Tables, NEW n \in Nat \ {0},
           NEW row \in {Resized(t, n), FreshRow(t, n)},
           cap' = [cap EXCEPT ![t] = n],
           \/ seats' = [seats EXCEPT ![t] = row] /\ UNCHANGED <<at, seat>>
           \/ \E s \in 0 .. n - 1 :
                /\ seats' = [seats EXCEPT ![t] = [row EXCEPT ![s] = p]]
                /\ at' = [at EXCEPT ![p] = t] /\ seat' = [seat EXCEPT ![p] = s]
                /\ pc'[p] \notin Standing,
           \A q \in Player \ {p} : pc'[q] = pc[q],
           players' = players
    PROVE  SeatInv'
<1>1. TypeOK /\ p # NoPlayer /\ NoPlayer \notin Player
    BY ConstantsAssumption DEF FrameInv
<1>2. p \in players
    BY DEF SeatInv, Finding
<1>3. SeatIdx(t)' = 0 .. n - 1
      /\ \A u \in Tables \ {t} : SeatIdx(u)' = SeatIdx(u) /\ seats'[u] = seats[u]
    BY <1>1 DEF SeatIdx, TypeOK
<1>4. p \in Polite => \A u \in Tables : \A s \in SeatIdx(u) : seats[u][s] # p
    BY DEF SeatInv, Standing, Sitters
<1>5. row \in Row(n)
    BY <1>1, RowTypes
<1>6. \A s \in 0 .. n - 1 : row[s] # NoPlayer => s \in SeatIdx(t) /\ seats[t][s] = row[s]
    BY <1>1, RowsKeep
<1>7. CASE seats' = [seats EXCEPT ![t] = row] /\ UNCHANGED <<at, seat>>
    <2>1. seats'[t] = row
        BY <1>1, <1>7 DEF TypeOK
    <2>2. \A q \in Player, u \in Tables : \A s \in SeatIdx(u)' :
             seats'[u][s] = q => s \in SeatIdx(u) /\ seats[u][s] = q
        BY <2>1, <1>1, <1>3, <1>6
    <2> QED
        BY <2>2, <1>2, <1>4, <1>7, SeatStepOf
<1>8. CASE \E s \in 0 .. n - 1 :
                /\ seats' = [seats EXCEPT ![t] = [row EXCEPT ![s] = p]]
                /\ at' = [at EXCEPT ![p] = t] /\ seat' = [seat EXCEPT ![p] = s]
                /\ pc'[p] \notin Standing
    <2>1. PICK s0 \in 0 .. n - 1 :
                /\ seats' = [seats EXCEPT ![t] = [row EXCEPT ![s0] = p]]
                /\ at' = [at EXCEPT ![p] = t] /\ seat' = [seat EXCEPT ![p] = s0]
                /\ pc'[p] \notin Standing
        BY <1>8
    <2>2. /\ at'[p] = t /\ seat'[p] = s0
          /\ \A q \in Player \ {p} : at'[q] = at[q] /\ seat'[q] = seat[q]
        BY <2>1, <1>1 DEF TypeOK
    <2>3. \A s \in 0 .. n - 1 : seats'[t][s] = IF s = s0 THEN p ELSE row[s]
        BY <2>1, <1>1, <1>5 DEF TypeOK, Row
    <2>4. \A q \in Player \ {p}, u \in Tables : \A s \in SeatIdx(u)' :
             seats'[u][s] = q => s \in SeatIdx(u) /\ seats[u][s] = q
        BY <2>3, <1>1, <1>3, <1>6
    <2>5. p \in Polite => \A u \in Tables : \A s \in SeatIdx(u)' :
             seats'[u][s] = p => u = t /\ s = s0
        BY <2>3, <1>1, <1>3, <1>4, <1>6
    <2> QED
        BY <1>2, <2>1, <2>2, <2>4, <2>5, SeatStepOf
<1> QED
    BY <1>7, <1>8

\* Table.RemovePlayer, for the table p's struct names, leaves a polite p on no seat.
LEMMA Vacating ==
    ASSUME FrameInv, SeatInv, NEW p \in Player, at[p] \in Tables,
           TableRemovePlayer(at[p], p),
           \A q \in Player \ {p} :
               pc'[q] = pc[q] /\ at'[q] = at[q] /\ seat'[q] = seat[q],
           players \subseteq players' \cup {p},
           pc'[p] \notin {"new", "done"} => p \in players'
    PROVE  SeatInv'
<1> DEFINE t == at[p]
<1>1. TypeOK /\ NoPlayer \notin Player
    BY ConstantsAssumption DEF FrameInv
<1>2. /\ seats'[t] = Vacated(t, p)
      /\ \A u \in Tables \ {t} : seats'[u] = seats[u]
      /\ \A u \in Tables : SeatIdx(u)' = SeatIdx(u)
    BY <1>1 DEF TableRemovePlayer, TypeOK, SeatIdx
<1>3. \A s \in SeatIdx(t) : seats'[t][s] = IF seats[t][s] = p THEN NoPlayer ELSE seats[t][s]
    BY <1>2 DEF Vacated
<1>4. \A q \in Player, u \in Tables : \A s \in SeatIdx(u)' :
         seats'[u][s] = q => s \in SeatIdx(u) /\ seats[u][s] = q
    BY <1>1, <1>2, <1>3
<1>5. p \in Polite => \A u \in Tables : \A s \in SeatIdx(u)' : seats'[u][s] # p
    BY <1>1, <1>2, <1>3, <1>4 DEF SeatInv, OneSeatEach
<1> QED
    BY <1>4, <1>5, SeatStepOf

LEMMA SeatStep == FrameInv /\ SeatInv /\ [Next]_vars => SeatInv'
<1> SUFFICES ASSUME FrameInv, SeatInv, [Next]_vars PROVE SeatInv'
    OBVIOUS
<1>0. TypeOK /\ LocalInv
    BY DEF FrameInv
<1>1. CASE UNCHANGED vars
    BY <1>1 DEF vars, roomVars, tableVars, playerVars, SeatInv, OneSeatEach, Sitters, SeatIdx
<1>2. ASSUME NEW p \in Player, SitAtBest(p) PROVE SeatInv'
    <2> DEFINE t == table[p]
               n == SeatsOf[gameDef[p]]
               row == Resized(t, n)
               free == {s \in 0 .. n - 1 : CanSit(p, t, row, n, s)}
               s0 == CHOOSE s \in free : \A r \in free : s <= r
    <2>1. /\ pc[p] = "sit" /\ t \in Tables /\ n \in Nat \ {0} /\ pc[p] \in Finding
          /\ players' = players
        BY <1>0, <1>2, ConstantsAssumption DEF SitAtBest, LocalInv, Finding
    <2>2. CASE free # {}
        <3>1. SitDown(p, t, row, n, s0) /\ Goto(p, AfterFindSeat(p))
            BY <1>2, <2>2 DEF SitAtBest
        <3>2. s0 \in 0 .. n - 1
            <4>1. free \in SUBSET Nat
                BY <2>1
            <4> QED
                BY <4>1, <2>2, LeastChosen
        <3>3. pc'[p] \notin Standing /\ \A q \in Player \ {p} : pc'[q] = pc[q]
            BY <1>0, <3>1, AfterFindSeatPlace DEF Goto, TypeOK, Standing, Finding
        <3> HIDE DEF s0, n, t
        <3> QED
            BY <2>1, <3>1, <3>2, <3>3, LaidOut DEF SitDown
    <2>3. CASE free = {}
        <3>1. /\ cap' = [cap EXCEPT ![t] = n] /\ seats' = [seats EXCEPT ![t] = row]
              /\ Goto(p, "empty") /\ UNCHANGED <<at, seat>>
            BY <1>2, <2>3 DEF SitAtBest
        <3>2. \A q \in Player \ {p} : pc'[q] = pc[q]
            BY <1>0, <3>1 DEF Goto, TypeOK
        <3> HIDE DEF n, t
        <3> QED
            BY <2>1, <3>1, <3>2, LaidOut
    <2> QED
        BY <2>2, <2>3
<1>3. ASSUME NEW p \in Player, TryEmptyTable(p) PROVE SeatInv'
    <2> DEFINE t == idx[p]
               n == SeatsOf[gameDef[p]]
               row == FreshRow(t, n)
    <2>1. /\ pc[p] = "empty" /\ t \in Tables /\ n \in Nat \ {0} /\ pc[p] \in Finding
          /\ players' = players
        BY <1>0, <1>3, ConstantsAssumption DEF TryEmptyTable, LocalInv, Finding
    <2>2. CASE SitDown(p, t, row, n, 0) /\ Goto(p, AfterFindSeat(p))
        <3>1. 0 \in 0 .. n - 1
            BY <2>1
        <3>2. pc'[p] \notin Standing /\ \A q \in Player \ {p} : pc'[q] = pc[q]
            BY <1>0, <2>2, AfterFindSeatPlace DEF Goto, TypeOK, Standing, Finding
        <3> HIDE DEF n, t
        <3> QED
            BY <2>1, <2>2, <3>1, <3>2, LaidOut DEF SitDown
    <2>3. CASE /\ cap' = [cap EXCEPT ![t] = n] /\ seats' = [seats EXCEPT ![t] = row]
               /\ UNCHANGED <<at, seat, pc>>
        <3> HIDE DEF n, t
        <3> QED
            BY <2>1, <2>3, LaidOut
    <2>4. CASE UNCHANGED <<cap, seats, at, seat, pc>>
        BY <2>1, <2>4, SameSeats
    <2> QED
        BY <1>3, <2>2, <2>3, <2>4 DEF TryEmptyTable
<1>4. ASSUME NEW p \in Player, Unseat(p) PROVE SeatInv'
    <2>1. /\ pc[p] = "unseat" /\ at[p] \in Tables /\ TableRemovePlayer(at[p], p)
          /\ UNCHANGED <<at, seat, players>>
        BY <1>0, <1>4 DEF Unseat, LocalInv, playerVars, roomVars
    <2>2. \A q \in Player \ {p} : pc'[q] = pc[q]
        BY <1>0, <1>4 DEF Unseat, Goto, TypeOK
    <2>3. p \in players'
        BY <2>1 DEF SeatInv
    <2> QED
        BY <2>1, <2>2, <2>3, Vacating
<1>5. ASSUME NEW p \in Player, RemovePlayer(p) PROVE SeatInv'
    <2>1. /\ players' = players \ {p} /\ pc[p] = "remove" /\ pc'[p] = "done"
          /\ \A q \in Player \ {p} :
                pc'[q] = pc[q] /\ at'[q] = at[q] /\ seat'[q] = seat[q]
        BY <1>0, <1>5 DEF RemovePlayer, Goto, TypeOK
    <2>2. CASE at[p] # NoTable
        BY <1>0, <1>5, <2>1, <2>2, Vacating DEF RemovePlayer, TypeOK
    <2>3. CASE at[p] = NoTable
        <3>1. UNCHANGED <<cap, seats>>
            BY <1>5, <2>3 DEF RemovePlayer, tableVars
        <3>2. \A t \in Tables : SeatIdx(t)' = SeatIdx(t)
            BY <3>1 DEF SeatIdx
        <3>3. p \in Polite => \A t \in Tables : \A s \in SeatIdx(t) : seats[t][s] # p
            BY <2>3 DEF SeatInv, OneSeatEach, NoTable, Tables
        <3> QED
            BY <2>1, <3>1, <3>2, <3>3, SeatStepOf
    <2> QED
        BY <2>2, <2>3
<1>6. ASSUME NEW p \in Player, AddPlayer(p) PROVE SeatInv'
    <2>1. /\ pc[p] = "new" /\ players' = players \cup {p}
          /\ UNCHANGED <<cap, seats, at, seat>>
          /\ \A q \in Player \ {p} : pc'[q] = pc[q]
        BY <1>0, <1>6 DEF AddPlayer, Goto, tableVars, TypeOK
    <2> QED
        BY <2>1, SameSeats DEF Standing
<1>7. ASSUME NEW p \in Player, RequestSeat(p) PROVE SeatInv'
    <2>1. /\ pc[p] = "loop"
          /\ p \in Polite => ~Sits(p)
          /\ UNCHANGED <<cap, seats, at, seat, players>>
          /\ \A q \in Player \ {p} : pc'[q] = pc[q]
        BY <1>0, <1>7 DEF RequestSeat, BeginFindSeat, Spend, Goto, tableVars, playerVars, TypeOK
    <2> QED
        BY <2>1, SameSeats
\* The other steps move nobody, and p stands afterwards only if it stood before.
<1>8. ASSUME NEW p \in Player, NEW where \in Places \ {"new"},
             UNCHANGED <<cap, seats, at, seat, players>>,
             Goto(p, where), pc[p] # "new",
             where \in Standing => pc[p] \in Standing,
             pc[p] = "done" => where = "done"
      PROVE  SeatInv'
    BY <1>0, <1>8, SameSeats DEF Goto, TypeOK
<1>9. ASSUME NEW p \in Player, ScanTable(p) PROVE SeatInv'
    <2>1. PICK where \in Finding : Goto(p, where)
        BY <1>9 DEF ScanTable, Finding
    <2>2. pc[p] = "scan" /\ UNCHANGED <<cap, seats, at, seat, players>>
        BY <1>9 DEF ScanTable, roomVars, tableVars, playerVars
    <2> QED
        BY <1>8, <2>1, <2>2 DEF Standing, Finding, Places
<1>10. ASSUME NEW p \in Player, SendStartGameM(p) PROVE SeatInv'
    <2>1. pc[p] = "tell" /\ UNCHANGED <<cap, seats, at, seat, players>>
        BY <1>10 DEF SendStartGameM, roomVars, tableVars, playerVars
    <2>2. CASE UNCHANGED pc
        BY <2>1, <2>2, SameSeats
    <2>3. CASE EnterLoop(p)
        BY <1>8, <2>1, <2>3 DEF EnterLoop, Standing, Finding, Places
    <2> QED
        BY <1>10, <2>2, <2>3 DEF SendStartGameM
<1>11. ASSUME NEW p \in Player,
              \/ GreetFails(p) \/ AutoSeat(p) \/ NoTableAvailable(p) \/ SeatResponse(p)
              \/ AllSeated(p) \/ NextGameID(p) \/ StartGame(p)
              \/ LeaveTable(p) \/ CloseOpponent(p) \/ GameMessage(p) \/ Deliver(p)
              \/ ReadFails(p) \/ DispatchFails(p)
       PROVE  SeatInv'
    <2>1. UNCHANGED <<cap, seats, at, seat, players>>
        BY <1>11 DEF GreetFails, AutoSeat, BeginFindSeat, NoTableAvailable, SeatResponse,
                AllSeated, NextGameID, StartGame, LeaveTable, CloseOpponent, GameMessage,
                Deliver, ReadFails, DispatchFails, FindOpponent,
                roomVars, tableVars, playerVars
    <2>2. \/ pc[p] = "greet" /\ (Goto(p, "done") \/ Goto(p, "scan"))
          \/ pc[p] = "empty" /\ (Goto(p, "done") \/ Goto(p, "loop") \/ Goto(p, "leave"))
          \/ /\ pc[p] \in {"respond", "seated", "nextID", "start", "loop", "closeOpp",
                           "deliver", "leave"}
             /\ \/ UNCHANGED pc
                \/ \E where \in {"seated", "leave", "nextID", "loop", "start", "tell",
                                 "unseat", "deliver", "remove"} : Goto(p, where)
        BY <1>11, Zenon DEF GreetFails, AutoSeat, BeginFindSeat, NoTableAvailable,
                SeatResponse, AllSeated, EnterLoop, NextGameID, StartGame, LeaveTable,
                CloseOpponent, GameMessage, Deliver, ReadFails, DispatchFails, FindOpponent,
                Spend
    <2>3. CASE pc[p] \in {"greet", "empty"} /\ \E where \in {"done", "scan", "loop", "leave"} :
                  Goto(p, where)
        BY <1>8, <2>1, <2>3 DEF Standing, Finding, Leaving, Places
    <2>4. CASE UNCHANGED pc
        BY <2>1, <2>4, SameSeats
    <2>5. CASE /\ pc[p] \in {"respond", "seated", "nextID", "start", "loop", "closeOpp",
                             "deliver", "leave"}
               /\ \E where \in {"seated", "leave", "nextID", "loop", "start", "tell",
                                "unseat", "deliver", "remove"} : Goto(p, where)
        BY <1>8, <2>1, <2>5 DEF Standing, Finding, Starting, Leaving, Places
    <2> QED
        BY <2>2, <2>3, <2>4, <2>5
<1> QED
    BY <1>1, <1>2, <1>3, <1>4, <1>5, <1>6, <1>7, <1>9, <1>10, <1>11
       DEF Next, Stopped, Proceed, Client

LEMMA SeatInvariant == Spec => [](FrameInv /\ SeatInv)
<1>1. Init => FrameInv /\ SeatInv
    BY FrameInit, SeatInit
<1>2. FrameInv /\ SeatInv /\ [Next]_vars => (FrameInv /\ SeatInv)'
    BY FrameStep, SeatStep
<1> QED
    BY <1>1, <1>2, PTL DEF Spec

\* A player whose client asks for a seat only if it has none never sits on two,
\* whatever the other clients do (FindSeat, LeaveTable, RemovePlayer).
THEOREM OneSeat == Spec => []OneSeatEach
<1>1. SeatInv => OneSeatEach
    BY DEF SeatInv
<1> QED
    BY <1>1, SeatInvariant, PTL

\* Nor does it leave a seat behind when its goroutine has ended.
THEOREM NoGhosts == Spec => []NoGhostSeat
<1>1. FrameInv /\ SeatInv => NoGhostSeat
    <2> SUFFICES ASSUME FrameInv, SeatInv, NEW t \in Tables,
                        NEW p \in Sitters(t) \cap Polite
                 PROVE  /\ p \in players
                        /\ pc[p] \in Starting \cup Leaving \cup {"loop", "unseat", "deliver"}
        BY DEF NoGhostSeat
    <2>1. p \in Player /\ pc[p] \in Places \ Standing
        BY DEF SeatInv, FrameInv, TypeOK, Sitters
    <2>2. pc[p] \in Starting \cup Leaving \cup {"loop", "unseat", "deliver"}
        BY <2>1 DEF Places, Standing
    <2> QED
        BY <2>1, <2>2 DEF SeatInv, Standing
<1> QED
    BY <1>1, SeatInvariant, PTL
-----------------------------------------------------------------------------
(* The room implements Matchmaking, if every client asks for a seat only when *)
(* it has none                                                               *)

\* An instance of FiniteSets counts as FiniteSets does.
LEMMA SameCardinality == \A S : Abstract!Cardinality(S) = Cardinality(S)
BY DEF Abstract!Cardinality, Cardinality

\* Players who sit on one seat each are as many as the seats they are on.
LEMMA RowCount ==
    ASSUME NEW n \in Nat, NEW row \in Row(n),
           \A q \in Player : \A s, r \in 0 .. n - 1 : row[s] = q /\ row[r] = q => s = r
    PROVE  LET S == {q \in Player : \E s \in 0 .. n - 1 : row[s] = q}
           IN /\ IsFiniteSet(S) /\ Cardinality(S) \in Nat /\ Cardinality(S) <= n
              /\ Cardinality(S) = n <=> \A s \in 0 .. n - 1 : row[s] # NoPlayer
<1> DEFINE S == {q \in Player : \E s \in 0 .. n - 1 : row[s] = q}
           taken == {s \in 0 .. n - 1 : row[s] # NoPlayer}
           f == [s \in taken |-> row[s]]
<1>1. IsFiniteSet(0 .. n - 1) /\ Cardinality(0 .. n - 1) = n
    BY FS_Interval
<1>2. taken \in SUBSET (0 .. n - 1)
    OBVIOUS
<1>3. /\ IsFiniteSet(taken) /\ Cardinality(taken) <= n
      /\ Cardinality(taken) = n <=> taken = 0 .. n - 1
    BY <1>1, <1>2, FS_Subset
<1>4. f \in Bijection(taken, S)
    <2>1. \A s \in taken : row[s] \in Player /\ row[s] \in S
        BY DEF Row
    <2>2. f \in [taken -> S]
        BY <2>1
    <2>3. \A s, r \in taken : f[s] = f[r] => s = r
        BY <2>1
    <2>4. \A q \in S : \E s \in taken : f[s] = q
        <3> SUFFICES ASSUME NEW q \in S PROVE \E s \in taken : f[s] = q
            OBVIOUS
        <3>1. q # NoPlayer /\ \E s \in 0 .. n - 1 : row[s] = q
            BY ConstantsAssumption
        <3> QED
            BY <3>1
    <2> HIDE DEF f, S, taken
    <2>5. f \in Injection(taken, S)
        BY <2>2, <2>3 DEF Injection, IsInjective
    <2>6. f \in Surjection(taken, S)
        BY <2>2, <2>4 DEF Surjection
    <2> QED
        BY <2>5, <2>6 DEF Bijection
<1>5. IsFiniteSet(S) /\ Cardinality(S) = Cardinality(taken)
    <2>1. ExistsBijection(taken, S)
        BY <1>4 DEF ExistsBijection
    <2> QED
        BY <1>3, <2>1, FS_Bijection
<1>6. Cardinality(S) \in Nat
    BY <1>5, FS_CardinalityType
<1>7. taken = 0 .. n - 1 <=> \A s \in 0 .. n - 1 : row[s] # NoPlayer
    OBVIOUS
<1> QED
    BY <1>3, <1>5, <1>6, <1>7

\* A step that moves nobody, and after which a goroutine is about to start a game
\* only if it was, or has seen its table full, calls nobody who was not called.
LEMMA CalledStays ==
    ASSUME FrameInv, NEW p \in Player, UNCHANGED <<cap, def, status, crashed>>,
           \A t \in Tables : seats'[t] = seats[t],
           \A q \in Player \ {p} : pc'[q] = pc[q] /\ table'[q] = table[q],
           pc'[p] \in {"nextID", "start"} =>
               /\ table'[p] = table[p]
               /\ pc[p] \in {"nextID", "start"} \/ Full(table[p]),
           pc[p] \in {"nextID", "start"} => pc'[p] \in {"nextID", "start"}
    PROVE  UNCHANGED Abstract!vars
<1>1. \A t \in Tables : Sitters(t)' = Sitters(t) /\ (Full(t)' <=> Full(t))
    BY DEF Sitters, Full, SeatIdx
<1>2. ASSUME NEW t \in Tables PROVE Called(t)' <=> Called(t)
    <2>1. ASSUME AboutToStart(t)' PROVE Called(t)
        <3>1. PICK q \in Player : pc'[q] \in {"nextID", "start"} /\ table'[q] = t
            BY <2>1 DEF AboutToStart
        <3>2. table[q] = t /\ (pc[q] \in {"nextID", "start"} \/ Full(t))
            BY <3>1
        <3> QED
            BY <3>2 DEF Called, AboutToStart
    <2>2. ASSUME AboutToStart(t) PROVE AboutToStart(t)'
        <3>1. PICK q \in Player : pc[q] \in {"nextID", "start"} /\ table[q] = t
            BY <2>2 DEF AboutToStart
        <3>2. pc'[q] \in {"nextID", "start"} /\ table'[q] = t
            BY <3>1
        <3> QED
            BY <3>2 DEF AboutToStart
    <2> QED
        BY <1>1, <2>1, <2>2 DEF Called
<1>3. [t \in Tables |-> Called(t)]' = [t \in Tables |-> Called(t)]
    <2>1. \A t \in Tables : Called(t)' = Called(t)
        BY <1>2, Zenon DEF Called, AboutToStart
    <2> QED
        BY <2>1
<1>4. [t \in Tables |-> Sitters(t)]' = [t \in Tables |-> Sitters(t)]
    BY <1>1
<1> QED
    BY <1>3, <1>4 DEF Abstract!vars

\* Sitting down is joining.
LEMMA AbstractJoin ==
    ASSUME FrameInv, TableInv, SeatInv, Polite = Player, NEW p \in Player, NEW t \in Tables,
           NEW n \in Nat \ {0}, NEW row, NEW s,
           pc[p] \in Finding, GoodRow(p, t, n, row, s), SitDown(p, t, row, n, s),
           UNCHANGED <<status, crashed>>,
           Goto(p, AfterFindSeat(p)), \A q \in Player \ {p} : table'[q] = table[q]
    PROVE  Abstract!Join(p, t, gameDef[p])
<1> DEFINE g == gameDef[p]
           new == [row EXCEPT ![s] = p]
<1>1. /\ g \in Game /\ g # NoGame /\ n = SeatsOf[g] /\ p # NoPlayer /\ NoPlayer \notin Player
      /\ row \in Row(n) /\ s \in 0 .. n - 1 /\ row[s] = NoPlayer /\ def[t] \in {NoGame, g}
    BY ConstantsAssumption DEF FrameInv, LocalInv, GoodRow, Finding
<1>2. /\ cap'[t] = n /\ seats'[t] = new
      /\ \A u \in Tables \ {t} : cap'[u] = cap[u] /\ seats'[u] = seats[u]
      /\ def' = [def EXCEPT ![t] = g]
    BY DEF SitDown, FrameInv, TypeOK
<1>3. /\ pc[p] \notin {"nextID", "start"} /\ pc'[p] \notin {"nextID", "start"}
      /\ \A q \in Player \ {p} : pc'[q] = pc[q]
    BY AfterFindSeatPlace DEF FrameInv, TypeOK, Goto, Finding
<1>4. \A u \in Tables : p \notin Sitters(u)
    BY DEF SeatInv, Standing
<1>5. \A q \in Player : \A r \in 0 .. n - 1 :
          row[r] = q <=> r \in SeatIdx(t) /\ seats[t][r] = q
    <2>1. CASE def[t] = g
        BY <1>1, <2>1 DEF GoodRow, SeatIdx
    <2>2. CASE def[t] = NoGame
        <3>1. Sitters(t) = {}
            BY <2>2 DEF TableInv, TableCoherent
        <3> QED
            BY <1>1, <2>2, <3>1 DEF GoodRow, Sitters
    <2> QED
        BY <1>1, <2>1, <2>2
<1>6. Sitters(t) = {q \in Player : \E r \in 0 .. n - 1 : row[r] = q}
    <2>1. CASE def[t] = g
        BY <1>1, <1>5, <2>1 DEF GoodRow, Sitters, SeatIdx
    <2>2. CASE def[t] = NoGame
        <3>1. Sitters(t) = {}
            BY <2>2 DEF TableInv, TableCoherent
        <3> QED
            BY <1>1, <2>2, <3>1 DEF GoodRow
    <2> QED
        BY <1>1, <2>1, <2>2
<1>7. \A q \in Player : \A r, x \in 0 .. n - 1 : row[r] = q /\ row[x] = q => r = x
    BY <1>5 DEF SeatInv, OneSeatEach
<1>8. new \in Row(n) /\ \A r \in 0 .. n - 1 : new[r] = IF r = s THEN p ELSE row[r]
    BY <1>1 DEF Row
<1>9. \A r \in 0 .. n - 1 : row[r] # p
    BY <1>4, <1>6
<1>10. \A q \in Player : \A r, x \in 0 .. n - 1 : new[r] = q /\ new[x] = q => r = x
    BY <1>7, <1>8, <1>9
<1>11. SeatIdx(t)' = 0 .. n - 1
    BY <1>2 DEF SeatIdx
<1>12. /\ Sitters(t)' = {q \in Player : \E r \in 0 .. n - 1 : new[r] = q}
       /\ Sitters(t)' = Sitters(t) \cup {p}
    <2>1. Sitters(t)' = {q \in Player : \E r \in 0 .. n - 1 : new[r] = q}
        BY <1>2, <1>11 DEF Sitters
    <2>2. \A q \in Player : (\E r \in 0 .. n - 1 : new[r] = q)
                             <=> q = p \/ \E r \in 0 .. n - 1 : row[r] = q
        BY <1>1, <1>8
    <2> HIDE DEF new
    <2> QED
        BY <1>6, <2>1, <2>2
<1>13. Cardinality(Sitters(t)) < n
    <2>1. n \in Nat
        OBVIOUS
    <2>2. Cardinality(Sitters(t)) \in Nat /\ Cardinality(Sitters(t)) <= n
          /\ (Cardinality(Sitters(t)) = n <=> \A r \in 0 .. n - 1 : row[r] # NoPlayer)
        BY <1>1, <1>6, <1>7, <2>1, RowCount
    <2> QED
        BY <1>1, <2>2
<1>14. Cardinality(Sitters(t)') = n <=> Full(t)'
    <2>1. n \in Nat
        OBVIOUS
    <2>2. Cardinality(Sitters(t)') = n <=> \A r \in 0 .. n - 1 : new[r] # NoPlayer
        <3>1. new \in Row(n)
            BY <1>8
        <3> HIDE DEF new
        <3>2. LET S == {q \in Player : \E r \in 0 .. n - 1 : new[r] = q}
              IN Cardinality(S) = n <=> \A r \in 0 .. n - 1 : new[r] # NoPlayer
            BY <1>10, <2>1, <3>1, RowCount
        <3> QED
            BY <1>12, <3>2
    <2> QED
        BY <1>2, <1>11, <2>2 DEF Full
<1>15. ~Full(t)
    <2>1. CASE def[t] = g
        BY <1>1, <2>1 DEF GoodRow, Full, SeatIdx
    <2>2. CASE def[t] = NoGame
        <3>1. Sitters(t) = {} /\ seats[t] \in Row(cap[t]) /\ 0 \in SeatIdx(t)
            BY <2>2 DEF TableInv, TableCoherent, FrameInv, TypeOK, SeatIdx
        <3> QED
            BY <3>1 DEF Sitters, Full, Row, SeatIdx
    <2> QED
        BY <1>1, <2>1, <2>2
<1>16. \A u \in Tables : AboutToStart(u)' <=> AboutToStart(u)
    BY <1>3 DEF AboutToStart
<1>17. \A u \in Tables \ {t} : Sitters(u)' = Sitters(u) /\ (Full(u)' <=> Full(u))
    BY <1>2 DEF Sitters, Full, SeatIdx
<1>18. Called(t)' <=> Called(t) \/ Abstract!Complete(Sitters(t)', g)
    BY <1>1, <1>14, <1>15, <1>16, SameCardinality DEF Called, Abstract!Complete
<1>19. \A u \in Tables \ {t} : Called(u)' <=> Called(u)
    BY <1>16, <1>17 DEF Called
<1> HIDE DEF g, new
<1>20. [u \in Tables |-> Sitters(u)]' = [[u \in Tables |-> Sitters(u)] EXCEPT ![t] = @ \cup {p}]
    BY <1>12, <1>17
<1>21. [u \in Tables |-> Called(u)]'
         = [[u \in Tables |-> Called(u)] EXCEPT ![t] = @ \/ Abstract!Complete(Sitters(t)', g)]
    <2>1. \A u \in Tables \ {t} : Called(u)' = Called(u)
        BY <1>19, Zenon DEF Called
    <2>2. Called(t)' = (Called(t) \/ Abstract!Complete(Sitters(t)', g))
        BY <1>18, Zenon DEF Called
    <2> QED
        BY <2>1, <2>2
<1>22. /\ \A u \in Tables : p \notin [x \in Tables |-> Sitters(x)][u]
       /\ Cardinality([x \in Tables |-> Sitters(x)][t]) < SeatsOf[g]
       /\ [x \in Tables |-> Sitters(x)]'[t] = Sitters(t)'
    BY <1>1, <1>4, <1>13
<1> QED
    BY <1>1, <1>2, <1>20, <1>21, <1>22, SameCardinality DEF Abstract!Join, g

\* Vacating a seat is leaving; who has none changes nothing.
LEMMA AbstractLeave ==
    ASSUME FrameInv, TableInv, NEW p \in Player,
           NEW t \in Tables, TableRemovePlayer(t, p), UNCHANGED <<table, crashed>>,
           pc[p] \in {"unseat", "remove"}, pc'[p] \notin {"nextID", "start"},
           \A q \in Player \ {p} : pc'[q] = pc[q]
    PROVE  Abstract!Leave(p, t) \/ UNCHANGED Abstract!vars
<1> DEFINE row == Vacated(t, p)
           empty == \A s \in SeatIdx(t) : row[s] = NoPlayer
<1>1. /\ p # NoPlayer /\ NoPlayer \notin Player /\ t \in Tables
      /\ seats[t] \in Row(cap[t]) /\ cap[t] \in Nat \ {0}
      /\ \A s \in SeatIdx(t) : row[s] = IF seats[t][s] = p THEN NoPlayer ELSE seats[t][s]
    BY ConstantsAssumption DEF FrameInv, TypeOK, Vacated
<1>2. /\ seats'[t] = row /\ cap' = cap /\ SeatIdx(t)' = SeatIdx(t)
      /\ status' = IF empty THEN [status EXCEPT ![t] = 0] ELSE status
      /\ def' = IF empty THEN [def EXCEPT ![t] = NoGame] ELSE def
      /\ \A u \in Tables \ {t} : seats'[u] = seats[u]
    BY <1>1 DEF TableRemovePlayer, FrameInv, TypeOK, SeatIdx
<1>3. \A s \in SeatIdx(t) : seats[t][s] \in Player \cup {NoPlayer}
    BY <1>1 DEF Row, SeatIdx
<1>4. Sitters(t)' = Sitters(t) \ {p}
    BY <1>1, <1>2, <1>3 DEF Sitters
<1>5. \A u \in Tables \ {t} : /\ Sitters(u)' = Sitters(u) /\ (Full(u)' <=> Full(u))
                              /\ status'[u] = status[u] /\ def'[u] = def[u]
    BY <1>1, <1>2 DEF Sitters, Full, SeatIdx
<1>6. empty <=> Sitters(t) \ {p} = {}
    BY <1>1, <1>3 DEF Sitters
<1>7. \A u \in Tables : AboutToStart(u)' <=> AboutToStart(u)
    BY DEF AboutToStart
<1>8. \A u \in Tables \ {t} : Called(u)' <=> Called(u)
    BY <1>5, <1>7 DEF Called
<1> HIDE DEF row, empty
<1>9. CASE p \in Sitters(t)
    <2>1. ~Full(t)'
        <3>1. PICK s \in SeatIdx(t) : seats[t][s] = p
            BY <1>9 DEF Sitters
        <3> QED
            BY <1>1, <1>2, <3>1 DEF Full
    <2>2. Called(t)' => Called(t) /\ ~empty
        <3>1. AboutToStart(t) => ~empty
            <4>1. SUFFICES ASSUME NEW q \in Player, pc[q] \in {"nextID", "start"}, table[q] = t
                           PROVE  ~empty
                BY DEF AboutToStart
            <4>2. q \in Sitters(t)
                BY <4>1 DEF TableInv, StarterStays, Starting, Sitters
            <4> QED
                BY <1>6, <4>1, <4>2
        <3>2. status'[t] = 1 => status[t] = 1 /\ ~empty
            BY <1>1, <1>2 DEF FrameInv, TypeOK
        <3> QED
            BY <1>7, <2>1, <3>1, <3>2 DEF Called
    <2>3. PICK c \in {FALSE, Called(t) /\ ~empty} : c = Called(t)'
        <3>1. Called(t)' \in BOOLEAN /\ (Called(t) /\ ~empty) \in BOOLEAN
            BY Zenon DEF Called
        <3> QED
            BY <2>2, <3>1
    <2>4. empty <=> Sitters(t) = {p}
        BY <1>6, <1>9
    <2>5. [u \in Tables |-> Sitters(u)]' = [[u \in Tables |-> Sitters(u)] EXCEPT ![t] = @ \ {p}]
        BY <1>4, <1>5
    <2>6. [u \in Tables |-> Called(u)]' = [[u \in Tables |-> Called(u)] EXCEPT ![t] = c]
        <3>1. \A u \in Tables \ {t} : Called(u)' = Called(u)
            BY <1>8, Zenon DEF Called
        <3> QED
            BY <2>3, <3>1
    <2>7. def' = [def EXCEPT ![t] = IF empty THEN NoGame ELSE @]
        BY <1>2 DEF FrameInv, TypeOK
    <2>8. [u \in Tables |-> status[u] = 1]'
            = [[u \in Tables |-> status[u] = 1] EXCEPT ![t] = @ /\ ~empty]
        <3>1. status'[t] = 1 <=> status[t] = 1 /\ ~empty
            BY <1>1, <1>2 DEF FrameInv, TypeOK
        <3>2. (status'[t] = 1) = (status[t] = 1 /\ ~empty)
            BY <3>1
        <3> QED
            BY <1>1, <1>5, <3>2
    <2>9. /\ [u \in Tables |-> Sitters(u)][t] = Sitters(t)
          /\ [u \in Tables |-> Called(u)][t] = Called(t)
        BY <1>1
    <2> QED
        BY <1>9, <2>3, <2>4, <2>5, <2>6, <2>7, <2>8, <2>9 DEF Abstract!Leave
<1>10. CASE p \notin Sitters(t)
    <2>1. \A s \in SeatIdx(t) : row[s] = seats[t][s]
        BY <1>1, <1>10 DEF Sitters
    <2>2. Sitters(t)' = Sitters(t) /\ (Full(t)' <=> Full(t))
        BY <1>2, <1>4, <1>10, <2>1 DEF Full
    <2>3. empty => def[t] = NoGame /\ status[t] = 0
        <3>1. empty => Sitters(t) = {}
            BY <1>6, <1>10
        <3> QED
            BY <1>1, <3>1 DEF TableInv, TableCoherent
    <2>4. def' = def /\ status' = status
        BY <1>2, <2>3 DEF FrameInv, TypeOK
    <2>5. \A u \in Tables : Called(u)' = Called(u)
        <3>1. Called(t)' <=> Called(t)
            BY <1>7, <2>2, <2>4 DEF Called
        <3> QED
            BY <1>8, <3>1, Zenon DEF Called
    <2>6. [u \in Tables |-> Called(u)]' = [u \in Tables |-> Called(u)]
        BY <2>5
    <2>7. [u \in Tables |-> Sitters(u)]' = [u \in Tables |-> Sitters(u)]
        BY <1>5, <2>2
    <2> QED
        BY <2>4, <2>6, <2>7 DEF Abstract!vars
<1> QED
    BY <1>9, <1>10

\* StartGame is a start of a table that was called.
LEMMA AbstractStart ==
    ASSUME FrameInv, TableInv, NEW p \in Player, StartGame(p)
    PROVE  \E t \in Tables : Abstract!Start(t)
<1>0. PICK t \in Tables : t = table[p]
    BY DEF StartGame, TableInv, StarterStays, Starting
<1>1. /\ pc[p] = "start" /\ pc' = [pc EXCEPT ![p] = "tell"]
      /\ status' = [status EXCEPT ![t] = 1]
      /\ UNCHANGED <<cap, seats, def, table, crashed>>
    BY <1>0 DEF StartGame, Goto, ghostVars
<1>2. status'[t] = 1 /\ \A u \in Tables \ {t} : status'[u] = status[u]
    BY <1>1 DEF FrameInv, TypeOK
<1>3. \A u \in Tables : Sitters(u)' = Sitters(u) /\ (Full(u)' <=> Full(u))
    BY <1>1 DEF Sitters, Full, SeatIdx
<1>4. Called(t) /\ Called(t)'
    BY <1>0, <1>1, <1>2 DEF Called, AboutToStart
<1>5. \A u \in Tables \ {t} : AboutToStart(u)' <=> AboutToStart(u)
    BY <1>0, <1>1 DEF AboutToStart, FrameInv, TypeOK
<1>6. \A u \in Tables : Called(u)' <=> Called(u)
    BY <1>2, <1>3, <1>4, <1>5 DEF Called
<1>7. \A u \in Tables : Called(u)' = Called(u)
    BY <1>6, Zenon DEF Called
<1>8. [u \in Tables |-> Called(u)]' = [u \in Tables |-> Called(u)]
    BY <1>7
<1>9. [u \in Tables |-> Sitters(u)]' = [u \in Tables |-> Sitters(u)]
    BY <1>3
<1>10. [u \in Tables |-> status[u] = 1]' = [[u \in Tables |-> status[u] = 1] EXCEPT ![t] = TRUE]
    BY <1>2
<1>11. [u \in Tables |-> Called(u)][t]
    BY <1>4
<1>12. Abstract!Start(t)
    BY <1>1, <1>8, <1>9, <1>10, <1>11 DEF Abstract!Start
<1> QED
    BY <1>12

\* A call on a nil session is a crash.
LEMMA AbstractDeliver ==
    ASSUME FrameInv, ~crashed, NEW p \in Player, Deliver(p)
    PROVE  Abstract!Crash \/ UNCHANGED Abstract!vars
<1>1. /\ pc[p] = "deliver" /\ UNCHANGED <<cap, seats, def, status, table>>
      /\ \/ crashed' = TRUE /\ UNCHANGED pc
         \/ UNCHANGED crashed /\ \E where \in {"loop", "leave"} : Goto(p, where)
    BY DEF Deliver, tableVars, frameVars
<1>2. pc'[p] \notin {"nextID", "start"} /\ \A q \in Player \ {p} : pc'[q] = pc[q]
    BY <1>1 DEF Goto, FrameInv, TypeOK
<1>3. CASE UNCHANGED crashed
    BY <1>1, <1>2, <1>3, CalledStays
<1>4. CASE crashed' = TRUE /\ UNCHANGED pc
    <2>1. \A t \in Tables : Sitters(t)' = Sitters(t) /\ Full(t)' = Full(t)
        BY <1>1 DEF Sitters, Full, SeatIdx
    <2>2. \A t \in Tables : AboutToStart(t)' = AboutToStart(t)
        BY <1>1, <1>4 DEF AboutToStart
    <2>3. \A t \in Tables : Called(t)' = Called(t)
        BY <1>1, <2>1, <2>2 DEF Called
    <2>4. [t \in Tables |-> Called(t)]' = [t \in Tables |-> Called(t)]
        BY <2>3
    <2>5. [t \in Tables |-> Sitters(t)]' = [t \in Tables |-> Sitters(t)]
        BY <2>1
    <2> QED
        BY <1>1, <1>4, <2>4, <2>5 DEF Abstract!Crash
<1> QED
    BY <1>1, <1>3, <1>4

LEMMA AbstractStep ==
    Polite = Player /\ FrameInv /\ TableInv /\ SeatInv /\ [Next]_vars
        => [Abstract!Next]_(Abstract!vars)
<1> SUFFICES ASSUME Polite = Player, FrameInv, TableInv, SeatInv, [Next]_vars
             PROVE  Abstract!Next \/ UNCHANGED Abstract!vars
    OBVIOUS
<1>0. TypeOK /\ LocalInv
    BY DEF FrameInv
<1>1. CASE UNCHANGED vars
    <2>1. UNCHANGED <<cap, seats, def, status, crashed, pc, table>>
        BY <1>1 DEF vars, tableVars, frameVars, ghostVars
    <2>2. \A t \in Tables : Sitters(t)' = Sitters(t) /\ Full(t)' = Full(t)
        BY <2>1 DEF Sitters, Full, SeatIdx
    <2>3. \A t \in Tables : AboutToStart(t)' = AboutToStart(t)
        BY <2>1 DEF AboutToStart
    <2>4. \A t \in Tables : Called(t)' = Called(t)
        BY <2>1, <2>2, <2>3 DEF Called
    <2>5. [t \in Tables |-> Called(t)]' = [t \in Tables |-> Called(t)]
        BY <2>4
    <2>6. [t \in Tables |-> Sitters(t)]' = [t \in Tables |-> Sitters(t)]
        BY <2>2
    <2> QED
        BY <2>1, <2>5, <2>6 DEF Abstract!vars
<1> DEFINE Moved == \/ \E p \in Player, t \in Tables : \/ Abstract!Leave(p, t)
                                                     \/ \E g \in Game : Abstract!Join(p, t, g)
                    \/ \E t \in Tables : Abstract!Start(t)
                    \/ Abstract!Crash
<1>2. ASSUME ~crashed, Moved PROVE Abstract!Next
    BY <1>2 DEF Abstract!Next
<1>3. ASSUME NEW p \in Player, NEW t \in Tables, TakesSeat(p, t), UNCHANGED crashed PROVE Moved
    <2>1. PICK n \in Nat \ {0} : \E row \in Row(n), s \in 0 .. n - 1 :
                 GoodRow(p, t, n, row, s) /\ SitDown(p, t, row, n, s)
        BY <1>3 DEF TakesSeat
    <2>2. PICK row \in Row(n), s \in 0 .. n - 1 :
                 GoodRow(p, t, n, row, s) /\ SitDown(p, t, row, n, s)
        BY <2>1
    <2>3. Abstract!Join(p, t, gameDef[p])
        BY <1>3, <2>2, AbstractJoin DEF TakesSeat
    <2>4. gameDef[p] \in Game
        BY <1>0, <1>3 DEF LocalInv, TakesSeat, Finding
    <2> QED
        BY <2>3, <2>4
<1>4. ASSUME NEW p \in Player, SitAtBest(p) PROVE Moved
    <2>1. UNCHANGED crashed
        BY <1>4 DEF SitAtBest
    <2> HIDE DEF Moved
    <2> QED
        BY <1>3, <1>4, <2>1, BestSeat
<1>5. ASSUME NEW p \in Player, TryEmptyTable(p) PROVE Moved \/ UNCHANGED Abstract!vars
    <2>1. UNCHANGED crashed
        BY <1>5 DEF TryEmptyTable
    <2>2. CASE /\ pc[p] = "empty"
               /\ UNCHANGED <<cap, def, gameID, session, status, pc, at, seat, table, gameDef>>
               /\ \A u \in Tables : seats'[u] = seats[u]
        BY <2>1, <2>2, CalledStays
    <2> HIDE DEF Moved
    <2> QED
        BY <1>3, <1>5, <2>1, <2>2, EmptySeat
<1>6. ASSUME NEW p \in Player, Unseat(p) PROVE Moved \/ UNCHANGED Abstract!vars
    <2>1. /\ pc[p] = "unseat" /\ at[p] \in Tables /\ TableRemovePlayer(at[p], p)
          /\ UNCHANGED <<table, crashed>>
        BY <1>0, <1>6 DEF Unseat, LocalInv, frameVars, ghostVars
    <2>2. pc'[p] \notin {"nextID", "start"} /\ \A q \in Player \ {p} : pc'[q] = pc[q]
        BY <1>0, <1>6 DEF Unseat, Goto, TypeOK
    <2>3. PICK t \in Tables : t = at[p]
        BY <2>1
    <2>4. Abstract!Leave(p, t) \/ UNCHANGED Abstract!vars
        BY <2>1, <2>2, <2>3, AbstractLeave
    <2> QED
        BY <2>4
<1>7. ASSUME NEW p \in Player, RemovePlayer(p) PROVE Moved \/ UNCHANGED Abstract!vars
    <2>1. /\ pc[p] = "remove" /\ pc'[p] = "done" /\ \A q \in Player \ {p} : pc'[q] = pc[q]
          /\ UNCHANGED <<table, crashed>>
        BY <1>0, <1>7 DEF RemovePlayer, Goto, TypeOK
    <2>2. CASE at[p] # NoTable
        <3>1. at[p] \in Tables /\ TableRemovePlayer(at[p], p)
            BY <1>0, <1>7, <2>2 DEF RemovePlayer, TypeOK
        <3>2. PICK t \in Tables : t = at[p]
            BY <3>1
        <3>3. Abstract!Leave(p, t) \/ UNCHANGED Abstract!vars
            BY <2>1, <3>1, <3>2, AbstractLeave
        <3> QED
            BY <3>3
    <2>3. CASE at[p] = NoTable
        BY <1>7, <2>1, <2>3, CalledStays DEF RemovePlayer, tableVars
    <2> QED
        BY <2>2, <2>3
<1>8. ASSUME NEW p \in Player, StartGame(p) PROVE Moved
    BY <1>8, AbstractStart
<1>9. ASSUME ~crashed, NEW p \in Player, Deliver(p) PROVE Moved \/ UNCHANGED Abstract!vars
    BY <1>9, AbstractDeliver
<1>10. ASSUME NEW p \in Player, AllSeated(p) \/ NextGameID(p) PROVE UNCHANGED Abstract!vars
    <2>1. UNCHANGED <<cap, seats, def, status, crashed>>
        BY <1>10 DEF AllSeated, NextGameID, tableVars, ghostVars
    <2>2. \A q \in Player \ {p} : pc'[q] = pc[q] /\ table'[q] = table[q]
        BY <1>0, <1>10 DEF AllSeated, NextGameID, EnterLoop, Goto, TypeOK
    <2>3. pc'[p] \in {"nextID", "start"} =>
               /\ table'[p] = table[p]
               /\ pc[p] \in {"nextID", "start"} \/ Full(table[p])
        BY <1>0, <1>10 DEF AllSeated, NextGameID, EnterLoop, Goto, TypeOK
    <2>4. pc[p] \in {"nextID", "start"} => pc'[p] \in {"nextID", "start"}
        BY <1>0, <1>10 DEF AllSeated, NextGameID, EnterLoop, Goto, TypeOK
    <2> QED
        BY <2>1, <2>2, <2>3, <2>4, CalledStays
\* The other steps move nobody, call nobody and start nothing.
<1>11. ASSUME NEW p \in Player,
              \/ AddPlayer(p) \/ GreetFails(p) \/ AutoSeat(p) \/ RequestSeat(p) \/ ScanTable(p)
              \/ NoTableAvailable(p) \/ SeatResponse(p) \/ SendStartGameM(p)
              \/ LeaveTable(p) \/ CloseOpponent(p) \/ GameMessage(p)
              \/ ReadFails(p) \/ DispatchFails(p)
       PROVE  UNCHANGED Abstract!vars
    <2>1. UNCHANGED <<cap, seats, def, status, crashed>>
        BY <1>11 DEF AddPlayer, GreetFails, AutoSeat, RequestSeat, BeginFindSeat, ScanTable,
                NoTableAvailable, SeatResponse, SendStartGameM, LeaveTable, CloseOpponent,
                GameMessage, ReadFails, DispatchFails, FindOpponent, tableVars, ghostVars
    <2>2. /\ pc[p] \notin {"nextID", "start"}
          /\ \/ UNCHANGED pc
             \/ \E where \in {"greet", "done", "scan", "empty", "sit", "loop", "leave", "seated",
                              "unseat", "deliver", "remove"} : Goto(p, where)
        BY <1>11, Zenon DEF AddPlayer, GreetFails, AutoSeat, RequestSeat, BeginFindSeat, ScanTable,
                NoTableAvailable, SeatResponse, SendStartGameM, EnterLoop, LeaveTable,
                CloseOpponent, GameMessage, ReadFails, DispatchFails, FindOpponent, Spend
    <2>3. pc'[p] \notin {"nextID", "start"} /\ \A q \in Player \ {p} : pc'[q] = pc[q]
        BY <1>0, <2>2 DEF Goto, TypeOK
    <2>4. \A q \in Player \ {p} : table'[q] = table[q]
        BY <1>0, <1>11 DEF AddPlayer, GreetFails, AutoSeat, RequestSeat, BeginFindSeat, ScanTable,
                NoTableAvailable, SeatResponse, SendStartGameM, EnterLoop, LeaveTable,
                CloseOpponent, GameMessage, ReadFails, DispatchFails, FindOpponent, frameVars, TypeOK
    <2> QED
        BY <2>1, <2>2, <2>3, <2>4, CalledStays
<1> HIDE DEF Moved
<1> QED
    BY <1>1, <1>2, <1>4, <1>5, <1>6, <1>7, <1>8, <1>9, <1>10, <1>11
       DEF Next, Stopped, Proceed, Client

LEMMA AbstractInit == Init => Abstract!Init
<1> SUFFICES ASSUME Init PROVE Abstract!Init
    OBVIOUS
<1>1. \A t \in Tables : /\ cap[t] \in Nat \ {0} /\ 0 \in SeatIdx(t)
                        /\ \A s \in SeatIdx(t) : seats[t][s] = NoPlayer
                        /\ def[t] = NoGame /\ status[t] = 0
    BY ConstantsAssumption DEF Init, SeatIdx
<1>2. \A t \in Tables : Sitters(t) = {} /\ ~Full(t)
    BY <1>1, ConstantsAssumption DEF Sitters, Full
<1>3. \A t \in Tables : ~AboutToStart(t)
    BY DEF Init, AboutToStart
<1>4. \A t \in Tables : Called(t) = FALSE /\ (status[t] = 1) = FALSE
    BY <1>1, <1>2, <1>3 DEF Called
<1>5. /\ [t \in Tables |-> Sitters(t)] = [t \in Tables |-> {}]
      /\ [t \in Tables |-> Called(t)] = [t \in Tables |-> FALSE]
      /\ [t \in Tables |-> status[t] = 1] = [t \in Tables |-> FALSE]
    BY <1>2, <1>4
<1>6. def = [t \in Tables |-> NoGame] /\ ~crashed
    BY DEF Init
<1> QED
    BY <1>5, <1>6 DEF Abstract!Init

\* If every client asks for a seat only when it has none, then whatever the
\* goroutines do between the locks, seen from the players the room only joins them
\* to a table of their game that has room, lets them leave, and starts the game of
\* a table that was complete (FindSeat, RemovePlayer, AllSeated and StartGame).
THEOREM MatchesPlayers == Polite = Player => (Spec => Abstract!SafeSpec)
<1>1. Spec => [](FrameInv /\ TableInv /\ SeatInv)
    BY Invariant, SeatInvariant, PTL
<1> SUFFICES ASSUME Polite = Player PROVE Spec => Abstract!SafeSpec
    OBVIOUS
<1>2. FrameInv /\ TableInv /\ SeatInv /\ [Next]_vars => [Abstract!Next]_(Abstract!vars)
    BY AbstractStep
<1> QED
    BY <1>1, <1>2, AbstractInit, PTL DEF Spec, Abstract!SafeSpec
=============================================================================
