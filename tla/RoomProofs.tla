----------------------------- MODULE RoomProofs -----------------------------
(***************************************************************************)
(* Proofs about Room, for any number of players, tables and games.          *)
(*                                                                         *)
(* The inductive invariant comes in two layers.  FrameInv says what each    *)
(* goroutine's own variables hold at each place in its code and that only    *)
(* the goroutine inside FindSeat holds Room.mu.  TableInv relates the tables *)
(* to the players on them; it needs FrameInv.                               *)
(***************************************************************************)
EXTENDS Room, FiniteSetTheorems, WellFoundedInduction, TLAPS

-----------------------------------------------------------------------------
(* The layers of the invariant *)

\* Only a goroutine inside FindSeat holds Room.mu for writing, and it does.
LockInv == \A p \in Player : pc[p] \in Finding <=> mu = p

\* What a goroutine's frame holds where it stands.
LocalInv ==
    \A p \in Player :
        /\ pc[p] # "new" => gameDef[p] \in Game
        /\ pc[p] = "scan" => idx[p] \in Tables
        /\ pc[p] = "sit" => table[p] \in Tables
        /\ pc[p] \in {"unseat", "deliver"} => at[p] \in Tables
        /\ pc[p] = "closeOpp" => opp[p] \in Player
        /\ pc[p] \in {"start", "tell"} => gid[p] > 0

FrameInv == TypeOK /\ LockInv /\ LocalInv

-----------------------------------------------------------------------------
(* Lemmas about the operators of Room *)

\* A nonempty set of naturals has a least element.
LEMMA LeastElement ==
    ASSUME NEW S \in SUBSET Nat, S # {}
    PROVE  \E s \in S : \A r \in S : s <= r
<1>1. PICK s \in S : \A r \in S : ~ (<<r, s>> \in OpToRel(<, Nat))
    BY NatLessThanWellFounded, WFMin
<1>2. \A r \in S : ~ (r < s)
    BY <1>1 DEF OpToRel
<1> QED
    BY <1>2

\* CHOOSE of the least element of a nonempty set of naturals.
LEMMA LeastChosen ==
    ASSUME NEW S \in SUBSET Nat, S # {}
    PROVE  (CHOOSE s \in S : \A r \in S : s <= r) \in S
BY LeastElement

\* The seats taken at a table are finitely many.
LEMMA TakenFinite ==
    ASSUME TypeOK, NEW t \in Tables
    PROVE  IsFiniteSet(Taken(t)) /\ Cardinality(Taken(t)) \in Nat
<1>1. cap[t] \in Nat
    BY DEF TypeOK
<1>2. IsFiniteSet(SeatIdx(t))
    BY <1>1, FS_Interval DEF SeatIdx
<1>3. Taken(t) \in SUBSET SeatIdx(t)
    BY DEF Taken
<1> QED
    BY <1>2, <1>3, FS_Subset, FS_CardinalityType

\* Opponent returns a player or nil, whatever seat number it is asked about.
LEMMA OpponentType ==
    ASSUME TypeOK, NEW t \in Tables, NEW i \in Nat \cup {NoSeat}
    PROVE  Opponent(t, i) \in Player \cup {NoPlayer}
<1> DEFINE others == {s \in Taken(t) : s # i}
<1>1. seats[t] \in Row(cap[t]) /\ cap[t] \in Nat \ {0}
    BY DEF TypeOK
<1>2. \A s \in SeatIdx(t) : seats[t][s] \in Player \cup {NoPlayer}
    BY <1>1 DEF Row, SeatIdx
<1>3. CASE cap[t] = 2
    <2>1. (i + 1) % 2 \in 0 .. 1
        BY DEF NoSeat
    <2> QED
        BY <2>1, <1>2, <1>3 DEF Opponent, SeatIdx
<1>4. CASE cap[t] # 2 /\ others = {}
    BY <1>4 DEF Opponent
<1>5. CASE cap[t] # 2 /\ others # {}
    <2>1. others \in SUBSET Nat /\ others \subseteq SeatIdx(t)
        BY <1>1 DEF Taken, SeatIdx
    <2>2. (CHOOSE s \in others : \A r \in others : s <= r) \in others
        BY <2>1, <1>5, LeastChosen
    <2> QED
        BY <2>1, <2>2, <1>2, <1>5 DEF Opponent
<1> QED
    BY <1>3, <1>4, <1>5

\* Clearing a player's seats leaves a row of the same length.
LEMMA VacatedType ==
    ASSUME TypeOK, NEW t \in Tables, NEW p \in Player
    PROVE  Vacated(t, p) \in Row(cap[t])
<1>1. seats[t] \in Row(cap[t])
    BY DEF TypeOK
<1> QED
    BY <1>1 DEF Row, Vacated, SeatIdx

\* The step of Table.RemovePlayer keeps the table variables' types.
LEMMA TableRemoveType ==
    ASSUME TypeOK, NEW t \in Tables, NEW p \in Player, TableRemovePlayer(t, p)
    PROVE  /\ cap' \in [Tables -> Nat \ {0}]
           /\ DOMAIN seats' = Tables
           /\ \A u \in Tables : seats'[u] \in Row(cap'[u])
           /\ def' \in [Tables -> Game \cup {NoGame}]
           /\ gameID' \in [Tables -> Nat]
           /\ session' \in [Tables -> Nat]
           /\ status' \in [Tables -> {0, 1}]
<1>1. seats' = [seats EXCEPT ![t] = Vacated(t, p)] /\ cap' = cap
    BY DEF TableRemovePlayer
<1>2. \A u \in Tables : seats'[u] \in Row(cap'[u])
    BY <1>1, VacatedType DEF TypeOK
<1> QED
    BY <1>1, <1>2 DEF TypeOK, TableRemovePlayer, Nobody

\* The step of sitDownLocked keeps the types.
LEMMA SitDownType ==
    ASSUME TypeOK, NEW t \in Tables, NEW p \in Player, NEW n \in Nat \ {0},
           NEW row \in Row(n), NEW s \in 0 .. n - 1, gameDef[p] \in Game,
           SitDown(p, t, row, n, s)
    PROVE  /\ cap' \in [Tables -> Nat \ {0}]
           /\ DOMAIN seats' = Tables
           /\ \A u \in Tables : seats'[u] \in Row(cap'[u])
           /\ def' \in [Tables -> Game \cup {NoGame}]
           /\ at' \in [Player -> Tables \cup {NoTable}]
           /\ seat' \in [Player -> Nat \cup {NoSeat}]
           /\ told' \in [Player -> Nat]
<1>1. [row EXCEPT ![s] = p] \in Row(n)
    BY DEF Row
<1>2. \A u \in Tables : seats'[u] \in Row(cap'[u])
    BY <1>1 DEF TypeOK, SitDown
<1>3. s \in Nat
    OBVIOUS
<1>4. /\ cap' \in [Tables -> Nat \ {0}]
      /\ DOMAIN seats' = Tables
      /\ def' \in [Tables -> Game \cup {NoGame}]
    BY DEF TypeOK, SitDown
<1>5. /\ at' \in [Player -> Tables \cup {NoTable}]
      /\ seat' \in [Player -> Nat \cup {NoSeat}]
      /\ told' \in [Player -> Nat]
    BY <1>3 DEF TypeOK, SitDown, Nobody
<1> QED
    BY <1>2, <1>4, <1>5

\* Where FindSeat returns to.
LEMMA AfterFindSeatPlace ==
    ASSUME NEW p \in Player
    PROVE  AfterFindSeat(p) \in {"respond", "seated"}
BY Zenon DEF AfterFindSeat

\* The rows FindSeat lays out have the length asked for.
LEMMA RowTypes ==
    ASSUME TypeOK, NEW t \in Tables, NEW n \in Nat \ {0}
    PROVE  Resized(t, n) \in Row(n) /\ FreshRow(t, n) \in Row(n)
<1>1. seats[t] \in Row(cap[t])
    BY DEF TypeOK
<1>2. Resized(t, n) \in Row(n)
    BY <1>1 DEF Resized, Row, SeatIdx
<1>3. FreshRow(t, n) \in Row(n)
    BY <1>1 DEF FreshRow, Row
<1> QED
    BY <1>2, <1>3

-----------------------------------------------------------------------------
(* The first layer: frames and the lock *)

\* Entering the message loop keeps the types of what it sets.
LEMMA EnterLoopType ==
    ASSUME TypeOK, NEW p \in Player, EnterLoop(p)
    PROVE  /\ pc' \in [Player -> Places]
           /\ booted' \in [Player -> BOOLEAN]
           /\ table' \in [Player -> Tables \cup {NoTable}]
           /\ idx' \in [Player -> Nat]
           /\ gid' \in [Player -> Nat]
<1>1. "loop" \in Places /\ 0 \in Nat /\ Nobody \in Nat
    BY DEF Places, Nobody
<1> QED
    BY <1>1 DEF TypeOK, EnterLoop, Goto

LEMMA FrameInit == Init => FrameInv
<1> SUFFICES ASSUME Init PROVE FrameInv
    OBVIOUS
<1> USE ConstantsAssumption
<1>1. TypeOK
    <2>1. /\ cap \in [Tables -> Nat \ {0}]
          /\ DOMAIN seats = Tables
          /\ \A t \in Tables : seats[t] \in Row(cap[t])
        BY DEF Init, Row
    <2>2. "new" \in Places
        BY DEF Places
    <2>3. /\ def \in [Tables -> Game \cup {NoGame}]
          /\ gameID \in [Tables -> Nat]
          /\ session \in [Tables -> Nat]
          /\ status \in [Tables -> {0, 1}]
          /\ gameDef \in [Player -> Game \cup {NoGame}]
          /\ at \in [Player -> Tables \cup {NoTable}]
          /\ seat \in [Player -> Nat \cup {NoSeat}]
          /\ open \in [Player -> BOOLEAN]
        BY DEF Init, Nobody
    <2>4. /\ pc \in [Player -> Places]
          /\ booted \in [Player -> BOOLEAN]
          /\ table \in [Player -> Tables \cup {NoTable}]
          /\ count \in [Player -> Nat]
          /\ idx \in [Player -> Nat]
          /\ gid \in [Player -> Nat]
          /\ opp \in [Player -> Player \cup {NoPlayer}]
          /\ told \in [Player -> Nat]
        BY <2>2 DEF Init, Nobody
    <2>5. /\ mu \in Player \cup {NoPlayer} /\ players \subseteq Player
          /\ nextGameID \in Nat \ {0} /\ requests \in Nat
        BY DEF Init
    <2>6. crashed \in BOOLEAN
        BY Zenon DEF Init
    <2> QED
        BY <2>1, <2>3, <2>4, <2>5, <2>6, Zenon DEF TypeOK
<1>2. LockInv /\ LocalInv
    BY DEF Init, LockInv, LocalInv, Finding
<1> QED
    BY <1>1, <1>2 DEF FrameInv

LEMMA FrameStep == FrameInv /\ [Next]_vars => FrameInv'
<1> SUFFICES ASSUME FrameInv, [Next]_vars PROVE FrameInv'
    OBVIOUS
<1> USE ConstantsAssumption
<1> USE DEF FrameInv
<1>0. CASE UNCHANGED vars
    BY <1>0 DEF TypeOK, LockInv, LocalInv, vars, roomVars, tableVars, playerVars,
                frameVars, ghostVars
<1>a. ASSUME NEW p \in Player, AddPlayer(p) PROVE FrameInv'
    <2>1. TypeOK'
        BY <1>a DEF TypeOK, AddPlayer, Goto, Places, tableVars, frameVars, ghostVars
    <2>2. LockInv' /\ LocalInv'
        BY <1>a DEF TypeOK, LockInv, LocalInv, AddPlayer, Goto, Finding, frameVars
    <2> QED
        BY <2>1, <2>2
<1>b. ASSUME NEW p \in Player, GreetFails(p) PROVE FrameInv'
    <2>1. TypeOK'
        BY <1>b DEF TypeOK, GreetFails, Goto, Places, roomVars, tableVars, playerVars,
                    frameVars, ghostVars
    <2>2. LockInv' /\ LocalInv'
        BY <1>b DEF TypeOK, LockInv, LocalInv, GreetFails, Goto, Finding,
                    roomVars, playerVars, frameVars
    <2> QED
        BY <2>1, <2>2
<1>c. ASSUME NEW p \in Player, BeginFindSeat(p), pc[p] # "new", requests' \in Nat
      PROVE FrameInv'
    <2>1. TypeOK'
        BY <1>c DEF TypeOK, BeginFindSeat, Goto, Places, Finding, tableVars, playerVars
    <2>2. LockInv' /\ LocalInv'
        BY <1>c DEF TypeOK, LockInv, LocalInv, BeginFindSeat, Goto, Finding, playerVars,
                    Tables
    <2> QED
        BY <2>1, <2>2
<1>d. ASSUME NEW p \in Player, ScanTable(p) PROVE FrameInv'
    <2>1. idx[p] \in Tables
        BY <1>d DEF LocalInv, ScanTable
    <2>2. Cardinality(Taken(idx[p])) \in Nat
        BY <2>1, TakenFinite
    <2>3. TypeOK'
        <3>1. PICK b \in Tables \cup {NoTable}, c \in Nat, i \in Nat, w \in Finding :
                 /\ table' = [table EXCEPT ![p] = b]
                 /\ count' = [count EXCEPT ![p] = c]
                 /\ idx' = [idx EXCEPT ![p] = i]
                 /\ pc' = [pc EXCEPT ![p] = w]
            <4> DEFINE t == idx[p]
                       better == HasRoom(p, t) /\ Cardinality(Taken(t)) > count[p]
                       best == IF better THEN t ELSE table[p]
                       last == t + 1 \notin Tables
                       c == IF last THEN 0
                            ELSE IF better THEN Cardinality(Taken(t)) ELSE count[p]
                       i == IF last THEN 0 ELSE t + 1
                       w == IF ~last THEN "scan"
                            ELSE IF best = NoTable THEN "empty" ELSE "sit"
            <4>1. /\ table' = [table EXCEPT ![p] = best]
                  /\ count' = [count EXCEPT ![p] = c]
                  /\ idx' = [idx EXCEPT ![p] = i]
                  /\ pc' = [pc EXCEPT ![p] = w]
                BY <1>d DEF ScanTable, Goto
            <4>2. best \in Tables \cup {NoTable}
                BY <2>1 DEF TypeOK
            <4>3. c \in Nat
                BY <2>2 DEF TypeOK
            <4>4. i \in Nat
                BY <2>1 DEF Tables
            <4>5. w \in Finding
                BY DEF Finding
            <4> HIDE DEF best, c, i, w
            <4> QED
                BY <4>1, <4>2, <4>3, <4>4, <4>5
        <3>2. UNCHANGED <<mu, players, nextGameID, cap, seats, def, gameID, session,
                          status, gameDef, at, seat, open, booted, gid, opp,
                          requests, told, crashed>>
            BY <1>d DEF ScanTable, roomVars, tableVars, playerVars, ghostVars
        <3> QED
            BY <3>1, <3>2 DEF TypeOK, Places
    <2>4. LockInv' /\ LocalInv'
        BY <1>d, <2>1 DEF TypeOK, LockInv, LocalInv, ScanTable, Goto, Finding, Tables,
                    NoTable, roomVars, playerVars
    <2> QED
        BY <2>3, <2>4
<1>e. ASSUME NEW p \in Player, SitAtBest(p) PROVE FrameInv'
    <2> DEFINE t == table[p]
               n == SeatsOf[gameDef[p]]
               row == Resized(t, n)
               free == {s \in 0 .. n - 1 : CanSit(p, t, row, n, s)}
               s0 == CHOOSE s \in free : \A r \in free : s <= r
    <2>1. t \in Tables /\ gameDef[p] \in Game /\ n \in Nat \ {0} /\ pc[p] = "sit"
        BY <1>e DEF LocalInv, SitAtBest
    <2>2. row \in Row(n)
        BY <2>1, RowTypes
    <2>5. UNCHANGED <<players, nextGameID, gameDef, open, frameVars, requests, crashed>>
        BY <1>e DEF SitAtBest
    <2>6. AfterFindSeat(p) \in {"respond", "seated"}
        BY AfterFindSeatPlace
    <2>3. CASE free # {}
        <3>1. SitDown(p, t, row, n, s0) /\ mu' = NoPlayer /\ Goto(p, AfterFindSeat(p))
              /\ UNCHANGED <<gameID, session, status>>
            BY <1>e, <2>3 DEF SitAtBest
        <3>2. free \in SUBSET Nat
            BY <2>1
        <3>3. s0 \in 0 .. n - 1
            BY <3>2, <2>3, LeastChosen
        <3> HIDE DEF t, n, row, s0
        <3>4. /\ cap' \in [Tables -> Nat \ {0}]
              /\ DOMAIN seats' = Tables
              /\ \A u \in Tables : seats'[u] \in Row(cap'[u])
              /\ def' \in [Tables -> Game \cup {NoGame}]
              /\ at' \in [Player -> Tables \cup {NoTable}]
              /\ seat' \in [Player -> Nat \cup {NoSeat}]
              /\ told' \in [Player -> Nat]
            BY <2>1, <2>2, <3>1, <3>3, SitDownType
        <3>5. TypeOK'
            BY <2>5, <2>6, <3>1, <3>4 DEF TypeOK, Goto, Places, Starting, frameVars
        <3>6. LockInv' /\ LocalInv'
            BY <2>1, <2>5, <2>6, <3>1 DEF TypeOK, LockInv, LocalInv, Goto, Finding,
                    frameVars, SitDown
        <3> QED
            BY <3>5, <3>6
    <2>4. CASE free = {}
        <3>1. /\ cap' = [cap EXCEPT ![t] = n]
              /\ seats' = [seats EXCEPT ![t] = row]
              /\ Goto(p, "empty")
              /\ UNCHANGED <<mu, def, gameID, session, status, at, seat, told>>
            BY <1>e, <2>4 DEF SitAtBest
        <3> HIDE DEF t, n, row
        <3>2. TypeOK'
            BY <1>e, <2>1, <2>2, <3>1 DEF TypeOK, SitAtBest, Goto, Places, Finding,
                    frameVars
        <3>3. LockInv' /\ LocalInv'
            BY <1>e, <3>1 DEF TypeOK, LockInv, LocalInv, SitAtBest, Goto, Finding,
                    frameVars
        <3> QED
            BY <3>2, <3>3
    <2> QED
        BY <2>3, <2>4
<1>f. ASSUME NEW p \in Player, TryEmptyTable(p) PROVE FrameInv'
    <2> DEFINE t == idx[p]
               n == SeatsOf[gameDef[p]]
               row == FreshRow(t, n)
    <2>1. t \in Tables /\ gameDef[p] \in Game /\ n \in Nat \ {0} /\ pc[p] = "empty"
        BY <1>f DEF LocalInv, TryEmptyTable
    <2>2. row \in Row(n) /\ 0 \in 0 .. n - 1
        BY <2>1, RowTypes
    <2>5. UNCHANGED <<players, nextGameID, gameID, session, status, gameDef, open,
                      booted, count, gid, opp, requests, crashed>>
        BY <1>f DEF TryEmptyTable
    <2>6. AfterFindSeat(p) \in {"respond", "seated"}
        BY AfterFindSeatPlace
    <2>3. CASE /\ SitDown(p, t, row, n, 0) /\ mu' = NoPlayer
               /\ table' = [table EXCEPT ![p] = t]
               /\ idx' = [idx EXCEPT ![p] = 0]
               /\ Goto(p, AfterFindSeat(p))
        <3> HIDE DEF t, n, row
        <3>1. /\ cap' \in [Tables -> Nat \ {0}]
              /\ DOMAIN seats' = Tables
              /\ \A u \in Tables : seats'[u] \in Row(cap'[u])
              /\ def' \in [Tables -> Game \cup {NoGame}]
              /\ at' \in [Player -> Tables \cup {NoTable}]
              /\ seat' \in [Player -> Nat \cup {NoSeat}]
              /\ told' \in [Player -> Nat]
            BY <2>1, <2>2, <2>3, SitDownType
        <3>2. TypeOK'
            BY <2>1, <2>3, <2>5, <2>6, <3>1 DEF TypeOK, Goto, Places, Starting
        <3>3. LockInv' /\ LocalInv'
            BY <2>1, <2>3, <2>5, <2>6 DEF TypeOK, LockInv, LocalInv, Goto, Finding, SitDown
        <3> QED
            BY <3>2, <3>3
    <2>4. CASE /\ \/ cap' = [cap EXCEPT ![t] = n] /\ seats' = [seats EXCEPT ![t] = row]
                  \/ UNCHANGED <<cap, seats>>
               /\ idx' = [idx EXCEPT ![p] = @ + 1]
               /\ UNCHANGED <<mu, def, at, seat, table, pc, told>>
        <3> HIDE DEF t, n, row
        <3>1. TypeOK'
            <4>1. /\ cap' \in [Tables -> Nat \ {0}]
                  /\ DOMAIN seats' = Tables
                  /\ \A u \in Tables : seats'[u] \in Row(cap'[u])
                BY <2>1, <2>2, <2>4 DEF TypeOK
            <4>2. idx' \in [Player -> Nat]
                BY <2>1, <2>4 DEF TypeOK
            <4> QED
                BY <2>4, <2>5, <4>1, <4>2 DEF TypeOK
        <3>2. LockInv' /\ LocalInv'
            BY <2>1, <2>4, <2>5 DEF TypeOK, LockInv, LocalInv, Finding
        <3> QED
            BY <3>1, <3>2
    <2> QED
        BY <1>f, <2>3, <2>4 DEF TryEmptyTable
<1>g. ASSUME NEW p \in Player, NoTableAvailable(p) PROVE FrameInv'
    <2>1. TypeOK'
        BY <1>g DEF TypeOK, NoTableAvailable, Goto, Places, Leaving, tableVars,
                    playerVars, ghostVars
    <2>2. LockInv' /\ LocalInv'
        BY <1>g DEF TypeOK, LockInv, LocalInv, NoTableAvailable, Goto, Finding, playerVars
    <2> QED
        BY <2>1, <2>2
<1>h. ASSUME NEW p \in Player, AllSeated(p) PROVE FrameInv'
    <2>1. TypeOK'
        <3>1. CASE EnterLoop(p)
            BY <1>h, <3>1, EnterLoopType DEF TypeOK, AllSeated,
                    roomVars, tableVars, playerVars, ghostVars
        <3>2. CASE Goto(p, "nextID") /\ UNCHANGED <<booted, table, idx, gid>>
            BY <1>h, <3>2 DEF TypeOK, AllSeated, Goto, Places, Starting,
                    roomVars, tableVars, playerVars, ghostVars
        <3> QED
            BY <1>h, <3>1, <3>2 DEF AllSeated
    <2>2. LockInv' /\ LocalInv'
        BY <1>h DEF TypeOK, LockInv, LocalInv, AllSeated, EnterLoop, Goto, Finding,
                    roomVars, playerVars
    <2> QED
        BY <2>1, <2>2
<1>i. ASSUME NEW p \in Player, SeatResponse(p) PROVE FrameInv'
    <2>1. UNCHANGED <<roomVars, tableVars, playerVars, open, booted, count, idx, gid, opp,
                      ghostVars>>
        BY <1>i DEF SeatResponse
    <2>2. /\ pc[p] = "respond"
          /\ \/ Goto(p, "seated") /\ UNCHANGED table
             \/ Goto(p, "leave") /\ table' = [table EXCEPT ![p] = NoTable]
        BY <1>i, Zenon DEF SeatResponse
    <2>3. TypeOK'
        BY <2>1, <2>2 DEF TypeOK, Goto, Places, Leaving, Starting,
                    roomVars, tableVars, playerVars, ghostVars
    <2>4. LockInv' /\ LocalInv'
        BY <2>1, <2>2 DEF TypeOK, LockInv, LocalInv, Goto, Finding, roomVars, playerVars
    <2> QED
        BY <2>3, <2>4
<1>j. ASSUME NEW p \in Player, NextGameID(p) PROVE FrameInv'
    <2>1. TypeOK'
        BY <1>j DEF TypeOK, NextGameID, Goto, Places, Starting,
                    tableVars, playerVars, ghostVars
    <2>2. LockInv' /\ LocalInv'
        BY <1>j DEF TypeOK, LockInv, LocalInv, NextGameID, Goto, Finding, playerVars
    <2> QED
        BY <2>1, <2>2
<1>k. ASSUME NEW p \in Player, StartGame(p) PROVE FrameInv'
    <2>1. TypeOK'
        BY <1>k DEF TypeOK, StartGame, Goto, Places, Starting,
                    roomVars, playerVars, ghostVars
    <2>2. LockInv' /\ LocalInv'
        BY <1>k DEF TypeOK, LockInv, LocalInv, StartGame, Goto, Finding,
                    roomVars, playerVars
    <2> QED
        BY <2>1, <2>2
<1>l. ASSUME NEW p \in Player, SendStartGameM(p) PROVE FrameInv'
    <2>1. told' \in [Player -> Nat]
        BY <1>l DEF TypeOK, SendStartGameM
    <2>2. TypeOK'
        <3>1. CASE EnterLoop(p)
            BY <1>l, <2>1, <3>1, EnterLoopType DEF TypeOK, SendStartGameM,
                    roomVars, tableVars, playerVars
        <3>2. CASE /\ idx' = [idx EXCEPT ![p] = @ + 1]
                   /\ UNCHANGED <<pc, booted, table, gid>>
            BY <1>l, <2>1, <3>2 DEF TypeOK, SendStartGameM,
                    roomVars, tableVars, playerVars
        <3> QED
            BY <1>l, <3>1, <3>2 DEF SendStartGameM
    <2>3. LockInv' /\ LocalInv'
        BY <1>l DEF TypeOK, LockInv, LocalInv, SendStartGameM, EnterLoop, Goto, Finding,
                    roomVars, playerVars
    <2> QED
        BY <2>2, <2>3
<1>m. ASSUME NEW p \in Player, LeaveTable(p) PROVE FrameInv'
    <2>1. at[p] \in Tables
        BY <1>m DEF TypeOK, LeaveTable
    <2>2. Opponent(at[p], seat[p]) \in Player \cup {NoPlayer}
        BY <2>1, OpponentType DEF TypeOK
    <2>3. TypeOK'
        BY <1>m, <2>2 DEF TypeOK, LeaveTable, Spend, Goto, Places,
                    roomVars, tableVars, playerVars
    <2>4. LockInv' /\ LocalInv'
        BY <1>m, <2>1 DEF TypeOK, LockInv, LocalInv, LeaveTable, Spend, Goto, Finding,
                    roomVars, playerVars
    <2> QED
        BY <2>3, <2>4
<1>n. ASSUME NEW p \in Player, Unseat(p) PROVE FrameInv'
    <2>1. at[p] \in Tables
        BY <1>n DEF LocalInv, Unseat
    <2>2. /\ cap' \in [Tables -> Nat \ {0}]
          /\ DOMAIN seats' = Tables
          /\ \A u \in Tables : seats'[u] \in Row(cap'[u])
          /\ def' \in [Tables -> Game \cup {NoGame}]
          /\ gameID' \in [Tables -> Nat]
          /\ session' \in [Tables -> Nat]
          /\ status' \in [Tables -> {0, 1}]
        BY <1>n, <2>1, TableRemoveType DEF Unseat
    <2>3. TypeOK'
        BY <1>n, <2>2 DEF TypeOK, Unseat, Goto, Places, roomVars, playerVars,
                    frameVars, ghostVars
    <2>4. LockInv' /\ LocalInv'
        BY <1>n DEF TypeOK, LockInv, LocalInv, Unseat, Goto, Finding,
                    roomVars, playerVars, frameVars
    <2> QED
        BY <2>3, <2>4
<1>o. ASSUME NEW p \in Player, CloseOpponent(p) PROVE FrameInv'
    <2>1. TypeOK'
        BY <1>o DEF TypeOK, CloseOpponent, Goto, Places, roomVars, tableVars,
                    playerVars, ghostVars
    <2>2. LockInv' /\ LocalInv'
        BY <1>o DEF TypeOK, LockInv, LocalInv, CloseOpponent, Goto, Finding,
                    roomVars, playerVars
    <2> QED
        BY <2>1, <2>2
<1>q. ASSUME NEW p \in Player, GameMessage(p) PROVE FrameInv'
    <2>1. TypeOK'
        BY <1>q DEF TypeOK, GameMessage, Spend, Goto, Places, roomVars, tableVars,
                    playerVars
    <2>2. LockInv' /\ LocalInv'
        BY <1>q DEF TypeOK, LockInv, LocalInv, GameMessage, Spend, Goto, Finding,
                    roomVars, playerVars
    <2> QED
        BY <2>1, <2>2
<1>r. ASSUME NEW p \in Player, Deliver(p) PROVE FrameInv'
    <2>1. TypeOK'
        BY <1>r DEF TypeOK, Deliver, Goto, Places, Leaving, roomVars, tableVars,
                    playerVars, frameVars
    <2>2. LockInv' /\ LocalInv'
        BY <1>r DEF TypeOK, LockInv, LocalInv, Deliver, Goto, Finding,
                    roomVars, playerVars, frameVars
    <2> QED
        BY <2>1, <2>2
<1>s. ASSUME NEW p \in Player, FindOpponent(p), pc[p] \in {"loop", "leave"}
      PROVE FrameInv'
    <2>1. (IF at[p] = NoTable THEN NoPlayer ELSE Opponent(at[p], seat[p]))
             \in Player \cup {NoPlayer}
        BY OpponentType DEF TypeOK
    <2>2. TypeOK'
        BY <1>s, <2>1 DEF TypeOK, FindOpponent, Goto, Places, Leaving,
                    roomVars, tableVars, playerVars, ghostVars
    <2>3. LockInv' /\ LocalInv'
        BY <1>s DEF TypeOK, LockInv, LocalInv, FindOpponent, Goto, Finding,
                    roomVars, playerVars
    <2> QED
        BY <2>2, <2>3
<1>t. ASSUME NEW p \in Player, RemovePlayer(p) PROVE FrameInv'
    <2>1. /\ cap' \in [Tables -> Nat \ {0}]
          /\ DOMAIN seats' = Tables
          /\ \A u \in Tables : seats'[u] \in Row(cap'[u])
          /\ def' \in [Tables -> Game \cup {NoGame}]
          /\ gameID' \in [Tables -> Nat]
          /\ session' \in [Tables -> Nat]
          /\ status' \in [Tables -> {0, 1}]
        <3>1. CASE at[p] = NoTable
            BY <1>t, <3>1 DEF TypeOK, RemovePlayer, tableVars
        <3>2. CASE at[p] # NoTable
            <4>1. at[p] \in Tables
                BY <3>2 DEF TypeOK
            <4> QED
                BY <1>t, <3>2, <4>1, TableRemoveType DEF RemovePlayer
        <3> QED
            BY <3>1, <3>2
    <2>2. TypeOK'
        BY <1>t, <2>1 DEF TypeOK, RemovePlayer, Goto, Places, Nobody
    <2>3. LockInv' /\ LocalInv'
        BY <1>t DEF TypeOK, LockInv, LocalInv, RemovePlayer, Goto, Finding
    <2> QED
        BY <2>2, <2>3
<1>u. ASSUME NEW p \in Player, Proceed(p) \/ Client(p) PROVE FrameInv'
    <2>1. CASE AutoSeat(p) \/ RequestSeat(p)
        BY <2>1, <1>c DEF AutoSeat, RequestSeat, Spend, TypeOK
    <2>2. CASE ReadFails(p) \/ DispatchFails(p)
        BY <2>2, <1>s DEF ReadFails, DispatchFails
    <2> QED
        BY <1>u, <2>1, <2>2, <1>a, <1>b, <1>d, <1>e, <1>f, <1>g, <1>h, <1>i, <1>j, <1>k,
           <1>l, <1>m, <1>n, <1>o, <1>q, <1>r, <1>t DEF Proceed, Client
<1> QED
    BY <1>0, <1>u DEF Next, Stopped

\* In every reachable state every variable has its type, a goroutine that holds
\* Room.mu is inside FindSeat, and it is alone there.
THEOREM TypeCorrect == Spec => []TypeOK
<1>1. Spec => []FrameInv
    BY FrameInit, FrameStep, PTL DEF Spec
<1>2. FrameInv => TypeOK
    BY DEF FrameInv
<1> QED
    BY <1>1, <1>2, PTL

-----------------------------------------------------------------------------
(* The second layer: tables and the players on them *)

\* A connection that has not reached AddPlayer sits nowhere.
NewcomersStand == \A t \in Tables : \A q \in Sitters(t) : pc[q] # "new"

TableInv ==
    /\ TableCoherent
    /\ StarterStays
    /\ BestStillHasRoom
    /\ SeatedSessionLives
    /\ NewcomersStand

\* An empty room satisfies it.
LEMMA TableInit == Init => TableInv
<1> SUFFICES ASSUME Init PROVE TableInv
    OBVIOUS
<1> USE ConstantsAssumption
<1>1. \A t \in Tables : Sitters(t) = {}
    BY DEF Init, Sitters, SeatIdx
<1>2. \A t \in Tables : /\ def[t] = NoGame
                        /\ status[t] = 0 /\ session[t] = Nobody /\ gameID[t] = Nobody
    BY DEF Init
<1>3. TableCoherent
    BY <1>1, <1>2 DEF TableCoherent
<1>4. \A p \in Player : pc[p] = "new"
    BY DEF Init
<1> QED
    BY <1>1, <1>3, <1>4 DEF TableInv, StarterStays, BestStillHasRoom,
            SeatedSessionLives, NewcomersStand, Starting

\* A step of p that leaves the tables alone keeps it, if p does not claim to have
\* been seated, to have found a table with room or to be about to deliver a
\* message without having checked.
LEMMA QuietStep ==
    ASSUME FrameInv, TableInv, NEW p \in Player,
           UNCHANGED <<cap, def, gameID, session, status>>,
           \A t \in Tables : seats'[t] = seats[t],
           \A q \in Player \ {p} :
               /\ pc'[q] = pc[q] /\ at'[q] = at[q] /\ seat'[q] = seat[q]
               /\ table'[q] = table[q] /\ gameDef'[q] = gameDef[q],
           gameDef'[p] = gameDef[p] \/ pc[p] = "new",
           pc'[p] # "new",
           table'[p] \in Tables \cup {NoTable},
           pc'[p] \in Starting =>
               /\ pc[p] \in Starting
               /\ at'[p] = at[p] /\ seat'[p] = seat[p] /\ table'[p] = table[p],
           pc'[p] \in {"scan", "sit"} /\ table'[p] # NoTable =>
               /\ def[table'[p]] \in {NoGame, gameDef'[p]}
               /\ \E s \in SeatIdx(table'[p]) :
                     s < SeatsOf[gameDef'[p]] /\ seats[table'[p]][s] = NoPlayer,
           pc'[p] = "deliver" => session[at'[p]] # Nobody
    PROVE  /\ TableInv'
           /\ \A u \in Tables : Sitters(u) \subseteq Sitters(u)'
<1>1. \A t \in Tables : Sitters(t)' = Sitters(t) /\ SeatIdx(t)' = SeatIdx(t)
    BY DEF Sitters, SeatIdx
<1>2. \A t \in Tables : \A q \in Sitters(t) : q \in Player /\ gameDef'[q] = gameDef[q]
    BY DEF TableInv, NewcomersStand, Sitters
<1>3. TableCoherent'
    BY <1>1, <1>2 DEF TableInv, TableCoherent
<1>4. StarterStays'
    <2>1. \A q \in Player : pc'[q] \in Starting =>
             /\ at'[q] = at[q] /\ seat'[q] = seat[q] /\ table'[q] = table[q]
             /\ at[q] = table[q] /\ table[q] \in Tables
             /\ seat[q] \in SeatIdx(table[q])
             /\ seats[table[q]][seat[q]] = q
        BY DEF TableInv, StarterStays
    <2>2. \A q \in Player : pc'[q] \in Starting =>
             /\ at'[q] = table'[q] /\ table'[q] \in Tables
             /\ seat'[q] \in 0 .. cap'[table'[q]] - 1
             /\ seats'[table'[q]][seat'[q]] = q
        BY <2>1 DEF SeatIdx
    <2> QED
        BY <2>2 DEF StarterStays, SeatIdx
<1>5. BestStillHasRoom'
    <2>1. ASSUME NEW q \in Player, pc'[q] \in {"scan", "sit"}, table'[q] # NoTable
          PROVE  /\ def'[table'[q]] \in {NoGame, gameDef'[q]}
                 /\ \E s \in 0 .. cap'[table'[q]] - 1 :
                       s < SeatsOf[gameDef'[q]] /\ seats'[table'[q]][s] = NoPlayer
        <3>1. table'[q] \in Tables
            BY <2>1 DEF FrameInv, TypeOK
        <3>2. /\ def[table'[q]] \in {NoGame, gameDef'[q]}
              /\ \E s \in SeatIdx(table'[q]) :
                    s < SeatsOf[gameDef'[q]] /\ seats[table'[q]][s] = NoPlayer
            BY <2>1 DEF TableInv, BestStillHasRoom
        <3> QED
            BY <3>1, <3>2 DEF SeatIdx
    <2> QED
        BY <2>1 DEF BestStillHasRoom, SeatIdx
<1>6. SeatedSessionLives'
    BY <1>1 DEF TableInv, SeatedSessionLives, Sits
<1>7. NewcomersStand'
    BY <1>1, <1>2 DEF TableInv, NewcomersStand
<1> QED
    BY <1>1, <1>3, <1>4, <1>5, <1>6, <1>7 DEF TableInv

\* What FindSeat knows about the row it lays out before it sits p down in it:
\* a table of p's game keeps its seats, a table without a game has nobody.
GoodRow(p, t, n, row, s) ==
    /\ row \in Row(n) /\ s \in 0 .. n - 1 /\ row[s] = NoPlayer
    /\ n = SeatsOf[gameDef[p]]
    /\ def[t] \in {NoGame, gameDef[p]}
    /\ def[t] = gameDef[p] => cap[t] = n /\ row = seats[t]
    /\ def[t] = NoGame => \A r \in 0 .. n - 1 : row[r] = NoPlayer

\* sitDownLocked keeps it, and takes nobody off the table.
LEMMA SitStep ==
    ASSUME FrameInv, TableInv, NEW p \in Player, NEW t \in Tables,
           NEW n \in Nat \ {0}, NEW row, NEW s,
           pc[p] \in Finding, GoodRow(p, t, n, row, s), SitDown(p, t, row, n, s),
           UNCHANGED <<gameID, session, status, gameDef>>,
           Goto(p, AfterFindSeat(p)), table'[p] = t,
           \A q \in Player \ {p} : table'[q] = table[q]
    PROVE  /\ TableInv'
           /\ \A u \in Tables : Sitters(u) \subseteq Sitters(u)'
<1> USE ConstantsAssumption
<1>0. /\ gameDef[p] \in Game
      /\ pc'[p] \in {"respond", "seated"} /\ \A q \in Player \ {p} : pc'[q] = pc[q]
      /\ p # NoPlayer
    BY AfterFindSeatPlace DEF FrameInv, LocalInv, TypeOK, Goto, Finding
<1>1. /\ cap'[t] = n /\ seats'[t] = [row EXCEPT ![s] = p] /\ def'[t] = gameDef[p]
      /\ at'[p] = t /\ seat'[p] = s
    BY DEF SitDown, FrameInv, TypeOK
<1>2. \A u \in Tables \ {t} : /\ cap'[u] = cap[u] /\ seats'[u] = seats[u]
                              /\ def'[u] = def[u]
    BY DEF SitDown, FrameInv, TypeOK
<1>3. \A q \in Player \ {p} : at'[q] = at[q] /\ seat'[q] = seat[q]
    BY DEF SitDown, FrameInv, TypeOK
<1>4. \A u \in Tables \ {t} : Sitters(u)' = Sitters(u) /\ SeatIdx(u)' = SeatIdx(u)
    BY <1>2 DEF Sitters, SeatIdx
<1>5. SeatIdx(t)' = 0 .. n - 1 /\ seats'[t][s] = p
      /\ \A r \in 0 .. n - 1 : r # s => seats'[t][r] = row[r]
    BY <1>1 DEF SeatIdx, GoodRow, Row
<1>6. p \in Sitters(t)'
    BY <1>5 DEF Sitters, GoodRow
<1>7. \A q \in Player : \A r \in SeatIdx(t) :
         seats[t][r] = q => r \in SeatIdx(t)' /\ seats'[t][r] = q
    <2>1. CASE def[t] = NoGame
        BY <2>1 DEF TableInv, TableCoherent, Sitters
    <2>2. CASE def[t] = gameDef[p]
        <3>1. cap[t] = n /\ row = seats[t] /\ row[s] = NoPlayer
            BY <2>2 DEF GoodRow
        <3>2. SeatIdx(t) = 0 .. n - 1
            BY <3>1 DEF SeatIdx
        <3> QED
            BY <3>1, <3>2, <1>5
    <2> QED
        BY <2>1, <2>2 DEF GoodRow
<1>8. \A u \in Tables : Sitters(u) \subseteq Sitters(u)'
    <2>1. Sitters(t) \subseteq Sitters(t)'
        BY <1>7 DEF Sitters
    <2> QED
        BY <2>1, <1>4
<1>9. \A q \in Sitters(t)' : q = p \/ (q \in Sitters(t) /\ def[t] = gameDef[p])
    <2> SUFFICES ASSUME NEW q \in Player, NEW r \in 0 .. n - 1, seats'[t][r] = q, q # p
                 PROVE  q \in Sitters(t) /\ def[t] = gameDef[p]
        BY <1>5 DEF Sitters
    <2>1. row[r] = q
        BY <1>5
    <2>2. def[t] # NoGame
        BY <2>1 DEF GoodRow
    <2>3. cap[t] = n /\ row = seats[t] /\ def[t] = gameDef[p]
        BY <2>2 DEF GoodRow
    <2>4. r \in SeatIdx(t)
        BY <2>3 DEF SeatIdx
    <2> QED
        BY <2>1, <2>3, <2>4 DEF Sitters
<1>10. TableCoherent'
    <2> SUFFICES ASSUME NEW u \in Tables
                 PROVE IF def'[u] = NoGame
                       THEN /\ Sitters(u)' = {}
                            /\ status'[u] = 0 /\ session'[u] = Nobody /\ gameID'[u] = Nobody
                       ELSE /\ Sitters(u)' # {}
                            /\ cap'[u] = SeatsOf[def'[u]]
                            /\ \A q \in Sitters(u)' : gameDef'[q] = def'[u]
                            /\ session'[u] = gameID'[u]
                            /\ status'[u] = 1 <=> session'[u] # Nobody
        BY DEF TableCoherent
    <2>1. CASE u # t
        BY <2>1, <1>2, <1>4 DEF TableInv, TableCoherent
    <2>2. CASE u = t
        <3>1. def'[t] # NoGame /\ Sitters(t)' # {} /\ cap'[t] = SeatsOf[def'[t]]
            BY <1>0, <1>1, <1>6 DEF GoodRow
        <3>2. \A q \in Sitters(t)' : gameDef'[q] = def'[t]
            BY <1>1, <1>9, <1>0 DEF TableInv, TableCoherent
        <3>3. session'[t] = gameID'[t] /\ (status'[t] = 1 <=> session'[t] # Nobody)
            BY DEF TableInv, TableCoherent
        <3> QED
            BY <2>2, <3>1, <3>2, <3>3
    <2> QED
        BY <2>1, <2>2
<1>11. StarterStays'
    <2>1. ASSUME NEW q \in Player, pc'[q] \in Starting
          PROVE  /\ at'[q] = table'[q] /\ table'[q] \in Tables
                 /\ seat'[q] \in 0 .. cap'[table'[q]] - 1
                 /\ seats'[table'[q]][seat'[q]] = q
        <3>1. CASE q = p
            BY <3>1, <1>1, <1>5 DEF GoodRow
        <3>2. CASE q # p
            <4> DEFINE u == table[q]
                       r == seat[q]
            <4>1. at[q] = u /\ u \in Tables /\ r \in SeatIdx(u) /\ seats[u][r] = q
                BY <2>1, <3>2, <1>0 DEF TableInv, StarterStays
            <4>2. table'[q] = u /\ seat'[q] = r /\ at'[q] = u
                BY <3>2, <1>3, <4>1
            <4>3. CASE u = t
                BY <4>1, <4>2, <4>3, <1>7 DEF SeatIdx
            <4>4. CASE u # t
                BY <4>1, <4>2, <4>4, <1>2 DEF SeatIdx
            <4> QED
                BY <4>3, <4>4
        <3> QED
            BY <3>1, <3>2
    <2> QED
        BY <2>1 DEF StarterStays, SeatIdx
<1>12. BestStillHasRoom'
    <2>1. \A q \in Player : pc'[q] \notin {"scan", "sit"}
        <3>1. mu = p
            BY DEF FrameInv, LockInv
        <3>2. \A q \in Player \ {p} : pc[q] \notin {"scan", "sit"}
            BY <3>1 DEF FrameInv, LockInv, Finding
        <3> QED
            BY <3>2, <1>0
    <2> QED
        BY <2>1 DEF BestStillHasRoom
<1>13. SeatedSessionLives'
    <2>1. ASSUME NEW q \in Player, pc'[q] = "deliver",
                 at'[q] \in Tables, q \in Sitters(at[q])'
          PROVE  session'[at'[q]] # Nobody
        <3>1. q # p /\ pc[q] = "deliver" /\ at[q] \in Tables /\ at'[q] = at[q]
            BY <2>1, <1>0, <1>3
        <3>2. q \in Sitters(at[q])
            <4>1. CASE at[q] = t
                <5>1. q \in Sitters(t)'
                    BY <2>1, <3>1, <4>1 DEF Sitters, SeatIdx
                <5> QED
                    BY <5>1, <3>1, <4>1, <1>9
            <4>2. CASE at[q] # t
                <5>1. q \in Sitters(at[q])
                    BY <2>1, <3>1, <4>2, <1>2 DEF Sitters, SeatIdx
                <5> QED
                    BY <5>1
            <4> QED
                BY <4>1, <4>2
        <3> QED
            BY <3>1, <3>2 DEF TableInv, SeatedSessionLives, Sits
    <2> QED
        BY <2>1 DEF SeatedSessionLives, Sits
<1>14. NewcomersStand'
    BY <1>0, <1>4, <1>9 DEF TableInv, NewcomersStand, Sitters
<1> QED
    BY <1>8, <1>10, <1>11, <1>12, <1>13, <1>14 DEF TableInv

\* Table.RemovePlayer keeps it, and takes nobody but p off a table.
LEMMA VacateStep ==
    ASSUME FrameInv, TableInv, NEW p \in Player, NEW t \in Tables,
           TableRemovePlayer(t, p), UNCHANGED <<gameDef, table>>,
           pc'[p] \in {"loop", "closeOpp", "done"},
           \A q \in Player \ {p} :
               pc'[q] = pc[q] /\ at'[q] = at[q] /\ seat'[q] = seat[q]
    PROVE  /\ TableInv'
           /\ \A u \in Tables : Sitters(u) \subseteq Sitters(u)' \cup {p}
<1> USE ConstantsAssumption
<1> DEFINE row == Vacated(t, p)
           empty == \A s \in SeatIdx(t) : row[s] = NoPlayer
<1>1. /\ seats'[t] = row /\ cap' = cap
      /\ \A u \in Tables \ {t} :
            /\ seats'[u] = seats[u] /\ def'[u] = def[u] /\ status'[u] = status[u]
            /\ session'[u] = session[u] /\ gameID'[u] = gameID[u]
    BY DEF TableRemovePlayer, FrameInv, TypeOK
<1>2. \A s \in SeatIdx(t) : row[s] = IF seats[t][s] = p THEN NoPlayer ELSE seats[t][s]
    BY DEF Vacated
<1>3. \A s \in SeatIdx(t) : seats[t][s] \in Player \cup {NoPlayer}
    BY DEF FrameInv, TypeOK, Row, SeatIdx
<1>4. \A u \in Tables : SeatIdx(u)' = SeatIdx(u)
    BY <1>1 DEF SeatIdx
<1>5. \A u \in Tables \ {t} : Sitters(u)' = Sitters(u)
    BY <1>1, <1>4 DEF Sitters
<1>6. Sitters(t)' = Sitters(t) \ {p}
    BY <1>1, <1>2, <1>4 DEF Sitters
<1>7. IF empty
      THEN /\ def'[t] = NoGame /\ Sitters(t)' = {}
           /\ status'[t] = 0 /\ session'[t] = Nobody /\ gameID'[t] = Nobody
      ELSE /\ def'[t] = def[t] /\ Sitters(t)' # {}
           /\ status'[t] = status[t] /\ session'[t] = session[t]
           /\ gameID'[t] = gameID[t]
    <2>1. CASE empty
        <3>1. Sitters(t)' = {}
            BY <2>1, <1>1, <1>4 DEF Sitters
        <3> QED
            BY <2>1, <3>1 DEF TableRemovePlayer, FrameInv, TypeOK
    <2>2. CASE ~empty
        <3>1. PICK s \in SeatIdx(t) : row[s] # NoPlayer
            BY <2>2
        <3>2. row[s] \in Sitters(t)'
            BY <3>1, <1>1, <1>2, <1>3, <1>4 DEF Sitters
        <3> QED
            BY <2>2, <3>2 DEF TableRemovePlayer
    <2> QED
        BY <2>1, <2>2
<1> HIDE DEF row, empty
<1>8. TableCoherent'
    <2> SUFFICES ASSUME NEW u \in Tables
                 PROVE IF def'[u] = NoGame
                       THEN /\ Sitters(u)' = {}
                            /\ status'[u] = 0 /\ session'[u] = Nobody /\ gameID'[u] = Nobody
                       ELSE /\ Sitters(u)' # {}
                            /\ cap'[u] = SeatsOf[def'[u]]
                            /\ \A q \in Sitters(u)' : gameDef'[q] = def'[u]
                            /\ session'[u] = gameID'[u]
                            /\ status'[u] = 1 <=> session'[u] # Nobody
        BY DEF TableCoherent
    <2>1. CASE u # t
        BY <2>1, <1>1, <1>5 DEF TableInv, TableCoherent
    <2>2. CASE u = t
        BY <2>2, <1>1, <1>6, <1>7 DEF TableInv, TableCoherent
    <2> QED
        BY <2>1, <2>2
<1>9. StarterStays'
    <2>1. ASSUME NEW q \in Player, pc'[q] \in Starting
          PROVE  /\ at'[q] = table'[q] /\ table'[q] \in Tables
                 /\ seat'[q] \in 0 .. cap'[table'[q]] - 1
                 /\ seats'[table'[q]][seat'[q]] = q
        <3>1. q # p
            BY <2>1 DEF Starting
        <3>2. /\ at[q] = table[q] /\ table[q] \in Tables
              /\ seat[q] \in SeatIdx(table[q]) /\ seats[table[q]][seat[q]] = q
            BY <2>1, <3>1 DEF TableInv, StarterStays
        <3>3. at'[q] = at[q] /\ seat'[q] = seat[q] /\ table'[q] = table[q]
            BY <3>1
        <3> QED
            BY <3>1, <3>2, <3>3, <1>1, <1>2 DEF row, SeatIdx
    <2> QED
        BY <2>1 DEF StarterStays, SeatIdx
<1>10. BestStillHasRoom'
    <2>1. ASSUME NEW q \in Player, pc'[q] \in {"scan", "sit"}, table'[q] # NoTable
          PROVE  /\ def'[table'[q]] \in {NoGame, gameDef'[q]}
                 /\ \E s \in 0 .. cap'[table'[q]] - 1 :
                       s < SeatsOf[gameDef'[q]] /\ seats'[table'[q]][s] = NoPlayer
        <3>1. q # p /\ pc[q] \in {"scan", "sit"} /\ table[q] \in Tables
            BY <2>1 DEF FrameInv, TypeOK
        <3>2. PICK s \in SeatIdx(table[q]) :
                  /\ def[table[q]] \in {NoGame, gameDef[q]}
                  /\ s < SeatsOf[gameDef[q]]
                  /\ seats[table[q]][s] = NoPlayer
            BY <2>1, <3>1 DEF TableInv, BestStillHasRoom
        <3>3. seats'[table[q]][s] = NoPlayer
            BY <3>1, <3>2, <1>1, <1>2 DEF row
        <3>4. def'[table[q]] \in {NoGame, gameDef[q]}
            BY <3>1, <3>2, <1>1, <1>7
        <3> QED
            BY <3>2, <3>3, <3>4, <1>1 DEF SeatIdx
    <2> QED
        BY <2>1 DEF BestStillHasRoom, SeatIdx
<1>11. SeatedSessionLives'
    <2>1. ASSUME NEW q \in Player, pc'[q] = "deliver",
                 at'[q] \in Tables, q \in Sitters(at[q])'
          PROVE  session'[at'[q]] # Nobody
        <3>1. q # p /\ pc[q] = "deliver" /\ at[q] \in Tables /\ at'[q] = at[q]
            BY <2>1
        <3>2. CASE at[q] # t
            <4>1. q \in Sitters(at[q])
                BY <2>1, <3>1, <3>2, <1>1 DEF Sitters, SeatIdx
            <4> QED
                BY <3>1, <3>2, <4>1, <1>1 DEF TableInv, SeatedSessionLives, Sits
        <3>3. CASE at[q] = t
            <4>1. q \in Sitters(t)'
                BY <2>1, <3>1, <3>3 DEF Sitters, SeatIdx
            <4>2. q \in Sitters(t) /\ session'[t] = session[t]
                BY <4>1, <1>6, <1>7
            <4> QED
                BY <3>1, <3>3, <4>2 DEF TableInv, SeatedSessionLives, Sits
        <3> QED
            BY <3>2, <3>3
    <2> QED
        BY <2>1 DEF SeatedSessionLives, Sits
<1>12. NewcomersStand'
    BY <1>5, <1>6 DEF TableInv, NewcomersStand, Sitters
<1> QED
    BY <1>5, <1>6, <1>8, <1>9, <1>10, <1>11, <1>12 DEF TableInv

\* Only the player leaves that p's step takes off a table, and p is leaving.
OnlyLeavers ==
    \A p \in Player, t \in Tables :
        p \in Sitters(t) /\ p \notin Sitters(t)' => pc[p] \in {"unseat", "remove"}

\* A table with fewer players than seats has a free one among the first n.
LEMMA RoomMeansFree ==
    ASSUME TypeOK, NEW p \in Player, gameDef[p] \in Game, NEW t \in Tables,
           HasRoom(p, t)
    PROVE  \E s \in SeatIdx(t) : s < SeatsOf[gameDef[p]] /\ seats[t][s] = NoPlayer
<1> DEFINE n == SeatsOf[gameDef[p]]
<1>1. n \in Nat \ {0} /\ cap[t] \in Nat /\ n <= cap[t] /\ Cardinality(Taken(t)) < n
    BY ConstantsAssumption DEF HasRoom, TypeOK
<1>2. 0 .. n - 1 \subseteq SeatIdx(t)
    BY <1>1 DEF SeatIdx
<1>3. Cardinality(0 .. n - 1) = n
    <2> HIDE DEF n
    <2>1. n - 1 \in Int /\ 0 \in Int /\ ~(0 > n - 1) /\ n - 1 - 0 + 1 = n
        BY <1>1
    <2> QED
        BY <2>1, FS_Interval
<1>4. SUFFICES ASSUME \A s \in 0 .. n - 1 : seats[t][s] # NoPlayer PROVE FALSE
    BY <1>1, <1>2
<1>5. 0 .. n - 1 \subseteq Taken(t)
    BY <1>2, <1>4 DEF Taken
<1>6. IsFiniteSet(Taken(t)) /\ Cardinality(Taken(t)) \in Nat
    BY TakenFinite
<1>7. Cardinality(0 .. n - 1) <= Cardinality(Taken(t))
    BY <1>5, <1>6, FS_Subset
<1> QED
    BY <1>1, <1>3, <1>6, <1>7

\* StartGame keeps it: somebody, the starter, sits at the table it starts.
LEMMA StartStep ==
    ASSUME FrameInv, TableInv, NEW p \in Player, StartGame(p)
    PROVE  TableInv' /\ \A u \in Tables : Sitters(u)' = Sitters(u)
<1> DEFINE t == table[p]
<1>1. pc[p] = "start" /\ t \in Tables /\ gid[p] \in Nat /\ gid[p] > 0
    BY DEF StartGame, FrameInv, TypeOK, LocalInv, TableInv, StarterStays, Starting
<1>2. p \in Sitters(t)
    BY <1>1 DEF TableInv, StarterStays, Starting, Sitters
<1>3. def[t] # NoGame
    BY <1>1, <1>2 DEF TableInv, TableCoherent
<1>4. /\ session' = [session EXCEPT ![t] = gid[p]]
      /\ gameID' = [gameID EXCEPT ![t] = gid[p]]
      /\ status' = [status EXCEPT ![t] = 1]
      /\ UNCHANGED <<cap, seats, def, gameDef, at, seat, table>>
    BY <1>3 DEF StartGame, playerVars
<1>5. pc'[p] = "tell" /\ \A q \in Player \ {p} : pc'[q] = pc[q]
    BY DEF StartGame, Goto, FrameInv, TypeOK
<1>6. \A u \in Tables : Sitters(u)' = Sitters(u) /\ SeatIdx(u)' = SeatIdx(u)
    BY <1>4 DEF Sitters, SeatIdx
<1>7. \A u \in Tables :
         /\ u = t => session'[u] = gid[p] /\ gameID'[u] = gid[p] /\ status'[u] = 1
         /\ u # t => /\ session'[u] = session[u] /\ gameID'[u] = gameID[u]
                     /\ status'[u] = status[u]
    BY <1>4 DEF FrameInv, TypeOK
<1> HIDE DEF t
<1>8. TableCoherent'
    BY <1>1, <1>3, <1>4, <1>6, <1>7 DEF TableInv, TableCoherent, Nobody
<1>9. StarterStays' /\ BestStillHasRoom' /\ NewcomersStand'
    <2>1. \A q \in Player : /\ pc'[q] \in Starting <=> pc[q] \in Starting
                            /\ pc'[q] \in {"scan", "sit"} => pc'[q] = pc[q]
                            /\ pc'[q] = "new" => pc[q] = "new"
        BY <1>1, <1>5 DEF Starting
    <2>2. StarterStays'
        BY <2>1, <1>4 DEF TableInv, StarterStays, SeatIdx
    <2>3. BestStillHasRoom'
        BY <2>1, <1>4 DEF TableInv, BestStillHasRoom, SeatIdx
    <2>4. NewcomersStand'
        BY <2>1, <1>6 DEF TableInv, NewcomersStand, Sitters
    <2> QED
        BY <2>2, <2>3, <2>4
<1>10. SeatedSessionLives'
    BY <1>1, <1>4, <1>5, <1>6, <1>7 DEF TableInv, SeatedSessionLives, Sits, Nobody
<1> QED
    BY <1>6, <1>8, <1>9, <1>10 DEF TableInv

\* FindSeat seats p at t, in a row that is good.
TakesSeat(p, t) ==
    /\ pc[p] \in Finding
    /\ \E n \in Nat \ {0} : \E row \in Row(n), s \in 0 .. n - 1 :
          GoodRow(p, t, n, row, s) /\ SitDown(p, t, row, n, s)
    /\ UNCHANGED <<gameID, session, status, gameDef>>
    /\ Goto(p, AfterFindSeat(p)) /\ table'[p] = t
    /\ \A q \in Player \ {p} : table'[q] = table[q]

\* The second critical section of FindSeat always seats p, since the best table
\* still has room, and the row it resizes is a good one.
LEMMA BestSeat ==
    ASSUME FrameInv, TableInv, NEW p \in Player, SitAtBest(p)
    PROVE  table[p] \in Tables /\ TakesSeat(p, table[p])
<1> USE ConstantsAssumption
<1> DEFINE t == table[p]
           n == SeatsOf[gameDef[p]]
           row == Resized(t, n)
           free == {s \in 0 .. n - 1 : CanSit(p, t, row, n, s)}
           s0 == CHOOSE s \in free : \A r \in free : s <= r
<1>1. t \in Tables /\ gameDef[p] \in Game /\ n \in Nat \ {0} /\ pc[p] = "sit"
    BY DEF FrameInv, LocalInv, SitAtBest
<1>2. row \in Row(n)
    BY <1>1, RowTypes DEF FrameInv
<1>3. /\ def[t] \in {NoGame, gameDef[p]}
      /\ \E s \in SeatIdx(t) : s < n /\ seats[t][s] = NoPlayer
    BY <1>1 DEF TableInv, BestStillHasRoom, Tables, NoTable
<1>4. free # {}
    <2>1. PICK s \in SeatIdx(t) : s < n /\ seats[t][s] = NoPlayer
        BY <1>3
    <2>2. s \in 0 .. n - 1 /\ row[s] = NoPlayer
        BY <1>1, <2>1 DEF SeatIdx, Resized, FrameInv, TypeOK
    <2> QED
        BY <1>3, <2>1, <2>2 DEF CanSit
<1>5. s0 \in free
    <2>1. free \in SUBSET Nat
        BY <1>1
    <2> QED
        BY <2>1, <1>4, LeastChosen
<1>6. def[t] = gameDef[p] => cap[t] = n /\ row = seats[t]
    <2> SUFFICES ASSUME def[t] = gameDef[p] PROVE cap[t] = n /\ row = seats[t]
        OBVIOUS
    <2>1. cap[t] = n
        BY <1>1 DEF TableInv, TableCoherent
    <2>2. seats[t] \in [0 .. n - 1 -> Player \cup {NoPlayer}]
        BY <1>1, <2>1 DEF FrameInv, TypeOK, Row
    <2> QED
        BY <2>1, <2>2 DEF Resized, SeatIdx
<1>7. def[t] = NoGame => \A r \in 0 .. n - 1 : row[r] = NoPlayer
    <2> SUFFICES ASSUME def[t] = NoGame, NEW r \in 0 .. n - 1 PROVE row[r] = NoPlayer
        OBVIOUS
    <2>1. Sitters(t) = {} /\ seats[t] \in Row(cap[t])
        BY <1>1 DEF TableInv, TableCoherent, FrameInv, TypeOK
    <2>2. \A s \in SeatIdx(t) : seats[t][s] = NoPlayer
        BY <2>1 DEF Sitters, Row, SeatIdx
    <2> QED
        BY <2>2 DEF Resized
<1>8. GoodRow(p, t, n, row, s0)
    BY <1>2, <1>3, <1>5, <1>6, <1>7 DEF GoodRow, CanSit
<1>9. /\ SitDown(p, t, row, n, s0) /\ Goto(p, AfterFindSeat(p))
      /\ UNCHANGED <<gameID, session, status, gameDef, table>>
    BY <1>4 DEF SitAtBest, frameVars
<1>10. pc[p] \in Finding
    BY <1>1 DEF Finding
<1>11. table'[p] = t /\ \A q \in Player \ {p} : table'[q] = table[q]
    BY <1>9
<1>12. s0 \in 0 .. n - 1
    BY <1>5
<1> HIDE DEF row, s0, free, n, t
<1> QED
    BY <1>1, <1>2, <1>8, <1>9, <1>10, <1>11, <1>12 DEF TakesSeat, t

\* So does each step of FindSeat's second pass: where p does not sit down, the
\* table is somebody else's game or has its game's size already.
LEMMA EmptySeat ==
    ASSUME FrameInv, TableInv, NEW p \in Player, TryEmptyTable(p)
    PROVE  \/ idx[p] \in Tables /\ TakesSeat(p, idx[p])
           \/ /\ pc[p] = "empty"
              /\ UNCHANGED <<cap, def, gameID, session, status, pc, at, seat, table, gameDef>>
              /\ \A u \in Tables : seats'[u] = seats[u]
<1> USE ConstantsAssumption
<1> DEFINE t == idx[p]
           n == SeatsOf[gameDef[p]]
           row == FreshRow(t, n)
<1>1. t \in Tables /\ gameDef[p] \in Game /\ n \in Nat \ {0} /\ pc[p] = "empty"
    BY DEF FrameInv, LocalInv, TryEmptyTable
<1>2. row \in Row(n) /\ 0 \in 0 .. n - 1
    BY <1>1, RowTypes DEF FrameInv
<1>3. def[t] = gameDef[p] => cap[t] = n /\ row = seats[t]
    BY <1>1 DEF TableInv, TableCoherent, FreshRow
<1>4. def[t] = NoGame => \A r \in 0 .. n - 1 : row[r] = NoPlayer
    <2> SUFFICES ASSUME def[t] = NoGame, NEW r \in 0 .. n - 1 PROVE row[r] = NoPlayer
        OBVIOUS
    <2>1. Sitters(t) = {} /\ seats[t] \in Row(cap[t])
        BY <1>1 DEF TableInv, TableCoherent, FrameInv, TypeOK
    <2>2. \A s \in SeatIdx(t) : seats[t][s] = NoPlayer
        BY <2>1 DEF Sitters, Row, SeatIdx
    <2> QED
        BY <2>2 DEF FreshRow, SeatIdx
<1>5. UNCHANGED <<gameID, session, status, gameDef>>
    BY DEF TryEmptyTable
<1>6. CASE /\ CanSit(p, t, row, n, 0) /\ SitDown(p, t, row, n, 0)
           /\ table' = [table EXCEPT ![p] = t] /\ Goto(p, AfterFindSeat(p))
    <2>1. GoodRow(p, t, n, row, 0)
        BY <1>2, <1>3, <1>4, <1>6 DEF GoodRow, CanSit
    <2>2. table'[p] = t /\ \A q \in Player \ {p} : table'[q] = table[q]
        BY <1>6 DEF FrameInv, TypeOK
    <2>3. pc[p] \in Finding
        BY <1>1 DEF Finding
    <2> HIDE DEF row, n, t
    <2> QED
        BY <1>1, <1>2, <1>5, <1>6, <2>1, <2>2, <2>3 DEF TakesSeat, t
<1>7. CASE /\ def[t] \notin {NoGame, gameDef[p]} \/ ~CanSit(p, t, row, n, 0)
           /\ IF def[t] \in {NoGame, gameDef[p]}
              THEN /\ cap' = [cap EXCEPT ![t] = n]
                   /\ seats' = [seats EXCEPT ![t] = row]
              ELSE UNCHANGED <<cap, seats>>
           /\ UNCHANGED <<mu, def, at, seat, table, pc, told>>
    <2>1. def[t] # NoGame
        BY <1>1, <1>2, <1>4, <1>7 DEF CanSit
    <2>2. cap' = cap /\ \A u \in Tables : seats'[u] = seats[u]
        BY <1>1, <1>3, <1>7, <2>1 DEF FrameInv, TypeOK
    <2>3. UNCHANGED <<cap, def, gameID, session, status, pc, at, seat, table, gameDef>>
        BY <1>5, <1>7, <2>2
    <2> QED
        BY <1>1, <2>2, <2>3
<1> QED
    BY <1>6, <1>7 DEF TryEmptyTable

\* So both passes keep it.
LEMMA TakesSeatStep ==
    ASSUME FrameInv, TableInv, NEW p \in Player, NEW t \in Tables, TakesSeat(p, t)
    PROVE  /\ TableInv'
           /\ \A u \in Tables : Sitters(u) \subseteq Sitters(u)'
<1>1. PICK n \in Nat \ {0} : \E row \in Row(n), s \in 0 .. n - 1 :
             GoodRow(p, t, n, row, s) /\ SitDown(p, t, row, n, s)
    BY DEF TakesSeat
<1>2. PICK row \in Row(n), s \in 0 .. n - 1 :
             GoodRow(p, t, n, row, s) /\ SitDown(p, t, row, n, s)
    BY <1>1
<1> QED
    BY <1>2, SitStep DEF TakesSeat

LEMMA SitAtBestStep ==
    ASSUME FrameInv, TableInv, NEW p \in Player, SitAtBest(p)
    PROVE  /\ TableInv'
           /\ \A u \in Tables : Sitters(u) \subseteq Sitters(u)'
BY BestSeat, TakesSeatStep

LEMMA TryEmptyStep ==
    ASSUME FrameInv, TableInv, NEW p \in Player, TryEmptyTable(p)
    PROVE  /\ TableInv'
           /\ \A u \in Tables : Sitters(u) \subseteq Sitters(u)'
<1>1. CASE idx[p] \in Tables /\ TakesSeat(p, idx[p])
    BY <1>1, TakesSeatStep
<1>2. CASE /\ pc[p] = "empty"
           /\ UNCHANGED <<cap, def, gameID, session, status, pc, at, seat, table, gameDef>>
           /\ \A u \in Tables : seats'[u] = seats[u]
    <2>1. pc[p] \notin Starting \cup {"new", "scan", "sit", "deliver"}
        BY <1>2 DEF Starting
    <2> QED
        BY <1>2, <2>1, QuietStep DEF FrameInv, TypeOK
<1> QED
    BY <1>1, <1>2, EmptySeat

\* A step that changes none of the variables it speaks of keeps it.
LEMMA IdleStep ==
    ASSUME FrameInv, TableInv,
           UNCHANGED <<cap, seats, def, gameID, session, status, gameDef, at, seat, pc,
                       table>>
    PROVE  TableInv' /\ OnlyLeavers
<1>1. \A u \in Tables : Sitters(u)' = Sitters(u) /\ SeatIdx(u)' = SeatIdx(u)
    BY DEF Sitters, SeatIdx
<1>2. TableCoherent' /\ SeatedSessionLives' /\ NewcomersStand'
    BY <1>1 DEF TableInv, TableCoherent, SeatedSessionLives, Sits, NewcomersStand
<1>3. StarterStays' /\ BestStillHasRoom'
    BY <1>1 DEF TableInv, StarterStays, BestStillHasRoom, SeatIdx
<1> QED
    BY <1>1, <1>2, <1>3 DEF TableInv, OnlyLeavers

\* Every step keeps the second layer, and takes only leavers off a table.
LEMMA TableStep == FrameInv /\ TableInv /\ [Next]_vars => TableInv' /\ OnlyLeavers
<1> SUFFICES ASSUME FrameInv, TableInv, [Next]_vars PROVE TableInv' /\ OnlyLeavers
    OBVIOUS
<1> USE ConstantsAssumption
<1>1. TypeOK /\ LockInv /\ LocalInv
    BY DEF FrameInv
<1>0. CASE UNCHANGED vars
    <2>1. UNCHANGED <<cap, seats, def, gameID, session, status, gameDef, at, seat,
                      pc, table>>
        BY <1>0 DEF vars, tableVars, playerVars, frameVars
    <2> QED
        BY <2>1, IdleStep
<1>a. ASSUME NEW p \in Player, AddPlayer(p) PROVE TableInv' /\ OnlyLeavers
    <2>1. /\ UNCHANGED <<cap, seats, def, gameID, session, status, at, seat, table>>
          /\ pc[p] = "new" /\ pc'[p] = "greet"
          /\ \A q \in Player \ {p} : pc'[q] = pc[q] /\ gameDef'[q] = gameDef[q]
        BY <1>1, <1>a DEF AddPlayer, Goto, TypeOK, tableVars, frameVars
    <2> QED
        BY <1>1, <2>1, QuietStep DEF TypeOK, Starting, OnlyLeavers
<1>b. ASSUME NEW p \in Player,
             UNCHANGED <<cap, seats, def, gameID, session, status, gameDef, at, seat>>,
             \A q \in Player \ {p} : pc'[q] = pc[q] /\ table'[q] = table[q],
             pc'[p] \in Places \ {"new", "deliver", "scan", "sit"},
             table'[p] \in Tables \cup {NoTable},
             pc'[p] \in Starting => pc[p] \in Starting /\ table'[p] = table[p]
      PROVE  TableInv' /\ OnlyLeavers
    BY <1>b, QuietStep DEF OnlyLeavers
<1>c. ASSUME NEW p \in Player, BeginFindSeat(p) PROVE TableInv' /\ OnlyLeavers
    <2>1. /\ UNCHANGED <<cap, seats, def, gameID, session, status, gameDef, at, seat>>
          /\ pc'[p] = "scan" /\ table'[p] = NoTable
          /\ \A q \in Player \ {p} : pc'[q] = pc[q] /\ table'[q] = table[q]
        BY <1>1, <1>c DEF BeginFindSeat, Goto, TypeOK, tableVars, playerVars
    <2> QED
        BY <2>1, QuietStep DEF Starting, OnlyLeavers
<1>d. ASSUME NEW p \in Player, ScanTable(p) PROVE TableInv' /\ OnlyLeavers
    <2> DEFINE t == idx[p]
               better == HasRoom(p, t) /\ Cardinality(Taken(t)) > count[p]
    <2>1. /\ UNCHANGED <<cap, seats, def, gameID, session, status, gameDef, at, seat>>
          /\ pc[p] = "scan" /\ pc'[p] \in Finding
          /\ \A q \in Player \ {p} : pc'[q] = pc[q] /\ table'[q] = table[q]
          /\ table'[p] = IF better THEN t ELSE table[p]
        BY <1>1, <1>d DEF ScanTable, Goto, Finding, TypeOK, roomVars, tableVars, playerVars
    <2>2. t \in Tables /\ gameDef[p] \in Game
        BY <1>1, <2>1 DEF LocalInv
    <2>3. pc'[p] \notin Starting \cup {"new", "deliver"}
        BY <2>1 DEF Finding, Starting
    <2>4. table'[p] # NoTable =>
              /\ def[table'[p]] \in {NoGame, gameDef[p]}
              /\ \E s \in SeatIdx(table'[p]) :
                    s < SeatsOf[gameDef[p]] /\ seats[table'[p]][s] = NoPlayer
        <3>1. CASE better
            <4>1. HasRoom(p, t) /\ table'[p] = t
                BY <2>1, <3>1
            <4>2. def[t] \in {NoGame, gameDef[p]}
                BY <4>1 DEF HasRoom
            <4>3. \E s \in SeatIdx(t) : s < SeatsOf[gameDef[p]] /\ seats[t][s] = NoPlayer
                BY <1>1, <2>2, <4>1, RoomMeansFree
            <4> QED
                BY <4>1, <4>2, <4>3
        <3>2. CASE ~better
            BY <2>1, <3>2 DEF TableInv, BestStillHasRoom
        <3> QED
            BY <3>1, <3>2
    <2> HIDE DEF better, t
    <2> QED
        BY <1>1, <2>1, <2>2, <2>3, <2>4, QuietStep DEF TypeOK, OnlyLeavers
<1>e. ASSUME NEW p \in Player, GameMessage(p) PROVE TableInv' /\ OnlyLeavers
    <2>1. /\ UNCHANGED <<cap, seats, def, gameID, session, status, gameDef, at, seat, table>>
          /\ pc'[p] = "deliver" /\ session[at[p]] # Nobody
          /\ \A q \in Player \ {p} : pc'[q] = pc[q]
        BY <1>1, <1>e DEF GameMessage, Goto, TypeOK, tableVars, playerVars
    <2> QED
        BY <1>1, <2>1, QuietStep DEF TypeOK, Starting, OnlyLeavers
<1>f. ASSUME NEW p \in Player, Unseat(p) PROVE TableInv' /\ OnlyLeavers
    <2>1. /\ TableRemovePlayer(at[p], p) /\ at[p] \in Tables /\ pc[p] = "unseat"
          /\ UNCHANGED <<gameDef, at, seat, table>>
          /\ pc'[p] \in {"loop", "closeOpp", "done"}
          /\ \A q \in Player \ {p} : pc'[q] = pc[q]
        BY <1>1, <1>f DEF Unseat, Goto, TypeOK, LocalInv, playerVars, frameVars
    <2>2. TableInv' /\ \A u \in Tables : Sitters(u) \subseteq Sitters(u)' \cup {p}
        BY <2>1, VacateStep
    <2> QED
        BY <2>1, <2>2 DEF OnlyLeavers
<1>g. ASSUME NEW p \in Player, RemovePlayer(p) PROVE TableInv' /\ OnlyLeavers
    <2>1. /\ UNCHANGED <<gameDef, table>> /\ pc[p] = "remove" /\ pc'[p] = "done"
          /\ \A q \in Player \ {p} :
                pc'[q] = pc[q] /\ at'[q] = at[q] /\ seat'[q] = seat[q]
        BY <1>1, <1>g DEF RemovePlayer, Goto, TypeOK
    <2>2. CASE at[p] # NoTable
        <3>1. at[p] \in Tables /\ TableRemovePlayer(at[p], p)
            BY <1>1, <1>g, <2>2 DEF RemovePlayer, TypeOK
        <3>2. TableInv' /\ \A u \in Tables : Sitters(u) \subseteq Sitters(u)' \cup {p}
            BY <2>1, <3>1, VacateStep
        <3> QED
            BY <2>1, <3>2 DEF OnlyLeavers
    <2>3. CASE at[p] = NoTable
        <3>1. UNCHANGED <<cap, seats, def, gameID, session, status>>
            BY <1>g, <2>3 DEF RemovePlayer, tableVars
        <3> QED
            BY <1>1, <2>1, <3>1, QuietStep DEF TypeOK, OnlyLeavers, Starting
    <2> QED
        BY <2>2, <2>3
<1>h. ASSUME NEW p \in Player, StartGame(p) PROVE TableInv' /\ OnlyLeavers
    BY <1>h, StartStep DEF OnlyLeavers
<1>i. ASSUME NEW p \in Player, SitAtBest(p) PROVE TableInv' /\ OnlyLeavers
    BY <1>i, SitAtBestStep DEF OnlyLeavers
<1>j. ASSUME NEW p \in Player, TryEmptyTable(p) PROVE TableInv' /\ OnlyLeavers
    BY <1>j, TryEmptyStep DEF OnlyLeavers
<1>k. ASSUME NEW p \in Player, AllSeated(p) PROVE TableInv' /\ OnlyLeavers
    <2>1. CASE Goto(p, "nextID") /\ UNCHANGED <<booted, table, idx, gid>>
        BY <1>1, <1>b, <1>k, <2>1 DEF AllSeated, Goto, Starting, Places, TypeOK,
                tableVars, playerVars
    <2>2. CASE EnterLoop(p)
        BY <1>1, <1>b, <1>k, <2>2 DEF AllSeated, EnterLoop, Goto, Starting, Places, TypeOK,
                tableVars, playerVars
    <2> QED
        BY <1>k, <2>1, <2>2 DEF AllSeated
<1>l. ASSUME NEW p \in Player, SendStartGameM(p) PROVE TableInv' /\ OnlyLeavers
    <2>1. UNCHANGED <<cap, seats, def, gameID, session, status, gameDef, at, seat>>
        BY <1>l DEF SendStartGameM, tableVars, playerVars
    <2>2. CASE UNCHANGED <<pc, table>>
        BY <2>1, <2>2, IdleStep
    <2>3. CASE EnterLoop(p)
        BY <1>1, <1>b, <2>1, <2>3 DEF EnterLoop, Goto, Starting, Places, TypeOK
    <2> QED
        BY <1>l, <2>2, <2>3 DEF SendStartGameM
<1>m. ASSUME NEW p \in Player,
             \/ GreetFails(p) \/ NoTableAvailable(p) \/ SeatResponse(p)
             \/ NextGameID(p) \/ LeaveTable(p) \/ CloseOpponent(p) \/ Deliver(p)
             \/ ReadFails(p) \/ DispatchFails(p)
      PROVE  TableInv' /\ OnlyLeavers
    <2>1. UNCHANGED <<cap, seats, def, gameID, session, status, gameDef, at, seat>>
        BY <1>m DEF GreetFails, NoTableAvailable, SeatResponse, NextGameID, LeaveTable,
                CloseOpponent, Deliver, ReadFails, DispatchFails, FindOpponent,
                tableVars, playerVars
    <2>2. ASSUME NEW w \in Places \ {"new", "deliver", "scan", "sit"}, Goto(p, w),
                 w \in Starting => pc[p] \in Starting /\ table'[p] = table[p],
                 \A q \in Player \ {p} : table'[q] = table[q],
                 table'[p] \in Tables \cup {NoTable}
          PROVE  TableInv' /\ OnlyLeavers
        BY <1>1, <1>b, <2>1, <2>2 DEF Goto, TypeOK
    <2>3. CASE GreetFails(p)
        BY <1>1, <2>2, <2>3 DEF GreetFails, Starting, Places, TypeOK, frameVars
    <2>4. CASE NoTableAvailable(p)
        <3>1. PICK w \in {"done", "loop", "leave"} : Goto(p, w)
            BY <2>4, Zenon DEF NoTableAvailable
        <3>2. table' = [table EXCEPT ![p] = NoTable]
            BY <2>4 DEF NoTableAvailable
        <3> QED
            BY <1>1, <2>2, <3>1, <3>2 DEF Starting, Leaving, Places, TypeOK
    <2>5. CASE SeatResponse(p)
        BY <1>1, <2>2, <2>5 DEF SeatResponse, Starting, Leaving, Places, TypeOK
    <2>6. CASE NextGameID(p)
        BY <1>1, <2>2, <2>6 DEF NextGameID, Starting, Places, TypeOK
    <2>7. CASE LeaveTable(p) \/ CloseOpponent(p)
        BY <1>1, <2>2, <2>7 DEF LeaveTable, CloseOpponent, Starting, Places, TypeOK
    <2>8. CASE Deliver(p)
        <3>1. table' = table
            BY <2>8 DEF Deliver, frameVars
        <3>2. CASE UNCHANGED pc
            BY <2>1, <3>1, <3>2, IdleStep
        <3>3. CASE Goto(p, "loop") \/ Goto(p, "leave")
            BY <1>1, <2>2, <3>1, <3>3 DEF Starting, Leaving, Places, TypeOK
        <3> QED
            BY <2>8, <3>2, <3>3, Zenon DEF Deliver
    <2>9. CASE ReadFails(p) \/ DispatchFails(p)
        BY <1>1, <2>2, <2>9 DEF ReadFails, DispatchFails, FindOpponent, Starting, Leaving,
                Places, TypeOK
    <2> QED
        BY <1>m, <2>3, <2>4, <2>5, <2>6, <2>7, <2>8, <2>9
<1>n. ASSUME NEW p \in Player, Proceed(p) PROVE TableInv' /\ OnlyLeavers
    BY <1>n, <1>c, <1>d, <1>f, <1>g, <1>h, <1>i, <1>j, <1>k, <1>l, <1>m
       DEF Proceed, AutoSeat
<1>o. ASSUME NEW p \in Player, Client(p) PROVE TableInv' /\ OnlyLeavers
    BY <1>o, <1>a, <1>c, <1>e, <1>m DEF Client, RequestSeat
<1> QED
    BY <1>0, <1>n, <1>o DEF Next, Stopped

\* The invariant, both layers.
LEMMA Invariant == Spec => [](FrameInv /\ TableInv)
<1>1. Init => FrameInv /\ TableInv
    BY FrameInit, TableInit
<1>2. FrameInv /\ TableInv /\ [Next]_vars => (FrameInv /\ TableInv)'
    BY FrameStep, TableStep
<1> QED
    BY <1>1, <1>2, PTL DEF Spec

-----------------------------------------------------------------------------
(* The theorems the second layer gives *)

\* In every reachable state of room.go and table.go, a table's definition, size,
\* session, game ID and status fit the players on it.
THEOREM Coherent == Spec => []TableCoherent
<1>1. TableInv => TableCoherent
    BY DEF TableInv
<1> QED
    BY <1>1, Invariant, PTL

\* From FindSeat to the last StartGameM, the player stays on the seat found.
THEOREM StartersStay == Spec => []StarterStays
<1>1. TableInv => StarterStays
    BY DEF TableInv
<1> QED
    BY <1>1, Invariant, PTL

\* The table FindSeat chose in its first pass still has room in its second.
THEOREM BestHasRoom == Spec => []BestStillHasRoom
<1>1. TableInv => BestStillHasRoom
    BY DEF TableInv
<1> QED
    BY <1>1, Invariant, PTL

\* A player who still sits at its table cannot reach a nil session.
THEOREM SessionLives == Spec => []SeatedSessionLives
<1>1. TableInv => SeatedSessionLives
    BY DEF TableInv
<1> QED
    BY <1>1, Invariant, PTL

\* No player is taken off a table but by its own goroutine, leaving.
THEOREM OwnersVacate == Spec => OnlyOwnerVacates
<1>1. FrameInv /\ TableInv /\ [Next]_vars => OnlyLeavers
    BY TableStep
<1>2. FrameInv /\ TableInv /\ [Next]_vars
      => [\A p \in Player, t \in Tables :
             p \in Sitters(t) /\ p \notin Sitters(t)' => pc[p] \in {"unseat", "remove"}]_vars
    BY <1>1 DEF OnlyLeavers
<1> QED
    BY <1>2, Invariant, PTL DEF Spec, OnlyOwnerVacates
=============================================================================
