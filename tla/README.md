# The zone server in TLA+

A verification project for the Go server in `src/`: a replacement back end for
the MSN Zone games of Windows XP.  Clients connect over TCP, are seated at a
table of the game whose service they ask for, and play Checkers, Reversi,
Backgammon, Hearts or Spades through the server.

- [1. The system](#1-the-system): components, state, operations, interactions
- [2. Modules](#2-modules): what models what
- [3. Runs](#3-runs): what TLC checks, on which instances, and why they are enough
- [4. Proofs](#4-proofs): what TLAPS proves, and how
- [5. Disagreements](#5-disagreements-between-the-code-and-what-it-says)
- [6. Not modelled](#6-not-modelled)
- [7. Plan](#7-plan)

To check it: `tlc -config X.cfg M` for the pairs of section 3, `tlapm M.tla` for the
modules of section 4.

## 1. The system

### Components

| Component | Code | State | Operations |
|---|---|---|---|
| Server | `server/server.go` | listener, the room | `Run` accepts; one goroutine `handleConn` per connection: handshake, proxy negotiation, client config, `AddPlayer`, Enter, `FindSeat`, start of the game, `HandlePlayer` |
| Room | `room/room.go` | `players`, `tables`, `nextGameID`, under `Room.mu` | `AddPlayer`, `RemovePlayer`, `FindSeat`, `NextGameID`, `BroadcastEnter`, `BroadcastChatSwitch` |
| Table | `room/table.go` | `Seats`, `Status`, `GameID`, `Definition`, `Session`, under `Table.mu` | `SitDown`, `RemovePlayer`, `Opponent`, `AllSeated`, `StartGame`, `BroadcastGameMsg`, `SendToSeat` |
| Router | `room/router.go` | the goroutine's own frame; `Player.Table`, `Player.Seat` | the message loop, seat requests, leave, chat, chat switch, ping, game messages; the deferred cleanup |
| Hearts | `hearts/game.go`, `room/hearts_session.go` | one session: hands, scores, pass, trick, votes, under the session's lock | `ClientReady`, `CheckIn`, `PassCards`, `PlayCard`, `NewGame`, `Talk` |
| Spades | `spades/game.go`, `room/spades_session.go` | one session: hands, bids, trick, bags, team scores, votes, under its lock | `ClientReady`, `Bid`, `Play`, `NewGame`, `Talk` |
| Backgammon | `backgammon/state.go`, `room/backgammon_session.go` | shared state matrix, check-ins, dice, under its lock | `CheckIn`, state request, transactions, dice rolls, `NewMatch`; talk and timestamps are passed on |
| Checkers | `checkers/*.go`, `room/checkers_session.go` | board, side to move, flags, new game votes, score; no lock | `NewGame`, `MovePiece`, `FinishMove`, `EndGame`; `Draw` and talk are passed on |
| Reversi | `reversi/game.go`, `room/reversi_session.go` | board, side to move, flags, new game votes, score; no lock | `NewGame`, `MovePiece`, `EndGame`, state request; talk is passed on |
| Connection | `conn/conn.go` | key, sequence numbers, write lock, closed flag | `Handshake`, `ReadAppMessages`, `Write`, keep-alive, `Close` |
| Proxy | `proxy/proxy.go` | the negotiation so far | `Negotiate`, at most four rounds |
| Wire, layouts | `wire/*.go`, `proto/*.go` | none | encryption, checksums, framing, marshalling |

### How they interact

Every connection is served by one goroutine.  Goroutines meet in the Room, at a
table, in a session, and on each other's connections:

- `Room.mu` is taken before `Table.mu` (`FindSeat`, `RemovePlayer`), never after.
  `FindSeat` keeps `Room.mu` from its first step to its last, but takes and gives
  back `Table.mu` for each table it looks at.
- Other operations on a table take `Table.mu` alone and do not wait for
  `Room.mu`: the vacating of a seat in `LeaveTable`, `AllSeated`, `StartGame`.
- A few reads take no lock: `handleGameMessage` reads `Table.Session`, the start
  of a game reads `Table.Seats`.
- The session's lock is held for a whole message; it is taken before `Table.mu`,
  which the session's broadcasts take.  Checkers and Reversi have no such lock.
- A goroutine closes another's connection: `LeaveTable`'s opponent.
  The other goroutine learns of it when it reads.

### Behaviours that are hard

- A player is seated, the seats are counted, a game ID is drawn, the game is
  started and announced in five critical sections, with other goroutines coming
  and going between them.
- Seats are reshaped (`FindSeat` resizes a table to its game) while others look.
- `LeaveTable` vacates the seat but leaves `Player.Table` and `Player.Seat`; later
  messages and the cleanup go by them.
- The deferred cleanup works from what it read before it took the locks.
- A card game is driven by quorums (ready, passed, voted) and by turns; everybody
  waits if one is missed, and counters survive from one hand or game to the next.
- Checkers and Reversi handlers of both players run at once without a lock: a
  handler decides on what it has read, and writes it later.
- The clients of Backgammon keep copies of the state, change their own first and
  tell the other through the server; each begins a new match by itself.
- Clients may send anything at any time.

### What makes each component correct

- *Room and tables*: a table's definition, size, session, game ID and status fit
  the players on it; a player is on one seat, keeps it until its own goroutine
  gives it up, and has none when it is gone; game IDs are not given out twice; a
  full table's game starts; a closed connection is cleaned up.
- *Hearts, Spades*: one card per seat and trick, in turn; cards are conserved;
  every hand is scored with all its points (tricks); quorums are exact; a game
  that is played ends, at the score it goes to.
- *Backgammon*: in every match each client is told both check-ins; transactions are
  applied whole or not at all; the copies of the clients and the server agree as long
  as the matches of the two do not overlap.
- *Checkers, Reversi*: one legal move of one player at a time, whatever the other's
  goroutine does; the turn is with somebody who can move; results fit the board;
  two votes start a game.
- *Connection, Proxy*: sequence numbers are consecutive; negotiation ends.

## 2. Modules

| Module | Models |
|---|---|
| `Room` | Room, Table, Player and the goroutines of `handleConn` and `HandlePlayer`, step by step; the mapping to `Matchmaking` |
| `Matchmaking` | what the room promises a player: join, be called when the table is complete, play; no locks, no seats |
| `RoomProofs`, `RoomSeatProofs` | theorems about `Room`; the second also proves that it implements `Matchmaking` |
| `MCRoom`, `MCRoomFair` | instances of `Room` |
| `TrickTaking` | what a card game for four promises: quorums, turns, tricks, hands; no cards |
| `Hearts` | a Hearts session and the rules it calls; the mapping to `TrickTaking` |
| `MCHearts`, `HeartsProofs` | instances of `Hearts`; theorems about it |
| `Spades` | a Spades session and the rules it calls; the mapping to `TrickTaking` |
| `MCSpades`, `SpadesProofs` | an instance of `Spades`; theorems about it |
| `Counting` | lemmas on four seats and on sums over finite sets, for the proofs about both |
| `Checkers`, `MCCheckers`, `CheckersProofs` | a Checkers session and its rules, on a board of any size; an instance; theorems |
| `Reversi`, `MCReversi`, `ReversiProofs` | a Reversi session and its rules, on a board of any size; an instance; theorems |
| `Backgammon`, `MCBackgammon`, `BackgammonProofs` | a Backgammon session, the messages under way and two clients; an instance; theorems |

`Room` instantiates `Matchmaking`, `Hearts` and `Spades` instantiate `TrickTaking`, each as
`Abstract`.  A game module stands for the session of one
table; `Room` has the table, and knows a session by its game ID.

### Room

One action is one critical section of `Table.mu`, together with the reads and
writes of the goroutine's own frame before it; `Room.mu`, which is held across
several of them, is the variable `mu`.  `pc[p]` says where the goroutine of
connection `p` stands:

| `pc` | In the code | Leaves by |
|---|---|---|
| `new` | before `AddPlayer` | `AddPlayer` |
| `greet` | sending ZUserIDResponse, Enter and ServerStatus | `AutoSeat`, `GreetFails` |
| `scan`, `sit`, `empty` | `FindSeat`: first pass, its best table, second pass | `ScanTable`, `SitAtBest`, `TryEmptyTable`, `NoTableAvailable` |
| `respond` | the SeatResponse of `handleSeatRequest` | `SeatResponse` |
| `seated`, `nextID`, `start`, `tell` | `AllSeated`, `NextGameID`, `StartGame`, one StartGameM per seat | the action of that name |
| `loop` | `HandlePlayer` waits for a message | `RequestSeat`, `LeaveTable`, `GameMessage`, `ReadFails` |
| `unseat`, `closeOpp` | the rest of `LeaveTable` | `Unseat`, `CloseOpponent` |
| `deliver` | between the nil check of `Table.Session` and its call | `Deliver` |
| `leave`, `remove` | the deferred cleanup: read the opponent; `RemovePlayer` | `DispatchFails`, `RemovePlayer` |
| `done` | the goroutine has returned | |

`told`, `requests` and `crashed` are not in the code: the last StartGameM a player
was sent since it sat down, the bound on messages, and whether a method was called
on a nil session (Go panics, and the process with it).  `open` is whether the
*server* has closed a connection; a client that goes away is `ReadFails`, which is
always possible.

Data left out: user names and numbers, chat flags, message contents.  A session
is the ID of the game it was made for.

`Polite` are the players whose client asks for a seat only when it has none.
The others may ask at any time, as the server lets them: some properties hold
whatever clients do, some for polite clients only, and each says so.

### Hearts

The session's lock makes one message one action: `HandleClientReady`,
`HandlePassCards`, `HandlePlayCard`, `HandleNewGame`, `HandleCheckIn`, each with
all the code it calls: the fourth Ready deals, the fourth pass makes the exchange
and begins the play, the card that completes a trick resolves it, scores the hand
if it was the last trick, and deals the next hand or ends the game.  A message is
known by `p.Seat`, as in the code.  A message the handler ignores changes nothing.

Hands, passes and tricks won are piles: functions that say how many copies of each
card the code's arrays hold, where cards are looked up by value and one copy removed.  What was passed is forgotten after the
exchange, when the code would not read it again either.  Cards are numbered as in
the code, `suit * NumRanks + rank`; the deck's size, the points and the score of a
game are constants, so that a small deck can be checked.

`Honest` are the seats whose client names different cards when it passes.

### Spades

As in Hearts one message is one action: `HandleClientReady`, `HandleBid`,
`HandlePlay`, `HandleNewGame`.  Hands are sets, because the server takes each card
out of the hand it is played from.  `BidNone` (255), `BidDoubleNil` (128) and
`CardNone` (127) are the code's.  Of `handNum` only the remainder by four is kept,
which is all the code uses.  A team's score is its points; bags carry over.

### Checkers and Reversi

These sessions have no lock.  A step is one read or one write of a field of the game,
in the order of the code, and the other goroutine's steps come in between any two.
`at[s]` is the frame of the goroutine of seat `s`: where in a handler it stands, and
what it has read and decided and not yet written.  It takes the next message when
`at[s]` is `Idle`.  So `HandleFinishMove` of Checkers, which is
`game.go:130-164`, is a check and up to nine steps, which look at whose turn it is three times in
all; `Reset` writes one field after the other, and a goroutine of the
other seat may see a new board with the old turn.

Some steps stand for more than one access: the checks at the beginning of a handler;
in Reversi a copy of the current state, the four squares of `Reset`
and the two scores.

As in the code a client may vote for a new game at any time, and send `EndGame` from
either seat: in Checkers while a game is played, in Reversi always.  Not everything
stays right then, and the properties say of which games they are.  Two
history variables record it, from the step in which the board is set up on:

- `crossed`: somebody played (in Checkers: took a turn) before the server was done with the
  other seat's turn or with the set-up, or the set-up came while somebody played.
  A client hears of the other's move or turn before that
  handler is done, so this takes no ill will, only a fast client: in Checkers
  `PlayerToMove` is passed (`game.go:147`) before `MoveOver` is cleared (148).
- `endCrossed` (Reversi): an EndGame came while a handler of the other seat was playing,
  or a move or an EndGame while that EndGame was handled.

The boards have `Rows` by `Cols` squares with the code's rules; flags are sets of
names, `EndFlags` those that a client may send with EndGame.  A board of Checkers
has `PawnRows` rows of pawns on each side, a free row between them and at least three
columns, one of Reversi at least two rows and three columns: on smaller ones the
player to move in a new game, or to answer its first move, may have none, which on 8
by 8 does not happen.

### Backgammon

Handlers run under the session's lock, so one is one action.  The server does not
know the rules of the game; its part is to keep three copies of a state the same.
So here the clients are modelled, too, as the server's code and its tests expect them
to be: `up[s]` and `down[s]` are the messages under way on each connection, in order.
A client joins with a check-in and a state request; goes on when it has been told
the check-ins of both seats ("client needs m_CheckIn set for ALL seats before
proceeding", `backgammon_session.go:261`) and the state; writes when it is its turn by
its own copy; and starts a new match by itself when its copy says that the match is
over.  `again` is a history variable: some client has begun another match.
`Garbage` is what the server refuses.  `Leave` empties a seat; what the room does then
is in `Room`.

## 3. Runs

| Run | Config | Result | Question |
|---|---|---|---|
| `room_safety` | `MCRoom.cfg` | holds | Do tables, seats and sessions stay consistent in every interleaving, with one client that asks for seats when it has one? |
| `room_fair` | `MCRoomFair.cfg` | holds | Does the room do what `Matchmaking` promises, does a full table start, is a closed connection cleaned up? |
| `room_nil_session` | `MCRoomNilSession.cfg` | violated | Can no message reach a nil session? |
| `room_any_table` | `MCRoomAnyTable.cfg` | violated | Is a player that goes removed from any table? |
| `hearts_any` | `MCHearts.cfg` | holds | Are turns, tricks, quorums and the end of the game right whatever a client passes? |
| `hearts_honest` | `MCHeartsHonest.cfg` | holds | Are cards conserved, hands scored in full, games finished? Is it a game of tricks? |
| `hearts_one_of_each` | `MCHeartsOneOfEach.cfg` | violated | Is there one of each card whatever a client passes? |
| `spades` | `MCSpades.cfg` | holds | Can somebody always play, are turns, trumps and scores right, is it a game of tricks? |
| `checkers` | `MCCheckers.cfg` | holds | Do turns and moves stay right when two goroutines run the handlers without a lock, and games end and are set up again?  Do two votes start a game? |
| `checkers_stalemate` | `MCCheckersStalemate.cfg` | violated | Does a stalemate always give the game to the opponent of whoever cannot move? |
| `reversi` | `MCReversi.cfg` | holds | Are forced passes and results by count right, if no message crosses another?  Are moves, also if an EndGame crosses them? |
| `backgammon` | `MCBackgammon.cfg` | holds | Are both clients introduced in every match, and do they and the server agree in the first? |

### What is checked

`room_safety` (three players, 1.2 million states):
`TableCoherent` relates the table's variables; `StarterStays`, `BestStillHasRoom`
and `SeatedSessionLives` say what a goroutine may rely on across sections in which
it does not hold the lock; `GameIDsUnique`; `OneSeatEach` and `NoGhostSeat` relate
seats, `Player` structs and goroutines; `OnlyOwnerVacates` says which steps may
take a player off a table.

`room_fair` (104 thousand states): `ImplementsMatchmaking`, `FullTableStarts`,
`ClosedIsCleanedUp`.  `Room` maps a full table, or one that a goroutine
has seen full and is starting, to `called`.

`hearts_any` (1.1 million states): `HandSizes`, `TrickInTurn`,
`CountersExact`, over whole games with passing in all four directions and
rematches.
`hearts_honest` (172 thousand states): `CardsConserved`, `HandScored`, `GameEnds`,
`ImplementsTrickTaking`.

`spades` (681 thousand states): `NobodyIsStuck` (a seat whose turn it is has a card
that `ValidCardToPlay` takes, spades broken or not), `TurnsInOrder`, `NobodyRevokes`,
`BrokenBySpade`, `ScoreShowsBags` (the last digit of a score shows the bags through
all hands of a game), `ImplementsTrickTaking`.

`checkers` (555 thousand states): `NobodyIsStuck`, the action properties
`OneMoveAtATime` and `LateResetLosesOneTurn`, each for games with `crossed` = FALSE -- in
these, votes, second set-ups and `EndGame` still come between any two steps -- and
`VotedGameStarts`.
The second `Reset` of two that both goroutines make does happen, and throws away a
move that Black has been told was made; the run shows that it is at most that.

`reversi` (920 thousand states): `NobodyIsStuck` and `ResultByCount`, for games in which
no message crossed another, with resignations and losses on time at any time between
handlers, in and out of turn; and `OneMoveAtATime`, where EndGame crosses moves
and other EndGames as well.

`backgammon` (560 thousand states): `CheckInsComplete`, for any number of matches, and
`ClientsAgree`, for the first.

### Bounds

- *Three players, two tables, two games* (`MCRoom`).  Two seats at one table, a
  third player to come between any two steps of the first two, a second table for
  the one that is left over or sits twice.  Checkers takes 2 seats; Hearts takes 3
  instead of 4, and a table is created with 3 instead of 8: what matters is that a
  two-seat game always has to resize a table, and that a game exists whose
  `Opponent` has to choose.  One table where one is enough (`MCRoomFair`,
  `MCRoomNilSession`).
- `MaxRequests` bounds the seat requests, leaves and game messages all clients
  send in their message loops: 2 in `room_safety` (so a leave and the seat request
  that follows it, or two messages that race, from any players), 1 in `room_fair`.
  Connecting, being seated, starting and going are not bounded.
- *Symmetry* of the polite players in `room_safety` only, which has no liveness
  property; nothing in `Room` orders players.
- *A deck of eight cards* (`MCHearts`): four suits and two ranks, two tricks to a
  hand, four points (the queen of spades counts two), game at 5 or 4 points.  So a
  hand has a first and a last trick, a game up to four or more hands -- all pass
  directions and the hold are reached -- and any seat may shoot the moon.  One card
  is passed, or two in `hearts_any`, which is what it takes to name one twice.
- *Deals*: one or two of the possible ones; the passes and the play are free.  One
  has the points spread over all seats, the other has the two of clubs at seat 2
  and both spades in one hand.

- *Spades with eight cards* (`MCSpades`): two tricks to a hand, bids of 0, 1, an
  invalid 9 and a double nil, two points for a trick bid and for a nil, two bags to
  a penalty of four, a game won at 4 and lost at -3: games of one to several hands
  are won, lost and played again.  The deal gives one seat nothing but spades.
- *Checkers on five rows and three columns* (`MCCheckers`), three pawns each: single
  and double jumps, jumps that end in promotion, kings of both sides and stalemate by
  blocking are all reached.  `InStep`: a behaviour is followed up to a message that sets
  `crossed`, since the three properties say nothing after it until a new game is set up;
  `VotedGameStarts` looks at no piece, and what it speaks of, two goroutines that write
  their votes, count them and set up the game, takes place before that, too.
- *Reversi on four rows and three columns* (`MCReversi`): forced passes, wins of both,
  boards that are not full at the end.  `InStep` is as in Checkers; once an EndGame crossed
  something, `MaxPieces` = 6 bounds the pieces on the board of the behaviours followed.
  They begin with four, so that moves of both players are crossed.
- *Backgammon* (`MCBackgammon`): a die with two sides, two values of a score, and
  `MaxQueue` = 4 messages of a client under way before it waits: one more than
  the three with which it begins a match.  The number of matches is not bounded.

### Fairness

`Room`'s `Fairness` is weak fairness of each goroutine's steps (`Proceed`) and of
the failing read of a connection the server has closed.  Goroutines that can run
are run; a Go mutex is handed to a waiter after a bounded wait, so a goroutine
that waits for `Room.mu` gets it; sends return, with or without an error, once the
connection is closed.  Nothing is assumed of clients: they may stay silent for
ever, and no message loop need ever end.

`Hearts`'s `FairSpec` assumes clients that answer: if a pass or a card is awaited,
an acceptable one comes.  Nothing in the server makes them, and the server has no
turn timeout; `GameEnds` says that it is only ever the clients the game waits for.
`Spades`'s `FairSpec` is the same, for bids and cards.

`Checkers`'s `FairSpec` is weak fairness of the steps with which a vote is counted and a
game set up (`CountVotes`, `Reset`): a goroutine that does not wait for anything is run.
Of clients nothing is assumed.

## 4. Proofs

The theorems hold for every value of the constants that the named assumptions of the
modules admit, each of which TLC evaluates in the runs:
any numbers of players, tables, games and seats (`Room`); any deck, deals that give
each seat its cards, bids, points and scores (`Hearts`, `Spades`); any size of the
board and any flags that clients send (`Checkers`, `Reversi`); any dice and queues of
any length (`Backgammon`).

| Module | Theorem | States |
|---|---|---|
| `RoomProofs` | `TypeCorrect` | `TypeOK` always holds |
| | `Coherent` | `TableCoherent` always holds |
| | `StartersStay` | `StarterStays` always holds |
| | `BestHasRoom` | `BestStillHasRoom` always holds |
| | `SessionLives` | `SeatedSessionLives` always holds |
| | `OwnersVacate` | every step satisfies `OnlyOwnerVacates` |
| `RoomSeatProofs` | `IDsUnique` | `GameIDsUnique` always holds |
| | `OneSeat` | `OneSeatEach` always holds |
| | `NoGhosts` | `NoGhostSeat` always holds |
| | `MatchesPlayers` | the room implements `Matchmaking` without its fairness, if all clients are `Polite` |
| `HeartsProofs` | `TypeCorrect` | `TypeOK` always holds |
| | `HandsLastAndFit` | `HandSizes` always holds |
| | `TurnsTaken` | `TrickInTurn` always holds |
| | `CountersRight` | `CountersExact` always holds |
| | `CardsKept` | `CardsConserved` always holds, if all clients are `Honest` |
| | `PointsGivenOut` | every step satisfies `HandScored`, if all clients are `Honest` |
| | `PlaysTricksInTurn` | a session implements `TrickTaking` without its fairness |
| `SpadesProofs` | `TypeCorrect` | `TypeOK` always holds |
| | `TurnsTaken` | `TurnsInOrder` always holds |
| | `SomebodyCanPlay` | `NobodyIsStuck` always holds |
| | `SpadesBroken` | `BrokenBySpade` always holds |
| | `SuitFollowed` | `NobodyRevokes` always holds |
| | `BagsInScore` | `ScoreShowsBags` always holds |
| | `PlaysTricksInTurn` | a session implements `TrickTaking` without its fairness |
| `CheckersProofs` | `TypeCorrect` | `TypeOK` always holds |
| | `TurnNeverStuck` | `NobodyIsStuck` always holds |
| | `MovesOneAtATime` | every step satisfies `OneMoveAtATime` |
| | `LateResetIsHarmless` | every step satisfies `LateResetLosesOneTurn` |
| `ReversiProofs` | `TypeCorrect` | `TypeOK` always holds |
| | `TurnNeverStuck` | `NobodyIsStuck` always holds |
| | `ResultIsTheCount` | `ResultByCount` always holds, if clients send `LossOnly` |
| | `MovesOneAtATime` | every step satisfies `OneMoveAtATime` |
| `BackgammonProofs` | `TypeCorrect` | `TypeOK` always holds |
| | `IntroductionsMade` | `CheckInsComplete` always holds |
| | `CopiesAgree` | `ClientsAgree` always holds |

The conditions are about clients, and are those under which the runs check the same
properties.  `Honest = Seat`: a client names different cards when it passes
(`hearts_one_of_each` shows what happens otherwise).
`Polite = Player`: a client asks for a seat only if it has none.  `LossOnly`: the flags
of a client's EndGame say that somebody gave up or ran out of time; a result without that
is the server's to find, and one that a client made up would be kept as it is.
The other theorems about Checkers, Reversi and Backgammon ask nothing of clients; that
some of the properties speak of games in which no message crossed another, or of the
first match, is part of the properties (section 2), and section 6 has the behaviours
outside.

### Room

The invariants are not inductive on their own, and are proved in layers.
`FrameInv` is about one goroutine at a time: the types; that a goroutine in
`FindSeat` is the one that holds `Room.mu`, and nobody else is (`LockInv`); and
what its frame says where it stands (`LocalInv`), for instance that the table it
is starting is the one it sits at.  `TableInv`, proved on top of it, relates
tables to players.
What makes the proof go through is that a seat is taken only under `Room.mu` and
vacated only by its owner's goroutine: between the two passes of `FindSeat` seats
can only become free, so the best table still has room (`RoomMeansFree`), and
while a goroutine starts a game nobody can take its seat away.  There is one lemma
for each group of actions (`SitAtBestStep`, `TryEmptyStep`, `StartStep`,
`IdleStep`, `TableStep`), and the theorems combine them.
`IDInv` adds that an ID is below the counter once drawn, and on no table before its
goroutine has started the game; `SeatInv` that a polite player which looks for a
seat, or is gone, has none.
`MatchesPlayers` takes the steps one by one.  To sit down is `Join`, to vacate a seat `Leave`,
`StartGame` is `Start`, the message that finds no session is `Crash`, and the rest
stutters.  Since nobody sits twice, a row of seats is full exactly if as many players
sit there as it has seats (`RowCount`); so the steps in which a table becomes full, or
comes to be seen full by who will start it, are those in which `Matchmaking` calls it.

### Hearts and Spades

`FlowInv` says how far a session has come, without the cards: the types, each counter
against its flags, whose turn it is, and that no trick or hand rests complete.  It
asks nothing of clients, and is enough for the turns, the counters and the steps of
`TrickTaking`.
Cards are a layer upon it.  In Hearts `PileInv` adds that what a seat has passed is
still in its hand until the exchange (`PassInv`); the copies of a card in four hands,
four piles and on the table are then a sum that the deal, the exchange in each
direction, a card played and a trick won leave at one.
`HoldInv` counts a seat's cards: while a hand is played its cards, the tricks over and its
card on the table are no fewer than were dealt, whatever was passed, and exactly as many if
everybody passed different cards.  Hence nobody's turn comes to an empty hand, and a hand
that an exchange makes larger still fits (`HandsLastAndFit`);
and at the last card all cards are in the piles, so that the points given out are those of
the deck (`PointsGivenOut`).  Sizes and points are sums by the community modules' fold,
which takes elements in an order it chooses.  `Counting` proves by
induction on sets, from the library's theorem on well-founded relations, that the order does not matter (`SumSteps`),
and with it what the proofs need: sums of sums, comparisons, sums over a part, sums of
ones.  In Spades `HandInv` says
that a seat has as many cards as tricks are left to it, and shares none.  `NobodyIsStuck`
follows, because a hand that is not empty has a card of the suit led, a card that may be
led, or only spades.  The score modulo `BagLimit` is a layer of its own: all that is
added or taken is a multiple of it, but for one point a bag.

### Checkers and Reversi

The sessions have no lock, so the proofs are about where each goroutine stands and what
it has read: it must still be so when it is used, although the other
seat's goroutine may have ended the game or set it up again meanwhile.
`TypeInv` gives each place in a handler its frame; `ApartInv` says that as
long as `crossed` is FALSE at most one goroutine moves or passes the turn, and none while
the game is set up;
`SetUpInv` which fields of a half set-up game are new already; `MoveInv` that a move to
store is legal on the board as it *is*; `TurnInv` what the handler that is under
way has found out and whose turn it is, step by step.  In Checkers
`StuckInv` adds that between these steps the player to move can, and an EndGame spoils
only what no longer matters, since the game will be over (`Live`).  Two
goroutines that see both votes both set up the game; `VoteInv` and `LateInv` say that
until the second has done so, the game has gone no further than Black's
first turn, because White cannot move while it waits to write.  In Reversi
`ResultInv` adds that in a game nobody gave up the flags are those of the board;
`MoveInv` and `OneMoveAtATime` need no `endCrossed`, since EndGame writes no board.

One lemma says which steps lead to a place in a handler (`StepFrom`), one what each
kind of step may change (`Effects`, `ResetFacts`, `PlayFacts`), and each
invariant is kept by one lemma of its own.  The lemmas about boards hold for every
size admitted: both players can start (`BothCanStart`), White's men are untouched by
Black's first move (`WhiteIsUntouched`), a jump that goes on can go on (`JumpGoesOn`),
and in Reversi the pieces that a move turns are found along rays, whose squares
`RayFacts` and `FlipFacts` give in closed form, each between two of the
mover's (`TurnedBetween`).

### Backgammon

The invariants say of every connection what may be under way on it, in what order and
how often, while both players are there; of a player that has gone, who does not come back,
nothing is left but `TypeInv`.
`IntroInv` is about the introductions, in any number of matches.  `AsksInv`: a `NewMatch`
under way is followed by a check-in and a state request, and a client that waits for the
state has it or has asked for it.  `ToldInv`: if the server has seen both check-ins of
clients without a `NewMatch` under way, each is told the other's, or has the message under
way.  When nothing is under way, nobody waits for what is lost.
`FirstInv` is about the first match: each client asks for the state once (`AskOnce`); at most
one write is under way between the two, made by the player whose turn it is
(`WriteOnce`); a client's state, or the one under way to it, is the server's but for a
write that it has yet to be told of or the server to apply (`ViewFits`); each rolls once, and a roll is
told to both and before the move that needs it (`RollOnce`, `DiceFit`).
The hard part is that one client may write before the other has asked for the state, which
it then gets with that write applied and the write not sent to it again, or without
and the write behind it; `TurnIsFree` and `WriterIsFree` say what is not under way when a
client may write, and hence whose copy is right.
There are lemmas about queues (what appending and taking the first message do to
the number and order of messages of a kind), one about each client action
and each handler, and `Receive` is split by the kind of message it takes.

### Only model-checked

- What needs fairness: `FullTableStarts`, `ClosedIsCleanedUp`, `VotedGameStarts`,
  `GameEnds`, and the liveness of `Matchmaking` and `TrickTaking`.  The prover does
  not do liveness; the safety parts of the two refinements are theorems.

Every other property of a passing run is a theorem.

## 5. Disagreements between the code and what it says

- `room_nil_session`.  `router.go:284` means to drop a "game message but no
  table/session", but reads `Table.Session` again to call it.  A player that has
  left the table still reaches it by `Player.Table`; if the last one there leaves
  in between, the call panics.  `SeatedSessionLives` (proved) says that this
  takes a sender who no longer sits there.
- `room_any_table`.  `room.go:141`: "RemovePlayer removes a player from the room
  and any table".  It looks at `p.Table` only, and a player may have sat down
  twice.
- `hearts_one_of_each`.  `proto/hearts.go:85`: PassCards is "sent by each client
  with their 3 passed cards".  One card named three times is taken.
- `checkers_stalemate`.  `rules.go:238`: "Stalemate means the NEXT player (not
  lastMovePlayer) can't move, so they lose".  `HandleFinishMove` writes `PlayerToMove`
  (`game.go:147`) and reads it again (154) to tell who moved last; if the player who cannot
  move gives up at that moment (171-176), it wins.

## 6. Not modelled

- *Wire, layouts, entry point*: byte formats without state.
- *Lobby, Connection, Proxy*: planned below.
- In `Room`: chat, chat switch, ping (no table, seat or session is touched); the
  Enter broadcast and ServerStatus, but for a failure to send.
  `SendStartGameMessages` reads `Table.Seats` without the lock: it is modelled as
  one read of one pointer per seat, each at any time.  The slice itself is not
  replaced meanwhile, since the goroutine's own player sits there (`StarterStays`)
  and only empty tables are resized.
- In `Hearts`: messages to clients; Talk, Options and GameStateRequest, which
  change nothing.  `checkedIn` and `pointsBroken` are there although nothing reads
  them.
- In `Spades`: Talk, and CheckIn, ShownCards, Options and GameStateRequest, which the
  code ignores; messages to clients.
- In `Checkers` and `Reversi`: messages to clients, what only tells a client what to
  draw, Draw, Talk and the relayed votes.  In Reversi a client may ask for the state
  between a move and its broadcast, and then gets the move twice.
  The checks at the beginning of a handler read two or three fields in one step, a
  board is copied and stored in one, and in Reversi the four squares of a new board and the
  two scores are written in one.  Squares are on the board: the index at
  `checkers/game.go:71`, which panics for a row or column beyond it, is not modelled.
- In `Backgammon`: `readyVotes` and `clientVer`, which nothing reads; user IDs, which
  follow from the check-ins; the encoding of dice; Talk and Timestamp.  The clients
  are external, and `ClientsAgree` is about clients that take turns: two that write
  the same entry at once would disagree, as each applies its own first.
- `Room` with a session inside: a session is an ID in `Room`, and four seats in
  `Hearts`; that a newcomer inherits a seat in the middle of a game is not stated.

What the code leaves open, and no property excludes:

- *A player seated during another's cleanup.*  `HandlePlayer` reads the opponent
  (`router.go:22`) and vacates the seat (33) in two critical sections.  Who is seated in
  between is not notified, and may be told that the game starts, with the player who is
  leaving.
- *Messages that cross.*  Two Checkers or Reversi handlers that play at once may each store
  a board that the other has not seen; what such games keep is their types and the start of
  the next.  In Reversi a resignation that crosses a move is
  wiped by it (`game.go:110`), both handlers pass the turn, one over the other, and the game
  may go on with a player to move who cannot: `NobodyIsStuck` without `endCrossed` does
  not hold.
- *A stale check-in.*  The Backgammon server forgets at `NewMatch` that it introduced the
  clients, but not that they checked in (`backgammon_session.go:428-432`).  A client that
  begins the next match first is told the check-in of the last one (264-266), goes on and
  may write, as the host does in `integration/backgammon_test.go:476-515`; the other's
  `NewMatch` then wipes it.  So from the second match on the copies may
  differ: `ClientsAgree` without `again` does not hold.

## 7. Plan

Done: `Room`, `Matchmaking`, `Hearts`, `Spades`, `TrickTaking`, `Checkers`, `Reversi`,
`Backgammon`; proofs about each session and the room.  Left, in the order of importance:

1. `Room` composed with a session: seats refilled during a game, a full table
   started a second time, StartGameM against the session's messages.
2. `Bootstrap`: handshake, negotiation of at most four rounds, client
   configuration, sequence numbers.
3. `Lobby`: Enter and chat switch broadcasts against `AddPlayer` and
   `RemovePlayer`; the write path's locks.
