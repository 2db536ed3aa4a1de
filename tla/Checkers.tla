------------------------------ MODULE Checkers ------------------------------
(***************************************************************************)
(* A Checkers session.  It has no lock, and each player's goroutine calls   *)
(* its handlers: the other seat's steps may come in between any two of one's *)
(* own.  A step is one read or one write of a field of the game, the checks *)
(* at the beginning of a handler together; at[s] says where the goroutine of *)
(* seat s stands and what it has read and decided, and not yet written.     *)
(*                                                                         *)
(* Flags are sets of names.  MoveCount and DrawOfferer, which nothing       *)
(* reads, and the messages to the clients are not modelled.                 *)
(***************************************************************************)
EXTENDS Integers, FiniteSets

CONSTANTS
    Rows, Cols,      \* 8 and 8
    PawnRows,        \* 3, the rows that each player fills with pawns
    EndFlags         \* the flags that clients send to end a game

Flag == {"resign", "stalemate", "draw", "timeLoss", "wasJump", "continueJump", "promote"}

\* There is a free row between the players, and there are columns enough for each to
\* have a first move.
ASSUME BoardAssumption ==
    /\ Rows \in Nat /\ Cols \in Nat /\ Cols >= 3
    /\ PawnRows \in Nat \ {0} /\ Rows > 2 * PawnRows

ASSUME EndFlagsAssumption == EndFlags \subseteq SUBSET Flag

VARIABLES
    board,           \* the piece on each square
    playerToMove,
    moveOver,        \* the player to move has moved and may only finish
    newGameVotes,
    state,           \* "waiting", "playing", "over"
    finalScore,
    lastFlags,
    at,
    crossed          \* history: in this game somebody played before the server was done
                     \* with the turn of the other seat or with the set-up

vars == <<board, playerToMove, moveOver, newGameVotes, state, finalScore,
          lastFlags, at, crossed>>

-----------------------------------------------------------------------------
(* Boards and moves, board.go and rules.go *)

PlayerBlack == 0
PlayerWhite == 1
Player == {PlayerBlack, PlayerWhite}
Opponent(p) == 1 - p

ScoreDraw == 2

None == "none"
Pawn == <<"blackPawn", "whitePawn">>
King == <<"blackKing", "whiteKing">>
PawnOf(p) == Pawn[p + 1]
KingOf(p) == King[p + 1]
PiecesOf(p) == {PawnOf(p), KingOf(p)}
Piece == {None} \cup PiecesOf(PlayerBlack) \cup PiecesOf(PlayerWhite)

Squares == (0 .. Rows - 1) \X (0 .. Cols - 1)
IsDark(sq) == (sq[1] + sq[2]) % 2 = 0

NewBoard ==
    [sq \in Squares |->
        CASE IsDark(sq) /\ sq[1] < PawnRows -> PawnOf(PlayerBlack)
          [] IsDark(sq) /\ sq[1] >= Rows - PawnRows -> PawnOf(PlayerWhite)
          [] OTHER -> None]

Abs(n) == IF n < 0 THEN -n ELSE n

\* The squares n rows and n columns away.
Diagonal(n) ==
    [from \in Squares |->
        {to \in Squares : Abs(to[1] - from[1]) = n /\ Abs(to[2] - from[2]) = n}]
Steps == Diagonal(1)
Jumps == Diagonal(2)

Middle(from, to) == <<(from[1] + to[1]) \div 2, (from[2] + to[2]) \div 2>>

IsForward(p, from, to) ==
    IF p = PlayerBlack THEN from[1] < to[1] ELSE from[1] > to[1]

LastRow(p) == IF p = PlayerBlack THEN Rows - 1 ELSE 0

\* kingCanMoveTo, for a jump.
IsJump(b, p, from, to) ==
    /\ to \in Jumps[from]
    /\ b[to] = None
    /\ b[Middle(from, to)] \in PiecesOf(Opponent(p))

PieceCanJump(b, p, from) ==
    /\ b[from] \in PiecesOf(p)
    /\ \E to \in Jumps[from] :
        /\ b[from] = PawnOf(p) => IsForward(p, from, to)
        /\ IsJump(b, p, from, to)

PlayerCanJump(b, p) == \E from \in Squares : PieceCanJump(b, p, from)

\* Mutant of IsLegal: who can jump may do something else.
IsLegalNoMust(b, p, from, to) ==
    /\ b[from] \in PiecesOf(p)
    /\ b[from] = PawnOf(p) => IsForward(p, from, to)
    /\ \/ IsJump(b, p, from, to)
       \/ to \in Steps[from] /\ b[to] = None

\* ValidateMove, whether the move is taken: who can jump must.
IsLegal(b, p, from, to) ==
    /\ b[from] \in PiecesOf(p)
    /\ b[from] = PawnOf(p) => IsForward(p, from, to)
    /\ \/ IsJump(b, p, from, to)
       \/ to \in Steps[from] /\ b[to] = None /\ ~PlayerCanJump(b, p)

PlayerCanMove(b, p) ==
    \E from \in Squares : \E to \in Steps[from] \cup Jumps[from] : IsLegal(b, p, from, to)

\* ValidateMove, the new board: a pawn that reaches the last row is a king.
BoardAfter(b, p, from, to) ==
    LET piece == IF to[1] = LastRow(p) THEN KingOf(p) ELSE b[from]
        moved == [b EXCEPT ![from] = None, ![to] = piece]
    IN IF to \in Jumps[from] THEN [moved EXCEPT ![Middle(from, to)] = None] ELSE moved

\* ValidateMove, the flags: a jump goes on as long as the piece can jump, unless
\* it was just made a king.
FlagsOf(b, p, from, to) ==
    LET promotes == b[from] = PawnOf(p) /\ to[1] = LastRow(p)
        jumps    == to \in Jumps[from]
        goesOn   == jumps /\ ~promotes /\ PieceCanJump(BoardAfter(b, p, from, to), p, to)
    IN (IF jumps THEN {"wasJump"} ELSE {}) \cup (IF promotes THEN {"promote"} ELSE {})
       \cup (IF goesOn THEN {"continueJump"} ELSE {})

\* IsGameOver: the score of a game that ended with the flags on a message of
\* mover, or -1.  A loss on time alone does not end it.
ScoreOf(flags, mover) ==
    CASE "resign" \in flags -> Opponent(mover)
      [] "resign" \notin flags /\ "stalemate" \in flags -> mover
      [] flags \cap {"resign", "stalemate"} = {} /\ "draw" \in flags -> ScoreDraw
      [] OTHER -> -1

-----------------------------------------------------------------------------
(* The handlers, game.go and checkers_session.go                            *)

Idle == [op |-> "idle"]
Goes(s, op, work) == at[s].op = op /\ at' = [at EXCEPT ![s] = work]

\* What a goroutine is in the middle of.
Playing(s) == at[s].op \notin {"idle", "voted", "reset"}
SettingUp(s) == at[s].op = "reset" /\ at[s].field # "board"
TakingTurn(s) ==
    at[s].op \in {"moving", "move", "moved", "close", "finish", "stalemate", "mark", "flags",
                  "turn", "open", "score"}

\* s begins its part of a turn.  The client of s hears of the other's FinishMove when
\* its handler is done; it does not have to wait for that.
BeginsTurn(s, work) ==
    /\ Goes(s, "idle", work)
    /\ crossed' = (crossed \/ SettingUp(Opponent(s)) \/ TakingTurn(Opponent(s)))

\* Mutant of HandleNewGame: a second NewGame takes the vote back.
HandleNewGameToggles(s) ==
    /\ Goes(s, "idle", [op |-> "voted"])
    /\ newGameVotes' = [newGameVotes EXCEPT ![s] = ~@]
    /\ UNCHANGED <<board, playerToMove, moveOver, state, finalScore, lastFlags, crossed>>

\* handleCheckersNewGame, up to the first line of VoteNewGame: at any time.
HandleNewGame(s) ==
    /\ Goes(s, "idle", [op |-> "voted"])
    /\ newGameVotes' = [newGameVotes EXCEPT ![s] = TRUE]
    /\ UNCHANGED <<board, playerToMove, moveOver, state, finalScore, lastFlags, crossed>>

ResetField(field) == [op |-> "reset", field |-> field]

\* VoteNewGame, once the vote of s is there: are both?
CountVotes(s) ==
    /\ Goes(s, "voted", IF newGameVotes = [p \in Player |-> TRUE]
                         THEN ResetField("board") ELSE Idle)
    /\ UNCHANGED <<board, playerToMove, moveOver, newGameVotes, state, finalScore, lastFlags, crossed>>

\* Reset, field by field in this order.
AfterField ==
    [board |-> ResetField("turn"), turn |-> ResetField("moveOver"),
     moveOver |-> ResetField("votes"), votes |-> ResetField("state"),
     state |-> ResetField("score"), score |-> ResetField("flags"), flags |-> Idle]

\* Mutant of Reset: whoever was to move moves first.
ResetKeepsTurn(s) ==
    /\ Goes(s, "reset", AfterField[at[s].field])
    /\ LET is(field) == at[s].field = field
       IN /\ board' = IF is("board") THEN NewBoard ELSE board
          /\ crossed' = IF is("board") THEN Playing(Opponent(s)) ELSE crossed
          /\ moveOver' = (~is("moveOver") /\ moveOver)
          /\ newGameVotes' = IF is("votes") THEN [p \in Player |-> FALSE] ELSE newGameVotes
          /\ state' = IF is("state") THEN "playing" ELSE state
          /\ finalScore' = IF is("score") THEN 0 ELSE finalScore
          /\ lastFlags' = IF is("flags") THEN {} ELSE lastFlags
    /\ UNCHANGED playerToMove

Reset(s) ==
    /\ Goes(s, "reset", AfterField[at[s].field])
    /\ LET is(field) == at[s].field = field
       IN /\ board' = IF is("board") THEN NewBoard ELSE board
          /\ crossed' = IF is("board") THEN Playing(Opponent(s)) ELSE crossed
          /\ playerToMove' = IF is("turn") THEN PlayerBlack ELSE playerToMove
          /\ moveOver' = (~is("moveOver") /\ moveOver)
          /\ newGameVotes' = IF is("votes") THEN [p \in Player |-> FALSE] ELSE newGameVotes
          /\ state' = IF is("state") THEN "playing" ELSE state
          /\ finalScore' = IF is("score") THEN 0 ELSE finalScore
          /\ lastFlags' = IF is("flags") THEN {} ELSE lastFlags

\* HandleMovePiece, its three checks.
HandleMovePiece(s) ==
    /\ state = "playing" /\ s = playerToMove /\ ~moveOver
    /\ BeginsTurn(s, [op |-> "moving"])
    /\ UNCHANGED <<board, playerToMove, moveOver, newGameVotes, state, finalScore, lastFlags>>

\* ValidateMove on copies of the board and, read once more, of the player to move.
Validate(s, from, to) ==
    /\ IsLegal(board, playerToMove, from, to)
    /\ Goes(s, "moving", [op |-> "move", board |-> BoardAfter(board, playerToMove, from, to),
                          flags |-> FlagsOf(board, playerToMove, from, to)])
    /\ UNCHANGED <<board, playerToMove, moveOver, newGameVotes, state, finalScore, lastFlags, crossed>>

\* The move that was sent is not a legal one.
RefuseMove(s) ==
    /\ Goes(s, "moving", Idle)
    /\ UNCHANGED <<board, playerToMove, moveOver, newGameVotes, state, finalScore, lastFlags, crossed>>

StoreBoard(s) ==
    /\ Goes(s, "move", [op |-> "moved", flags |-> at[s].flags])
    /\ board' = at[s].board
    /\ UNCHANGED <<playerToMove, moveOver, newGameVotes, state, finalScore, lastFlags, crossed>>

StoreMoveFlags(s) ==
    /\ Goes(s, "moved", IF "continueJump" \in at[s].flags THEN Idle ELSE [op |-> "close"])
    /\ lastFlags' = at[s].flags
    /\ UNCHANGED <<board, playerToMove, moveOver, newGameVotes, state, finalScore, crossed>>

CloseMove(s) ==
    /\ Goes(s, "close", Idle)
    /\ moveOver' = TRUE
    /\ UNCHANGED <<board, playerToMove, newGameVotes, state, finalScore, lastFlags, crossed>>

\* HandleFinishMove, its three checks.
HandleFinishMove(s) ==
    /\ state = "playing" /\ s = playerToMove /\ moveOver
    /\ BeginsTurn(s, [op |-> "finish"])
    /\ UNCHANGED <<board, playerToMove, moveOver, newGameVotes, state, finalScore, lastFlags>>

\* Who is next, from another look at whose turn it is.
ReadNext(s) ==
    /\ Goes(s, "finish", [op |-> "stalemate", next |-> Opponent(playerToMove)])
    /\ UNCHANGED <<board, playerToMove, moveOver, newGameVotes, state, finalScore, lastFlags, crossed>>

\* Mutant of CheckStalemate: nobody looks whether the next player can move.
CheckStalemateBlind(s) ==
    /\ Goes(s, "stalemate", [op |-> "flags", next |-> at[s].next])
    /\ UNCHANGED <<board, playerToMove, moveOver, newGameVotes, state, finalScore, lastFlags, crossed>>

\* Is the game lost for the next player, who cannot move?
CheckStalemate(s) ==
    /\ Goes(s, "stalemate",
            [op |-> IF PlayerCanMove(board, at[s].next) THEN "flags" ELSE "mark", next |-> at[s].next])
    /\ UNCHANGED <<board, playerToMove, moveOver, newGameVotes, state, finalScore, lastFlags, crossed>>

MarkStalemate(s) ==
    /\ Goes(s, "mark", [op |-> "flags", next |-> at[s].next])
    /\ lastFlags' = lastFlags \cup {"stalemate"}
    /\ UNCHANGED <<board, playerToMove, moveOver, newGameVotes, state, finalScore, crossed>>

ReadFlags(s) ==
    /\ Goes(s, "flags", [op |-> "turn", next |-> at[s].next, flags |-> lastFlags])
    /\ UNCHANGED <<board, playerToMove, moveOver, newGameVotes, state, finalScore, lastFlags, crossed>>

PassTurn(s) ==
    /\ Goes(s, "turn", [op |-> "open", flags |-> at[s].flags])
    /\ playerToMove' = at[s].next
    /\ UNCHANGED <<board, moveOver, newGameVotes, state, finalScore, lastFlags, crossed>>

OpenMove(s) ==
    /\ Goes(s, "open", [op |-> "score", flags |-> at[s].flags])
    /\ moveOver' = FALSE
    /\ UNCHANGED <<board, playerToMove, newGameVotes, state, finalScore, lastFlags, crossed>>

\* IsGameOver, from a third look at whose turn it is.
ScoreFinish(s) ==
    /\ LET score == ScoreOf(at[s].flags, Opponent(playerToMove))
       IN Goes(s, "score", IF score = -1 THEN Idle ELSE [op |-> "over", score |-> score])
    /\ UNCHANGED <<board, playerToMove, moveOver, newGameVotes, state, finalScore, lastFlags, crossed>>

\* HandleEndGame, its check.
HandleEndGame(s, flags) ==
    /\ state = "playing"
    /\ Goes(s, "idle", [op |-> "end", flags |-> flags])
    /\ crossed' = (crossed \/ SettingUp(Opponent(s)))
    /\ UNCHANGED <<board, playerToMove, moveOver, newGameVotes, state, finalScore, lastFlags>>

StoreEndFlags(s) ==
    /\ Goes(s, "end", [op |-> "endNext", flags |-> at[s].flags])
    /\ lastFlags' = at[s].flags
    /\ UNCHANGED <<board, playerToMove, moveOver, newGameVotes, state, finalScore, crossed>>

\* Mutant of ReadEndNext: the player after the last is not the first.
ReadEndNextUnbounded(s) ==
    /\ Goes(s, "endNext", [op |-> "endTurn", flags |-> at[s].flags, next |-> playerToMove + 1])
    /\ UNCHANGED <<board, playerToMove, moveOver, newGameVotes, state, finalScore, lastFlags, crossed>>

ReadEndNext(s) ==
    /\ Goes(s, "endNext", [op |-> "endTurn", flags |-> at[s].flags, next |-> Opponent(playerToMove)])
    /\ UNCHANGED <<board, playerToMove, moveOver, newGameVotes, state, finalScore, lastFlags, crossed>>

\* The score is that of the seat that sent the message, if there is one.
PassEndTurn(s) ==
    /\ Goes(s, "endTurn", [op |-> "over", score |-> ScoreOf(at[s].flags, s)])
    /\ playerToMove' = at[s].next
    /\ UNCHANGED <<board, moveOver, newGameVotes, state, finalScore, lastFlags, crossed>>

\* The game is over; an EndGame without a score leaves the last one.
EndState(s) ==
    /\ Goes(s, "over", IF at[s].score = -1 THEN Idle ELSE [op |-> "result", score |-> at[s].score])
    /\ state' = "over"
    /\ UNCHANGED <<board, playerToMove, moveOver, newGameVotes, finalScore, lastFlags, crossed>>

StoreScore(s) ==
    /\ Goes(s, "result", Idle)
    /\ finalScore' = at[s].score
    /\ UNCHANGED <<board, playerToMove, moveOver, newGameVotes, state, lastFlags, crossed>>

-----------------------------------------------------------------------------
\* newCheckersSession, NewGame.
Init ==
    /\ board = NewBoard
    /\ playerToMove = PlayerBlack /\ moveOver = FALSE
    /\ newGameVotes = [p \in Player |-> FALSE]
    /\ state = "waiting" /\ finalScore = 0 /\ lastFlags = {}
    /\ at = [s \in Player |-> Idle] /\ crossed = FALSE

Message(s) ==
    \/ HandleNewGame(s)
    \/ HandleMovePiece(s)
    \/ HandleFinishMove(s)
    \/ \E flags \in EndFlags : HandleEndGame(s, flags)

Decide(s) ==
    \E from \in Squares : \E to \in Steps[from] \cup Jumps[from] : Validate(s, from, to)

Move(s) == Decide(s) \/ RefuseMove(s) \/ StoreBoard(s) \/ StoreMoveFlags(s) \/ CloseMove(s)

Finish(s) ==
    \/ ReadNext(s) \/ CheckStalemate(s) \/ MarkStalemate(s) \/ ReadFlags(s)
    \/ PassTurn(s) \/ OpenMove(s) \/ ScoreFinish(s)

End(s) == StoreEndFlags(s) \/ ReadEndNext(s) \/ PassEndTurn(s)

\* The goroutine of s goes on with the handler it is in.
GoOn(s) ==
    CountVotes(s) \/ Reset(s) \/ Move(s) \/ Finish(s) \/ End(s) \/ EndState(s) \/ StoreScore(s)

Next == \E s \in Player : Message(s) \/ GoOn(s)

Spec == Init /\ [][Next]_vars

\* A handler that has begun is carried on by the scheduler; that of a vote is enough.
FairSpec == Spec /\ \A s \in Player : WF_vars(CountVotes(s) \/ Reset(s))

-----------------------------------------------------------------------------
TypeOK ==
    /\ board \in [Squares -> Piece]
    /\ playerToMove \in Player
    /\ moveOver \in BOOLEAN
    /\ newGameVotes \in [Player -> BOOLEAN]
    /\ state \in {"waiting", "playing", "over"}
    /\ finalScore \in Player \cup {ScoreDraw}
    /\ lastFlags \subseteq Flag
    /\ crossed \in BOOLEAN
    /\ \A s \in Player :
        \/ at[s] \in [op : {"idle", "voted", "moving", "close", "finish"}]
        \/ at[s] \in [op : {"reset"}, field : DOMAIN AfterField]
        \/ at[s] \in [op : {"stalemate", "mark", "flags"}, next : Player]
        \/ at[s] \in [op : {"turn", "endTurn"}, next : Player, flags : SUBSET Flag]
        \/ at[s] \in [op : {"moved", "open", "score", "end", "endNext"}, flags : SUBSET Flag]
        \/ at[s] \in [op : {"over", "result"}, score : Player \cup {ScoreDraw, -1}]
        \/ /\ DOMAIN at[s] = {"op", "board", "flags"} /\ at[s].op = "move"
           /\ at[s].board \in [Squares -> Piece] /\ at[s].flags \subseteq Flag

\* Between messages the turn is never with a player who cannot move, nor does a
\* jump go on that cannot: the game would hang, since only that player may move or
\* finish; so in every game whose set-up did not cross the play (HandleMovePiece,
\* HandleFinishMove, CheckStalemate).
NobodyIsStuck ==
    ~crossed /\ at = [s \in Player |-> Idle] /\ state = "playing" /\ ~moveOver
        => PlayerCanMove(board, playerToMove)

PiecesOn(b, p) == {sq \in Squares : b[sq] \in PiecesOf(p)}

\* In a game whose set-up did not cross the play a move moves one piece of one
\* player and takes at most one of the opponent's, the one it jumped over, and who
\* could take one did; on the last row it is a king (ValidateMove, and that the
\* board is still the one that was validated).  That it is a piece of the player
\* who sent the move is not said: an EndGame passes the turn before the second look
\* at it.
OneMoveAtATime ==
    [][board' # board /\ (\E s \in Player : at[s].op = "move" /\ at'[s] # at[s]) /\ ~crossed =>
        \E p \in Player :
            LET gone == PiecesOn(board, p) \ PiecesOn(board', p)
                come == PiecesOn(board', p) \ PiecesOn(board, p)
                lost == PiecesOn(board, Opponent(p)) \ PiecesOn(board', Opponent(p))
            IN /\ PiecesOn(board', Opponent(p)) \subseteq PiecesOn(board, Opponent(p))
               /\ \E from, to \in Squares :
                    /\ gone = {from} /\ come = {to}
                    /\ to[1] = LastRow(p) => board'[to] = KingOf(p)
                    /\ \/ to \in Steps[from] /\ lost = {} /\ ~PlayerCanJump(board, p)
                       \/ to \in Jumps[from] /\ lost = {Middle(from, to)}]_vars

\* Both goroutines may see both votes and set up the game, the second after it
\* has begun, its votes spent.  What that throws away is at most the first turn of
\* Black: White, whose answer the server has taken, never loses it (VoteNewGame,
\* Reset).
LateResetLosesOneTurn ==
    [][(\A s \in Player : at[s] = ResetField("board") /\ at'[s] # at[s] => ~newGameVotes[s])
       /\ ~crossed /\ state = "playing" /\ board # NewBoard /\ board' = NewBoard =>
          PiecesOn(board, PlayerWhite) = PiecesOn(NewBoard, PlayerWhite)]_vars

\* When both players have voted, the game starts, however their goroutines are
\* interleaved: they do not both leave it to the other (VoteNewGame).
VotedGameStarts ==
    newGameVotes = [p \in Player |-> TRUE] ~> state = "playing"

-----------------------------------------------------------------------------
(* What a comment of the code says, and the code does not do *)

\* "Stalemate means the NEXT player (not lastMovePlayer) can't move, so they lose": a
\* FinishMove that ends the game by stalemate, and not because somebody gave up,
\* gives it to the opponent of a player who cannot move.
StalemateScored ==
    [][\A s \in Player :
        at[s].op = "score" /\ at'[s].op = "over" /\ "resign" \notin at[s].flags =>
            ("stalemate" \in at[s].flags => ~PlayerCanMove(board, Opponent(at'[s].score)))]_vars
=============================================================================
