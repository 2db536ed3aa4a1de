------------------------------- MODULE Reversi -------------------------------
(***************************************************************************)
(* A Reversi session.  As in Checkers there is no lock, and the other       *)
(* player's goroutine may come in between any two statements of a handler;  *)
(* at[s] says where the goroutine of seat s stands and what it has read and *)
(* decided, and not yet written.  The checks at the beginning of a handler, *)
(* a copy of the current state, the four squares that a Reset fills and the *)
(* two scores are one step each.                                            *)
(*                                                                         *)
(* Flags are sets of names.  Left out are the parts of the state that only  *)
(* tell a client what to draw (Old, SquaresChanged, LastMove, FlipLevel and *)
(* DirectionFlippedLastTime) and the messages to the clients.               *)
(***************************************************************************)
EXTENDS Integers, Sequences, FiniteSets

CONSTANTS
    Rows, Cols,      \* 8 and 8
    EndFlags         \* the flags that clients send to end a game

Flag == {"whiteWins", "blackWins", "draw", "resign", "timeLoss"}

ASSUME EndFlagsAssumption == EndFlags \subseteq SUBSET Flag

\* Room for the four pieces in the middle, and for each player to begin.
ASSUME SizeAssumption == Rows \in Nat /\ Cols \in Nat /\ Rows >= 2 /\ Cols >= 3

VARIABLES
    board,           \* Current.Board
    player,          \* Current.Player, whose turn it is
    flags,           \* Current.Flags
    score,           \* Current.WhiteScore and Current.BlackScore
    state,           \* "waiting", "playing", "over"
    newGameVotes,
    finalScore,
    at,
    crossed,         \* history: in this game somebody played before the server was done
                     \* with the move of the other seat or with the set-up
    endCrossed       \* history: an EndGame came while a handler of the other seat
                     \* played the game, or such a one while it was under way

crossings == <<crossed, endCrossed>>
vars == <<board, player, flags, score, state, newGameVotes, finalScore, at, crossings>>

-----------------------------------------------------------------------------
(* Boards and moves *)

PlayerWhite == 0
PlayerBlack == 1
Player == {PlayerWhite, PlayerBlack}
Opponent(p) == 1 - p

ScoreBlackWins == 0
ScoreWhiteWins == 1
ScoreDraw == 2

None == "none"
PieceOf(p) == IF p = PlayerWhite THEN "white" ELSE "black"

Squares == (0 .. Rows - 1) \X (0 .. Cols - 1)

EmptyBoard == [sq \in Squares |-> None]

NewBoard ==
    LET r == Rows \div 2
        c == Cols \div 2
        black == {<<r - 1, c - 1>>, <<r, c>>}
        white == {<<r - 1, c>>, <<r, c - 1>>}
    IN [sq \in Squares |-> IF sq \in black THEN "black"
                           ELSE IF sq \in white THEN "white" ELSE None]

Directions == ((-1 .. 1) \X (-1 .. 1)) \ {<<0, 0>>}

\* The squares from sq to the edge of the board, for each direction.
Ray(sq, d) ==
    LET along(n) == <<sq[1] + n * d[1], sq[2] + n * d[2]>>
        inside   == {n \in 1 .. Rows + Cols : along(n) \in Squares}
    IN [n \in 1 .. Cardinality(inside) |-> along(n)]
Rays == [sq \in Squares |-> {Ray(sq, d) : d \in Directions}]

\* Mutant of Flipped: what lies beyond the last of the run is not looked at.
FlippedOpen(b, p, ray) ==
    {ray[i] : i \in {i \in DOMAIN ray :
        \A j \in 1 .. i : b[ray[j]] = PieceOf(Opponent(p))}}

\* Pieces of the opponent in a row, up to one's own.
Flipped(b, p, ray) ==
    {ray[i] : i \in {i \in DOMAIN ray :
        \E n \in i + 1 .. Len(ray) :
            /\ b[ray[n]] = PieceOf(p)
            /\ \A j \in 1 .. n - 1 : b[ray[j]] = PieceOf(Opponent(p))}}

Flips(b, p, sq) == UNION {Flipped(b, p, ray) : ray \in Rays[sq]}

\* applyMove takes the move if it flips something.
IsLegal(b, p, sq) == b[sq] = None /\ Flips(b, p, sq) # {}

LegalMoveExists(b, p) == \E sq \in Squares : IsLegal(b, p, sq)

BoardAfter(b, p, sq) ==
    [s \in Squares |-> IF s = sq \/ s \in Flips(b, p, sq) THEN PieceOf(p) ELSE b[s]]

Count(b, p) == Cardinality({sq \in Squares : b[sq] = PieceOf(p)})
Scores(b) == [p \in Player |-> Count(b, p)]

\* Mutant of ResultFlags: the game is decided when White cannot move.
ResultFlagsWhite(b) ==
    IF LegalMoveExists(b, PlayerWhite) THEN {}
    ELSE CASE Count(b, PlayerWhite) > Count(b, PlayerBlack) -> {"whiteWins"}
           [] Count(b, PlayerWhite) < Count(b, PlayerBlack) -> {"blackWins"}
           [] OTHER -> {"draw"}

\* calculateScores: who has won, when neither can move.
ResultFlags(b) ==
    IF \E p \in Player : LegalMoveExists(b, p) THEN {}
    ELSE CASE Count(b, PlayerWhite) > Count(b, PlayerBlack) -> {"whiteWins"}
           [] Count(b, PlayerWhite) < Count(b, PlayerBlack) -> {"blackWins"}
           [] OTHER -> {"draw"}

\* isGameOver, or -1.  A resignation does not say whose it is.
ScoreOf(f) ==
    CASE "whiteWins" \in f -> ScoreWhiteWins
      [] "whiteWins" \notin f /\ "blackWins" \in f -> ScoreBlackWins
      [] f \cap {"whiteWins", "blackWins"} = {} /\ "draw" \in f -> ScoreDraw
      [] f \cap {"whiteWins", "blackWins", "draw"} = {} /\ "resign" \in f ->
            IF "timeLoss" \in f THEN ScoreBlackWins ELSE ScoreWhiteWins
      [] OTHER -> -1

-----------------------------------------------------------------------------
(* The handlers, game.go and reversi_session.go *)

Idle == [op |-> "idle"]
Goes(s, op, work) == at[s].op = op /\ at' = [at EXCEPT ![s] = work]

\* What a goroutine is in the middle of.
SettingUp(s) == at[s].op = "reset" /\ at[s].field # "clear"
Moving(s) == at[s].op \notin {"idle", "voted", "reset"} /\ ~at[s].ends
Ending(s) == at[s].op \notin {"idle", "voted", "reset"} /\ at[s].ends

\* handleNewGame, up to the first line of VoteNewGame: at any time.
HandleNewGame(s) ==
    /\ Goes(s, "idle", [op |-> "voted"])
    /\ newGameVotes' = [newGameVotes EXCEPT ![s] = TRUE]
    /\ UNCHANGED <<board, player, flags, score, state, finalScore, crossings>>

ResetField(field) == [op |-> "reset", field |-> field]

\* VoteNewGame, once the vote of s is there: are both?
CountVotes(s) ==
    /\ Goes(s, "voted", IF newGameVotes = [p \in Player |-> TRUE]
                         THEN ResetField("clear") ELSE Idle)
    /\ UNCHANGED <<board, player, flags, score, state, newGameVotes, finalScore, crossings>>

\* Reset, field by field in this order.
AfterField ==
    [clear |-> ResetField("turn"), turn |-> ResetField("board"), board |-> ResetField("score"),
     score |-> ResetField("votes"), votes |-> ResetField("final"), final |-> ResetField("state"),
     state |-> Idle]

Reset(s) ==
    /\ Goes(s, "reset", AfterField[at[s].field])
    /\ LET is(field) == at[s].field = field
           playing == Moving(Opponent(s)) \/ Ending(Opponent(s))
       IN /\ board' = IF is("clear") THEN EmptyBoard ELSE IF is("board") THEN NewBoard ELSE board
          /\ player' = IF is("clear") THEN PlayerWhite ELSE IF is("turn") THEN PlayerBlack ELSE player
          /\ flags' = IF is("clear") THEN {} ELSE flags
          /\ score' = IF is("clear") THEN [p \in Player |-> 0]
                      ELSE IF is("score") THEN [p \in Player |-> 2] ELSE score
          /\ newGameVotes' = IF is("votes") THEN [p \in Player |-> FALSE] ELSE newGameVotes
          /\ finalScore' = IF is("final") THEN 0 ELSE finalScore
          /\ state' = IF is("state") THEN "playing" ELSE state
          /\ crossed' = IF is("clear") THEN playing ELSE crossed
          /\ endCrossed' = (~is("clear") /\ endCrossed)

\* HandleMove, its checks.
HandleMove(s, sq) ==
    /\ state = "playing" /\ s = player /\ board[sq] = None
    /\ Goes(s, "idle", [op |-> "moving", ends |-> FALSE, square |-> sq])
    /\ crossed' = (crossed \/ SettingUp(Opponent(s)) \/ Moving(Opponent(s)))
    /\ endCrossed' = (endCrossed \/ Ending(Opponent(s)))
    /\ UNCHANGED <<board, player, flags, score, state, newGameVotes, finalScore>>

\* applyMove on a copy of the current state, whose turn it is included.
ApplyMove(s) ==
    /\ Goes(s, "moving", IF IsLegal(board, player, at[s].square)
                          THEN [op |-> "move", ends |-> FALSE, player |-> player,
                                board |-> BoardAfter(board, player, at[s].square)]
                          ELSE Idle)
    /\ UNCHANGED <<board, player, flags, score, state, newGameVotes, finalScore, crossings>>

\* The copy becomes the current state.
StoreMove(s) ==
    /\ Goes(s, "move", [op |-> "flip", ends |-> FALSE])
    /\ board' = at[s].board /\ player' = at[s].player
    /\ flags' = ResultFlags(board') /\ score' = Scores(board')
    /\ UNCHANGED <<state, newGameVotes, finalScore, crossings>>

\* HandleEndGame, which goes on with HandleFinishMove: from either seat, in any state.
HandleEndGame(s, f) ==
    /\ Goes(s, "idle", [op |-> "flip", ends |-> TRUE])
    /\ flags' = f
    /\ crossed' = (crossed \/ SettingUp(Opponent(s)))
    /\ endCrossed' = (endCrossed \/ Moving(Opponent(s)) \/ Ending(Opponent(s)))
    /\ UNCHANGED <<board, player, score, state, newGameVotes, finalScore>>

\* HandleFinishMove: the turn passes,
Flip(s) ==
    /\ Goes(s, "flip", [at[s] EXCEPT !.op = "look"])
    /\ player' = Opponent(player)
    /\ UNCHANGED <<board, flags, score, state, newGameVotes, finalScore, crossings>>

\* Mutant of Look: the turn passes to whoever is next.
LookAway(s) ==
    /\ Goes(s, "look", [at[s] EXCEPT !.op = "count"])
    /\ UNCHANGED <<board, player, flags, score, state, newGameVotes, finalScore, crossings>>

\* unless the next player
Look(s) ==
    /\ Goes(s, "look", [at[s] EXCEPT !.op = IF LegalMoveExists(board, player) THEN "count" ELSE "back"])
    /\ UNCHANGED <<board, player, flags, score, state, newGameVotes, finalScore, crossings>>

\* cannot move.
FlipBack(s) ==
    /\ Goes(s, "back", [at[s] EXCEPT !.op = "count"])
    /\ player' = Opponent(player)
    /\ UNCHANGED <<board, flags, score, state, newGameVotes, finalScore, crossings>>

\* calculateScores: the flags and the scores of the board,
CountBoard(s) ==
    /\ Goes(s, "count", [op |-> "flags", ends |-> at[s].ends,
                         flags |-> ResultFlags(board), score |-> Scores(board)])
    /\ UNCHANGED <<board, player, flags, score, state, newGameVotes, finalScore, crossings>>

\* which are stored one after the other.
AddFlags(s) ==
    /\ Goes(s, "flags", [op |-> "scores", ends |-> at[s].ends, score |-> at[s].score])
    /\ flags' = flags \cup at[s].flags
    /\ UNCHANGED <<board, player, score, state, newGameVotes, finalScore, crossings>>

StoreScores(s) ==
    /\ Goes(s, "scores", [op |-> "over", ends |-> at[s].ends])
    /\ score' = at[s].score
    /\ UNCHANGED <<board, player, flags, state, newGameVotes, finalScore, crossings>>

\* Mutant of IsGameOver: the result is stored without a look at whether there is one.
IsGameOverRaw(s) ==
    /\ Goes(s, "over", [op |-> "end", ends |-> at[s].ends, result |-> ScoreOf(flags)])
    /\ UNCHANGED <<board, player, flags, score, state, newGameVotes, finalScore, crossings>>

\* The game is over if the flags say so.
IsGameOver(s) ==
    /\ Goes(s, "over", IF ScoreOf(flags) = -1 THEN Idle
                       ELSE [op |-> "end", ends |-> at[s].ends, result |-> ScoreOf(flags)])
    /\ UNCHANGED <<board, player, flags, score, state, newGameVotes, finalScore, crossings>>

EndState(s) ==
    /\ Goes(s, "end", [at[s] EXCEPT !.op = "final"])
    /\ state' = "over"
    /\ UNCHANGED <<board, player, flags, score, newGameVotes, finalScore, crossings>>

StoreFinal(s) ==
    /\ Goes(s, "final", Idle)
    /\ finalScore' = at[s].result
    /\ UNCHANGED <<board, player, flags, score, state, newGameVotes, crossings>>

-----------------------------------------------------------------------------
\* newReversiSession, NewGame.
Init ==
    /\ board = NewBoard /\ score = [p \in Player |-> 2]
    /\ player = PlayerBlack /\ flags = {}
    /\ state = "waiting" /\ finalScore = 0
    /\ newGameVotes = [p \in Player |-> FALSE]
    /\ at = [s \in Player |-> Idle]
    /\ crossed = FALSE /\ endCrossed = FALSE

Message(s) ==
    \/ HandleNewGame(s)
    \/ \E sq \in Squares : HandleMove(s, sq)
    \/ \E f \in EndFlags : HandleEndGame(s, f)

HandleFinishMove(s) ==
    \/ Flip(s) \/ Look(s) \/ FlipBack(s) \/ CountBoard(s) \/ AddFlags(s) \/ StoreScores(s)
    \/ IsGameOver(s) \/ EndState(s) \/ StoreFinal(s)

\* The goroutine of s goes on with the handler it is in.
GoOn(s) == CountVotes(s) \/ Reset(s) \/ ApplyMove(s) \/ StoreMove(s) \/ HandleFinishMove(s)

Next == \E s \in Player : Message(s) \/ GoOn(s)

Spec == Init /\ [][Next]_vars

-----------------------------------------------------------------------------
Boards == [Squares -> {None, PieceOf(PlayerWhite), PieceOf(PlayerBlack)}]
Counts == [Player -> 0 .. Rows * Cols]

TypeOK ==
    /\ board \in Boards
    /\ player \in Player
    /\ flags \subseteq Flag
    /\ score \in Counts
    /\ state \in {"waiting", "playing", "over"}
    /\ newGameVotes \in [Player -> BOOLEAN]
    /\ finalScore \in {ScoreBlackWins, ScoreWhiteWins, ScoreDraw}
    /\ crossed \in BOOLEAN /\ endCrossed \in BOOLEAN
    /\ \A s \in Player :
        \/ at[s] \in [op : {"idle", "voted"}]
        \/ at[s] \in [op : {"reset"}, field : DOMAIN AfterField]
        \/ at[s] \in [op : {"moving"}, ends : BOOLEAN, square : Squares]
        \/ at[s] \in [op : {"move"}, ends : BOOLEAN, player : Player, board : Boards]
        \/ at[s] \in [op : {"flip", "look", "back", "count", "over"}, ends : BOOLEAN]
        \/ at[s] \in [op : {"flags"}, ends : BOOLEAN, flags : SUBSET Flag, score : Counts]
        \/ at[s] \in [op : {"scores"}, ends : BOOLEAN, score : Counts]
        \/ at[s] \in [op : {"end", "final"}, ends : BOOLEAN,
                      result : {ScoreBlackWins, ScoreWhiteWins, ScoreDraw}]

Quiet == at = [s \in Player |-> Idle]

\* Between messages it is the turn of a player who can move, or the game is over:
\* a turn that must be passed is, and neither player waits for the other without
\* end; so in every game in which no message crossed another (HandleFinishMove,
\* legalMoveExists).
NobodyIsStuck ==
    ~crossed /\ ~endCrossed /\ state = "playing" /\ Quiet => LegalMoveExists(board, player)

\* In such a game the scores are the count of the board, and if nobody gave up or
\* ran out of time, it is over when neither player can move, never while one still
\* can, and the count is its result (calculateScores, isGameOver, HandleFinishMove).
ResultByCount ==
    ~crossed /\ ~endCrossed /\ Quiet /\ state # "waiting" =>
        LET movesLeft == \E p \in Player : LegalMoveExists(board, p)
        IN /\ score = Scores(board)
           /\ state = "playing" => movesLeft
           /\ state = "over" /\ flags \cap {"resign", "timeLoss"} = {} =>
                /\ ~movesLeft
                /\ finalScore = CASE Count(board, PlayerWhite) > Count(board, PlayerBlack) -> ScoreWhiteWins
                                  [] Count(board, PlayerWhite) < Count(board, PlayerBlack) -> ScoreBlackWins
                                  [] OTHER -> ScoreDraw

\* A move adds one piece of one player, turns some of the opponent's, each of them
\* between two of the player's in a line, and leaves all others, also when an
\* EndGame crosses it; so in every game in which no move crossed a move or the
\* set-up (applyMove, and that the board is still the one it was applied to).  That
\* it is the player who sent it is not said: an EndGame passes the turn.
OneMoveAtATime ==
    [][board' # board /\ (\E s \in Player : at[s].op = "move" /\ at'[s] # at[s]) /\ ~crossed =>
        \E p \in Player :
            LET turned == {sq \in Squares : board'[sq] # board[sq] /\ board[sq] # None}
            IN /\ Cardinality({sq \in Squares : board'[sq] # board[sq] /\ board[sq] = None}) = 1
               /\ \A sq \in Squares : board'[sq] # board[sq] => board'[sq] = PieceOf(p)
               /\ turned # {}
               /\ \A sq \in turned : \E r1, r2 \in Rays[sq] :
                    /\ r1 # r2 /\ Len(r1) > 0 /\ Len(r2) > 0
                    /\ r1[1][1] + r2[1][1] = 2 * sq[1] /\ r1[1][2] + r2[1][2] = 2 * sq[2]
                    /\ {board'[r1[1]], board'[r2[1]]} = {PieceOf(p)}]_vars
=============================================================================
