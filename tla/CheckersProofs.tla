--------------------------- MODULE CheckersProofs ---------------------------
(***************************************************************************)
(* Proofs about Checkers, for every size of the board that gives both players *)
(* a first move, whatever flags the clients send and however the handlers   *)
(* are interleaved.                                                         *)
(*                                                                         *)
(* What makes the invariants inductive is where each goroutine stands and   *)
(* what it has read and not yet written.  As long as nobody played before   *)
(* the server was done with the other seat's turn or with the set-up, one   *)
(* seat at a time takes a turn, and what it has read is still so; an        *)
(* EndGame, a vote or a second set-up may come in between at any step.      *)
(***************************************************************************)
EXTENDS Checkers, TLAPS

-----------------------------------------------------------------------------
(* Boards *)

\* The board of Black's first move.
FirstMoved(b) ==
    \E from \in Squares : \E to \in Steps[from] :
        /\ IsLegal(NewBoard, PlayerBlack, from, to)
        /\ b = BoardAfter(NewBoard, PlayerBlack, from, to)

LEMMA PieceFacts ==
    /\ Player = {0, 1} /\ PlayerBlack = 0 /\ PlayerWhite = 1
    /\ Opponent(0) = 1 /\ Opponent(1) = 0
    /\ PawnOf(0) = "blackPawn" /\ PawnOf(1) = "whitePawn"
    /\ KingOf(0) = "blackKing" /\ KingOf(1) = "whiteKing"
    /\ PiecesOf(0) = {"blackPawn", "blackKing"} /\ PiecesOf(1) = {"whitePawn", "whiteKing"}
    /\ Piece = {"none", "blackPawn", "whitePawn", "blackKing", "whiteKing"}
BY DEF Player, PlayerBlack, PlayerWhite, Opponent, PawnOf, KingOf, Pawn, King, PiecesOf, Piece, None

\* A square, by its row and column.
LEMMA SquareFacts ==
    /\ \A sq \in Squares : sq = <<sq[1], sq[2]>> /\ sq[1] \in 0 .. Rows - 1 /\ sq[2] \in 0 .. Cols - 1
    /\ \A r \in 0 .. Rows - 1, c \in 0 .. Cols - 1 :
          <<r, c>> \in Squares /\ <<r, c>>[1] = r /\ <<r, c>>[2] = c
    /\ Rows \in Nat /\ Cols \in Nat /\ PawnRows \in Nat
    /\ Cols >= 3 /\ PawnRows >= 1 /\ Rows >= 2 * PawnRows + 1
BY BoardAssumption DEF Squares

LEMMA StepFacts ==
    ASSUME NEW from \in Squares, NEW to \in Squares
    PROVE  /\ to \in Steps[from] <=>
                  /\ to[1] = from[1] + 1 \/ to[1] = from[1] - 1
                  /\ to[2] = from[2] + 1 \/ to[2] = from[2] - 1
           /\ to \in Jumps[from] <=>
                  /\ to[1] = from[1] + 2 \/ to[1] = from[1] - 2
                  /\ to[2] = from[2] + 2 \/ to[2] = from[2] - 2
BY SquareFacts DEF Steps, Jumps, Diagonal, Abs

LEMMA StepsAreSquares ==
    \A from \in Squares : Steps[from] \subseteq Squares /\ Jumps[from] \subseteq Squares
BY DEF Steps, Jumps, Diagonal

\* The square jumped over lies between the others.
LEMMA MiddleFacts ==
    ASSUME NEW from \in Squares, NEW to \in Jumps[from]
    PROVE  /\ Middle(from, to) \in Squares /\ Middle(from, to) # from /\ Middle(from, to) # to
           /\ Middle(from, to)[1] = IF to[1] > from[1] THEN from[1] + 1 ELSE from[1] - 1
           /\ Middle(from, to)[2] = IF to[2] > from[2] THEN from[2] + 1 ELSE from[2] - 1
<1>1. to \in Squares
    BY StepsAreSquares
<1>2. /\ from[1] \in 0 .. Rows - 1 /\ from[2] \in 0 .. Cols - 1
      /\ to[1] \in 0 .. Rows - 1 /\ to[2] \in 0 .. Cols - 1
    BY <1>1, SquareFacts
<1>3. /\ to[1] = from[1] + 2 \/ to[1] = from[1] - 2
      /\ to[2] = from[2] + 2 \/ to[2] = from[2] - 2
    BY <1>1, StepFacts
<1> DEFINE row == (from[1] + to[1]) \div 2
           col == (from[2] + to[2]) \div 2
<1>4. \A m, n \in Int : /\ n = m + 2 => n > m /\ (m + n) \div 2 = m + 1
                        /\ n = m - 2 => ~(n > m) /\ (m + n) \div 2 = m - 1
    OBVIOUS
<1>5. /\ \/ to[1] > from[1] /\ to[1] = from[1] + 2 /\ row = from[1] + 1
         \/ ~(to[1] > from[1]) /\ to[1] = from[1] - 2 /\ row = from[1] - 1
      /\ \/ to[2] > from[2] /\ to[2] = from[2] + 2 /\ col = from[2] + 1
         \/ ~(to[2] > from[2]) /\ to[2] = from[2] - 2 /\ col = from[2] - 1
    BY <1>2, <1>3, <1>4
<1>6. Middle(from, to) = <<row, col>>
    BY DEF Middle
<1> HIDE DEF row, col
<1>7. row \in 0 .. Rows - 1 /\ col \in 0 .. Cols - 1 /\ row # from[1] /\ row # to[1]
    BY <1>2, <1>5, SquareFacts
<1>8. <<row, col>> \in Squares /\ <<row, col>>[1] = row /\ <<row, col>>[2] = col
    BY <1>7, SquareFacts
<1> QED
    BY <1>5, <1>6, <1>7, <1>8

LEMMA NewBoardFacts ==
    /\ NewBoard \in [Squares -> Piece]
    /\ \A sq \in Squares :
          /\ NewBoard[sq] \in PiecesOf(0) <=> IsDark(sq) /\ sq[1] < PawnRows
          /\ NewBoard[sq] \in PiecesOf(1) <=> IsDark(sq) /\ sq[1] >= Rows - PawnRows
          /\ NewBoard[sq] \in {"none", "blackPawn", "whitePawn"}
<1>1. \A sq \in Squares : ~(sq[1] < PawnRows /\ sq[1] >= Rows - PawnRows)
    BY SquareFacts
<1>2. ASSUME NEW sq \in Squares
      PROVE  NewBoard[sq] = IF IsDark(sq) /\ sq[1] < PawnRows THEN "blackPawn"
                            ELSE IF IsDark(sq) /\ sq[1] >= Rows - PawnRows THEN "whitePawn"
                            ELSE "none"
    BY <1>1, <1>2, PieceFacts DEF NewBoard, None
<1>3. NewBoard \in [Squares -> Piece]
    <2>1. \A sq \in Squares : NewBoard[sq] \in Piece
        BY <1>2, PieceFacts
    <2>2. NewBoard = [sq \in Squares |-> NewBoard[sq]]
        BY DEF NewBoard
    <2> QED
        BY <2>1, <2>2
<1> QED
    BY <1>1, <1>2, <1>3, PieceFacts

LEMMA AfterTyped ==
    ASSUME NEW b \in [Squares -> Piece], NEW p \in Player, NEW from \in Squares,
           NEW to \in Steps[from] \cup Jumps[from]
    PROVE  BoardAfter(b, p, from, to) \in [Squares -> Piece]
<1>1. KingOf(p) \in Piece /\ None \in Piece
    BY PieceFacts DEF None
<1> QED
    BY <1>1 DEF BoardAfter

LEMMA FlagsTyped == \A b, p, from, to : FlagsOf(b, p, from, to) \subseteq Flag \ {"stalemate", "resign"}
BY DEF FlagsOf, Flag

\* Nobody can jump on the board of a new game.
LEMMA NoJumpAtFirst ==
    ASSUME NEW from \in Squares, NEW to \in Jumps[from]
    PROVE  ~(NewBoard[from] \in PiecesOf(PlayerBlack) /\ IsJump(NewBoard, PlayerBlack, from, to))
<1>1. to \in Squares /\ Middle(from, to) \in Squares /\ Middle(from, to)[1] <= from[1] + 1
    BY StepsAreSquares, MiddleFacts, SquareFacts
<1>2. from[1] \in Nat /\ Middle(from, to)[1] \in Nat
    BY <1>1, SquareFacts
<1> SUFFICES ASSUME NewBoard[from] \in PiecesOf(0), NewBoard[Middle(from, to)] \in PiecesOf(1)
             PROVE  FALSE
    BY PieceFacts DEF IsJump
<1>3. from[1] < PawnRows /\ Middle(from, to)[1] >= Rows - PawnRows
    BY <1>1, NewBoardFacts
<1> QED
    BY <1>1, <1>2, <1>3, SquareFacts

\* Who can jump can move, and so can who has a step to take.
LEMMA MoveExists ==
    ASSUME NEW b, NEW p, NEW from \in Squares, NEW to \in Squares,
           b[from] \in PiecesOf(p), b[from] = PawnOf(p) => IsForward(p, from, to),
           IsJump(b, p, from, to) \/ (to \in Steps[from] /\ b[to] = None)
    PROVE  PlayerCanMove(b, p)
<1>1. CASE PlayerCanJump(b, p)
    BY <1>1 DEF PlayerCanJump, PieceCanJump, PlayerCanMove, IsLegal
<1>2. CASE ~PlayerCanJump(b, p)
    BY <1>2 DEF PlayerCanMove, IsLegal, IsJump
<1> QED
    BY <1>1, <1>2

LEMMA JumpGoesOn ==
    ASSUME NEW b \in [Squares -> Piece], NEW p \in Player, NEW from \in Squares,
           NEW to \in Steps[from] \cup Jumps[from], "continueJump" \in FlagsOf(b, p, from, to)
    PROVE  to \in Jumps[from] /\ PlayerCanMove(BoardAfter(b, p, from, to), p)
<1>1. to \in Jumps[from] /\ PieceCanJump(BoardAfter(b, p, from, to), p, to)
    BY DEF FlagsOf
<1>2. to \in Squares
    BY StepsAreSquares
<1> QED
    BY <1>1, <1>2 DEF PieceCanJump, PlayerCanMove, IsLegal

\* Both players can move on the board of a new game: the pawn of the front row that
\* is the leftmost or next to it.
LEMMA BothCanStart == PlayerCanMove(NewBoard, PlayerBlack) /\ PlayerCanMove(NewBoard, PlayerWhite)
<1>1. PlayerCanMove(NewBoard, PlayerBlack)
    <2> DEFINE r == PawnRows - 1
               from == <<r, r % 2>>
               to == <<r + 1, (r % 2) + 1>>
    <2>1. r \in 0 .. Rows - 1 /\ r + 1 \in 0 .. Rows - 1 /\ r % 2 \in {0, 1} /\ (r + (r % 2)) % 2 = 0
        BY SquareFacts
    <2>2. r % 2 \in 0 .. Cols - 1 /\ (r % 2) + 1 \in 0 .. Cols - 1
        <3> HIDE DEF r
        <3>1. \A n \in {0, 1} : n \in 0 .. Cols - 1 /\ n + 1 \in 0 .. Cols - 1
            BY SquareFacts
        <3> QED
            BY <2>1, <3>1
    <2>3. /\ from \in Squares /\ from[1] = r /\ from[2] = r % 2
          /\ to \in Squares /\ to[1] = r + 1 /\ to[2] = (r % 2) + 1
        BY <2>1, <2>2, SquareFacts
    <2>4. NewBoard[from] \in PiecesOf(0)
        BY <2>1, <2>3, NewBoardFacts, SquareFacts DEF IsDark
    <2>5. NewBoard[to] = None
        <3>1. ~(to[1] < PawnRows) /\ ~(to[1] >= Rows - PawnRows)
            BY <2>3, SquareFacts
        <3> QED
            BY <2>3, <3>1, NewBoardFacts, PieceFacts DEF None
    <2> HIDE DEF from, to
    <2>6. to \in Steps[from] /\ IsForward(PlayerBlack, from, to)
        BY <2>1, <2>2, <2>3, StepFacts, SquareFacts DEF IsForward
    <2> QED
        BY <2>3, <2>4, <2>5, <2>6, MoveExists, PieceFacts
<1>2. PlayerCanMove(NewBoard, PlayerWhite)
    <2> DEFINE r == Rows - PawnRows
               from == <<r, r % 2>>
               to == <<r - 1, (r % 2) + 1>>
    <2>1. r \in 0 .. Rows - 1 /\ r - 1 \in 0 .. Rows - 1 /\ r % 2 \in {0, 1} /\ (r + (r % 2)) % 2 = 0
        BY SquareFacts
    <2>2. r % 2 \in 0 .. Cols - 1 /\ (r % 2) + 1 \in 0 .. Cols - 1
        <3> HIDE DEF r
        <3>1. \A n \in {0, 1} : n \in 0 .. Cols - 1 /\ n + 1 \in 0 .. Cols - 1
            BY SquareFacts
        <3> QED
            BY <2>1, <3>1
    <2>3. /\ from \in Squares /\ from[1] = r /\ from[2] = r % 2
          /\ to \in Squares /\ to[1] = r - 1 /\ to[2] = (r % 2) + 1
        BY <2>1, <2>2, SquareFacts
    <2>4. NewBoard[from] \in PiecesOf(1)
        BY <2>1, <2>3, NewBoardFacts, SquareFacts DEF IsDark
    <2>5. NewBoard[to] = None
        <3>1. ~(to[1] < PawnRows) /\ ~(to[1] >= Rows - PawnRows)
            BY <2>3, SquareFacts
        <3> QED
            BY <2>3, <3>1, NewBoardFacts, PieceFacts DEF None
    <2> HIDE DEF from, to
    <2>6. to \in Steps[from] /\ IsForward(PlayerWhite, from, to)
        BY <2>1, <2>2, <2>3, StepFacts, SquareFacts DEF IsForward, PlayerBlack, PlayerWhite
    <2> QED
        BY <2>3, <2>4, <2>5, <2>6, MoveExists, PieceFacts
<1> QED
    BY <1>1, <1>2

\* Black's first move is a step of a pawn from its front row, and moves nothing else.
LEMMA FirstMoveIs ==
    ASSUME NEW from \in Squares, NEW to \in Steps[from],
           IsLegal(NewBoard, PlayerBlack, from, to)
    PROVE  /\ to \in Squares /\ IsDark(from)
           /\ from[1] = PawnRows - 1 /\ to[1] = PawnRows
           /\ BoardAfter(NewBoard, PlayerBlack, from, to)
                = [NewBoard EXCEPT ![from] = "none", ![to] = "blackPawn"]
<1>1. to \in Squares
    BY StepsAreSquares
<1>2. /\ from[1] \in 0 .. Rows - 1 /\ from[2] \in 0 .. Cols - 1
      /\ to[1] \in 0 .. Rows - 1 /\ to[2] \in 0 .. Cols - 1
    BY <1>1, SquareFacts
<1>3. /\ to[1] = from[1] + 1 \/ to[1] = from[1] - 1
      /\ to[2] = from[2] + 1 \/ to[2] = from[2] - 1
    BY <1>1, StepFacts
<1>4. NewBoard[from] = "blackPawn" /\ IsDark(from) /\ from[1] < PawnRows
    BY NewBoardFacts, PieceFacts DEF IsLegal
<1>5. to[1] = from[1] + 1
    <2>1. from[1] < to[1]
        BY <1>4, PieceFacts DEF IsLegal, IsForward
    <2> QED
        BY <1>2, <1>3, <2>1
<1>6. to \notin Jumps[from]
    BY <1>1, <1>2, <1>3, StepFacts
<1>7. NewBoard[to] = "none"
    BY <1>6 DEF IsLegal, IsJump, None
<1>8. IsDark(to)
    BY <1>2, <1>3, <1>4 DEF IsDark
<1>9. ~(to[1] < PawnRows)
    BY <1>1, <1>7, <1>8, NewBoardFacts, PieceFacts
<1>10. from[1] = PawnRows - 1 /\ to[1] = PawnRows /\ to[1] # Rows - 1
    BY <1>2, <1>4, <1>5, <1>9, SquareFacts
<1> QED
    BY <1>1, <1>4, <1>6, <1>10 DEF BoardAfter, LastRow, None

LEMMA WhiteIsUntouched ==
    ASSUME NEW b, FirstMoved(b)
    PROVE  PiecesOn(b, PlayerWhite) = PiecesOn(NewBoard, PlayerWhite)
<1>0. PICK from \in Squares : \E to \in Steps[from] :
          /\ IsLegal(NewBoard, PlayerBlack, from, to)
          /\ b = BoardAfter(NewBoard, PlayerBlack, from, to)
    BY DEF FirstMoved
<1>1. PICK to \in Steps[from] :
          /\ IsLegal(NewBoard, PlayerBlack, from, to)
          /\ b = BoardAfter(NewBoard, PlayerBlack, from, to)
    BY <1>0
<1>2. /\ to \in Squares /\ from[1] = PawnRows - 1 /\ to[1] = PawnRows
      /\ b = [NewBoard EXCEPT ![from] = "none", ![to] = "blackPawn"]
    BY <1>1, FirstMoveIs
<1>3. \A sq \in Squares : sq # from /\ sq # to => b[sq] = NewBoard[sq]
    BY <1>2, NewBoardFacts
<1>4. b[from] \notin PiecesOf(1) /\ b[to] \notin PiecesOf(1)
    <2>1. b[from] \in {"none", "blackPawn"} /\ b[to] = "blackPawn"
        BY <1>2, NewBoardFacts
    <2> QED
        BY <2>1, PieceFacts
<1>5. NewBoard[from] \notin PiecesOf(1) /\ NewBoard[to] \notin PiecesOf(1)
    BY <1>2, NewBoardFacts, SquareFacts
<1> QED
    BY <1>3, <1>4, <1>5, PieceFacts DEF PiecesOn

\* What a move does to the board.
LEMMA MoveFacts ==
    ASSUME NEW b \in [Squares -> Piece], NEW p \in Player, NEW from \in Squares,
           NEW to \in Steps[from] \cup Jumps[from], IsLegal(b, p, from, to)
    PROVE  LET after == BoardAfter(b, p, from, to)
           IN /\ to \in Squares /\ to # from
              /\ b[from] \in PiecesOf(p) /\ b[to] = None
              /\ after[from] = None
              /\ after[to] = IF to[1] = LastRow(p) THEN KingOf(p) ELSE b[from]
              /\ \/ /\ to \in Steps[from] /\ to \notin Jumps[from] /\ ~PlayerCanJump(b, p)
                    /\ \A sq \in Squares : sq # from /\ sq # to => after[sq] = b[sq]
                 \/ /\ to \in Jumps[from]
                    /\ b[Middle(from, to)] \in PiecesOf(Opponent(p))
                    /\ after[Middle(from, to)] = None
                    /\ \A sq \in Squares : sq \notin {from, to, Middle(from, to)}
                                           => after[sq] = b[sq]
<1> DEFINE after == BoardAfter(b, p, from, to)
           piece == IF to[1] = LastRow(p) THEN KingOf(p) ELSE b[from]
           moved == [b EXCEPT ![from] = None, ![to] = piece]
<1>1. to \in Squares
    BY StepsAreSquares
<1>2. to # from /\ (to \in Steps[from] => to \notin Jumps[from])
    BY <1>1, StepFacts, SquareFacts
<1>3. b[from] \in PiecesOf(p) /\ b[to] = None
    BY DEF IsLegal, IsJump
<1>4. after = IF to \in Jumps[from] THEN [moved EXCEPT ![Middle(from, to)] = None] ELSE moved
    BY DEF BoardAfter
<1>5. CASE to \in Jumps[from]
    <2>1. /\ Middle(from, to) \in Squares /\ Middle(from, to) # from /\ Middle(from, to) # to
        BY <1>5, MiddleFacts
    <2>2. b[Middle(from, to)] \in PiecesOf(Opponent(p))
        BY <1>2, <1>5 DEF IsLegal, IsJump
    <2>3. after = [b EXCEPT ![from] = None, ![to] = piece, ![Middle(from, to)] = None]
        BY <1>4, <1>5
    <2> HIDE DEF piece, moved, after
    <2>4. /\ after[from] = None /\ after[to] = piece /\ after[Middle(from, to)] = None
          /\ \A sq \in Squares : sq \notin {from, to, Middle(from, to)} => after[sq] = b[sq]
        BY <1>1, <1>2, <2>1, <2>3
    <2> QED
        BY <1>1, <1>2, <1>3, <1>5, <2>2, <2>4 DEF piece, after
<1>6. CASE to \notin Jumps[from]
    <2>1. to \in Steps[from] /\ ~PlayerCanJump(b, p)
        BY <1>6 DEF IsLegal, IsJump
    <2>2. after = [b EXCEPT ![from] = None, ![to] = piece]
        BY <1>4, <1>6
    <2> HIDE DEF piece, moved, after
    <2>3. /\ after[from] = None /\ after[to] = piece
          /\ \A sq \in Squares : sq # from /\ sq # to => after[sq] = b[sq]
        BY <1>1, <1>2, <2>2
    <2> QED
        BY <1>1, <1>2, <1>3, <1>6, <2>1, <2>3 DEF piece, after
<1> QED
    BY <1>5, <1>6

\* No move leads to the board of a new game: a king is not on it, and the square that
\* a pawn comes from would be filled.
LEMMA MoveIsNoReset ==
    ASSUME NEW b \in [Squares -> Piece], NEW p \in Player, NEW from \in Squares,
           NEW to \in Steps[from] \cup Jumps[from], IsLegal(b, p, from, to)
    PROVE  BoardAfter(b, p, from, to) # NewBoard
<1> DEFINE after == BoardAfter(b, p, from, to)
<1>1. /\ to \in Squares /\ b[from] \in PiecesOf(p) /\ after[from] = None
      /\ after[to] = IF to[1] = LastRow(p) THEN KingOf(p) ELSE b[from]
    BY MoveFacts
<1> HIDE DEF after
<1> SUFFICES ASSUME after = NewBoard PROVE FALSE
    BY DEF after
<1>2. after[to] = PawnOf(p) /\ b[from] = PawnOf(p)
    BY <1>1, NewBoardFacts, PieceFacts
<1>3. IsForward(p, from, to)
    BY <1>2 DEF IsLegal
<1>4. /\ from[1] \in 0 .. Rows - 1 /\ from[2] \in 0 .. Cols - 1
      /\ to[1] \in 0 .. Rows - 1 /\ to[2] \in 0 .. Cols - 1
    BY <1>1, SquareFacts
<1>5. IsDark(to) => IsDark(from)
    BY <1>1, <1>4, StepFacts DEF IsDark
<1>6. CASE p = 0
    <2>1. IsDark(to) /\ to[1] < PawnRows
        BY <1>1, <1>2, <1>6, NewBoardFacts, PieceFacts
    <2>2. from[1] < PawnRows
        BY <1>3, <1>4, <1>6, <2>1, SquareFacts DEF IsForward, PlayerBlack
    <2>3. NewBoard[from] \in PiecesOf(0)
        BY <1>5, <2>1, <2>2, NewBoardFacts
    <2> QED
        BY <1>1, <2>3, PieceFacts DEF None
<1>7. CASE p = 1
    <2>1. IsDark(to) /\ to[1] >= Rows - PawnRows
        BY <1>1, <1>2, <1>7, NewBoardFacts, PieceFacts
    <2>2. from[1] >= Rows - PawnRows
        BY <1>3, <1>4, <1>7, <2>1, SquareFacts DEF IsForward, PlayerBlack
    <2>3. NewBoard[from] \in PiecesOf(1)
        BY <1>5, <2>1, <2>2, NewBoardFacts
    <2> QED
        BY <1>1, <2>3, PieceFacts DEF None
<1> QED
    BY <1>6, <1>7, PieceFacts

-----------------------------------------------------------------------------
(* What a goroutine still has to write *)

Field == {"board", "turn", "moveOver", "votes", "state", "score", "flags"}
Score == Player \cup {ScoreDraw, -1}

Work ==
    [op : {"idle", "voted", "moving", "close", "finish"}]
      \cup [op : {"reset"}, field : Field]
      \cup [op : {"stalemate", "mark", "flags"}, next : Player]
      \cup [op : {"turn", "endTurn"}, next : Player, flags : SUBSET Flag]
      \cup [op : {"moved", "open", "score", "end", "endNext"}, flags : SUBSET Flag]
      \cup [op : {"over"}, score : Score]
      \cup [op : {"result"}, score : Score \ {-1}]
      \cup [op : {"move"}, board : [Squares -> Piece], flags : SUBSET Flag]

TypeInv ==
    /\ board \in [Squares -> Piece]
    /\ playerToMove \in Player
    /\ moveOver \in BOOLEAN
    /\ newGameVotes \in [Player -> BOOLEAN]
    /\ state \in {"waiting", "playing", "over"}
    /\ finalScore \in Player \cup {ScoreDraw}
    /\ lastFlags \subseteq Flag
    /\ crossed \in BOOLEAN
    /\ at \in [Player -> Work]

LEMMA FieldFacts ==
    /\ DOMAIN AfterField = Field
    /\ AfterField["board"] = ResetField("turn") /\ AfterField["turn"] = ResetField("moveOver")
    /\ AfterField["moveOver"] = ResetField("votes") /\ AfterField["votes"] = ResetField("state")
    /\ AfterField["state"] = ResetField("score") /\ AfterField["score"] = ResetField("flags")
    /\ AfterField["flags"] = Idle
    /\ \A f \in Field : ResetField(f).op = "reset" /\ ResetField(f).field = f
    /\ \A f \in Field : ResetField(f) \in Work
    /\ Idle \in Work /\ Idle.op = "idle"
BY DEF AfterField, Field, ResetField, Idle, Work

\* What a goroutine has to write, by where it stands.
LEMMA WorkFacts ==
    ASSUME TypeInv, NEW s \in Player
    PROVE  /\ at[s].op = "reset" => \E f \in Field : at[s] = ResetField(f)
           /\ at[s].op \in {"stalemate", "mark", "flags", "turn", "endTurn"} => at[s].next \in Player
           /\ at[s].op \in {"turn", "endTurn", "moved", "open", "score", "end", "endNext", "move"}
                 => at[s].flags \in SUBSET Flag
           /\ at[s].op = "over" => at[s].score \in Score
           /\ at[s].op = "result" => at[s].score \in Score \ {-1}
           /\ at[s].op = "move" => at[s].board \in [Squares -> Piece]
<1>1. at[s] \in Work
    BY DEF TypeInv
<1>2. CASE at[s] \in [op : {"idle", "voted", "moving", "close", "finish"}]
    BY <1>2 DEF ResetField
<1>3. CASE at[s] \in [op : {"reset"}, field : Field]
    BY <1>3 DEF ResetField
<1>4. CASE at[s] \in [op : {"stalemate", "mark", "flags"}, next : Player]
    BY <1>4 DEF ResetField
<1>5. CASE at[s] \in [op : {"turn", "endTurn"}, next : Player, flags : SUBSET Flag]
    BY <1>5 DEF ResetField
<1>6. CASE at[s] \in [op : {"moved", "open", "score", "end", "endNext"}, flags : SUBSET Flag]
    BY <1>6 DEF ResetField
<1>7. CASE at[s] \in [op : {"over"}, score : Score] \cup [op : {"result"}, score : Score \ {-1}]
    BY <1>7 DEF ResetField
<1>8. CASE at[s] \in [op : {"move"}, board : [Squares -> Piece], flags : SUBSET Flag]
    BY <1>8 DEF ResetField
<1> QED
    BY <1>1, <1>2, <1>3, <1>4, <1>5, <1>6, <1>7, <1>8 DEF Work

LEMMA TypeInvTypes == TypeInv => TypeOK
<1> SUFFICES ASSUME TypeInv PROVE TypeOK
    OBVIOUS
<1>1. ASSUME NEW s \in Player
      PROVE  \/ at[s] \in [op : {"idle", "voted", "moving", "close", "finish"}]
             \/ at[s] \in [op : {"reset"}, field : DOMAIN AfterField]
             \/ at[s] \in [op : {"stalemate", "mark", "flags"}, next : Player]
             \/ at[s] \in [op : {"turn", "endTurn"}, next : Player, flags : SUBSET Flag]
             \/ at[s] \in [op : {"moved", "open", "score", "end", "endNext"}, flags : SUBSET Flag]
             \/ at[s] \in [op : {"over", "result"}, score : Player \cup {ScoreDraw, -1}]
             \/ /\ DOMAIN at[s] = {"op", "board", "flags"} /\ at[s].op = "move"
                /\ at[s].board \in [Squares -> Piece] /\ at[s].flags \subseteq Flag
    <2>1. at[s] \in Work
        BY DEF TypeInv
    <2>2. CASE at[s] \in [op : {"move"}, board : [Squares -> Piece], flags : SUBSET Flag]
        BY <2>2
    <2>3. CASE at[s] \in [op : {"reset"}, field : Field]
        BY <2>3, FieldFacts
    <2>4. CASE at[s] \in [op : {"over"}, score : Score] \cup [op : {"result"}, score : Score \ {-1}]
        BY <2>4 DEF Score
    <2> QED
        BY <2>1, <2>2, <2>3, <2>4 DEF Work
<1> QED
    BY <1>1 DEF TypeInv, TypeOK

LEMMA ScoreFacts ==
    ASSUME NEW flags, NEW mover \in Player
    PROVE  /\ ScoreOf(flags, mover) \in Score
           /\ "stalemate" \in flags => ScoreOf(flags, mover) # -1
BY PieceFacts DEF ScoreOf, ScoreDraw, Score

LEMMA OpponentFacts ==
    \A p \in Player : /\ Opponent(p) \in Player /\ Opponent(p) # p /\ Opponent(Opponent(p)) = p
                      /\ \A q \in Player : q = p \/ q = Opponent(p)
BY PieceFacts

\* What a step of s does to at.
LEMMA AtFacts ==
    ASSUME TypeInv, NEW s \in Player, NEW w, at' = [at EXCEPT ![s] = w]
    PROVE  at'[s] = w /\ at'[Opponent(s)] = at[Opponent(s)]
BY OpponentFacts DEF TypeInv

LEMMA AtTyped ==
    ASSUME TypeInv, NEW s \in Player, NEW w \in Work, at' = [at EXCEPT ![s] = w]
    PROVE  at' \in [Player -> Work]
BY DEF TypeInv

-----------------------------------------------------------------------------
(* Types *)

LEMMA TypeInit == Init => TypeInv
<1> SUFFICES ASSUME Init PROVE TypeInv
    OBVIOUS
<1>1. board \in [Squares -> Piece]
    BY NewBoardFacts DEF Init
<1>2. at \in [Player -> Work]
    BY FieldFacts DEF Init
<1> QED
    BY <1>1, <1>2, PieceFacts DEF Init, TypeInv

\* What each variable is after a step of s.
LEMMA Effects ==
    ASSUME NEW s \in Player, Message(s) \/ GoOn(s)
    PROVE  /\ board' = board \/ StoreBoard(s) \/ Reset(s)
           /\ playerToMove' = playerToMove \/ PassTurn(s) \/ PassEndTurn(s) \/ Reset(s)
           /\ moveOver' = moveOver \/ CloseMove(s) \/ OpenMove(s) \/ Reset(s)
           /\ newGameVotes' = newGameVotes \/ HandleNewGame(s) \/ Reset(s)
           /\ state' = state \/ EndState(s) \/ Reset(s)
           /\ finalScore' = finalScore \/ StoreScore(s) \/ Reset(s)
           /\ \/ lastFlags' = lastFlags \/ StoreMoveFlags(s) \/ MarkStalemate(s)
              \/ StoreEndFlags(s) \/ Reset(s)
           /\ \/ crossed' = crossed \/ HandleMovePiece(s) \/ HandleFinishMove(s) \/ Reset(s)
              \/ \E flags \in EndFlags : HandleEndGame(s, flags)
<1>1. CASE Message(s)
    BY <1>1 DEF Message, HandleNewGame, HandleMovePiece, HandleFinishMove, HandleEndGame
<1>2. CASE CountVotes(s) \/ EndState(s) \/ StoreScore(s) \/ Reset(s)
    BY <1>2 DEF CountVotes, EndState, StoreScore
<1>3. CASE Move(s)
    BY <1>3 DEF Move, Decide, Validate, RefuseMove, StoreBoard, StoreMoveFlags, CloseMove
<1>4. CASE Finish(s)
    BY <1>4 DEF Finish, ReadNext, CheckStalemate, MarkStalemate, ReadFlags, PassTurn, OpenMove,
       ScoreFinish
<1>5. CASE End(s)
    BY <1>5 DEF End, StoreEndFlags, ReadEndNext, PassEndTurn
<1> QED
    BY <1>1, <1>2, <1>3, <1>4, <1>5 DEF GoOn

LEMMA TypeStep ==
    ASSUME TypeInv, Next
    PROVE  TypeInv'
<1>0. PICK s \in Player : Message(s) \/ GoOn(s)
    BY DEF Next
<1>1. \E op : \E w \in Work : Goes(s, op, w)
    <2>1. CASE \/ HandleNewGame(s) \/ HandleMovePiece(s) \/ HandleFinishMove(s)
               \/ RefuseMove(s) \/ CloseMove(s) \/ StoreScore(s)
        <3>1. \E op : \E w \in [op : {"idle", "voted", "moving", "finish"}] : Goes(s, op, w)
            BY <2>1 DEF HandleNewGame, HandleMovePiece, HandleFinishMove, RefuseMove,
               CloseMove, StoreScore, BeginsTurn, Idle
        <3> QED
            BY <3>1 DEF Work
    <2>2. ASSUME NEW flags \in EndFlags, HandleEndGame(s, flags) PROVE \E op : \E w \in Work : Goes(s, op, w)
        <3>1. [op |-> "end", flags |-> flags] \in [op : {"end"}, flags : SUBSET Flag]
            BY EndFlagsAssumption
        <3> QED
            BY <2>2, <3>1 DEF HandleEndGame, Work
    <2>3. CASE CountVotes(s)
        BY <2>3, FieldFacts DEF CountVotes, Field
    <2>4. CASE Reset(s)
        <3>1. PICK f \in Field : at[s] = ResetField(f)
            BY <2>4, WorkFacts DEF Reset, Goes
        <3>2. at[s].field \in Field
            BY <3>1, FieldFacts
        <3>3. AfterField[at[s].field] \in Work
            BY <3>2, FieldFacts DEF Field
        <3> QED
            BY <2>4, <3>3 DEF Reset
    <2>5. ASSUME NEW from \in Squares, NEW to \in Steps[from] \cup Jumps[from], Validate(s, from, to)
          PROVE  \E op : \E w \in Work : Goes(s, op, w)
        <3>1. BoardAfter(board, playerToMove, from, to) \in [Squares -> Piece]
            BY <2>5, StepsAreSquares, AfterTyped DEF TypeInv, Validate
        <3>2. FlagsOf(board, playerToMove, from, to) \in SUBSET Flag
            BY FlagsTyped
        <3> QED
            BY <2>5, <3>1, <3>2 DEF Validate, Work
    <2>6. CASE StoreBoard(s)
        BY <2>6, WorkFacts DEF StoreBoard, Goes, Work
    <2>7. CASE StoreMoveFlags(s)
        BY <2>7, FieldFacts DEF StoreMoveFlags, Work
    <2>8. CASE ReadNext(s)
        BY <2>8, OpponentFacts DEF ReadNext, TypeInv, Work
    <2>9. CASE CheckStalemate(s) \/ MarkStalemate(s)
        <3>1. \E op : Goes(s, op, [op |-> "flags", next |-> at[s].next])
                      \/ Goes(s, op, [op |-> "mark", next |-> at[s].next])
            BY <2>9 DEF CheckStalemate, MarkStalemate
        <3>2. at[s].next \in Player
            BY <2>9, WorkFacts DEF CheckStalemate, MarkStalemate, Goes
        <3> QED
            BY <3>1, <3>2 DEF Work
    <2>10. CASE ReadFlags(s)
        BY <2>10, WorkFacts DEF ReadFlags, Goes, TypeInv, Work
    <2>11. CASE PassTurn(s)
        BY <2>11, WorkFacts DEF PassTurn, Goes, Work
    <2>12. CASE OpenMove(s)
        BY <2>12, WorkFacts DEF OpenMove, Goes, Work
    <2>13. CASE ScoreFinish(s)
        <3> DEFINE sc == ScoreOf(at[s].flags, Opponent(playerToMove))
        <3>1. sc \in Score
            BY OpponentFacts, ScoreFacts DEF TypeInv
        <3>2. Goes(s, "score", IF sc = -1 THEN Idle ELSE [op |-> "over", score |-> sc])
            BY <2>13 DEF ScoreFinish
        <3> HIDE DEF sc
        <3>3. [op |-> "over", score |-> sc] \in Work
            BY <3>1 DEF Work
        <3> QED
            BY <3>2, <3>3, FieldFacts
    <2>14. CASE StoreEndFlags(s)
        BY <2>14, WorkFacts DEF StoreEndFlags, Goes, Work
    <2>15. CASE ReadEndNext(s)
        <3>1. Opponent(playerToMove) \in Player /\ at[s].flags \in SUBSET Flag
            BY <2>15, WorkFacts, OpponentFacts DEF ReadEndNext, Goes, TypeInv
        <3> QED
            BY <2>15, <3>1 DEF ReadEndNext, Work
    <2>16. CASE PassEndTurn(s)
        BY <2>16, ScoreFacts DEF PassEndTurn, Work
    <2>17. CASE EndState(s)
        <3>1. [op |-> "result", score |-> at[s].score] \in Work \/ at[s].score = -1
            BY <2>17, WorkFacts DEF EndState, Goes, Work
        <3> QED
            BY <2>17, <3>1, FieldFacts DEF EndState
    <2> QED
        BY <1>0, <2>1, <2>2, <2>3, <2>4, <2>5, <2>6, <2>7, <2>8, <2>9, <2>10, <2>11, <2>12,
           <2>13, <2>14, <2>15, <2>16, <2>17
           DEF Message, GoOn, Decide, Move, Finish, End
<1>2. at' \in [Player -> Work]
    BY <1>1, AtTyped DEF Goes
<1>3. board' \in [Squares -> Piece] /\ playerToMove' \in Player
    <2>1. Reset(s) => board' \in {board, NewBoard} /\ playerToMove' \in {playerToMove, PlayerBlack}
        BY DEF Reset
    <2>2. StoreBoard(s) => board' \in [Squares -> Piece]
        BY WorkFacts DEF StoreBoard, Goes
    <2>3. PassTurn(s) \/ PassEndTurn(s) => playerToMove' \in Player
        BY WorkFacts DEF PassTurn, PassEndTurn, Goes
    <2> QED
        BY <1>0, <2>1, <2>2, <2>3, Effects, NewBoardFacts, PieceFacts DEF TypeInv
<1>4. finalScore' \in Player \cup {ScoreDraw} /\ lastFlags' \subseteq Flag
    <2>1. Reset(s) => finalScore' \in {finalScore, 0} /\ lastFlags' \in {lastFlags, {}}
        BY DEF Reset
    <2>2. StoreScore(s) => finalScore' \in Player \cup {ScoreDraw}
        BY WorkFacts DEF StoreScore, Goes, Score
    <2>3. StoreMoveFlags(s) \/ MarkStalemate(s) \/ StoreEndFlags(s) => lastFlags' \subseteq Flag
        BY WorkFacts DEF TypeInv, StoreMoveFlags, MarkStalemate, StoreEndFlags, Goes, Flag
    <2> QED
        BY <1>0, <2>1, <2>2, <2>3, Effects, PieceFacts DEF TypeInv
<1>5. moveOver' \in BOOLEAN /\ state' \in {"waiting", "playing", "over"} /\ crossed' \in BOOLEAN
    <2>1. Reset(s) => /\ moveOver' \in BOOLEAN /\ state' \in {state, "playing"}
                      /\ crossed' \in {crossed, Playing(Opponent(s))}
        BY DEF Reset
    <2>2. CloseMove(s) \/ OpenMove(s) => moveOver' \in BOOLEAN
        BY DEF CloseMove, OpenMove
    <2>3. EndState(s) => state' = "over"
        BY DEF EndState
    <2>4. HandleMovePiece(s) \/ HandleFinishMove(s) \/ (\E flags \in EndFlags : HandleEndGame(s, flags))
             => crossed' \in BOOLEAN
        BY DEF HandleMovePiece, HandleFinishMove, HandleEndGame, BeginsTurn
    <2>5. Playing(Opponent(s)) \in BOOLEAN
        BY DEF Playing
    <2> QED
        BY <1>0, <2>1, <2>2, <2>3, <2>4, <2>5, Effects DEF TypeInv
<1>6. newGameVotes' \in [Player -> BOOLEAN]
    <2>1. HandleNewGame(s) \/ Reset(s) => newGameVotes' \in [Player -> BOOLEAN]
        BY DEF HandleNewGame, Reset, TypeInv
    <2> QED
        BY <1>0, <2>1, Effects DEF TypeInv
<1> QED
    BY <1>2, <1>3, <1>4, <1>5, <1>6 DEF TypeInv

-----------------------------------------------------------------------------
(* Who is in the middle of what *)

\* In a game where nobody played too early, only one is playing while the game is set
\* up or a turn is taken.
ApartInv ==
    ~crossed => \A s \in Player :
        /\ SettingUp(s) => ~Playing(Opponent(s))
        /\ TakingTurn(s) => ~TakingTurn(Opponent(s))

Begins(s) == HandleMovePiece(s) \/ HandleFinishMove(s)
EndsGame(s) == \E flags \in EndFlags : HandleEndGame(s, flags)
SetsBoard(s) == Reset(s) /\ at[s].field = "board"

\* The only step of a goroutine that stands at one of these.
LEMMA OnlyStep ==
    ASSUME NEW s \in Player, Message(s) \/ GoOn(s)
    PROVE  /\ at[s].op = "reset" => Reset(s)
           /\ at[s].op = "moved" => StoreMoveFlags(s)
           /\ at[s].op = "close" => CloseMove(s)
           /\ at[s].op = "score" => ScoreFinish(s)
           /\ at[s].op = "over" => EndState(s)
           /\ at[s].op \in {"end", "endNext", "endTurn"} => End(s)
           /\ at[s].op \in {"moving", "move"} => Move(s)
<1> USE DEF Goes
<1>1. CASE Message(s)
    BY <1>1 DEF Message, HandleNewGame, HandleMovePiece, HandleFinishMove, HandleEndGame, BeginsTurn
<1>2. CASE CountVotes(s) \/ EndState(s) \/ StoreScore(s) \/ Reset(s)
    BY <1>2 DEF CountVotes, EndState, StoreScore, Reset
<1>3. CASE Move(s)
    BY <1>3 DEF Move, Decide, Validate, RefuseMove, StoreBoard, StoreMoveFlags, CloseMove
<1>4. CASE Finish(s)
    BY <1>4 DEF Finish, ReadNext, CheckStalemate, MarkStalemate, ReadFlags, PassTurn, OpenMove,
       ScoreFinish
<1>5. CASE End(s)
    BY <1>5 DEF End, StoreEndFlags, ReadEndNext, PassEndTurn
<1> QED
    BY <1>1, <1>2, <1>3, <1>4, <1>5 DEF GoOn

\* Where a step takes the goroutine that makes it, and not the other.
LEMMA StepFrom ==
    ASSUME TypeInv, NEW s \in Player, Message(s) \/ GoOn(s)
    PROVE  /\ at'[Opponent(s)] = at[Opponent(s)]
           /\ SettingUp(s)' => SettingUp(s) \/ SetsBoard(s)
           /\ Playing(s)' => Playing(s) \/ Begins(s) \/ EndsGame(s)
           /\ TakingTurn(s)' => TakingTurn(s) \/ Begins(s)
           /\ Reset(s) => at[s].op = "reset" /\ ~Playing(s)' /\ ~TakingTurn(s)'
           /\ Begins(s) \/ EndsGame(s) => ~SettingUp(s)'
<1> DEFINE o == Opponent(s)
<1>1. CASE Message(s)
    BY <1>1, AtFacts DEF Message, HandleNewGame, HandleMovePiece, HandleFinishMove, HandleEndGame,
       BeginsTurn, Goes, SettingUp, Playing, TakingTurn, Begins, EndsGame, Reset
<1>2. CASE CountVotes(s)
    BY <1>2, AtFacts DEF CountVotes, HandleMovePiece, HandleFinishMove, HandleEndGame,
       BeginsTurn, Goes, SettingUp, Playing, TakingTurn, Begins, EndsGame, Reset, ResetField, Idle
<1>3. CASE EndState(s) \/ StoreScore(s)
    BY <1>3, AtFacts DEF EndState, StoreScore, HandleMovePiece, HandleFinishMove, HandleEndGame,
       BeginsTurn, Goes, SettingUp, Playing, TakingTurn, Begins, EndsGame, Reset, Idle
<1>4. CASE Reset(s)
    <2>1. PICK f \in Field : at[s] = ResetField(f)
        BY <1>4, WorkFacts DEF Reset, Goes
    <2>2. at[s].field = f /\ at'[s] = AfterField[f]
        BY <1>4, <2>1, AtFacts, FieldFacts DEF Reset, Goes
    <2>3. at'[s] = Idle \/ \E g \in Field \ {"board"} : at'[s] = ResetField(g)
        BY <2>2, FieldFacts DEF Field
    <2>4. at'[s].op = "idle" \/ (at'[s].op = "reset" /\ (at[s].field = "board" \/ SettingUp(s)))
        BY <2>1, <2>2, <2>3, FieldFacts DEF SettingUp
    <2> QED
        BY <1>4, <2>1, <2>2, <2>4, AtFacts, FieldFacts DEF Reset, HandleMovePiece, HandleFinishMove,
           HandleEndGame, BeginsTurn, Goes, SettingUp, Playing, TakingTurn, Begins, EndsGame, SetsBoard
<1>5. CASE Move(s)
    BY <1>5, AtFacts DEF Move, Decide, Validate, RefuseMove, StoreBoard, StoreMoveFlags, CloseMove,
       HandleMovePiece, HandleFinishMove, HandleEndGame, BeginsTurn, Goes, SettingUp, Playing,
       TakingTurn, Begins, EndsGame, Reset, Idle
<1>6. CASE Finish(s)
    BY <1>6, AtFacts DEF Finish, ReadNext, CheckStalemate, MarkStalemate, ReadFlags, PassTurn,
       OpenMove, ScoreFinish, HandleMovePiece, HandleFinishMove, HandleEndGame, BeginsTurn, Goes,
       SettingUp, Playing, TakingTurn, Begins, EndsGame, Reset, Idle
<1>7. CASE End(s)
    BY <1>7, AtFacts DEF End, StoreEndFlags, ReadEndNext, PassEndTurn, HandleMovePiece,
       HandleFinishMove, HandleEndGame, BeginsTurn, Goes, SettingUp, Playing, TakingTurn, Begins,
       EndsGame, Reset
<1> QED
    BY <1>1, <1>2, <1>3, <1>4, <1>5, <1>6, <1>7 DEF GoOn

\* The only step that leads to one of these.
LEMMA OnlyWay ==
    ASSUME TypeInv, NEW s \in Player, Message(s) \/ GoOn(s)
    PROVE  /\ at'[s].op = "moving" => HandleMovePiece(s)
           /\ at'[s].op = "move" => Decide(s)
           /\ at'[s].op = "moved" => StoreBoard(s)
           /\ at'[s] = ResetField("board") => CountVotes(s)
<1> USE DEF Goes
<1>1. CASE Message(s)
    <2>1. /\ at'[s].op \in {"voted", "moving", "finish", "end"}
          /\ at'[s].op = "moving" => HandleMovePiece(s)
        BY <1>1, AtFacts DEF Message, HandleNewGame, HandleMovePiece, HandleFinishMove, HandleEndGame,
           BeginsTurn
    <2> QED
        BY <2>1 DEF ResetField
<1>2. CASE CountVotes(s)
    <2>1. at'[s] \in {ResetField("board"), Idle}
        BY <1>2, AtFacts DEF CountVotes
    <2> QED
        BY <1>2, <2>1 DEF ResetField, Idle
<1>3. CASE Reset(s)
    <2>1. ~TakingTurn(s)' /\ at[s].field \in Field /\ at'[s] = AfterField[at[s].field]
        <3>1. \E f \in Field : at[s] = ResetField(f)
            BY <1>3, WorkFacts DEF Reset
        <3>2. at[s].field \in Field
            BY <3>1, FieldFacts
        <3>3. at'[s] = AfterField[at[s].field]
            BY <1>3, AtFacts DEF Reset
        <3> QED
            BY <1>3, <3>2, <3>3, StepFrom
    <2>2. at'[s] # ResetField("board")
        BY <2>1, FieldFacts DEF Field
    <2> QED
        BY <2>1, <2>2 DEF TakingTurn
<1>4. CASE EndState(s) \/ StoreScore(s)
    <2>1. at'[s].op \in {"idle", "result"}
        BY <1>4, AtFacts DEF EndState, StoreScore, Idle
    <2> QED
        BY <2>1 DEF ResetField
<1>5. CASE Move(s)
    <2>1. /\ StoreBoard(s) => at'[s].op = "moved"
          /\ Decide(s) => at'[s].op = "move"
          /\ RefuseMove(s) \/ CloseMove(s) => at'[s].op = "idle"
          /\ StoreMoveFlags(s) => at'[s].op \in {"idle", "close"}
        BY AtFacts DEF StoreBoard, Decide, Validate, RefuseMove, CloseMove, StoreMoveFlags, Idle
    <2> QED
        BY <1>5, <2>1 DEF Move, ResetField
<1>6. CASE Finish(s)
    <2>1. at'[s].op \in {"stalemate", "flags", "mark", "turn", "open", "score", "idle", "over"}
        BY <1>6, AtFacts DEF Finish, ReadNext, CheckStalemate, MarkStalemate, ReadFlags, PassTurn,
           OpenMove, ScoreFinish, Idle
    <2> QED
        BY <2>1 DEF ResetField
<1>7. CASE End(s)
    <2>1. at'[s].op \in {"endNext", "endTurn", "over"}
        BY <1>7, AtFacts DEF End, StoreEndFlags, ReadEndNext, PassEndTurn
    <2> QED
        BY <2>1 DEF ResetField
<1> QED
    BY <1>1, <1>2, <1>3, <1>4, <1>5, <1>6, <1>7 DEF GoOn

\* Whether a game is played in turn is decided anew with its board.
LEMMA CrossedStep ==
    ASSUME TypeInv, NEW s \in Player, Message(s) \/ GoOn(s), ~crossed'
    PROVE  /\ SetsBoard(s) => ~Playing(Opponent(s))
           /\ ~SetsBoard(s) => ~crossed
           /\ Begins(s) => ~SettingUp(Opponent(s)) /\ ~TakingTurn(Opponent(s))
           /\ EndsGame(s) => ~SettingUp(Opponent(s))
<1>1. SetsBoard(s) => ~Playing(Opponent(s))
    BY DEF SetsBoard, Reset
<1>2. Begins(s) => ~crossed /\ ~SettingUp(Opponent(s)) /\ ~TakingTurn(Opponent(s))
    BY DEF Begins, HandleMovePiece, HandleFinishMove, BeginsTurn
<1>3. EndsGame(s) => ~crossed /\ ~SettingUp(Opponent(s))
    BY DEF EndsGame, HandleEndGame
<1>4. Reset(s) /\ ~SetsBoard(s) => ~crossed
    BY DEF SetsBoard, Reset
<1> QED
    BY <1>1, <1>2, <1>3, <1>4, Effects DEF Begins, EndsGame

LEMMA ApartStep ==
    ASSUME TypeInv, ApartInv, Next
    PROVE  ApartInv'
<1>0. PICK s \in Player : Message(s) \/ GoOn(s)
    BY DEF Next
<1> DEFINE o == Opponent(s)
<1> SUFFICES ASSUME ~crossed'
             PROVE  /\ SettingUp(s)' => ~Playing(o)'
                    /\ SettingUp(o)' => ~Playing(s)'
                    /\ TakingTurn(s)' => ~TakingTurn(o)'
    BY <1>0, OpponentFacts DEF ApartInv
<1>1. /\ Playing(o)' <=> Playing(o)
      /\ SettingUp(o)' <=> SettingUp(o)
      /\ TakingTurn(o)' <=> TakingTurn(o)
    BY <1>0, StepFrom DEF Playing, SettingUp, TakingTurn
<1>2. TakingTurn(o) => Playing(o)
    BY DEF Playing, TakingTurn
<1>3. CASE SetsBoard(s)
    BY <1>0, <1>1, <1>2, <1>3, StepFrom, CrossedStep DEF SetsBoard
<1>4. CASE ~SetsBoard(s)
    <2>1. /\ SettingUp(s) => ~Playing(o)
          /\ SettingUp(o) => ~Playing(s)
          /\ TakingTurn(s) => ~TakingTurn(o)
        BY <1>0, <1>4, CrossedStep, OpponentFacts DEF ApartInv
    <2> QED
        BY <1>0, <1>1, <1>4, <2>1, StepFrom, CrossedStep
<1> QED
    BY <1>3, <1>4

-----------------------------------------------------------------------------
(* The set-up of a game *)

BothVoted == newGameVotes = [p \in Player |-> TRUE]

\* While a game is set up its board is the first one, and its turn is Black's, to
\* move, unless somebody has yet to write that.
SetUpInv ==
    ~crossed /\ (\E s \in Player : SettingUp(s)) =>
        /\ board = NewBoard
        /\ playerToMove = PlayerBlack \/ \E s \in Player : at[s] = ResetField("turn")
        /\ ~moveOver \/ \E s \in Player : at[s] \in {ResetField("turn"), ResetField("moveOver")}

\* Who is to set up a game has seen both votes, or the other has used its own.
VoteInv == \A s \in Player : at[s] = ResetField("board") => BothVoted \/ ~newGameVotes[s]

\* A step of Reset, by the field that it writes.
LEMMA ResetFacts ==
    ASSUME TypeInv, NEW s \in Player, Reset(s)
    PROVE  /\ at[s].field \in Field /\ at[s] = ResetField(at[s].field)
           /\ at'[s] = AfterField[at[s].field] /\ at'[Opponent(s)] = at[Opponent(s)]
           /\ SettingUp(s) <=> at[s].field # "board"
           /\ board' = IF at[s].field = "board" THEN NewBoard ELSE board
           /\ playerToMove' = IF at[s].field = "turn" THEN PlayerBlack ELSE playerToMove
           /\ at[s].field = "moveOver" => ~moveOver'
           /\ at[s].field # "moveOver" => moveOver' = moveOver
           /\ newGameVotes' = IF at[s].field = "votes" THEN [p \in Player |-> FALSE] ELSE newGameVotes
           /\ state' = IF at[s].field = "state" THEN "playing" ELSE state
<1>1. PICK f \in Field : at[s] = ResetField(f)
    BY WorkFacts DEF Reset, Goes
<1>2. at[s].field = f /\ at[s].op = "reset"
    BY <1>1, FieldFacts
<1>3. at'[s] = AfterField[at[s].field] /\ at'[Opponent(s)] = at[Opponent(s)]
    BY AtFacts DEF Reset, Goes
<1>4. moveOver \in BOOLEAN
    BY DEF TypeInv
<1> QED
    BY <1>1, <1>2, <1>3, <1>4 DEF Reset, SettingUp

\* A step that changes the turn or the board and is not of Reset is one of the play.
LEMMA PlayFacts ==
    ASSUME TypeInv, NEW s \in Player
    PROVE  /\ StoreBoard(s) => at[s].op = "move"
           /\ PassTurn(s) => at[s].op = "turn"
           /\ PassEndTurn(s) => at[s].op = "endTurn"
           /\ CloseMove(s) => at[s].op = "close"
           /\ OpenMove(s) => at[s].op = "open"
           /\ EndState(s) => at[s].op = "over"
           /\ StoreBoard(s) \/ PassTurn(s) \/ PassEndTurn(s) \/ CloseMove(s) \/ OpenMove(s)
                \/ EndState(s) => Playing(s) /\ ~SetsBoard(s) /\ ~Reset(s)
BY DEF StoreBoard, PassTurn, PassEndTurn, CloseMove, OpenMove, EndState, Goes, Playing, SetsBoard, Reset

LEMMA SetUpStep ==
    ASSUME TypeInv, ApartInv, SetUpInv, Next
    PROVE  SetUpInv'
<1>0. PICK s \in Player : Message(s) \/ GoOn(s)
    BY DEF Next
<1> DEFINE o == Opponent(s)
<1> SUFFICES ASSUME ~crossed', \E t \in Player : SettingUp(t)'
             PROVE  /\ board' = NewBoard
                    /\ playerToMove' = PlayerBlack \/ \E t \in Player : at'[t] = ResetField("turn")
                    /\ ~moveOver' \/ \E t \in Player : at'[t] \in {ResetField("turn"), ResetField("moveOver")}
    BY DEF SetUpInv
<1>1. at'[o] = at[o] /\ (SettingUp(o)' <=> SettingUp(o))
    BY <1>0, StepFrom DEF SettingUp
<1>2. CASE Reset(s)
    <2>1. CASE at[s].field = "board"
        BY <1>2, <2>1, ResetFacts, FieldFacts
    <2>2. CASE at[s].field # "board"
        <3>1. ~crossed /\ SettingUp(s)
            BY <1>0, <1>2, <2>2, CrossedStep, ResetFacts DEF SetsBoard
        <3>2. /\ board = NewBoard
              /\ playerToMove = PlayerBlack \/ \E t \in Player : at[t] = ResetField("turn")
              /\ ~moveOver \/ \E t \in Player : at[t] \in {ResetField("turn"), ResetField("moveOver")}
            BY <3>1 DEF SetUpInv
        <3>3. board' = NewBoard
            BY <1>2, <2>2, <3>2, ResetFacts
        <3>4. playerToMove' = PlayerBlack \/ at'[o] = ResetField("turn")
            <4>1. CASE at[s].field = "turn"
                BY <1>2, <4>1, ResetFacts
            <4>2. CASE at[s].field # "turn"
                <5>1. at[s] # ResetField("turn")
                    BY <4>2, FieldFacts DEF Field
                <5> QED
                    BY <1>1, <1>2, <3>2, <4>2, <5>1, ResetFacts, OpponentFacts
            <4> QED
                BY <4>1, <4>2
        <3>5. ~moveOver' \/ at'[o] \in {ResetField("turn"), ResetField("moveOver")}
                         \/ at'[s] = ResetField("moveOver")
            <4>1. CASE at[s].field = "turn"
                BY <1>2, <4>1, ResetFacts, FieldFacts
            <4>2. CASE at[s].field = "moveOver"
                BY <1>2, <4>2, ResetFacts
            <4>3. CASE at[s].field \notin {"turn", "moveOver"}
                <5>1. at[s] \notin {ResetField("turn"), ResetField("moveOver")}
                    BY <4>3, FieldFacts DEF Field
                <5> QED
                    BY <1>1, <1>2, <3>2, <4>3, <5>1, ResetFacts, OpponentFacts
            <4> QED
                BY <4>1, <4>2, <4>3
        <3> QED
            BY <1>0, <3>3, <3>4, <3>5, OpponentFacts
    <2> QED
        BY <2>1, <2>2
<1>3. CASE ~Reset(s)
    <2>1. ~crossed /\ ~SetsBoard(s)
        BY <1>0, <1>3, CrossedStep DEF SetsBoard
    <2>2. ~SettingUp(s)
        BY <1>0, <1>3, OnlyStep DEF SettingUp
    <2>3. SettingUp(o)
        BY <1>0, <1>1, <2>1, <2>2, StepFrom, OpponentFacts
    <2>4. ~Playing(s)
        BY <1>0, <2>1, <2>3, OpponentFacts DEF ApartInv
    <2>5. board' = board /\ playerToMove' = playerToMove /\ moveOver' = moveOver
        BY <1>0, <1>3, <2>4, Effects, PlayFacts
    <2>6. /\ board = NewBoard
          /\ playerToMove = PlayerBlack \/ \E t \in Player : at[t] = ResetField("turn")
          /\ ~moveOver \/ \E t \in Player : at[t] \in {ResetField("turn"), ResetField("moveOver")}
        BY <1>0, <2>1, <2>3, OpponentFacts DEF SetUpInv
    <2>7. at[s] \notin {ResetField("turn"), ResetField("moveOver")}
        BY <2>2, FieldFacts DEF SettingUp, Field
    <2>8. /\ (\E t \in Player : at[t] = ResetField("turn")) => at'[o] = ResetField("turn")
          /\ (\E t \in Player : at[t] \in {ResetField("turn"), ResetField("moveOver")})
                => at'[o] \in {ResetField("turn"), ResetField("moveOver")}
        BY <1>0, <1>1, <2>7, OpponentFacts
    <2> QED
        BY <1>0, <2>5, <2>6, <2>8, OpponentFacts
<1> QED
    BY <1>2, <1>3

LEMMA VoteStep ==
    ASSUME TypeInv, VoteInv, Next
    PROVE  VoteInv'
<1>0. PICK s \in Player : Message(s) \/ GoOn(s)
    BY DEF Next
<1> DEFINE o == Opponent(s)
<1>1. at'[o] = at[o]
    BY <1>0, StepFrom
<1>2. CASE Reset(s)
    <2>1. at'[s] # ResetField("board")
        BY <1>2, ResetFacts, FieldFacts DEF Field
    <2>2. newGameVotes' = newGameVotes \/ newGameVotes' = [p \in Player |-> FALSE]
        BY <1>2, ResetFacts
    <2> QED
        BY <1>0, <1>1, <2>1, <2>2, OpponentFacts DEF VoteInv, BothVoted
<1>3. CASE HandleNewGame(s)
    <2>1. at'[s] # ResetField("board")
        BY <1>3, AtFacts DEF HandleNewGame, Goes, ResetField
    <2>2. newGameVotes' = [newGameVotes EXCEPT ![s] = TRUE]
        BY <1>3 DEF HandleNewGame
    <2>3. (BothVoted => BothVoted') /\ newGameVotes'[o] = newGameVotes[o]
        BY <1>0, <2>2, OpponentFacts DEF BothVoted, TypeInv
    <2> QED
        BY <1>0, <1>1, <2>1, <2>3, OpponentFacts DEF VoteInv
<1>4. CASE CountVotes(s)
    <2>1. newGameVotes' = newGameVotes /\ (BothVoted' <=> BothVoted)
        BY <1>4 DEF CountVotes, BothVoted
    <2>2. at'[s] = ResetField("board") => BothVoted
        BY <1>4, AtFacts DEF CountVotes, Goes, BothVoted, ResetField, Idle
    <2> QED
        BY <1>0, <1>1, <2>1, <2>2, OpponentFacts DEF VoteInv
<1>5. CASE ~Reset(s) /\ ~HandleNewGame(s) /\ ~CountVotes(s)
    <2>1. newGameVotes' = newGameVotes
        BY <1>0, <1>5, Effects
    <2>2. at'[s] # ResetField("board")
        BY <1>0, <1>5, OnlyWay
    <2> QED
        BY <1>0, <1>1, <2>1, <2>2, OpponentFacts DEF VoteInv, BothVoted
<1> QED
    BY <1>2, <1>3, <1>4, <1>5

-----------------------------------------------------------------------------
(* The turn *)

\* Nobody is ending the game that is played.
Live ==
    /\ state = "playing"
    /\ \A s \in Player : at[s].op \notin {"end", "endNext", "endTurn", "over"}

\* A move to store is a legal one on the board as it is; of its sender, unless the
\* game is being ended.
MoveInv ==
    ~crossed => \A s \in Player : at[s].op = "move" =>
        \E p \in Player : \E from \in Squares : \E to \in Steps[from] \cup Jumps[from] :
            /\ IsLegal(board, p, from, to)
            /\ at[s].board = BoardAfter(board, p, from, to)
            /\ at[s].flags = FlagsOf(board, p, from, to)
            /\ Live => p = s

\* The opponent of s can move, or the flags say that it has lost.
Answered(s, flags) == "stalemate" \in flags \/ PlayerCanMove(board, Opponent(s))

\* What holds while s takes its turn, from step to step.
TurnOf(s) ==
    /\ at[s].op \in {"moving", "move", "moved", "close", "finish", "stalemate", "mark", "flags", "turn"}
          => playerToMove = s
    /\ at[s].op \in {"open", "score"} => playerToMove = Opponent(s)
    /\ at[s].op \in {"stalemate", "mark", "flags", "turn"} => at[s].next = Opponent(s)
    /\ at[s].op \in {"finish", "stalemate", "mark", "flags", "turn", "open"} => moveOver
    /\ at[s].op = "moved" /\ "continueJump" \in at[s].flags => PlayerCanMove(board, s)
    /\ at[s].op = "flags" => Answered(s, lastFlags)
    /\ at[s].op \in {"turn", "open", "score"} => Answered(s, at[s].flags)

TurnInv == ~crossed /\ Live => \A s \in Player : TurnOf(s)

\* Between the steps that move or pass the turn, who is to move can.
StuckInv ==
    ~crossed /\ Live /\ ~moveOver
      /\ (\A s \in Player : ~SettingUp(s) /\ at[s].op \notin {"moved", "close", "score"})
          => PlayerCanMove(board, playerToMove)

\* Only the set-up of a game lets one go on that was ending.
LEMMA LiveStep ==
    ASSUME TypeInv, NEW s \in Player, Message(s) \/ GoOn(s), Live'
    PROVE  Live \/ (Reset(s) /\ at[s].field = "state")
<1>1. state = "playing" \/ (Reset(s) /\ at[s].field = "state")
    BY Effects, ResetFacts DEF Live, EndState
<1>2. at[Opponent(s)].op \notin {"end", "endNext", "endTurn", "over"}
    BY StepFrom, OpponentFacts DEF Live
<1>3. at[s].op \notin {"end", "endNext", "endTurn"}
    <2>1. End(s) => at'[s].op \in {"endNext", "endTurn", "over"}
        BY AtFacts DEF End, StoreEndFlags, ReadEndNext, PassEndTurn, Goes
    <2> QED
        BY <2>1, OnlyStep DEF Live
<1>4. at[s].op = "over" => EndState(s)
    BY OnlyStep
<1>5. ~EndState(s)
    BY DEF EndState, Live
<1> QED
    BY <1>1, <1>2, <1>3, <1>4, <1>5, OpponentFacts DEF Live

\* A step of the play in a game where nobody played too early: the other seat is not
\* setting up the game, and has no turn if s has; if the game goes on it went on.
LEMMA InTurn ==
    ASSUME TypeInv, ApartInv, NEW s \in Player, Message(s) \/ GoOn(s), ~crossed', ~SetsBoard(s)
    PROVE  /\ ~crossed
           /\ TakingTurn(s) \/ TakingTurn(s)' => ~TakingTurn(Opponent(s)) /\ ~SettingUp(Opponent(s))
           /\ TakingTurn(Opponent(s)) => ~TakingTurn(s) /\ ~SettingUp(s)
           /\ Live' => Live \/ (~Playing(s) /\ ~Playing(Opponent(s)) /\ ~TakingTurn(s)')
<1>1. ~crossed
    BY CrossedStep
<1>2. /\ TakingTurn(s) => ~TakingTurn(Opponent(s)) /\ ~SettingUp(Opponent(s))
      /\ TakingTurn(Opponent(s)) => ~TakingTurn(s) /\ ~SettingUp(s)
    BY <1>1, OpponentFacts DEF ApartInv, Playing, TakingTurn
<1>3. TakingTurn(s)' => TakingTurn(s) \/ (~TakingTurn(Opponent(s)) /\ ~SettingUp(Opponent(s)))
    BY StepFrom, CrossedStep
<1>4. Reset(s) => SettingUp(s) /\ ~Playing(Opponent(s)) /\ ~Playing(s) /\ ~TakingTurn(s)'
    BY <1>1, ResetFacts, StepFrom, OpponentFacts DEF SetsBoard, SettingUp, Playing, ApartInv
<1> QED
    BY <1>1, <1>2, <1>3, <1>4, LiveStep

\* Who does not take its turn leaves the board and the turn to the other, as long as
\* the game goes on.
LEMMA OtherStep ==
    ASSUME TypeInv, ApartInv, NEW s \in Player, Message(s) \/ GoOn(s), ~crossed', ~SetsBoard(s),
           TakingTurn(Opponent(s))
    PROVE  /\ board' = board
           /\ Live' => Live /\ playerToMove' = playerToMove /\ moveOver' = moveOver /\ lastFlags' = lastFlags
<1>1. ~TakingTurn(s) /\ ~SettingUp(s) /\ Playing(Opponent(s)) /\ (Live' => Live)
    BY InTurn DEF Playing, TakingTurn
<1>2. ~Reset(s)
    BY <1>1, ResetFacts DEF SetsBoard
<1>3. ~StoreBoard(s) /\ ~PassTurn(s) /\ ~CloseMove(s) /\ ~OpenMove(s) /\ ~StoreMoveFlags(s) /\ ~MarkStalemate(s)
    BY <1>1 DEF StoreBoard, PassTurn, CloseMove, OpenMove, StoreMoveFlags, MarkStalemate, Goes, TakingTurn
<1>4. Live => ~PassEndTurn(s) /\ ~StoreEndFlags(s)
    BY DEF Live, PassEndTurn, StoreEndFlags, Goes
<1> QED
    BY <1>1, <1>2, <1>3, <1>4, Effects

LEMMA MoveStep ==
    ASSUME TypeInv, ApartInv, TurnInv, MoveInv, Next
    PROVE  MoveInv'
<1>0. PICK s \in Player : Message(s) \/ GoOn(s)
    BY DEF Next
<1> DEFINE o == Opponent(s)
           Legal(t) == \E p \in Player : \E from \in Squares : \E to \in Steps[from] \cup Jumps[from] :
                          /\ IsLegal(board, p, from, to)
                          /\ at[t].board = BoardAfter(board, p, from, to)
                          /\ at[t].flags = FlagsOf(board, p, from, to)
                          /\ Live => p = t
<1> SUFFICES ASSUME ~crossed'
             PROVE  /\ at'[s].op = "move" => Legal(s)'
                    /\ at'[o].op = "move" => Legal(o)'
    BY <1>0, OpponentFacts DEF MoveInv
<1>1. CASE SetsBoard(s)
    <2>1. at'[s].op # "move" /\ at'[o].op # "move"
        BY <1>0, <1>1, StepFrom, CrossedStep DEF SetsBoard, Playing
    <2> QED
        BY <2>1
<1>2. CASE ~SetsBoard(s)
    <2>1. ~crossed
        BY <1>0, <1>2, InTurn
    <2>2. ASSUME at'[s].op = "move" PROVE Legal(s)'
        <3>1. PICK from \in Squares : \E to \in Steps[from] \cup Jumps[from] : Validate(s, from, to)
            BY <1>0, <2>2, OnlyWay DEF Decide
        <3>2. PICK to \in Steps[from] \cup Jumps[from] : Validate(s, from, to)
            BY <3>1
        <3>3. /\ IsLegal(board, playerToMove, from, to) /\ board' = board
              /\ at'[s].board = BoardAfter(board, playerToMove, from, to)
              /\ at'[s].flags = FlagsOf(board, playerToMove, from, to)
              /\ at[s].op = "moving"
            <4>1. at'[s] = [op |-> "move", board |-> BoardAfter(board, playerToMove, from, to),
                            flags |-> FlagsOf(board, playerToMove, from, to)]
                BY <3>2, AtFacts DEF Validate, Goes
            <4> QED
                BY <3>2, <4>1 DEF Validate, Goes
        <3>4. Live' => playerToMove = s
            <4>1. Live' => Live
                BY <1>0, <1>2, <3>3, InTurn DEF Playing
            <4> QED
                BY <2>1, <3>3, <4>1 DEF TurnInv, TurnOf
        <3>5. playerToMove \in Player
            BY DEF TypeInv
        <3> QED
            BY <3>3, <3>4, <3>5
    <2>3. ASSUME at'[o].op = "move" PROVE Legal(o)'
        <3>1. at'[o] = at[o] /\ TakingTurn(o)
            BY <1>0, <2>3, StepFrom DEF TakingTurn
        <3>2. board' = board /\ (Live' => Live)
            BY <1>0, <1>2, <3>1, OtherStep
        <3>3. Legal(o)
            BY <1>0, <2>1, <2>3, <3>1, OpponentFacts DEF MoveInv
        <3> QED
            BY <3>1, <3>2, <3>3
    <2> QED
        BY <2>2, <2>3
<1> QED
    BY <1>1, <1>2

\* The turn of the seat that takes the step, in a game that goes on.
LEMMA OwnTurnStep ==
    ASSUME TypeInv, MoveInv, ~crossed, Live, NEW s \in Player, Message(s) \/ GoOn(s), TurnOf(s)
    PROVE  TurnOf(s)'
<1> DEFINE o == Opponent(s)
<1> USE DEF Goes
<1>1. CASE HandleNewGame(s) \/ CountVotes(s) \/ RefuseMove(s) \/ CloseMove(s) \/ StoreScore(s)
           \/ EndState(s) \/ ScoreFinish(s)
    <2>1. at'[s].op \in {"idle", "voted", "reset", "result", "over"}
        BY <1>1, AtFacts DEF HandleNewGame, CountVotes, RefuseMove, CloseMove, StoreScore, EndState,
           ScoreFinish, Idle, ResetField
    <2> QED
        BY <2>1 DEF TurnOf
<1>2. CASE Reset(s) \/ End(s) \/ EndsGame(s)
    <2>1. CASE Reset(s)
        <3>1. ~TakingTurn(s)'
            BY <2>1, StepFrom
        <3> QED
            BY <3>1 DEF TurnOf, TakingTurn
    <2>2. CASE End(s) \/ EndsGame(s)
        <3>1. at'[s].op \in {"end", "endNext", "endTurn", "over"}
            BY <2>2, AtFacts DEF End, StoreEndFlags, ReadEndNext, PassEndTurn, EndsGame, HandleEndGame
        <3> QED
            BY <3>1 DEF TurnOf
    <2> QED
        BY <1>2, <2>1, <2>2
<1>3. CASE HandleMovePiece(s) \/ HandleFinishMove(s)
    <2>1. /\ at'[s].op \in {"moving", "finish"} /\ playerToMove' = s
          /\ at'[s].op = "finish" => moveOver'
        BY <1>3, AtFacts DEF HandleMovePiece, HandleFinishMove, BeginsTurn
    <2> QED
        BY <2>1 DEF TurnOf
<1>4. CASE Decide(s)
    <2>1. at[s].op = "moving" /\ at'[s].op = "move" /\ playerToMove' = playerToMove
        <3>1. PICK from \in Squares : \E to \in Steps[from] \cup Jumps[from] : Validate(s, from, to)
            BY <1>4 DEF Decide
        <3>2. PICK to \in Steps[from] \cup Jumps[from] : Validate(s, from, to)
            BY <3>1
        <3>3. at'[s] = [op |-> "move", board |-> BoardAfter(board, playerToMove, from, to),
                        flags |-> FlagsOf(board, playerToMove, from, to)]
            BY <3>2, AtFacts DEF Validate
        <3> QED
            BY <3>2, <3>3 DEF Validate
    <2> QED
        BY <2>1 DEF TurnOf
<1>5. CASE StoreBoard(s)
    <2>1. /\ at[s].op = "move" /\ at'[s] = [op |-> "moved", flags |-> at[s].flags]
          /\ board' = at[s].board /\ playerToMove' = playerToMove
        BY <1>5, AtFacts DEF StoreBoard
    <2>2. PICK p \in Player : \E from \in Squares : \E to \in Steps[from] \cup Jumps[from] :
              /\ IsLegal(board, p, from, to)
              /\ at[s].board = BoardAfter(board, p, from, to)
              /\ at[s].flags = FlagsOf(board, p, from, to)
              /\ Live => p = s
        BY <2>1 DEF MoveInv
    <2>3. "continueJump" \in at[s].flags => PlayerCanMove(board', s)
        BY <2>1, <2>2, JumpGoesOn DEF TypeInv
    <2> QED
        BY <2>1, <2>3 DEF TurnOf
<1>6. CASE StoreMoveFlags(s)
    <2>1. /\ at[s].op = "moved" /\ at'[s].op \in {"idle", "close"} /\ playerToMove' = playerToMove
        <3>1. at'[s] \in {Idle, [op |-> "close"]}
            BY <1>6, AtFacts DEF StoreMoveFlags
        <3> QED
            BY <1>6, <3>1 DEF StoreMoveFlags, Idle
    <2> QED
        BY <2>1 DEF TurnOf
<1>7. CASE ReadNext(s)
    <2>1. /\ at[s].op = "finish" /\ at'[s] = [op |-> "stalemate", next |-> Opponent(playerToMove)]
          /\ playerToMove' = playerToMove /\ moveOver' = moveOver
        BY <1>7, AtFacts DEF ReadNext
    <2> QED
        BY <2>1 DEF TurnOf
<1>8. CASE CheckStalemate(s)
    <2>1. /\ at[s].op = "stalemate" /\ at'[s].next = at[s].next
          /\ at'[s].op = IF PlayerCanMove(board, at[s].next) THEN "flags" ELSE "mark"
          /\ playerToMove' = playerToMove /\ moveOver' = moveOver /\ board' = board
        <3> DEFINE answer == IF PlayerCanMove(board, at[s].next) THEN "flags" ELSE "mark"
        <3>1. at' = [at EXCEPT ![s] = [op |-> answer, next |-> at[s].next]]
            BY <1>8 DEF CheckStalemate
        <3> HIDE DEF answer
        <3>2. at'[s] = [op |-> answer, next |-> at[s].next]
            BY <3>1, AtFacts
        <3>3. at'[s].op = answer /\ at'[s].next = at[s].next
            BY <3>2
        <3> QED
            BY <1>8, <3>3 DEF CheckStalemate, answer
    <2>2. at[s].next = o
        BY <2>1 DEF TurnOf
    <2>3. at'[s].op = "flags" => PlayerCanMove(board', o)
        BY <2>1, <2>2
    <2> QED
        BY <2>1, <2>2, <2>3 DEF TurnOf, Answered
<1>9. CASE MarkStalemate(s)
    <2>1. /\ at[s].op = "mark" /\ at'[s] = [op |-> "flags", next |-> at[s].next]
          /\ "stalemate" \in lastFlags'
          /\ playerToMove' = playerToMove /\ moveOver' = moveOver
        BY <1>9, AtFacts DEF MarkStalemate
    <2> QED
        BY <2>1 DEF TurnOf, Answered
<1>10. CASE ReadFlags(s)
    <2>1. /\ at[s].op = "flags" /\ at'[s] = [op |-> "turn", next |-> at[s].next, flags |-> lastFlags]
          /\ playerToMove' = playerToMove /\ moveOver' = moveOver /\ board' = board
        BY <1>10, AtFacts DEF ReadFlags
    <2> QED
        BY <2>1 DEF TurnOf, Answered
<1>11. CASE PassTurn(s)
    <2>1. /\ at[s].op = "turn" /\ at'[s] = [op |-> "open", flags |-> at[s].flags]
          /\ playerToMove' = at[s].next /\ moveOver' = moveOver /\ board' = board
        BY <1>11, AtFacts DEF PassTurn
    <2> QED
        BY <2>1 DEF TurnOf, Answered
<1>12. CASE OpenMove(s)
    <2>1. /\ at[s].op = "open" /\ at'[s] = [op |-> "score", flags |-> at[s].flags]
          /\ playerToMove' = playerToMove /\ board' = board
        BY <1>12, AtFacts DEF OpenMove
    <2> QED
        BY <2>1 DEF TurnOf, Answered
<1> QED
    BY <1>1, <1>2, <1>3, <1>4, <1>5, <1>6, <1>7, <1>8, <1>9, <1>10, <1>11, <1>12
       DEF Message, GoOn, Move, Finish, EndsGame

LEMMA TurnStep ==
    ASSUME TypeInv, ApartInv, MoveInv, TurnInv, Next
    PROVE  TurnInv'
<1>0. PICK s \in Player : Message(s) \/ GoOn(s)
    BY DEF Next
<1> DEFINE o == Opponent(s)
<1> SUFFICES ASSUME ~crossed', Live' PROVE TurnOf(s)' /\ TurnOf(o)'
    BY <1>0, OpponentFacts DEF TurnInv
<1>1. \A t \in Player : ~TakingTurn(t)' => TurnOf(t)'
    BY DEF TurnOf, TakingTurn
<1>2. at'[o] = at[o] /\ (TakingTurn(o)' <=> TakingTurn(o))
    BY <1>0, StepFrom DEF TakingTurn
<1>3. CASE SetsBoard(s)
    <2>1. ~TakingTurn(s)' /\ ~TakingTurn(o)'
        BY <1>0, <1>2, <1>3, StepFrom, CrossedStep DEF SetsBoard, Playing, TakingTurn
    <2> QED
        BY <1>0, <1>1, <2>1, OpponentFacts
<1>4. CASE ~SetsBoard(s) /\ ~Live
    <2>1. ~TakingTurn(s)' /\ ~TakingTurn(o)'
        BY <1>0, <1>2, <1>4, InTurn DEF Playing, TakingTurn
    <2> QED
        BY <1>0, <1>1, <2>1, OpponentFacts
<1>5. CASE ~SetsBoard(s) /\ Live
    <2>1. ~crossed /\ TurnOf(s) /\ TurnOf(o)
        BY <1>0, <1>5, InTurn, OpponentFacts DEF TurnInv
    <2>2. TurnOf(s)'
        BY <1>0, <1>5, <2>1, OwnTurnStep
    <2>3. ASSUME TakingTurn(o) PROVE TurnOf(o)'
        <3>1. /\ board' = board /\ playerToMove' = playerToMove /\ moveOver' = moveOver
              /\ lastFlags' = lastFlags
            BY <1>0, <1>5, <2>3, OtherStep
        <3> QED
            BY <1>2, <2>1, <3>1 DEF TurnOf, Answered
    <2> QED
        BY <1>0, <1>1, <1>2, <2>2, <2>3, OpponentFacts
<1> QED
    BY <1>3, <1>4, <1>5

LEMMA StuckStep ==
    ASSUME TypeInv, ApartInv, SetUpInv, TurnInv, StuckInv, Next
    PROVE  StuckInv'
<1>0. PICK s \in Player : Message(s) \/ GoOn(s)
    BY DEF Next
<1> DEFINE o == Opponent(s)
<1> SUFFICES ASSUME ~crossed', Live', ~moveOver',
                    \A t \in Player : ~SettingUp(t)' /\ at'[t].op \notin {"moved", "close", "score"}
             PROVE  PlayerCanMove(board', playerToMove')
    BY DEF StuckInv
<1>1. at'[o] = at[o] /\ ~SettingUp(o) /\ at[o].op \notin {"moved", "close", "score"}
    <2>1. at'[o] = at[o] /\ ~SettingUp(o)' /\ at'[o].op \notin {"moved", "close", "score"}
        BY <1>0, StepFrom, OpponentFacts
    <2> QED
        BY <2>1 DEF SettingUp
<1>2. ~SetsBoard(s)
    <2>1. SetsBoard(s) => SettingUp(s)'
        BY ResetFacts, FieldFacts DEF SetsBoard, SettingUp, Field
    <2> QED
        BY <1>0, <2>1
<1>3. ~crossed
    BY <1>0, <1>2, InTurn
<1>4. CASE Reset(s)
    <2>1. at[s].field = "flags"
        BY <1>0, <1>4, ResetFacts, FieldFacts DEF SettingUp, Field
    <2>2. SettingUp(s) /\ at[s] = ResetField("flags")
        BY <1>4, <2>1, ResetFacts
    <2>3. at[s] # ResetField("turn") /\ at[o] # ResetField("turn")
        BY <1>1, <2>2, FieldFacts DEF Field, SettingUp
    <2>4. board = NewBoard /\ playerToMove = PlayerBlack
        BY <1>0, <1>3, <2>2, <2>3, OpponentFacts DEF SetUpInv
    <2>5. board' = board /\ playerToMove' = playerToMove
        BY <1>4, <2>1, ResetFacts
    <2> QED
        BY <2>4, <2>5, BothCanStart
<1>5. CASE ~Reset(s)
    <2>1. Live
        BY <1>0, <1>5, LiveStep
    <2>2. TurnOf(s)
        BY <1>0, <1>3, <2>1 DEF TurnInv
    <2>3. ~SettingUp(s)
        BY <1>0, <1>5, OnlyStep DEF SettingUp
    <2>4. CASE at[s].op = "moved"
        <3>1. StoreMoveFlags(s)
            BY <1>0, <2>4, OnlyStep
        <3>2. "continueJump" \in at[s].flags /\ board' = board /\ playerToMove' = playerToMove
            BY <1>0, <3>1, AtFacts DEF StoreMoveFlags, Goes
        <3> QED
            BY <2>2, <2>4, <3>2 DEF TurnOf
    <2>5. CASE at[s].op = "score"
        <3>1. ScoreFinish(s)
            BY <1>0, <2>5, OnlyStep
        <3>2. ScoreOf(at[s].flags, Opponent(playerToMove)) = -1
            BY <1>0, <3>1, AtFacts DEF ScoreFinish, Goes, Live
        <3>3. "stalemate" \notin at[s].flags
            BY <3>2, ScoreFacts, OpponentFacts DEF TypeInv
        <3>4. PlayerCanMove(board, playerToMove)
            BY <2>2, <2>5, <3>3 DEF TurnOf, Answered
        <3> QED
            BY <3>1, <3>4 DEF ScoreFinish
    <2>6. CASE at[s].op = "close"
        <3>1. CloseMove(s)
            BY <1>0, <2>6, OnlyStep
        <3> QED
            BY <3>1 DEF CloseMove
    <2>7. CASE at[s].op \notin {"moved", "close", "score"}
        <3>1. ~StoreBoard(s) /\ ~OpenMove(s)
            BY <1>0, AtFacts DEF StoreBoard, OpenMove, Goes
        <3>2. ~PassTurn(s)
            BY <1>0, <2>2 DEF PassTurn, Goes, TurnOf
        <3>3. ~PassEndTurn(s)
            BY <1>0, <2>1 DEF PassEndTurn, Goes, Live
        <3>4. ~CloseMove(s)
            BY DEF CloseMove
        <3>5. board' = board /\ playerToMove' = playerToMove /\ moveOver' = moveOver
            BY <1>0, <1>5, <3>1, <3>2, <3>3, <3>4, Effects
        <3>6. \A t \in Player : ~SettingUp(t) /\ at[t].op \notin {"moved", "close", "score"}
            BY <1>0, <1>1, <2>3, <2>7, OpponentFacts
        <3>7. PlayerCanMove(board, playerToMove)
            BY <1>3, <2>1, <3>5, <3>6 DEF StuckInv
        <3> QED
            BY <3>5, <3>7
    <2> QED
        BY <2>4, <2>5, <2>6, <2>7
<1> QED
    BY <1>4, <1>5

-----------------------------------------------------------------------------
(* The second set-up of a game *)

\* The goroutine of q is to set up a game that the other is done with, or is about to.
Late(q) == at[q] = ResetField("board") /\ ~newGameVotes[q]

\* Until it does, White cannot move if it is Black's, and Black has had at most its
\* first turn if it is White's.
LateInv ==
    /\ \A q \in Player : Late(q) /\ at[Opponent(q)].op = "reset"
          => at[Opponent(q)].field \in {"state", "score", "flags"}
    /\ Late(PlayerBlack) /\ ~crossed =>
        /\ board = NewBoard /\ ~TakingTurn(PlayerWhite)
        /\ state = "playing" /\ at[PlayerWhite].op # "over" => playerToMove = PlayerBlack
    /\ Late(PlayerWhite) /\ ~crossed =>
        /\ board = NewBoard \/ FirstMoved(board)
        /\ TakingTurn(PlayerBlack) => state = "playing"
        /\ at[PlayerBlack].op \in {"moving", "move"} => board = NewBoard
        /\ at[PlayerBlack].op = "moved" => "continueJump" \notin at[PlayerBlack].flags
        /\ state = "playing" /\ board # NewBoard /\ at[PlayerBlack].op \notin {"over", "moved", "close"}
              => moveOver \/ playerToMove = PlayerWhite

\* Whose set-up is late, and where the other is then.
LEMMA LateStep ==
    ASSUME TypeInv, VoteInv, LateInv, NEW s \in Player, Message(s) \/ GoOn(s)
    PROVE  /\ ~Late(s)'
           /\ Late(Opponent(s))' => Late(Opponent(s)) \/ (Reset(s) /\ at[s].field = "votes")
           /\ Late(Opponent(s))' /\ at'[s].op = "reset" => at'[s].field \in {"state", "score", "flags"}
           /\ Late(Opponent(s))' => ~SetsBoard(s)
<1> DEFINE o == Opponent(s)
<1>1. at'[s] = ResetField("board") => CountVotes(s)
    BY OnlyWay
<1>2. CountVotes(s) => /\ newGameVotes' = newGameVotes
                       /\ at'[s] = IF newGameVotes = [p \in Player |-> TRUE] THEN ResetField("board") ELSE Idle
    BY AtFacts DEF CountVotes, Goes
<1>3. ~Late(s)'
    BY <1>1, <1>2, FieldFacts DEF Late, Field, Idle, ResetField
<1>4. at'[o] = at[o] /\ o \in Player /\ o # s
    BY StepFrom, OpponentFacts
<1>5. newGameVotes'[o] = newGameVotes[o] \/ (Reset(s) /\ at[s].field = "votes")
    <2>1. HandleNewGame(s) => newGameVotes'[o] = newGameVotes[o]
        BY <1>4 DEF HandleNewGame, TypeInv
    <2> QED
        BY <2>1, Effects, ResetFacts
<1>6. Late(o)' => Late(o) \/ (Reset(s) /\ at[s].field = "votes")
    BY <1>4, <1>5 DEF Late
<1>7. Reset(s) /\ at[s].field = "votes" => at'[s] = ResetField("state") /\ ~SetsBoard(s)
    BY ResetFacts, FieldFacts DEF SetsBoard
<1>8. ASSUME Late(o), ~(Reset(s) /\ at[s].field = "votes"), Late(o)'
      PROVE  /\ at'[s].op = "reset" => at'[s].field \in {"state", "score", "flags"}
             /\ ~SetsBoard(s)
    <2>1. at[s].op = "reset" => at[s].field \in {"state", "score", "flags"}
        BY <1>4, <1>8, OpponentFacts DEF LateInv
    <2>2. CASE Reset(s)
        <3>1. at[s].field \in {"state", "score", "flags"}
            BY <2>1, <2>2, StepFrom
        <3>2. at'[s] \in {ResetField("score"), ResetField("flags"), Idle}
            BY <2>2, <3>1, ResetFacts, FieldFacts
        <3> QED
            BY <3>1, <3>2, FieldFacts DEF SetsBoard, Field
    <2>3. CASE ~Reset(s)
        <3>1. CountVotes(s) => at'[s] = Idle
            BY <1>2, <1>4, <1>8 DEF Late
        <3>2. at'[s] # ResetField("board")
            BY <1>1, <3>1, FieldFacts DEF Field, Idle, ResetField
        <3>3. ~SettingUp(s)
            BY <2>3, OnlyStep DEF SettingUp
        <3>4. ~SettingUp(s)'
            BY <2>3, <3>3, StepFrom DEF SetsBoard
        <3>5. at'[s].op # "reset"
            <4>1. at'[s] \in Work
                BY TypeStep DEF TypeInv, Next
            <4>2. \A w \in Work : w.op = "reset" => \E f \in Field : w = ResetField(f)
                BY DEF Work, ResetField
            <4>3. \A f \in Field : ResetField(f).op = "reset" /\ ResetField(f).field = f
                BY FieldFacts
            <4>4. SUFFICES ASSUME at'[s].op = "reset" PROVE FALSE
                OBVIOUS
            <4>5. PICK f \in Field : at'[s] = ResetField(f)
                BY <4>1, <4>2, <4>4
            <4>6. f # "board" /\ at'[s].field = f
                BY <3>2, <4>3, <4>5
            <4> QED
                BY <3>4, <4>4, <4>6 DEF SettingUp
        <3> QED
            BY <2>3, <3>5 DEF SetsBoard
    <2> QED
        BY <2>2, <2>3
<1> QED
    BY <1>3, <1>6, <1>7, <1>8, FieldFacts DEF Field

LEMMA LateBlackStep ==
    ASSUME TypeInv, ApartInv, SetUpInv, VoteInv, LateInv, NEW s \in Player, Message(s) \/ GoOn(s),
           s = PlayerWhite, Late(PlayerBlack)', ~crossed'
    PROVE  /\ board' = NewBoard /\ ~TakingTurn(s)'
           /\ state' = "playing" /\ at'[s].op # "over" => playerToMove' = PlayerBlack
<1> DEFINE o == Opponent(s)
<1>1. o = PlayerBlack /\ PlayerBlack \in Player /\ at'[o] = at[o] /\ at[o] = ResetField("board")
    BY StepFrom, PieceFacts DEF Late
<1>2. ~SetsBoard(s) /\ ~crossed
    BY <1>1, LateStep, CrossedStep
<1>3. CASE Reset(s)
    <2>1. SettingUp(s) /\ at[s].field # "board"
        BY <1>2, <1>3, ResetFacts DEF SetsBoard
    <2>2. at[o] # ResetField("turn")
        BY <1>1, FieldFacts DEF Field
    <2>3. board = NewBoard /\ (at[s].field # "turn" => playerToMove = PlayerBlack)
        BY <1>1, <1>2, <2>1, <2>2, FieldFacts, OpponentFacts DEF SetUpInv, Field
    <2> QED
        BY <1>3, <2>1, <2>3, ResetFacts, StepFrom
<1>4. CASE ~Reset(s)
    <2>1. Late(o)
        BY <1>1, <1>4, LateStep
    <2>2. /\ board = NewBoard /\ ~TakingTurn(s)
          /\ state = "playing" /\ at[s].op # "over" => playerToMove = PlayerBlack
        BY <1>1, <1>2, <2>1 DEF LateInv
    <2>3. ~StoreBoard(s) /\ ~PassTurn(s)
        BY <2>2 DEF StoreBoard, PassTurn, Goes, TakingTurn
    <2>4. ~Begins(s)
        <3>1. Begins(s) => state = "playing" /\ at[s].op # "over" /\ s = playerToMove
            BY DEF Begins, HandleMovePiece, HandleFinishMove, BeginsTurn, Goes
        <3> QED
            BY <2>2, <3>1, PieceFacts
    <2>5. board' = board /\ ~TakingTurn(s)'
        BY <1>4, <2>2, <2>3, <2>4, Effects, StepFrom
    <2>6. PassEndTurn(s) => at'[s].op = "over"
        <3>1. PassEndTurn(s) => at'[s] = [op |-> "over", score |-> ScoreOf(at[s].flags, s)]
            BY AtFacts DEF PassEndTurn, Goes
        <3> QED
            BY <3>1
    <2>7. EndState(s) => state' # "playing"
        BY DEF EndState
    <2> QED
        BY <1>4, <2>2, <2>3, <2>5, <2>6, <2>7, Effects, OnlyStep
<1> QED
    BY <1>3, <1>4

LEMMA LateWhiteStep ==
    ASSUME TypeInv, ApartInv, SetUpInv, MoveInv, TurnInv, VoteInv, LateInv,
           NEW s \in Player, Message(s) \/ GoOn(s),
           s = PlayerBlack, Late(PlayerWhite)', ~crossed'
    PROVE  /\ board' = NewBoard \/ FirstMoved(board')
           /\ TakingTurn(s)' => state' = "playing"
           /\ at'[s].op \in {"moving", "move"} => board' = NewBoard
           /\ at'[s].op = "moved" => "continueJump" \notin at'[s].flags
           /\ state' = "playing" /\ board' # NewBoard /\ at'[s].op \notin {"over", "moved", "close"}
                 => moveOver' \/ playerToMove' = PlayerWhite
<1> DEFINE o == Opponent(s)
<1>1. o = PlayerWhite /\ PlayerWhite \in Player /\ at'[o] = at[o] /\ at[o] = ResetField("board")
    BY StepFrom, PieceFacts DEF Late
<1>2. ~SetsBoard(s) /\ ~crossed
    BY <1>1, LateStep, CrossedStep
<1>3. CASE Reset(s)
    <2>1. SettingUp(s) /\ at[s].field # "board"
        BY <1>2, <1>3, ResetFacts DEF SetsBoard
    <2>2. board = NewBoard
        BY <1>2, <2>1 DEF SetUpInv
    <2>3. board' = NewBoard /\ ~TakingTurn(s)'
        BY <1>3, <2>1, <2>2, ResetFacts, StepFrom
    <2> QED
        BY <2>3 DEF TakingTurn
<1>4. CASE ~Reset(s)
    <2>1. Late(o)
        BY <1>1, <1>4, LateStep
    <2>2. /\ board = NewBoard \/ FirstMoved(board)
          /\ TakingTurn(s) => state = "playing"
          /\ at[s].op \in {"moving", "move"} => board = NewBoard
          /\ at[s].op = "moved" => "continueJump" \notin at[s].flags
          /\ state = "playing" /\ board # NewBoard /\ at[s].op \notin {"over", "moved", "close"}
                => moveOver \/ playerToMove = PlayerWhite
        BY <1>1, <1>2, <2>1 DEF LateInv
    <2>3. TakingTurn(s) => TurnOf(s) /\ Live
        <3>1. at[o].op = "reset"
            BY <1>1, FieldFacts DEF Field
        <3>2. TakingTurn(s) => Live
            BY <1>1, <2>2, <3>1, OpponentFacts DEF Live, TakingTurn
        <3> QED
            BY <1>2, <3>2 DEF TurnInv
    <2>4. CASE StoreBoard(s)
        <3>1. /\ at[s].op = "move" /\ at'[s] = [op |-> "moved", flags |-> at[s].flags]
              /\ board' = at[s].board /\ TakingTurn(s) /\ state' = state
            BY <2>4, AtFacts DEF StoreBoard, Goes, TakingTurn
        <3>2. PICK p \in Player : \E from \in Squares : \E to \in Steps[from] \cup Jumps[from] :
                  /\ IsLegal(board, p, from, to)
                  /\ at[s].board = BoardAfter(board, p, from, to)
                  /\ at[s].flags = FlagsOf(board, p, from, to)
                  /\ Live => p = s
            BY <1>2, <3>1 DEF MoveInv
        <3>3. PICK from \in Squares : \E to \in Steps[from] \cup Jumps[from] :
                  /\ IsLegal(board, p, from, to)
                  /\ at[s].board = BoardAfter(board, p, from, to)
                  /\ at[s].flags = FlagsOf(board, p, from, to)
                  /\ Live => p = s
            BY <3>2
        <3>4. PICK to \in Steps[from] \cup Jumps[from] :
                  /\ IsLegal(board, p, from, to)
                  /\ at[s].board = BoardAfter(board, p, from, to)
                  /\ at[s].flags = FlagsOf(board, p, from, to)
                  /\ Live => p = s
            BY <3>3
        <3>5. p = PlayerBlack /\ board = NewBoard
            BY <2>2, <2>3, <3>1, <3>4
        <3>6. to \notin Jumps[from]
            BY <3>4, <3>5, NoJumpAtFirst, StepsAreSquares, StepFacts, SquareFacts DEF IsLegal
        <3>7. FirstMoved(board') /\ "continueJump" \notin at[s].flags
            BY <3>1, <3>4, <3>5, <3>6 DEF FirstMoved, FlagsOf
        <3> QED
            BY <2>2, <3>1, <3>7
    <2>5. CASE ~StoreBoard(s)
        <3>1. board' = board
            BY <1>4, <2>5, Effects
        <3>2. TakingTurn(s)' => state' = "playing"
            <4>1. EndState(s) => ~TakingTurn(s)'
                BY AtFacts DEF EndState, Goes, TakingTurn, Idle
            <4>2. Begins(s) => state = "playing"
                BY DEF Begins, HandleMovePiece, HandleFinishMove
            <4> QED
                BY <1>4, <2>2, <4>1, <4>2, Effects, StepFrom
        <3>3. at'[s].op \in {"moving", "move"} => board = NewBoard
            <4>1. HandleMovePiece(s) => /\ at[s].op = "idle" /\ state = "playing" /\ ~moveOver
                                        /\ playerToMove = s
                BY DEF HandleMovePiece, BeginsTurn, Goes
            <4>2. HandleMovePiece(s) => board = NewBoard
                BY <2>2, <4>1, PieceFacts
            <4>3. Decide(s) => at[s].op = "moving"
                BY DEF Decide, Validate, Goes
            <4> QED
                BY <2>2, <4>2, <4>3, OnlyWay
        <3>4. at'[s].op # "moved"
            BY <2>5, OnlyWay
        <3>5. ASSUME state' = "playing", board # NewBoard, at'[s].op \notin {"over", "moved", "close"}
              PROVE  moveOver' \/ playerToMove' = PlayerWhite
            <4>1. CASE CloseMove(s)
                BY <4>1 DEF CloseMove
            <4>2. CASE OpenMove(s)
                BY <1>1, <2>3, <4>2 DEF OpenMove, Goes, TakingTurn, TurnOf
            <4>3. CASE PassTurn(s)
                BY <1>1, <2>3, <4>3 DEF PassTurn, Goes, TakingTurn, TurnOf
            <4>4. CASE ~CloseMove(s) /\ ~OpenMove(s) /\ ~PassTurn(s)
                <5>1. ~PassEndTurn(s)
                    BY <3>5, AtFacts DEF PassEndTurn, Goes
                <5>2. ~EndState(s)
                    BY <3>5 DEF EndState
                <5>3. moveOver' = moveOver /\ playerToMove' = playerToMove /\ state' = state
                    BY <1>4, <4>4, <5>1, <5>2, Effects
                <5>4. at[s].op \notin {"over", "close"}
                    BY <4>4, <5>2, OnlyStep
                <5>5. at[s].op # "moved"
                    <6>1. StoreMoveFlags(s) /\ "continueJump" \notin at[s].flags => at'[s] = [op |-> "close"]
                        BY AtFacts DEF StoreMoveFlags, Goes
                    <6> QED
                        BY <2>2, <3>5, <6>1, OnlyStep
                <5> QED
                    BY <2>2, <3>5, <5>3, <5>4, <5>5
            <4> QED
                BY <4>1, <4>2, <4>3, <4>4
        <3> QED
            BY <2>2, <3>1, <3>2, <3>3, <3>4, <3>5
    <2> QED
        BY <2>4, <2>5
<1> QED
    BY <1>3, <1>4

LEMMA LateInvStep ==
    ASSUME TypeInv, ApartInv, SetUpInv, MoveInv, TurnInv, VoteInv, LateInv, Next
    PROVE  LateInv'
<1>0. PICK s \in Player : Message(s) \/ GoOn(s)
    BY DEF Next
<1> DEFINE o == Opponent(s)
<1>1. ~Late(s)' /\ o \in Player /\ \A q \in Player : q = s \/ q = o
    BY <1>0, LateStep, OpponentFacts
<1>2. Late(o)' /\ at'[Opponent(o)].op = "reset" => at'[Opponent(o)].field \in {"state", "score", "flags"}
    BY <1>0, LateStep, OpponentFacts
<1>3. CASE s = PlayerWhite
    <2>1. o = PlayerBlack /\ ~Late(PlayerWhite)'
        BY <1>1, <1>3, PieceFacts
    <2>2. Late(PlayerBlack)' /\ ~crossed' =>
            /\ board' = NewBoard /\ ~TakingTurn(PlayerWhite)'
            /\ state' = "playing" /\ at'[PlayerWhite].op # "over" => playerToMove' = PlayerBlack
        BY <1>0, <1>3, LateBlackStep
    <2> QED
        BY <1>1, <1>2, <2>1, <2>2 DEF LateInv
<1>4. CASE s = PlayerBlack
    <2>1. o = PlayerWhite /\ ~Late(PlayerBlack)'
        BY <1>1, <1>4, PieceFacts
    <2>2. Late(PlayerWhite)' /\ ~crossed' =>
            /\ board' = NewBoard \/ FirstMoved(board')
            /\ TakingTurn(PlayerBlack)' => state' = "playing"
            /\ at'[PlayerBlack].op \in {"moving", "move"} => board' = NewBoard
            /\ at'[PlayerBlack].op = "moved" => "continueJump" \notin at'[PlayerBlack].flags
            /\ state' = "playing" /\ board' # NewBoard
                 /\ at'[PlayerBlack].op \notin {"over", "moved", "close"}
                    => moveOver' \/ playerToMove' = PlayerWhite
        BY <1>0, <1>4, LateWhiteStep
    <2> QED
        BY <1>1, <1>2, <2>1, <2>2 DEF LateInv
<1> QED
    BY <1>3, <1>4, PieceFacts

-----------------------------------------------------------------------------
(* The theorems *)

Inv ==
    /\ TypeInv /\ ApartInv /\ SetUpInv /\ MoveInv /\ TurnInv /\ StuckInv
    /\ VoteInv /\ LateInv

LEMMA InitInv == Init => Inv
<1> SUFFICES ASSUME Init PROVE Inv
    OBVIOUS
<1>1. TypeInv
    BY TypeInit
<1>2. \A s \in Player : at[s] = Idle /\ at[s].op = "idle"
    BY FieldFacts DEF Init
<1>3. \A s \in Player : ~Playing(s) /\ ~SettingUp(s) /\ ~TakingTurn(s) /\ at[s] # ResetField("board")
    BY <1>2 DEF Playing, SettingUp, TakingTurn, ResetField, Idle
<1>4. ApartInv /\ SetUpInv /\ VoteInv /\ LateInv
    BY <1>3, PieceFacts DEF ApartInv, SetUpInv, VoteInv, LateInv, Late
<1>5. MoveInv /\ ~Live
    BY <1>2 DEF Init, MoveInv, Live
<1> QED
    BY <1>1, <1>4, <1>5 DEF Inv, TurnInv, StuckInv

LEMMA InvStep == Inv /\ [Next]_vars => Inv'
<1>1. ASSUME Inv, Next PROVE Inv'
    BY <1>1, TypeStep, ApartStep, SetUpStep, MoveStep, TurnStep, StuckStep, VoteStep, LateInvStep
       DEF Inv
<1>2. ASSUME Inv, UNCHANGED vars PROVE Inv'
    <2>1. TypeInv' /\ ApartInv' /\ SetUpInv' /\ VoteInv' /\ LateInv'
        BY <1>2 DEF Inv, vars, TypeInv, ApartInv, SetUpInv, VoteInv, LateInv, Late, BothVoted,
           SettingUp, TakingTurn, Playing
    <2>2. MoveInv' /\ TurnInv' /\ StuckInv'
        BY <1>2 DEF Inv, vars, MoveInv, TurnInv, TurnOf, Answered, StuckInv, Live, SettingUp
    <2> QED
        BY <2>1, <2>2 DEF Inv
<1> QED
    BY <1>1, <1>2

LEMMA InvHolds == Spec => []Inv
<1> QED
    BY InitInv, InvStep, PTL DEF Spec

\* The board always holds pieces on squares, and what a goroutine has yet to write is
\* well formed, however the handlers are interleaved (CheckersGame).
THEOREM TypeCorrect == Spec => []TypeOK
<1>1. Inv => TypeOK
    BY TypeInvTypes DEF Inv
<1> QED
    BY <1>1, InvHolds, PTL

\* In a game where nobody played too early the turn is, between messages, with a
\* player who can move, although an EndGame, a vote or a second set-up may come in
\* between any two steps of the handlers (HandleMovePiece, HandleFinishMove, Reset).
THEOREM TurnNeverStuck == Spec => []NobodyIsStuck
<1>1. Inv => NobodyIsStuck
    <2> SUFFICES ASSUME Inv, ~crossed, at = [s \in Player |-> Idle], state = "playing", ~moveOver
                 PROVE  PlayerCanMove(board, playerToMove)
        BY DEF NobodyIsStuck
    <2>1. \A s \in Player : at[s].op = "idle"
        BY FieldFacts
    <2>2. Live /\ \A s \in Player : ~SettingUp(s) /\ at[s].op \notin {"moved", "close", "score"}
        BY <2>1 DEF Live, SettingUp
    <2> QED
        BY <2>2 DEF Inv, StuckInv
<1> QED
    BY <1>1, InvHolds, PTL

\* Pieces of p after a move of p: one square is left and one is taken.
LEMMA MoveOfPieces ==
    ASSUME NEW b \in [Squares -> Piece], NEW p \in Player, NEW from \in Squares,
           NEW to \in Steps[from] \cup Jumps[from], IsLegal(b, p, from, to),
           NEW after, after = BoardAfter(b, p, from, to)
    PROVE  /\ PiecesOn(b, p) \ PiecesOn(after, p) = {from}
           /\ PiecesOn(after, p) \ PiecesOn(b, p) = {to}
           /\ PiecesOn(after, Opponent(p)) \subseteq PiecesOn(b, Opponent(p))
           /\ to[1] = LastRow(p) => after[to] = KingOf(p)
           /\ LET lost == PiecesOn(b, Opponent(p)) \ PiecesOn(after, Opponent(p))
              IN \/ to \in Steps[from] /\ lost = {} /\ ~PlayerCanJump(b, p)
                 \/ to \in Jumps[from] /\ lost = {Middle(from, to)}
<1>1. /\ to \in Squares /\ to # from
      /\ b[from] \in PiecesOf(p) /\ b[to] = None
      /\ after[from] = None
      /\ after[to] = IF to[1] = LastRow(p) THEN KingOf(p) ELSE b[from]
      /\ \/ /\ to \in Steps[from] /\ to \notin Jumps[from] /\ ~PlayerCanJump(b, p)
            /\ \A sq \in Squares : sq # from /\ sq # to => after[sq] = b[sq]
         \/ /\ to \in Jumps[from]
            /\ b[Middle(from, to)] \in PiecesOf(Opponent(p))
            /\ after[Middle(from, to)] = None
            /\ \A sq \in Squares : sq \notin {from, to, Middle(from, to)} => after[sq] = b[sq]
    BY MoveFacts
<1>2. /\ None \notin PiecesOf(p) /\ None \notin PiecesOf(Opponent(p))
      /\ KingOf(p) \in PiecesOf(p) /\ PiecesOf(p) \cap PiecesOf(Opponent(p)) = {}
    BY PieceFacts DEF None
<1>3. after[to] \in PiecesOf(p) /\ (to[1] = LastRow(p) => after[to] = KingOf(p))
    BY <1>1, <1>2
<1>4. CASE /\ to \in Steps[from] /\ to \notin Jumps[from] /\ ~PlayerCanJump(b, p)
           /\ \A sq \in Squares : sq # from /\ sq # to => after[sq] = b[sq]
    <2>1. /\ PiecesOn(b, p) \ PiecesOn(after, p) = {from}
          /\ PiecesOn(after, p) \ PiecesOn(b, p) = {to}
        BY <1>1, <1>2, <1>3, <1>4 DEF PiecesOn
    <2>2. PiecesOn(after, Opponent(p)) = PiecesOn(b, Opponent(p))
        BY <1>1, <1>2, <1>3, <1>4 DEF PiecesOn
    <2> QED
        BY <1>3, <1>4, <2>1, <2>2
<1>5. CASE /\ to \in Jumps[from]
           /\ b[Middle(from, to)] \in PiecesOf(Opponent(p))
           /\ after[Middle(from, to)] = None
           /\ \A sq \in Squares : sq \notin {from, to, Middle(from, to)} => after[sq] = b[sq]
    <2> DEFINE mid == Middle(from, to)
    <2>1. mid \in Squares /\ mid # from /\ mid # to
        BY <1>5, MiddleFacts
    <2>2. b[mid] \in PiecesOf(Opponent(p)) /\ after[mid] = None
        BY <1>5
    <2>3. \A sq \in Squares : sq # from /\ sq # to /\ sq # mid => after[sq] = b[sq]
        BY <1>5
    <2> HIDE DEF mid
    <2>4. /\ PiecesOn(b, p) \ PiecesOn(after, p) = {from}
          /\ PiecesOn(after, p) \ PiecesOn(b, p) = {to}
        BY <1>1, <1>2, <1>3, <2>1, <2>2, <2>3 DEF PiecesOn
    <2>5. /\ PiecesOn(after, Opponent(p)) \subseteq PiecesOn(b, Opponent(p))
          /\ PiecesOn(b, Opponent(p)) \ PiecesOn(after, Opponent(p)) = {mid}
        BY <1>1, <1>2, <1>3, <2>1, <2>2, <2>3 DEF PiecesOn
    <2> QED
        BY <1>3, <1>5, <2>4, <2>5 DEF mid
<1> QED
    BY <1>1, <1>4, <1>5

\* In a game where nobody played too early the board that a move is stored on is the
\* one it was validated on: one piece moves, and takes at most the one it jumps over
\* (ValidateMove, HandleMovePiece).
THEOREM MovesOneAtATime == Spec => OneMoveAtATime
<1> DEFINE A == board' # board /\ (\E s \in Player : at[s].op = "move" /\ at'[s] # at[s]) /\ ~crossed =>
        \E p \in Player :
            LET gone == PiecesOn(board, p) \ PiecesOn(board', p)
                come == PiecesOn(board', p) \ PiecesOn(board, p)
                lost == PiecesOn(board, Opponent(p)) \ PiecesOn(board', Opponent(p))
            IN /\ PiecesOn(board', Opponent(p)) \subseteq PiecesOn(board, Opponent(p))
               /\ \E from, to \in Squares :
                    /\ gone = {from} /\ come = {to}
                    /\ to[1] = LastRow(p) => board'[to] = KingOf(p)
                    /\ \/ to \in Steps[from] /\ lost = {} /\ ~PlayerCanJump(board, p)
                       \/ to \in Jumps[from] /\ lost = {Middle(from, to)}
<1>1. ASSUME Inv, Next PROVE A
    <2> SUFFICES ASSUME board' # board, \E s \in Player : at[s].op = "move" /\ at'[s] # at[s], ~crossed
                 PROVE A
        OBVIOUS
    <2>1. PICK s \in Player : Message(s) \/ GoOn(s)
        BY <1>1 DEF Next
    <2>2. at[s].op = "move"
        BY <1>1, <2>1, StepFrom, OpponentFacts DEF Inv
    <2>3. ~Reset(s)
        BY <2>2 DEF Reset, Goes
    <2>4. StoreBoard(s)
        BY <2>1, <2>3, Effects
    <2>5. PICK p \in Player : \E from \in Squares : \E to \in Steps[from] \cup Jumps[from] :
              IsLegal(board, p, from, to) /\ board' = BoardAfter(board, p, from, to)
        BY <1>1, <2>2, <2>4 DEF Inv, MoveInv, StoreBoard
    <2>6. PICK from \in Squares : \E to \in Steps[from] \cup Jumps[from] :
              IsLegal(board, p, from, to) /\ board' = BoardAfter(board, p, from, to)
        BY <2>5
    <2>7. PICK to \in Steps[from] \cup Jumps[from] :
              IsLegal(board, p, from, to) /\ board' = BoardAfter(board, p, from, to)
        BY <2>6
    <2>8. board \in [Squares -> Piece] /\ to \in Squares
        BY <1>1, StepsAreSquares DEF Inv, TypeInv
    <2>9. /\ PiecesOn(board, p) \ PiecesOn(board', p) = {from}
          /\ PiecesOn(board', p) \ PiecesOn(board, p) = {to}
          /\ PiecesOn(board', Opponent(p)) \subseteq PiecesOn(board, Opponent(p))
          /\ to[1] = LastRow(p) => board'[to] = KingOf(p)
          /\ LET lost == PiecesOn(board, Opponent(p)) \ PiecesOn(board', Opponent(p))
             IN \/ to \in Steps[from] /\ lost = {} /\ ~PlayerCanJump(board, p)
                \/ to \in Jumps[from] /\ lost = {Middle(from, to)}
        BY <2>7, <2>8, MoveOfPieces
    <2> QED
        BY <2>8, <2>9
<1>2. Inv /\ [Next]_vars => [A]_vars
    BY <1>1
<1> QED
    BY <1>2, InvHolds, PTL DEF Spec, OneMoveAtATime

\* A game set up a second time, by the goroutine that saw both votes last, throws away
\* nothing of White's (VoteNewGame, Reset).
THEOREM LateResetIsHarmless == Spec => LateResetLosesOneTurn
<1> DEFINE A == (\A s \in Player : at[s] = ResetField("board") /\ at'[s] # at[s] => ~newGameVotes[s])
                  /\ ~crossed /\ state = "playing" /\ board # NewBoard /\ board' = NewBoard =>
                    PiecesOn(board, PlayerWhite) = PiecesOn(NewBoard, PlayerWhite)
<1>1. ASSUME Inv, Next PROVE A
    <2> SUFFICES ASSUME \A s \in Player : at[s] = ResetField("board") /\ at'[s] # at[s] => ~newGameVotes[s],
                        ~crossed, state = "playing", board # NewBoard, board' = NewBoard
                 PROVE  PiecesOn(board, PlayerWhite) = PiecesOn(NewBoard, PlayerWhite)
        OBVIOUS
    <2>1. PICK s \in Player : Message(s) \/ GoOn(s)
        BY <1>1 DEF Next
    <2>2. StoreBoard(s) \/ Reset(s)
        BY <2>1, Effects
    <2>3. CASE StoreBoard(s)
        <3>1. PICK p \in Player : \E from \in Squares : \E to \in Steps[from] \cup Jumps[from] :
                  IsLegal(board, p, from, to) /\ board' = BoardAfter(board, p, from, to)
            BY <1>1, <2>1, <2>3 DEF Inv, MoveInv, StoreBoard, Goes
        <3> QED
            BY <1>1, <3>1, MoveIsNoReset DEF Inv, TypeInv
    <2>4. CASE Reset(s)
        <3>1. at[s] = ResetField("board") /\ at'[s] = ResetField("turn")
            BY <1>1, <2>1, <2>4, ResetFacts, FieldFacts DEF Inv
        <3>2. Late(s)
            BY <2>1, <3>1, FieldFacts DEF Late, Field
        <3>3. FirstMoved(board)
            BY <1>1, <2>1, <3>2, PieceFacts DEF Inv, LateInv
        <3> QED
            BY <3>3, WhiteIsUntouched
    <2> QED
        BY <2>2, <2>3, <2>4
<1>2. Inv /\ [Next]_vars => [A]_vars
    BY <1>1
<1> QED
    BY <1>2, InvHolds, PTL DEF Spec, LateResetLosesOneTurn

=============================================================================
