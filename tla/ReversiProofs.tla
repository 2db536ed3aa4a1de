---------------------------- MODULE ReversiProofs ----------------------------
(***************************************************************************)
(* Proofs about Reversi, for every size of the board on which both players  *)
(* can begin, and however the handlers are interleaved.                     *)
(*                                                                         *)
(* What a goroutine has read and not yet written is still so when it is     *)
(* written, as long as no message crossed another.  Where only an EndGame   *)
(* crossed a move, the board still changes by moves; the turn may then be   *)
(* left with a player who cannot move.                                      *)
(***************************************************************************)
EXTENDS Reversi, FiniteSetTheorems, TLAPS

-----------------------------------------------------------------------------
(* Squares and rays *)

LEMMA PieceFacts ==
    /\ Player = {0, 1} /\ PlayerWhite = 0 /\ PlayerBlack = 1
    /\ Opponent(0) = 1 /\ Opponent(1) = 0
    /\ PieceOf(0) = "white" /\ PieceOf(1) = "black" /\ None = "none"
    /\ Boards = [Squares -> {"none", "white", "black"}]
BY DEF Player, PlayerWhite, PlayerBlack, Opponent, PieceOf, None, Boards

LEMMA SquareFacts ==
    /\ \A sq \in Squares : sq = <<sq[1], sq[2]>> /\ sq[1] \in 0 .. Rows - 1 /\ sq[2] \in 0 .. Cols - 1
    /\ \A r \in 0 .. Rows - 1, c \in 0 .. Cols - 1 : <<r, c>> \in Squares
    /\ \A r, c : <<r, c>> \in Squares => r \in 0 .. Rows - 1 /\ c \in 0 .. Cols - 1
    /\ Rows \in Nat /\ Cols \in Nat /\ Rows >= 2 /\ Cols >= 3
BY SizeAssumption DEF Squares

\* The square n further on.
Along(sq, d, n) == <<sq[1] + n * d[1], sq[2] + n * d[2]>>

LEMMA DirectionFacts ==
    ASSUME NEW d \in Directions
    PROVE  /\ d = <<d[1], d[2]>> /\ d[1] \in {-1, 0, 1} /\ d[2] \in {-1, 0, 1}
           /\ d[1] # 0 \/ d[2] # 0
BY DEF Directions

\* How far it is to the edge, along one coordinate.
Room(at1, step, size) ==
    IF step = 1 THEN size - 1 - at1 ELSE IF step = -1 THEN at1 ELSE Rows + Cols

LEMMA RoomFacts ==
    ASSUME NEW size \in {Rows, Cols}, NEW at1 \in 0 .. size - 1, NEW step \in {-1, 0, 1}
    PROVE  /\ Room(at1, step, size) \in 0 .. Rows + Cols
           /\ \A n \in 1 .. Rows + Cols :
                 at1 + n * step \in 0 .. size - 1 <=> n <= Room(at1, step, size)
<1>1. size \in Nat /\ Rows \in Nat /\ Cols \in Nat /\ size <= Rows + Cols
    BY SquareFacts
<1>2. CASE step = 1
    BY <1>1, <1>2 DEF Room
<1>3. CASE step = -1
    BY <1>1, <1>3 DEF Room
<1>4. CASE step = 0
    BY <1>1, <1>4 DEF Room
<1> QED
    BY <1>2, <1>3, <1>4

\* A ray goes on to the edge of the board, and no further.
LEMMA RayFacts ==
    ASSUME NEW sq \in Squares, NEW d \in Directions
    PROVE  /\ Len(Ray(sq, d)) \in Nat
           /\ DOMAIN Ray(sq, d) = 1 .. Len(Ray(sq, d))
           /\ \A n \in 1 .. Len(Ray(sq, d)) :
                 Ray(sq, d)[n] = Along(sq, d, n) /\ Along(sq, d, n) \in Squares
           /\ \A n \in 1 .. Rows + Cols : Along(sq, d, n) \in Squares => n <= Len(Ray(sq, d))
<1> DEFINE inside == {n \in 1 .. Rows + Cols : Along(sq, d, n) \in Squares}
           rows == Room(sq[1], d[1], Rows)
           cols == Room(sq[2], d[2], Cols)
           k == IF rows < cols THEN rows ELSE cols
<1>1. sq[1] \in 0 .. Rows - 1 /\ sq[2] \in 0 .. Cols - 1
    BY SquareFacts
<1>2. /\ rows \in 0 .. Rows + Cols /\ cols \in 0 .. Rows + Cols
      /\ \A n \in 1 .. Rows + Cols : sq[1] + n * d[1] \in 0 .. Rows - 1 <=> n <= rows
      /\ \A n \in 1 .. Rows + Cols : sq[2] + n * d[2] \in 0 .. Cols - 1 <=> n <= cols
    BY <1>1, RoomFacts, DirectionFacts
<1>3. \A n \in 1 .. Rows + Cols : Along(sq, d, n) \in Squares <=>
          sq[1] + n * d[1] \in 0 .. Rows - 1 /\ sq[2] + n * d[2] \in 0 .. Cols - 1
    BY SquareFacts DEF Along
<1> HIDE DEF rows, cols
<1>4. k \in 0 .. Rows + Cols
    BY <1>2
<1>5. \A n \in 1 .. Rows + Cols : Along(sq, d, n) \in Squares <=> n <= k
    BY <1>2, <1>3, SquareFacts
<1> HIDE DEF k
<1>6. inside = 1 .. k
    BY <1>4, <1>5, SquareFacts
<1>7. Cardinality(1 .. k) = k
    BY <1>4, FS_Interval
<1>8. Ray(sq, d) = [n \in 1 .. Cardinality(inside) |-> Along(sq, d, n)]
    BY DEF Ray, Along
<1> HIDE DEF inside
<1>9. Ray(sq, d) = [n \in 1 .. k |-> Along(sq, d, n)] /\ k \in Nat
    BY <1>4, <1>6, <1>7, <1>8
<1>10. Len(Ray(sq, d)) = k /\ DOMAIN Ray(sq, d) = 1 .. k
    BY <1>9
<1> QED
    BY <1>4, <1>5, <1>9, <1>10, SquareFacts

\* The pieces that a move of p to sq turns: the i-th on a ray, of those before the
\* first one of p's own, the n-th.
LEMMA FlipFacts ==
    ASSUME NEW b, NEW p, NEW sq \in Squares, NEW f
    PROVE  f \in Flips(b, p, sq) <=>
              \E d \in Directions : \E n \in 2 .. Len(Ray(sq, d)) : \E i \in 1 .. n - 1 :
                  /\ f = Along(sq, d, i)
                  /\ b[Along(sq, d, n)] = PieceOf(p)
                  /\ \A j \in 1 .. n - 1 : b[Along(sq, d, j)] = PieceOf(Opponent(p))
<1>1. ASSUME NEW d \in Directions
      PROVE  f \in Flipped(b, p, Ray(sq, d)) <=>
              \E n \in 2 .. Len(Ray(sq, d)) : \E i \in 1 .. n - 1 :
                  /\ f = Along(sq, d, i)
                  /\ b[Along(sq, d, n)] = PieceOf(p)
                  /\ \A j \in 1 .. n - 1 : b[Along(sq, d, j)] = PieceOf(Opponent(p))
    <2> DEFINE ray == Ray(sq, d)
    <2>1. /\ Len(ray) \in Nat /\ DOMAIN ray = 1 .. Len(ray)
          /\ \A n \in 1 .. Len(ray) : ray[n] = Along(sq, d, n)
        BY RayFacts
    <2> HIDE DEF ray
    <2>2. f \in Flipped(b, p, ray) <=>
              \E i \in 1 .. Len(ray) :
                /\ f = ray[i]
                /\ \E n \in i + 1 .. Len(ray) :
                    /\ b[ray[n]] = PieceOf(p)
                    /\ \A j \in 1 .. n - 1 : b[ray[j]] = PieceOf(Opponent(p))
        BY <2>1 DEF Flipped
    <2>3. ASSUME f \in Flipped(b, p, ray)
          PROVE  \E n \in 2 .. Len(ray) : \E i \in 1 .. n - 1 :
                  /\ f = Along(sq, d, i)
                  /\ b[Along(sq, d, n)] = PieceOf(p)
                  /\ \A j \in 1 .. n - 1 : b[Along(sq, d, j)] = PieceOf(Opponent(p))
        BY <2>1, <2>2, <2>3
    <2>4. ASSUME NEW n \in 2 .. Len(ray), NEW i \in 1 .. n - 1,
                 f = Along(sq, d, i), b[Along(sq, d, n)] = PieceOf(p),
                 \A j \in 1 .. n - 1 : b[Along(sq, d, j)] = PieceOf(Opponent(p))
          PROVE  f \in Flipped(b, p, ray)
        BY <2>1, <2>2, <2>4
    <2> QED
        BY <2>3, <2>4 DEF ray
<1>2. f \in Flips(b, p, sq) <=> \E d \in Directions : f \in Flipped(b, p, Ray(sq, d))
    BY DEF Flips, Rays
<1> QED
    BY <1>1, <1>2

-----------------------------------------------------------------------------
(* Boards *)

LEMMA FlipsAreTheOpponents ==
    ASSUME NEW b, NEW p, NEW sq \in Squares, NEW f \in Flips(b, p, sq)
    PROVE  f \in Squares /\ b[f] = PieceOf(Opponent(p))
<1>1. PICK d \in Directions : \E n \in 2 .. Len(Ray(sq, d)) : \E i \in 1 .. n - 1 :
                  /\ f = Along(sq, d, i)
                  /\ \A j \in 1 .. n - 1 : b[Along(sq, d, j)] = PieceOf(Opponent(p))
    BY FlipFacts
<1> QED
    BY <1>1, RayFacts

LEMMA AfterTyped ==
    ASSUME NEW b \in Boards, NEW p \in Player, NEW sq \in Squares
    PROVE  /\ BoardAfter(b, p, sq) \in Boards
           /\ \A s \in Squares : BoardAfter(b, p, sq)[s] =
                 IF s = sq \/ s \in Flips(b, p, sq) THEN PieceOf(p) ELSE b[s]
BY PieceFacts DEF BoardAfter

LEMMA CountTyped ==
    ASSUME NEW b, NEW p
    PROVE  Count(b, p) \in 0 .. Rows * Cols
<1>1. Rows \in Nat /\ Cols \in Nat
    BY SquareFacts
<1>2. IsFiniteSet(0 .. Rows - 1) /\ Cardinality(0 .. Rows - 1) = Rows
    BY <1>1, FS_Interval
<1>3. IsFiniteSet(0 .. Cols - 1) /\ Cardinality(0 .. Cols - 1) = Cols
    BY <1>1, FS_Interval
<1>4. IsFiniteSet(Squares) /\ Cardinality(Squares) = Rows * Cols
    <2> DEFINE R == 0 .. Rows - 1
               C == 0 .. Cols - 1
    <2>1. Squares = R \X C
        BY DEF Squares
    <2> HIDE DEF R, C
    <2>2. IsFiniteSet(R \X C) /\ Cardinality(R \X C) = Cardinality(R) * Cardinality(C)
        BY <1>2, <1>3, FS_Product DEF R, C
    <2> QED
        BY <1>2, <1>3, <2>1, <2>2 DEF R, C
<1> DEFINE S == {sq \in Squares : b[sq] = PieceOf(p)}
<1>5. S \subseteq Squares
    OBVIOUS
<1> HIDE DEF S
<1>6. IsFiniteSet(S) /\ Cardinality(S) <= Cardinality(Squares)
    BY <1>4, <1>5, FS_Subset
<1>7. Cardinality(S) \in Nat
    BY <1>6, FS_CardinalityType
<1>8. Rows * Cols \in Nat
    BY <1>1
<1> QED
    BY <1>4, <1>6, <1>7, <1>8 DEF Count, S

LEMMA ScoresTyped == \A b : Scores(b) \in [Player -> 0 .. Rows * Cols]
BY CountTyped DEF Scores

\* The middle of the board.
MidRow == Rows \div 2
MidCol == Cols \div 2

LEMMA MiddleFacts ==
    /\ MidRow \in 1 .. Rows - 1 /\ MidCol \in 1 .. Cols - 2
    /\ Rows \in Nat /\ Cols \in Nat
BY SquareFacts DEF MidRow, MidCol

LEMMA NewBoardFacts ==
    /\ NewBoard \in Boards
    /\ \A sq \in Squares :
          /\ NewBoard[sq] = "black" <=>
                sq = <<MidRow - 1, MidCol - 1>> \/ sq = <<MidRow, MidCol>>
          /\ NewBoard[sq] = "white" <=>
                sq = <<MidRow - 1, MidCol>> \/ sq = <<MidRow, MidCol - 1>>
<1>1. NewBoard = [sq \in Squares |->
          IF sq \in {<<MidRow - 1, MidCol - 1>>, <<MidRow, MidCol>>} THEN "black"
          ELSE IF sq \in {<<MidRow - 1, MidCol>>, <<MidRow, MidCol - 1>>} THEN "white"
          ELSE "none"]
    BY DEF NewBoard, MidRow, MidCol, None
<1>2. NewBoard \in Boards
    BY <1>1, PieceFacts
<1>3. /\ <<MidRow - 1, MidCol - 1>> # <<MidRow - 1, MidCol>>
      /\ <<MidRow - 1, MidCol - 1>> # <<MidRow, MidCol - 1>>
      /\ <<MidRow, MidCol>> # <<MidRow - 1, MidCol>>
      /\ <<MidRow, MidCol>> # <<MidRow, MidCol - 1>>
    BY MiddleFacts
<1> QED
    BY <1>1, <1>2, <1>3

\* Who has a piece of the opponent next to an empty square, and one of its own
\* beyond it, can move.
LEMMA MoveExists ==
    ASSUME NEW b, NEW p, NEW sq \in Squares, NEW d \in Directions,
           b[sq] = None, Along(sq, d, 1) \in Squares, Along(sq, d, 2) \in Squares,
           b[Along(sq, d, 1)] = PieceOf(Opponent(p)), b[Along(sq, d, 2)] = PieceOf(p)
    PROVE  LegalMoveExists(b, p)
<1>1. 2 \in 1 .. Rows + Cols
    BY SquareFacts
<1>2. 2 \in 2 .. Len(Ray(sq, d)) /\ 1 \in 1 .. 2 - 1
    BY <1>1, RayFacts
<1>3. \A j \in 1 .. 2 - 1 : j = 1
    OBVIOUS
<1>4. Along(sq, d, 1) \in Flips(b, p, sq)
    BY <1>2, <1>3, FlipFacts
<1> QED
    BY <1>4 DEF LegalMoveExists, IsLegal

LEMMA CompassFacts ==
    /\ <<0, 1>> \in Directions /\ <<0, -1>> \in Directions
    /\ <<1, 0>> \in Directions /\ <<-1, 0>> \in Directions
BY DEF Directions

LEMMA BothCanStart ==
    LegalMoveExists(NewBoard, PlayerBlack) /\ LegalMoveExists(NewBoard, PlayerWhite)
<1>1. LegalMoveExists(NewBoard, PlayerBlack)
    <2> DEFINE sq == <<MidRow - 1, MidCol + 1>>
    <2>1. sq \in Squares /\ <<MidRow - 1, MidCol>> \in Squares /\ <<MidRow - 1, MidCol - 1>> \in Squares
        BY MiddleFacts, SquareFacts
    <2>2. /\ Along(sq, <<0, -1>>, 1) = <<MidRow - 1, MidCol>>
          /\ Along(sq, <<0, -1>>, 2) = <<MidRow - 1, MidCol - 1>>
        BY MiddleFacts DEF Along
    <2>3. NewBoard[sq] \notin {"white", "black"}
        BY <2>1, NewBoardFacts, MiddleFacts
    <2>4. NewBoard[sq] = None
        BY <2>1, <2>3, NewBoardFacts, PieceFacts
    <2> HIDE DEF sq
    <2> QED
        BY <2>1, <2>2, <2>4, MoveExists, NewBoardFacts, CompassFacts, PieceFacts
<1>2. LegalMoveExists(NewBoard, PlayerWhite)
    <2> DEFINE sq == <<MidRow, MidCol + 1>>
    <2>1. sq \in Squares /\ <<MidRow, MidCol>> \in Squares /\ <<MidRow, MidCol - 1>> \in Squares
        BY MiddleFacts, SquareFacts
    <2>2. /\ Along(sq, <<0, -1>>, 1) = <<MidRow, MidCol>>
          /\ Along(sq, <<0, -1>>, 2) = <<MidRow, MidCol - 1>>
        BY MiddleFacts DEF Along
    <2>3. NewBoard[sq] \notin {"white", "black"}
        BY <2>1, NewBoardFacts, MiddleFacts
    <2>4. NewBoard[sq] = None
        BY <2>1, <2>3, NewBoardFacts, PieceFacts
    <2> HIDE DEF sq
    <2> QED
        BY <2>1, <2>2, <2>4, MoveExists, NewBoardFacts, CompassFacts, PieceFacts
<1> QED
    BY <1>1, <1>2

Opposite(d) == <<0 - d[1], 0 - d[2]>>

\* f is the i-th square, between the one before and the one after.
Neighbours(sq, d, i, f) ==
    /\ Along(f, d, 1) = Along(sq, d, i + 1)
    /\ Along(f, Opposite(d), 1) = Along(sq, d, i - 1)
    /\ i = 1 => Along(f, Opposite(d), 1) = sq
    /\ Opposite(d) \in Directions
    /\ Along(f, d, 1)[1] + Along(f, Opposite(d), 1)[1] = 2 * f[1]
    /\ Along(f, d, 1)[2] + Along(f, Opposite(d), 1)[2] = 2 * f[2]
    /\ Along(f, d, 1) # Along(f, Opposite(d), 1)

LEMMA AlongFacts ==
    ASSUME NEW sq \in Squares, NEW d \in Directions, NEW i \in Nat
    PROVE  Neighbours(sq, d, i, Along(sq, d, i))
<1> DEFINE f == Along(sq, d, i)
<1> DEFINE x == sq[1]
           y == sq[2]
           u == d[1]
           v == d[2]
<1>1. /\ x \in Int /\ y \in Int /\ u \in {-1, 0, 1} /\ v \in {-1, 0, 1} /\ (u # 0 \/ v # 0)
      /\ sq = <<x, y>> /\ d = <<u, v>>
    BY SquareFacts, DirectionFacts
<1>2. f = <<x + i * u, y + i * v>>
    BY DEF Along
<1> HIDE DEF f
<1>3. Opposite(d) = <<0 - u, 0 - v>>
    BY DEF Opposite
<1>4. /\ Along(f, d, 1) = <<(x + i * u) + 1 * u, (y + i * v) + 1 * v>>
      /\ Along(f, Opposite(d), 1) = <<(x + i * u) + 1 * (0 - u), (y + i * v) + 1 * (0 - v)>>
      /\ Along(sq, d, i + 1) = <<x + (i + 1) * u, y + (i + 1) * v>>
      /\ Along(sq, d, i - 1) = <<x + (i - 1) * u, y + (i - 1) * v>>
    BY <1>2, <1>3 DEF Along
<1>5. Opposite(d) \in Directions
    BY <1>1, <1>3 DEF Directions
<1> HIDE DEF x, y, u, v
<1>6. /\ i * u \in Int /\ i * v \in Int
      /\ (i + 1) * u = i * u + u /\ (i + 1) * v = i * v + v
      /\ (i - 1) * u = i * u - u /\ (i - 1) * v = i * v - v
      /\ i = 1 => i * u = u /\ i * v = v
      /\ 1 * u = u /\ 1 * v = v /\ 1 * (0 - u) = 0 - u /\ 1 * (0 - v) = 0 - v
    <2>1. CASE u = 0
        BY <1>1, <2>1
    <2>2. CASE u = 1
        BY <1>1, <2>2
    <2>3. CASE u = -1
        BY <1>1, <2>3
    <2> QED
        BY <1>1, <2>1, <2>2, <2>3
<1> DEFINE iu == i * u
           iv == i * v
<1>7. /\ Along(f, d, 1) = <<x + iu + u, y + iv + v>>
      /\ Along(f, Opposite(d), 1) = <<x + iu - u, y + iv - v>>
      /\ Along(sq, d, i + 1) = <<x + iu + u, y + iv + v>>
      /\ Along(sq, d, i - 1) = <<x + iu - u, y + iv - v>>
      /\ f = <<x + iu, y + iv>> /\ iu \in Int /\ iv \in Int
      /\ i = 1 => iu = u /\ iv = v
    <2>1. /\ (x + iu) + 1 * u = x + iu + u /\ (y + iv) + 1 * v = y + iv + v
          /\ (x + iu) + 1 * (0 - u) = x + iu - u /\ (y + iv) + 1 * (0 - v) = y + iv - v
          /\ x + (i + 1) * u = x + iu + u /\ y + (i + 1) * v = y + iv + v
          /\ x + (i - 1) * u = x + iu - u /\ y + (i - 1) * v = y + iv - v
        BY <1>1, <1>6
    <2> QED
        BY <1>2, <1>4, <1>6, <2>1
<1> HIDE DEF iu, iv
<1>8. /\ Along(f, d, 1) = Along(sq, d, i + 1)
      /\ Along(f, Opposite(d), 1) = Along(sq, d, i - 1)
      /\ i = 1 => Along(f, Opposite(d), 1) = sq
    BY <1>1, <1>7
<1>9. /\ Along(f, d, 1)[1] = x + iu + u /\ Along(f, d, 1)[2] = y + iv + v
      /\ Along(f, Opposite(d), 1)[1] = x + iu - u /\ Along(f, Opposite(d), 1)[2] = y + iv - v
      /\ f[1] = x + iu /\ f[2] = y + iv
    BY <1>7
<1>10. /\ x + iu + u + (x + iu - u) = 2 * (x + iu)
       /\ y + iv + v + (y + iv - v) = 2 * (y + iv)
       /\ x + iu + u # x + iu - u \/ y + iv + v # y + iv - v
    BY <1>1, <1>7
<1>11. Along(f, d, 1) # Along(f, Opposite(d), 1)
    BY <1>9, <1>10
<1>12. Neighbours(sq, d, i, f)
    BY <1>5, <1>8, <1>9, <1>10, <1>11 DEF Neighbours
<1> QED
    BY <1>12 DEF f

\* The squares next to f on one of the lines through it have pieces of p.
Between(b, p, f) ==
    \E r1, r2 \in Rays[f] :
        /\ r1 # r2 /\ Len(r1) > 0 /\ Len(r2) > 0
        /\ r1[1][1] + r2[1][1] = 2 * f[1] /\ r1[1][2] + r2[1][2] = 2 * f[2]
        /\ {b[r1[1]], b[r2[1]]} = {PieceOf(p)}

\* What is turned lies between two pieces of the player who moved.
LEMMA TurnedBetween ==
    ASSUME NEW b \in Boards, NEW p \in Player, NEW sq \in Squares, NEW f \in Flips(b, p, sq)
    PROVE  Between(BoardAfter(b, p, sq), p, f)
<1> DEFINE after == BoardAfter(b, p, sq)
<1>1. PICK d \in Directions : \E n \in 2 .. Len(Ray(sq, d)) : \E i \in 1 .. n - 1 :
                  /\ f = Along(sq, d, i)
                  /\ b[Along(sq, d, n)] = PieceOf(p)
                  /\ \A j \in 1 .. n - 1 : b[Along(sq, d, j)] = PieceOf(Opponent(p))
    BY FlipFacts
<1>2. PICK n \in 2 .. Len(Ray(sq, d)) : \E i \in 1 .. n - 1 :
                  /\ f = Along(sq, d, i)
                  /\ b[Along(sq, d, n)] = PieceOf(p)
                  /\ \A j \in 1 .. n - 1 : b[Along(sq, d, j)] = PieceOf(Opponent(p))
    BY <1>1
<1>3. PICK i \in 1 .. n - 1 :
                  /\ f = Along(sq, d, i)
                  /\ b[Along(sq, d, n)] = PieceOf(p)
                  /\ \A j \in 1 .. n - 1 : b[Along(sq, d, j)] = PieceOf(Opponent(p))
    BY <1>2
<1>4. /\ Len(Ray(sq, d)) \in Nat
      /\ \A j \in 1 .. Len(Ray(sq, d)) : Along(sq, d, j) \in Squares
    BY RayFacts
<1>5. \A j \in 1 .. n - 1 : Along(sq, d, j) \in Flips(b, p, sq)
    BY <1>3, FlipFacts
<1>6. \A s \in Squares : after[s] = IF s = sq \/ s \in Flips(b, p, sq) THEN PieceOf(p) ELSE b[s]
    BY AfterTyped
<1> HIDE DEF after
<1>7. f \in Squares /\ n \in Nat /\ i \in Nat /\ i >= 1 /\ i + 1 <= n
    BY <1>4, FlipsAreTheOpponents
<1> DEFINE up == Along(f, d, 1)
           down == Along(f, Opposite(d), 1)
<1>8. /\ up = Along(sq, d, i + 1) /\ down = Along(sq, d, i - 1) /\ (i = 1 => down = sq)
      /\ Opposite(d) \in Directions /\ up # down
      /\ up[1] + down[1] = 2 * f[1] /\ up[2] + down[2] = 2 * f[2]
    <2>1. f = Along(sq, d, i) /\ i \in Nat
        BY <1>3, <1>7
    <2>2. /\ Along(f, d, 1) = Along(sq, d, i + 1)
          /\ Along(f, Opposite(d), 1) = Along(sq, d, i - 1)
          /\ i = 1 => Along(f, Opposite(d), 1) = sq
          /\ Opposite(d) \in Directions
          /\ Along(f, d, 1)[1] + Along(f, Opposite(d), 1)[1] = 2 * f[1]
          /\ Along(f, d, 1)[2] + Along(f, Opposite(d), 1)[2] = 2 * f[2]
          /\ Along(f, d, 1) # Along(f, Opposite(d), 1)
        <3>1. Neighbours(sq, d, i, Along(sq, d, i))
            BY <2>1, AlongFacts
        <3>2. Neighbours(sq, d, i, f)
            BY <2>1, <3>1
        <3> QED
            BY <3>2 DEF Neighbours
    <2> QED
        BY <2>2
<1>9. up \in Squares /\ after[up] = PieceOf(p)
    <2>1. Along(sq, d, i + 1) \in Squares
        BY <1>4, <1>7
    <2>2. CASE i + 1 = n
        BY <1>3, <1>6, <1>8, <2>1, <2>2
    <2>3. CASE i + 1 # n
        <3>1. i + 1 \in 1 .. n - 1
            BY <1>7, <2>3
        <3> QED
            BY <1>5, <1>6, <1>8, <2>1, <3>1
    <2> QED
        BY <2>2, <2>3
<1>10. down \in Squares /\ after[down] = PieceOf(p)
    <2>1. CASE i = 1
        BY <1>6, <1>8, <2>1
    <2>2. CASE i # 1
        <3>1. i - 1 \in 1 .. n - 1
            BY <1>7, <2>2
        <3>2. i - 1 \in 1 .. Len(Ray(sq, d))
            BY <1>4, <3>1
        <3> QED
            BY <1>4, <1>5, <1>6, <1>8, <3>1, <3>2
    <2> QED
        BY <2>1, <2>2
<1> HIDE DEF up, down
<1> DEFINE r1 == Ray(f, d)
           r2 == Ray(f, Opposite(d))
<1>11. /\ r1 \in Rays[f] /\ r2 \in Rays[f]
    BY <1>7, <1>8 DEF Rays
<1>12. 1 \in 1 .. Rows + Cols
    BY SquareFacts
<1>13. Len(r1) > 0 /\ r1[1] = up
    BY <1>7, <1>9, <1>12, RayFacts DEF up
<1>14. Len(r2) > 0 /\ r2[1] = down
    BY <1>7, <1>8, <1>10, <1>12, RayFacts DEF down
<1> HIDE DEF r1, r2
<1>15. \E x, y \in Rays[f] :
                /\ x # y /\ Len(x) > 0 /\ Len(y) > 0
                /\ x[1][1] + y[1][1] = 2 * f[1] /\ x[1][2] + y[1][2] = 2 * f[2]
                /\ {after[x[1]], after[y[1]]} = {PieceOf(p)}
    <2>1. r1 # r2 /\ {after[r1[1]], after[r2[1]]} = {PieceOf(p)}
        BY <1>8, <1>9, <1>10, <1>13, <1>14
    <2> QED
        BY <1>8, <1>11, <1>13, <1>14, <2>1
<1> QED
    BY <1>15 DEF after, Between

LEMMA PairCard == \A x, y : x # y => Cardinality({x, y}) = 2
<1> SUFFICES ASSUME NEW x, NEW y, x # y PROVE Cardinality({x, y}) = 2
    OBVIOUS
<1>1. IsFiniteSet({x}) /\ Cardinality({x}) = 1
    BY FS_Singleton
<1>2. Cardinality({x} \cup {y}) = 1 + 1
    BY <1>1, FS_AddElement
<1>3. {x, y} = {x} \cup {y}
    OBVIOUS
<1> QED
    BY <1>2, <1>3

\* The scores of the board of a new game.
LEMMA NewScores == Scores(NewBoard) = [p \in Player |-> 2]
<1>1. /\ <<MidRow - 1, MidCol - 1>> \in Squares /\ <<MidRow, MidCol>> \in Squares
      /\ <<MidRow - 1, MidCol>> \in Squares /\ <<MidRow, MidCol - 1>> \in Squares
      /\ <<MidRow - 1, MidCol - 1>> # <<MidRow, MidCol>>
      /\ <<MidRow - 1, MidCol>> # <<MidRow, MidCol - 1>>
    BY MiddleFacts, SquareFacts
<1>2. Count(NewBoard, 1) = 2
    <2>1. {sq \in Squares : NewBoard[sq] = "black"} = {<<MidRow - 1, MidCol - 1>>, <<MidRow, MidCol>>}
        BY <1>1, NewBoardFacts
    <2>2. Cardinality({<<MidRow - 1, MidCol - 1>>, <<MidRow, MidCol>>}) = 2
        BY <1>1, PairCard
    <2>3. Count(NewBoard, 1) = Cardinality({sq \in Squares : NewBoard[sq] = "black"})
        BY PieceFacts DEF Count
    <2> QED
        BY <2>1, <2>2, <2>3
<1>3. Count(NewBoard, 0) = 2
    <2>1. {sq \in Squares : NewBoard[sq] = "white"} = {<<MidRow - 1, MidCol>>, <<MidRow, MidCol - 1>>}
        BY <1>1, NewBoardFacts
    <2>2. Cardinality({<<MidRow - 1, MidCol>>, <<MidRow, MidCol - 1>>}) = 2
        BY <1>1, PairCard
    <2>3. Count(NewBoard, 0) = Cardinality({sq \in Squares : NewBoard[sq] = "white"})
        BY PieceFacts DEF Count
    <2> QED
        BY <2>1, <2>2, <2>3
<1> QED
    BY <1>2, <1>3, PieceFacts DEF Scores

LEMMA TwoEachFits == [p \in Player |-> 2] \in Counts /\ [p \in Player |-> 0] \in Counts
<1>1. Rows * Cols \in Nat
    BY SquareFacts
<1>2. [p \in Player |-> 2] \in [Player -> 0 .. Rows * Cols]
    BY NewScores, ScoresTyped
<1>3. 0 \in 0 .. Rows * Cols
    BY <1>1
<1> QED
    BY <1>2, <1>3 DEF Counts

-----------------------------------------------------------------------------
(* What a goroutine still has to write *)

Field == {"clear", "turn", "board", "score", "votes", "final", "state"}
Result == {ScoreBlackWins, ScoreWhiteWins, ScoreDraw}

Work ==
    [op : {"idle", "voted"}]
      \cup [op : {"reset"}, field : Field]
      \cup [op : {"moving"}, ends : {FALSE}, square : Squares]
      \cup [op : {"move"}, ends : {FALSE}, player : Player, board : Boards]
      \cup [op : {"flip", "look", "back", "count", "over"}, ends : BOOLEAN]
      \cup [op : {"flags"}, ends : BOOLEAN, flags : SUBSET Flag, score : Counts]
      \cup [op : {"scores"}, ends : BOOLEAN, score : Counts]
      \cup [op : {"end", "final"}, ends : BOOLEAN, result : Result]

TypeInv ==
    /\ board \in Boards
    /\ player \in Player
    /\ flags \subseteq Flag
    /\ score \in Counts
    /\ state \in {"waiting", "playing", "over"}
    /\ newGameVotes \in [Player -> BOOLEAN]
    /\ finalScore \in Result
    /\ crossed \in BOOLEAN /\ endCrossed \in BOOLEAN
    /\ at \in [Player -> Work]

LEMMA FieldFacts ==
    /\ DOMAIN AfterField = Field
    /\ AfterField["clear"] = ResetField("turn") /\ AfterField["turn"] = ResetField("board")
    /\ AfterField["board"] = ResetField("score") /\ AfterField["score"] = ResetField("votes")
    /\ AfterField["votes"] = ResetField("final") /\ AfterField["final"] = ResetField("state")
    /\ AfterField["state"] = Idle
    /\ \A f \in Field : ResetField(f).op = "reset" /\ ResetField(f).field = f
    /\ \A f \in Field : ResetField(f) \in Work
    /\ Idle \in Work /\ Idle.op = "idle"
BY DEF AfterField, Field, ResetField, Idle, Work

\* What a goroutine has to write, by where it stands.
LEMMA WorkFacts ==
    ASSUME TypeInv, NEW s \in Player
    PROVE  /\ at[s].op = "reset" => \E f \in Field : at[s] = ResetField(f)
           /\ at[s].op \in {"moving", "move"} => at[s].ends = FALSE
           /\ at[s].op = "moving" => at[s].square \in Squares
           /\ at[s].op = "move" => at[s].player \in Player /\ at[s].board \in Boards
           /\ at[s].op \in {"flip", "look", "back", "count", "over"} =>
                 at[s] \in [op : {"flip", "look", "back", "count", "over"}, ends : BOOLEAN]
           /\ at[s].op \in {"flip", "look", "back", "count", "over", "flags", "scores", "end", "final"}
                 => at[s].ends \in BOOLEAN
           /\ at[s].op = "flags" => at[s].flags \in SUBSET Flag
           /\ at[s].op \in {"flags", "scores"} => at[s].score \in Counts
           /\ at[s].op \in {"end", "final"} =>
                 at[s] \in [op : {"end", "final"}, ends : BOOLEAN, result : Result]
<1>1. at[s] \in Work
    BY DEF TypeInv
<1>2. CASE at[s] \in [op : {"idle", "voted"}]
    BY <1>2
<1>3. CASE at[s] \in [op : {"reset"}, field : Field]
    BY <1>3 DEF ResetField
<1>4. CASE at[s] \in [op : {"moving"}, ends : {FALSE}, square : Squares]
    BY <1>4
<1>5. CASE at[s] \in [op : {"move"}, ends : {FALSE}, player : Player, board : Boards]
    BY <1>5
<1>6. CASE at[s] \in [op : {"flip", "look", "back", "count", "over"}, ends : BOOLEAN]
    BY <1>6
<1>7. CASE at[s] \in [op : {"flags"}, ends : BOOLEAN, flags : SUBSET Flag, score : Counts]
    BY <1>7
<1>8. CASE at[s] \in [op : {"scores"}, ends : BOOLEAN, score : Counts]
    BY <1>8
<1>9. CASE at[s] \in [op : {"end", "final"}, ends : BOOLEAN, result : Result]
    BY <1>9
<1> QED
    BY <1>1, <1>2, <1>3, <1>4, <1>5, <1>6, <1>7, <1>8, <1>9 DEF Work

LEMMA TypeInvTypes == TypeInv => TypeOK
<1> SUFFICES ASSUME TypeInv PROVE TypeOK
    OBVIOUS
<1>1. ASSUME NEW s \in Player
      PROVE  \/ at[s] \in [op : {"idle", "voted"}]
             \/ at[s] \in [op : {"reset"}, field : DOMAIN AfterField]
             \/ at[s] \in [op : {"moving"}, ends : BOOLEAN, square : Squares]
             \/ at[s] \in [op : {"move"}, ends : BOOLEAN, player : Player, board : Boards]
             \/ at[s] \in [op : {"flip", "look", "back", "count", "over"}, ends : BOOLEAN]
             \/ at[s] \in [op : {"flags"}, ends : BOOLEAN, flags : SUBSET Flag, score : Counts]
             \/ at[s] \in [op : {"scores"}, ends : BOOLEAN, score : Counts]
             \/ at[s] \in [op : {"end", "final"}, ends : BOOLEAN, result : Result]
    <2>1. at[s] \in Work
        BY DEF TypeInv
    <2>2. CASE at[s] \in [op : {"reset"}, field : Field]
        BY <2>2, FieldFacts
    <2>3. CASE at[s] \in [op : {"moving"}, ends : {FALSE}, square : Squares]
        BY <2>3
    <2>4. CASE at[s] \in [op : {"move"}, ends : {FALSE}, player : Player, board : Boards]
        BY <2>4
    <2> QED
        BY <2>1, <2>2, <2>3, <2>4 DEF Work
<1> QED
    BY <1>1 DEF TypeInv, TypeOK, Result

LEMMA ScoreFacts ==
    ASSUME NEW f
    PROVE  /\ ScoreOf(f) \in Result \cup {-1}
           /\ ScoreOf(f) = -1 => f \cap {"whiteWins", "blackWins", "draw"} = {}
BY DEF ScoreOf, Result, ScoreBlackWins, ScoreWhiteWins, ScoreDraw

LEMMA ResultFacts ==
    ASSUME NEW b
    PROVE  /\ ResultFlags(b) \subseteq {"whiteWins", "blackWins", "draw"}
           /\ ResultFlags(b) \subseteq Flag
           /\ ResultFlags(b) = {} <=> \E p \in Player : LegalMoveExists(b, p)
BY DEF ResultFlags, Flag

LEMMA OpponentFacts ==
    \A p \in Player : /\ Opponent(p) \in Player /\ Opponent(p) # p /\ Opponent(Opponent(p)) = p
                      /\ \A q \in Player : q = p \/ q = Opponent(p)
BY PieceFacts

\* What a step of s does to at.
LEMMA AtFacts ==
    ASSUME TypeInv, NEW s \in Player, NEW w, at' = [at EXCEPT ![s] = w]
    PROVE  at'[s] = w /\ at'[Opponent(s)] = at[Opponent(s)]
BY OpponentFacts DEF TypeInv

LEMMA AtTyped ==
    ASSUME TypeInv, NEW s \in Player, NEW w \in Work, at' = [at EXCEPT ![s] = w]
    PROVE  at' \in [Player -> Work]
BY DEF TypeInv

-----------------------------------------------------------------------------
(* Types *)

MovesNow(s) == \E sq \in Squares : HandleMove(s, sq)
EndsGame(s) == \E f \in EndFlags : HandleEndGame(s, f)
Clears(s) == Reset(s) /\ at[s].field = "clear"

\* What each variable is after a step of s.
LEMMA Effects ==
    ASSUME NEW s \in Player, Message(s) \/ GoOn(s)
    PROVE  /\ board' = board \/ StoreMove(s) \/ Reset(s)
           /\ player' = player \/ StoreMove(s) \/ Flip(s) \/ FlipBack(s) \/ Reset(s)
           /\ flags' = flags \/ StoreMove(s) \/ EndsGame(s) \/ AddFlags(s) \/ Reset(s)
           /\ score' = score \/ StoreMove(s) \/ StoreScores(s) \/ Reset(s)
           /\ state' = state \/ EndState(s) \/ Reset(s)
           /\ newGameVotes' = newGameVotes \/ HandleNewGame(s) \/ Reset(s)
           /\ finalScore' = finalScore \/ StoreFinal(s) \/ Reset(s)
           /\ crossed' = crossed \/ MovesNow(s) \/ EndsGame(s) \/ Reset(s)
           /\ endCrossed' = endCrossed \/ MovesNow(s) \/ EndsGame(s) \/ Reset(s)
<1> USE DEF crossings
<1>1. CASE Message(s)
    BY <1>1 DEF Message, HandleNewGame, HandleMove, HandleEndGame, MovesNow, EndsGame
<1>2. CASE CountVotes(s) \/ Reset(s) \/ ApplyMove(s) \/ StoreMove(s)
    BY <1>2 DEF CountVotes, ApplyMove, StoreMove
<1>3. CASE HandleFinishMove(s)
    BY <1>3 DEF HandleFinishMove, Flip, Look, FlipBack, CountBoard, AddFlags, StoreScores, IsGameOver,
       EndState, StoreFinal
<1> QED
    BY <1>1, <1>2, <1>3 DEF GoOn

LEMMA TypeInit == Init => TypeInv
<1> SUFFICES ASSUME Init PROVE TypeInv
    OBVIOUS
<1>1. board \in Boards
    BY NewBoardFacts DEF Init
<1>2. at \in [Player -> Work]
    BY FieldFacts DEF Init
<1>3. score \in Counts
    BY TwoEachFits DEF Init
<1> QED
    BY <1>1, <1>2, <1>3, PieceFacts DEF Init, TypeInv, Result, ScoreBlackWins, Flag

LEMMA TypeStep ==
    ASSUME TypeInv, Next
    PROVE  TypeInv'
<1>0. PICK s \in Player : Message(s) \/ GoOn(s)
    BY DEF Next
<1>1. \E op : \E w \in Work : Goes(s, op, w)
    <2>1. CASE HandleNewGame(s)
        BY <2>1 DEF HandleNewGame, Work
    <2>2. CASE MovesNow(s)
        BY <2>2 DEF MovesNow, HandleMove, Work
    <2>3. CASE EndsGame(s)
        <3>1. [op |-> "flip", ends |-> TRUE] \in Work
            BY DEF Work
        <3> QED
            BY <2>3, <3>1 DEF EndsGame, HandleEndGame
    <2>4. CASE CountVotes(s)
        BY <2>4, FieldFacts DEF CountVotes, Field
    <2>5. CASE Reset(s)
        <3>1. PICK f \in Field : at[s] = ResetField(f)
            BY <2>5, WorkFacts DEF Reset, Goes
        <3>2. at[s].field \in Field
            BY <3>1, FieldFacts
        <3>3. AfterField[at[s].field] \in Work
            BY <3>2, FieldFacts DEF Field
        <3> QED
            BY <2>5, <3>3 DEF Reset
    <2>6. CASE ApplyMove(s)
        <3> DEFINE copy == [op |-> "move", ends |-> FALSE, player |-> player,
                            board |-> BoardAfter(board, player, at[s].square)]
        <3>1. BoardAfter(board, player, at[s].square) \in Boards
            BY <2>6, WorkFacts, AfterTyped DEF ApplyMove, Goes, TypeInv
        <3>2. copy \in Work
            BY <3>1 DEF Work, TypeInv
        <3>3. Goes(s, "moving", copy) \/ Goes(s, "moving", Idle)
            BY <2>6 DEF ApplyMove
        <3> HIDE DEF copy
        <3> QED
            BY <3>2, <3>3, FieldFacts
    <2>7. CASE StoreMove(s)
        BY <2>7 DEF StoreMove, Work
    <2>8. CASE Flip(s)
        <3>1. at[s] \in [op : {"flip", "look", "back", "count", "over"}, ends : BOOLEAN]
            BY <2>8, WorkFacts DEF Flip, Goes
        <3>2. [at[s] EXCEPT !.op = "look"] \in Work
            BY <3>1 DEF Work
        <3> QED
            BY <2>8, <3>2 DEF Flip
    <2>9. CASE Look(s) \/ FlipBack(s)
        <3>1. at[s] \in [op : {"flip", "look", "back", "count", "over"}, ends : BOOLEAN]
            BY <2>9, WorkFacts DEF Look, FlipBack, Goes
        <3>2. \A op \in {"count", "back"} : [at[s] EXCEPT !.op = op] \in Work
            BY <3>1 DEF Work
        <3>3. Goes(s, at[s].op, [at[s] EXCEPT !.op = "count"]) \/ Goes(s, at[s].op, [at[s] EXCEPT !.op = "back"])
            BY <2>9 DEF Look, FlipBack, Goes
        <3> QED
            BY <3>2, <3>3
    <2>10. CASE CountBoard(s)
        <3>1. at[s].ends \in BOOLEAN /\ ResultFlags(board) \in SUBSET Flag /\ Scores(board) \in Counts
            BY <2>10, WorkFacts, ResultFacts, ScoresTyped DEF CountBoard, Goes, Counts
        <3> QED
            BY <2>10, <3>1 DEF CountBoard, Work
    <2>11. CASE AddFlags(s)
        <3>1. at[s].ends \in BOOLEAN /\ at[s].score \in Counts
            BY <2>11, WorkFacts DEF AddFlags, Goes
        <3> QED
            BY <2>11, <3>1 DEF AddFlags, Work
    <2>12. CASE StoreScores(s)
        <3>1. at[s].ends \in BOOLEAN
            BY <2>12, WorkFacts DEF StoreScores, Goes
        <3> QED
            BY <2>12, <3>1 DEF StoreScores, Work
    <2>13. CASE IsGameOver(s)
        <3> DEFINE end == [op |-> "end", ends |-> at[s].ends, result |-> ScoreOf(flags)]
        <3>1. at[s].ends \in BOOLEAN /\ (ScoreOf(flags) # -1 => ScoreOf(flags) \in Result)
            BY <2>13, WorkFacts, ScoreFacts DEF IsGameOver, Goes
        <3>2. ScoreOf(flags) # -1 => end \in Work
            BY <3>1 DEF Work
        <3>3. IF ScoreOf(flags) = -1 THEN Goes(s, "over", Idle) ELSE Goes(s, "over", end)
            BY <2>13 DEF IsGameOver
        <3> HIDE DEF end
        <3> QED
            BY <3>2, <3>3, FieldFacts
    <2>14. CASE EndState(s)
        <3>1. at[s] \in [op : {"end", "final"}, ends : BOOLEAN, result : Result]
            BY <2>14, WorkFacts DEF EndState, Goes
        <3>2. [at[s] EXCEPT !.op = "final"] \in Work
            BY <3>1 DEF Work
        <3> QED
            BY <2>14, <3>2 DEF EndState
    <2>15. CASE StoreFinal(s)
        BY <2>15, FieldFacts DEF StoreFinal
    <2> QED
        BY <1>0, <2>1, <2>2, <2>3, <2>4, <2>5, <2>6, <2>7, <2>8, <2>9, <2>10, <2>11, <2>12, <2>13,
           <2>14, <2>15 DEF Message, GoOn, HandleFinishMove, MovesNow, EndsGame
<1>2. at' \in [Player -> Work]
    BY <1>1, AtTyped DEF Goes
<1>3. board' \in Boards /\ player' \in Player
    <2>1. Reset(s) => board' \in {board, NewBoard, EmptyBoard} /\ player' \in {player, PlayerWhite, PlayerBlack}
        BY DEF Reset
    <2>2. StoreMove(s) => board' \in Boards /\ player' \in Player
        BY WorkFacts DEF StoreMove, Goes
    <2>3. Flip(s) \/ FlipBack(s) => player' \in Player
        BY OpponentFacts DEF TypeInv, Flip, FlipBack
    <2>4. EmptyBoard \in Boards
        BY PieceFacts DEF EmptyBoard
    <2> QED
        BY <1>0, <2>1, <2>2, <2>3, <2>4, Effects, NewBoardFacts, PieceFacts DEF TypeInv
<1>4. flags' \subseteq Flag
    <2>1. Reset(s) => flags' \in {flags, {}}
        BY DEF Reset
    <2>2. StoreMove(s) => flags' \subseteq Flag
        BY ResultFacts DEF StoreMove
    <2>3. EndsGame(s) => flags' \subseteq Flag
        BY EndFlagsAssumption DEF EndsGame, HandleEndGame
    <2>4. AddFlags(s) => flags' \subseteq Flag
        BY WorkFacts DEF TypeInv, AddFlags, Goes
    <2> QED
        BY <1>0, <2>1, <2>2, <2>3, <2>4, Effects DEF TypeInv
<1>5. score' \in Counts
    <2>1. Reset(s) => score' \in {score, [p \in Player |-> 0], [p \in Player |-> 2]}
        BY DEF Reset
    <2>2. StoreMove(s) => score' \in Counts
        BY ScoresTyped DEF StoreMove, Counts
    <2>3. StoreScores(s) => score' \in Counts
        BY WorkFacts DEF StoreScores, Goes
    <2> QED
        BY <1>0, <2>1, <2>2, <2>3, Effects, TwoEachFits DEF TypeInv
<1>6. /\ state' \in {"waiting", "playing", "over"} /\ finalScore' \in Result
      /\ newGameVotes' \in [Player -> BOOLEAN]
    <2>1. Reset(s) => /\ state' \in {state, "playing"} /\ finalScore' \in {finalScore, 0}
                      /\ newGameVotes' \in [Player -> BOOLEAN]
        BY DEF Reset, TypeInv
    <2>2. HandleNewGame(s) => newGameVotes' \in [Player -> BOOLEAN]
        BY DEF HandleNewGame, TypeInv
    <2>3. EndState(s) => state' = "over"
        BY DEF EndState
    <2>4. StoreFinal(s) => finalScore' \in Result
        BY WorkFacts DEF StoreFinal, Goes
    <2> QED
        BY <1>0, <2>1, <2>2, <2>3, <2>4, Effects DEF TypeInv, Result, ScoreBlackWins
<1>7. crossed' \in BOOLEAN /\ endCrossed' \in BOOLEAN
    <2>1. Reset(s) => /\ crossed' \in {crossed, Moving(Opponent(s)) \/ Ending(Opponent(s))}
                      /\ endCrossed' \in BOOLEAN
        BY DEF Reset
    <2>2. MovesNow(s) \/ EndsGame(s) => crossed' \in BOOLEAN /\ endCrossed' \in BOOLEAN
        BY DEF MovesNow, EndsGame, HandleMove, HandleEndGame
    <2>3. (Moving(Opponent(s)) \/ Ending(Opponent(s))) \in BOOLEAN
        OBVIOUS
    <2> QED
        BY <1>0, <2>1, <2>2, <2>3, Effects DEF TypeInv
<1> QED
    BY <1>2, <1>3, <1>4, <1>5, <1>6, <1>7 DEF TypeInv


-----------------------------------------------------------------------------
(* Who is in the middle of what *)

\* In a game where nobody played too early, only one is playing while the game is set
\* up or moves, and if no EndGame came in between, also while one gives up.
ApartInv ==
    ~crossed => \A s \in Player :
        /\ SettingUp(s) => ~Moving(Opponent(s)) /\ ~Ending(Opponent(s))
        /\ Moving(s) => ~Moving(Opponent(s))
        /\ ~endCrossed /\ Ending(s) => ~Moving(Opponent(s)) /\ ~Ending(Opponent(s))

\* The only step of a goroutine that stands at one of these.
LEMMA OnlyStep ==
    ASSUME NEW s \in Player, Message(s) \/ GoOn(s)
    PROVE  /\ at[s].op = "reset" => Reset(s)
           /\ at[s].op = "idle" => Message(s)
           /\ at[s].op = "voted" => CountVotes(s)
           /\ at[s].op = "moving" => ApplyMove(s)
           /\ at[s].op = "move" => StoreMove(s)
           /\ at[s].op \notin {"idle", "voted", "reset", "moving", "move"} => HandleFinishMove(s)
<1> USE DEF Goes
<1>1. CASE Message(s)
    BY <1>1 DEF Message, HandleNewGame, HandleMove, HandleEndGame
<1>2. CASE CountVotes(s) \/ Reset(s) \/ ApplyMove(s) \/ StoreMove(s)
    BY <1>2 DEF CountVotes, Reset, ApplyMove, StoreMove
<1>3. CASE HandleFinishMove(s)
    BY <1>3 DEF HandleFinishMove, Flip, Look, FlipBack, CountBoard, AddFlags, StoreScores, IsGameOver,
       EndState, StoreFinal
<1> QED
    BY <1>1, <1>2, <1>3 DEF GoOn

FinishOps == {"flip", "look", "back", "count", "flags", "scores", "over", "end", "final"}

\* How HandleFinishMove goes on.
LEMMA FinishFacts ==
    ASSUME TypeInv, NEW s \in Player
    PROVE  /\ Flip(s) => /\ at[s].op = "flip" /\ at'[s].op = "look"
                         /\ at'[s].ends = at[s].ends /\ at[s].ends \in BOOLEAN
           /\ Look(s) => /\ at[s].op = "look"
                         /\ at'[s].op = IF LegalMoveExists(board, player) THEN "count" ELSE "back"
                         /\ at'[s].ends = at[s].ends /\ at[s].ends \in BOOLEAN
           /\ FlipBack(s) => /\ at[s].op = "back" /\ at'[s].op = "count"
                             /\ at'[s].ends = at[s].ends /\ at[s].ends \in BOOLEAN
           /\ CountBoard(s) => /\ at[s].op = "count" /\ at[s].ends \in BOOLEAN
                               /\ at'[s].op = "flags" /\ at'[s].ends = at[s].ends
                               /\ at'[s].flags = ResultFlags(board) /\ at'[s].score = Scores(board)
           /\ AddFlags(s) => /\ at[s].op = "flags" /\ at[s].ends \in BOOLEAN
                             /\ at'[s].op = "scores" /\ at'[s].ends = at[s].ends
                             /\ at'[s].score = at[s].score
           /\ StoreScores(s) => /\ at[s].op = "scores" /\ at[s].ends \in BOOLEAN
                                /\ at'[s].op = "over" /\ at'[s].ends = at[s].ends
           /\ IsGameOver(s) => /\ at[s].op = "over" /\ at[s].ends \in BOOLEAN
                               /\ ScoreOf(flags) = -1 => at'[s] = Idle
                               /\ ScoreOf(flags) # -1 => /\ at'[s].op = "end" /\ at'[s].ends = at[s].ends
                                                         /\ at'[s].result = ScoreOf(flags)
           /\ EndState(s) => /\ at[s].op = "end" /\ at'[s].op = "final" /\ at[s].ends \in BOOLEAN
                             /\ at'[s].ends = at[s].ends /\ at'[s].result = at[s].result
           /\ StoreFinal(s) => at[s].op = "final" /\ at[s].ends \in BOOLEAN /\ at'[s] = Idle
<1> USE DEF Goes
<1>1. ASSUME at[s].op \in {"flip", "look", "back"}
      PROVE  /\ at[s].ends \in BOOLEAN
             /\ \A op : /\ [at[s] EXCEPT !.op = op].op = op
                        /\ [at[s] EXCEPT !.op = op].ends = at[s].ends
    <2>1. at[s] \in [op : {"flip", "look", "back", "count", "over"}, ends : BOOLEAN]
        BY <1>1, WorkFacts
    <2> QED
        BY <2>1
<1>2. ASSUME at[s].op = "end"
      PROVE  /\ at[s].ends \in BOOLEAN
             /\ \A op : /\ [at[s] EXCEPT !.op = op].op = op
                        /\ [at[s] EXCEPT !.op = op].ends = at[s].ends
                        /\ [at[s] EXCEPT !.op = op].result = at[s].result
    <2>1. at[s] \in [op : {"end", "final"}, ends : BOOLEAN, result : Result]
        BY <1>2, WorkFacts
    <2> QED
        BY <2>1
<1>3. ASSUME Flip(s)
      PROVE  at[s].op = "flip" /\ at'[s] = [at[s] EXCEPT !.op = "look"]
    BY <1>3, AtFacts DEF Flip
<1>4. ASSUME Look(s)
      PROVE  /\ at[s].op = "look"
             /\ at'[s] = [at[s] EXCEPT !.op = IF LegalMoveExists(board, player) THEN "count" ELSE "back"]
    BY <1>4, AtFacts DEF Look
<1>5. ASSUME FlipBack(s)
      PROVE  at[s].op = "back" /\ at'[s] = [at[s] EXCEPT !.op = "count"]
    BY <1>5, AtFacts DEF FlipBack
<1>6. ASSUME EndState(s)
      PROVE  at[s].op = "end" /\ at'[s] = [at[s] EXCEPT !.op = "final"]
    BY <1>6, AtFacts DEF EndState
<1>7. ASSUME CountBoard(s)
      PROVE  /\ at[s].op = "count" /\ at[s].ends \in BOOLEAN
             /\ at'[s].op = "flags" /\ at'[s].ends = at[s].ends
             /\ at'[s].flags = ResultFlags(board) /\ at'[s].score = Scores(board)
    <2>1. at[s].op = "count"
        BY <1>7 DEF CountBoard
    <2>2. at'[s] = [op |-> "flags", ends |-> at[s].ends,
                    flags |-> ResultFlags(board), score |-> Scores(board)]
        BY <1>7, AtFacts DEF CountBoard
    <2>3. at[s].ends \in BOOLEAN
        BY <2>1, WorkFacts
    <2>4. /\ at'[s].op = "flags" /\ at'[s].ends = at[s].ends
          /\ at'[s].flags = ResultFlags(board) /\ at'[s].score = Scores(board)
        BY <2>2
    <2> QED
        BY <2>1, <2>3, <2>4
<1>8. ASSUME AddFlags(s)
      PROVE  /\ at[s].op = "flags" /\ at[s].ends \in BOOLEAN
             /\ at'[s].op = "scores" /\ at'[s].ends = at[s].ends
             /\ at'[s].score = at[s].score
    <2>1. at[s].op = "flags"
        BY <1>8 DEF AddFlags
    <2>2. at'[s] = [op |-> "scores", ends |-> at[s].ends, score |-> at[s].score]
        BY <1>8, AtFacts DEF AddFlags
    <2>3. at[s].ends \in BOOLEAN
        BY <2>1, WorkFacts
    <2>4. at'[s].op = "scores" /\ at'[s].ends = at[s].ends /\ at'[s].score = at[s].score
        BY <2>2
    <2> QED
        BY <2>1, <2>3, <2>4
<1>9. ASSUME StoreScores(s)
      PROVE  /\ at[s].op = "scores" /\ at[s].ends \in BOOLEAN
             /\ at'[s].op = "over" /\ at'[s].ends = at[s].ends
    <2>1. at[s].op = "scores"
        BY <1>9 DEF StoreScores
    <2>2. at'[s] = [op |-> "over", ends |-> at[s].ends]
        BY <1>9, AtFacts DEF StoreScores
    <2>3. at[s].ends \in BOOLEAN
        BY <2>1, WorkFacts
    <2>4. at'[s].op = "over" /\ at'[s].ends = at[s].ends
        BY <2>2
    <2> QED
        BY <2>1, <2>3, <2>4
<1>10. ASSUME IsGameOver(s)
       PROVE  /\ at[s].op = "over" /\ at[s].ends \in BOOLEAN
              /\ ScoreOf(flags) = -1 => at'[s] = Idle
              /\ ScoreOf(flags) # -1 => /\ at'[s].op = "end" /\ at'[s].ends = at[s].ends
                                        /\ at'[s].result = ScoreOf(flags)
    <2>1. at[s].op = "over"
        BY <1>10 DEF IsGameOver
    <2>2. at'[s] = IF ScoreOf(flags) = -1 THEN Idle
                   ELSE [op |-> "end", ends |-> at[s].ends, result |-> ScoreOf(flags)]
        <3> DEFINE w == IF ScoreOf(flags) = -1 THEN Idle
                        ELSE [op |-> "end", ends |-> at[s].ends, result |-> ScoreOf(flags)]
        <3>1. at' = [at EXCEPT ![s] = w]
            BY <1>10 DEF IsGameOver
        <3> HIDE DEF w
        <3>2. at'[s] = w
            BY <3>1, AtFacts
        <3> QED
            BY <3>2 DEF w
    <2>3. ASSUME ScoreOf(flags) # -1
          PROVE  /\ at'[s].op = "end" /\ at'[s].ends = at[s].ends
                 /\ at'[s].result = ScoreOf(flags)
        <3>1. at'[s] = [op |-> "end", ends |-> at[s].ends, result |-> ScoreOf(flags)]
            BY <2>2, <2>3
        <3> QED
            BY <3>1
    <2> QED
        BY <2>1, <2>2, <2>3, WorkFacts
<1>11. ASSUME StoreFinal(s)
       PROVE  at[s].op = "final" /\ at[s].ends \in BOOLEAN /\ at'[s] = Idle
    BY <1>11, AtFacts, WorkFacts DEF StoreFinal
<1>12. Flip(s) => /\ at[s].op = "flip" /\ at'[s].op = "look"
                  /\ at'[s].ends = at[s].ends /\ at[s].ends \in BOOLEAN
    BY <1>1, <1>3
<1>13. Look(s) => /\ at[s].op = "look"
                  /\ at'[s].op = IF LegalMoveExists(board, player) THEN "count" ELSE "back"
                  /\ at'[s].ends = at[s].ends /\ at[s].ends \in BOOLEAN
    BY <1>1, <1>4
<1>14. FlipBack(s) => /\ at[s].op = "back" /\ at'[s].op = "count"
                      /\ at'[s].ends = at[s].ends /\ at[s].ends \in BOOLEAN
    BY <1>1, <1>5
<1>15. ASSUME EndState(s)
       PROVE  /\ at[s].op = "end" /\ at'[s].op = "final" /\ at[s].ends \in BOOLEAN
              /\ at'[s].ends = at[s].ends /\ at'[s].result = at[s].result
    <2>1. at[s].op = "end" /\ at'[s] = [at[s] EXCEPT !.op = "final"]
        BY <1>6, <1>15
    <2>2. at[s].ends \in BOOLEAN /\ at'[s].op = "final"
        BY <1>2, <2>1
    <2>3. at'[s].ends = at[s].ends /\ at'[s].result = at[s].result
        BY <1>2, <2>1
    <2> QED
        BY <2>1, <2>2, <2>3
<1> QED
    BY <1>7, <1>8, <1>9, <1>10, <1>11, <1>12, <1>13, <1>14, <1>15

LEMMA FinishStep ==
    ASSUME TypeInv, NEW s \in Player, HandleFinishMove(s)
    PROVE  /\ at[s].op \in FinishOps /\ at[s].ends \in BOOLEAN
           /\ at'[s] = Idle \/ (at'[s].op \in FinishOps /\ at'[s].ends = at[s].ends)
           /\ at'[Opponent(s)] = at[Opponent(s)]
<1>1. at'[Opponent(s)] = at[Opponent(s)]
    BY AtFacts DEF HandleFinishMove, Flip, Look, FlipBack, CountBoard, AddFlags, StoreScores,
       IsGameOver, EndState, StoreFinal, Goes
<1>2. CASE Flip(s) \/ Look(s) \/ FlipBack(s) \/ EndState(s) \/ StoreFinal(s)
    BY <1>1, <1>2, FinishFacts DEF FinishOps
<1>3. CASE CountBoard(s)
    BY <1>1, <1>3, FinishFacts DEF FinishOps
<1>4. CASE AddFlags(s) \/ StoreScores(s)
    BY <1>1, <1>4, FinishFacts DEF FinishOps
<1>5. CASE IsGameOver(s)
    BY <1>1, <1>5, FinishFacts DEF FinishOps
<1> QED
    BY <1>2, <1>3, <1>4, <1>5 DEF HandleFinishMove

\* How a move and an EndGame begin.
LEMMA BeginFacts ==
    ASSUME TypeInv, NEW s \in Player
    PROVE  /\ MovesNow(s) => /\ at[s].op = "idle" /\ at'[Opponent(s)] = at[Opponent(s)]
                             /\ at'[s].op = "moving" /\ at'[s].ends = FALSE
           /\ EndsGame(s) => /\ at[s].op = "idle" /\ at'[Opponent(s)] = at[Opponent(s)]
                             /\ at'[s].op = "flip" /\ at'[s].ends = TRUE
<1>1. ASSUME MovesNow(s)
      PROVE  /\ at[s].op = "idle" /\ at'[Opponent(s)] = at[Opponent(s)]
             /\ at'[s].op = "moving" /\ at'[s].ends = FALSE
    <2>1. PICK sq \in Squares : HandleMove(s, sq)
        BY <1>1 DEF MovesNow
    <2>2. at[s].op = "idle" /\ at' = [at EXCEPT ![s] = [op |-> "moving", ends |-> FALSE, square |-> sq]]
        BY <2>1 DEF HandleMove, Goes
    <2>3. /\ at'[s] = [op |-> "moving", ends |-> FALSE, square |-> sq]
          /\ at'[Opponent(s)] = at[Opponent(s)]
        BY <2>2, AtFacts
    <2> QED
        BY <2>2, <2>3
<1>2. ASSUME EndsGame(s)
      PROVE  /\ at[s].op = "idle" /\ at'[Opponent(s)] = at[Opponent(s)]
             /\ at'[s].op = "flip" /\ at'[s].ends = TRUE
    <2>1. at[s].op = "idle" /\ at' = [at EXCEPT ![s] = [op |-> "flip", ends |-> TRUE]]
        BY <1>2 DEF EndsGame, HandleEndGame, Goes
    <2>2. at'[s] = [op |-> "flip", ends |-> TRUE] /\ at'[Opponent(s)] = at[Opponent(s)]
        BY <2>1, AtFacts
    <2> QED
        BY <2>1, <2>2
<1> QED
    BY <1>1, <1>2

\* Where a step takes the goroutine that makes it, and not the other.
LEMMA StepFrom ==
    ASSUME TypeInv, NEW s \in Player, Message(s) \/ GoOn(s)
    PROVE  /\ at'[Opponent(s)] = at[Opponent(s)]
           /\ SettingUp(s)' => SettingUp(s) \/ Clears(s)
           /\ Moving(s)' => Moving(s) \/ MovesNow(s)
           /\ Ending(s)' => Ending(s) \/ EndsGame(s)
           /\ Reset(s) => at[s].op = "reset" /\ ~Moving(s)' /\ ~Ending(s)'
           /\ MovesNow(s) => ~SettingUp(s)' /\ ~Ending(s)'
           /\ EndsGame(s) => ~SettingUp(s)' /\ ~Moving(s)'
<1> DEFINE o == Opponent(s)
<1>1. CASE HandleNewGame(s)
    <2>1. at'[o] = at[o] /\ at[s].op = "idle" /\ at'[s].op = "voted"
        <3>1. at'[s] = [op |-> "voted"] /\ at'[o] = at[o] /\ at[s].op = "idle"
            BY <1>1, AtFacts DEF HandleNewGame, Goes
        <3> QED
            BY <3>1
    <2>2. ~MovesNow(s) /\ ~EndsGame(s)
        BY <2>1, BeginFacts
    <2> QED
        BY <2>1, <2>2 DEF SettingUp, Moving, Ending, Reset, Goes
<1>2. CASE MovesNow(s)
    <2>1. at'[o] = at[o] /\ at[s].op = "idle" /\ at'[s].op = "moving" /\ ~at'[s].ends
        BY <1>2, BeginFacts
    <2>2. ~EndsGame(s)
        BY <2>1, BeginFacts
    <2> QED
        BY <1>2, <2>1, <2>2 DEF SettingUp, Moving, Ending, Reset, Goes
<1>3. CASE EndsGame(s)
    <2>1. at'[o] = at[o] /\ at[s].op = "idle" /\ at'[s].op = "flip" /\ at'[s].ends
        BY <1>3, BeginFacts
    <2>2. ~MovesNow(s)
        BY <2>1, BeginFacts
    <2> QED
        BY <1>3, <2>1, <2>2 DEF SettingUp, Moving, Ending, Reset, Goes
<1>4. CASE CountVotes(s)
    <2>1. at'[o] = at[o] /\ at[s].op = "voted" /\ at'[s] \in {ResetField("clear"), Idle}
        BY <1>4, AtFacts DEF CountVotes, Goes
    <2>2. ~SettingUp(s)' /\ ~Moving(s)' /\ ~Ending(s)'
        BY <2>1 DEF SettingUp, Moving, Ending, ResetField, Idle
    <2> QED
        BY <2>1, <2>2 DEF MovesNow, HandleMove, EndsGame, HandleEndGame, Reset, Goes
<1>5. CASE Reset(s)
    <2>1. PICK f \in Field : at[s] = ResetField(f)
        BY <1>5, WorkFacts DEF Reset, Goes
    <2>2. at[s].field = f /\ at'[s] = AfterField[f] /\ at'[o] = at[o]
        BY <1>5, <2>1, AtFacts, FieldFacts DEF Reset, Goes
    <2>3. at'[s] = Idle \/ \E g \in Field \ {"clear"} : at'[s] = ResetField(g)
        BY <2>2, FieldFacts DEF Field
    <2>4. at'[s].op \in {"idle", "reset"} /\ (at[s].field = "clear" \/ SettingUp(s))
        BY <2>1, <2>3, FieldFacts DEF SettingUp
    <2> QED
        BY <1>5, <2>1, <2>2, <2>4, FieldFacts DEF Reset, MovesNow, HandleMove, EndsGame,
           HandleEndGame, Goes, SettingUp, Moving, Ending, Clears
<1>6. CASE ApplyMove(s)
    <2>1. /\ at'[o] = at[o] /\ at[s].op = "moving" /\ at[s].ends = FALSE
          /\ at'[s] = Idle \/ (at'[s].op = "move" /\ at'[s].ends = FALSE)
        <3> DEFINE copy == [op |-> "move", ends |-> FALSE, player |-> player,
                            board |-> BoardAfter(board, player, at[s].square)]
        <3>1. at[s].op = "moving" /\ at'[o] = at[o] /\ at'[s] \in {copy, Idle}
            BY <1>6, AtFacts DEF ApplyMove, Goes
        <3>2. copy.op = "move" /\ copy.ends = FALSE
            OBVIOUS
        <3> HIDE DEF copy
        <3> QED
            BY <3>1, <3>2, WorkFacts
    <2> QED
        BY <2>1 DEF SettingUp, Moving, Ending, MovesNow, HandleMove, EndsGame, HandleEndGame, Reset,
           Goes, Idle
<1>7. CASE StoreMove(s)
    <2>1. /\ at'[o] = at[o] /\ at[s].op = "move" /\ at[s].ends = FALSE
          /\ at'[s] = [op |-> "flip", ends |-> FALSE]
        BY <1>7, AtFacts, WorkFacts DEF StoreMove, Goes
    <2>2. at'[s].op = "flip" /\ at'[s].ends = FALSE
        BY <2>1
    <2> QED
        BY <2>1, <2>2 DEF SettingUp, Moving, Ending, MovesNow, HandleMove, EndsGame, HandleEndGame,
           Reset, Goes
<1>8. CASE HandleFinishMove(s)
    BY <1>8, FinishStep DEF FinishOps, SettingUp, Moving, Ending, MovesNow, HandleMove, EndsGame,
       HandleEndGame, Reset, Goes, Idle
<1> QED
    BY <1>1, <1>2, <1>3, <1>4, <1>5, <1>6, <1>7, <1>8 DEF GoOn, Message, MovesNow, EndsGame

\* Whether a game is played in turn is decided anew when a new one is set up.
LEMMA CrossedStep ==
    ASSUME TypeInv, NEW s \in Player, Message(s) \/ GoOn(s), ~crossed'
    PROVE  /\ Clears(s) => ~Moving(Opponent(s)) /\ ~Ending(Opponent(s))
           /\ ~Clears(s) => ~crossed
           /\ MovesNow(s) => ~SettingUp(Opponent(s)) /\ ~Moving(Opponent(s))
           /\ EndsGame(s) => ~SettingUp(Opponent(s))
<1>1. Clears(s) => ~Moving(Opponent(s)) /\ ~Ending(Opponent(s))
    BY DEF Clears, Reset
<1>2. MovesNow(s) => ~crossed /\ ~SettingUp(Opponent(s)) /\ ~Moving(Opponent(s))
    BY DEF MovesNow, HandleMove
<1>3. EndsGame(s) => ~crossed /\ ~SettingUp(Opponent(s))
    BY DEF EndsGame, HandleEndGame
<1>4. Reset(s) /\ ~Clears(s) => ~crossed
    BY DEF Clears, Reset
<1> QED
    BY <1>1, <1>2, <1>3, <1>4, Effects

LEMMA EndCrossedStep ==
    ASSUME TypeInv, NEW s \in Player, Message(s) \/ GoOn(s), ~endCrossed'
    PROVE  /\ ~Clears(s) => ~endCrossed
           /\ MovesNow(s) => ~Ending(Opponent(s))
           /\ EndsGame(s) => ~Moving(Opponent(s)) /\ ~Ending(Opponent(s))
<1>1. MovesNow(s) => ~endCrossed /\ ~Ending(Opponent(s))
    BY DEF MovesNow, HandleMove
<1>2. EndsGame(s) => ~endCrossed /\ ~Moving(Opponent(s)) /\ ~Ending(Opponent(s))
    BY DEF EndsGame, HandleEndGame
<1>3. Reset(s) /\ ~Clears(s) => ~endCrossed
    BY DEF Clears, Reset
<1> QED
    BY <1>1, <1>2, <1>3, Effects

LEMMA ApartStep ==
    ASSUME TypeInv, ApartInv, Next
    PROVE  ApartInv'
<1>0. PICK s \in Player : Message(s) \/ GoOn(s)
    BY DEF Next
<1> DEFINE o == Opponent(s)
<1> SUFFICES ASSUME ~crossed'
             PROVE  /\ SettingUp(s)' => ~Moving(o)' /\ ~Ending(o)'
                    /\ SettingUp(o)' => ~Moving(s)' /\ ~Ending(s)'
                    /\ Moving(s)' => ~Moving(o)'
                    /\ ~endCrossed' /\ Ending(s)' => ~Moving(o)' /\ ~Ending(o)'
                    /\ ~endCrossed' /\ Ending(o)' => ~Moving(s)' /\ ~Ending(s)'
    BY <1>0, OpponentFacts DEF ApartInv
<1>1. /\ Moving(o)' <=> Moving(o)
      /\ SettingUp(o)' <=> SettingUp(o)
      /\ Ending(o)' <=> Ending(o)
    BY <1>0, StepFrom DEF Moving, SettingUp, Ending
<1>2. CASE Clears(s)
    BY <1>0, <1>1, <1>2, StepFrom, CrossedStep DEF Clears
<1>3. CASE ~Clears(s)
    <2>1. /\ SettingUp(s) => ~Moving(o) /\ ~Ending(o)
          /\ SettingUp(o) => ~Moving(s) /\ ~Ending(s)
          /\ Moving(s) => ~Moving(o)
          /\ ~endCrossed /\ Ending(s) => ~Moving(o) /\ ~Ending(o)
          /\ ~endCrossed /\ Ending(o) => ~Moving(s) /\ ~Ending(s)
        BY <1>0, <1>3, CrossedStep, OpponentFacts DEF ApartInv
    <2>2. ~endCrossed' => ~endCrossed
        BY <1>0, <1>3, EndCrossedStep
    <2> QED
        BY <1>0, <1>1, <1>3, <2>1, <2>2, StepFrom, CrossedStep, EndCrossedStep
<1> QED
    BY <1>2, <1>3

-----------------------------------------------------------------------------
(* The set-up of a game *)

\* Somebody is to write one of these fields of a new game.
Pending(fields) == \E s \in Player : \E f \in fields : at[s] = ResetField(f)

\* While a game is set up it is a new one, as far as nobody has yet to write that.
SetUpInv ==
    ~crossed /\ (\E s \in Player : SettingUp(s)) =>
        /\ flags = {}
        /\ player = PlayerBlack \/ Pending({"turn"})
        /\ board = NewBoard \/ Pending({"turn", "board"})
        /\ score = [p \in Player |-> 2] \/ Pending({"turn", "board", "score"})

\* A step of Reset, by the field that it writes.
LEMMA ResetSteps ==
    ASSUME TypeInv, NEW s \in Player, Reset(s)
    PROVE  /\ at[s].field \in Field /\ at[s] = ResetField(at[s].field)
           /\ at'[s] = AfterField[at[s].field] /\ at'[Opponent(s)] = at[Opponent(s)]
           /\ SettingUp(s) <=> at[s].field # "clear"
           /\ Clears(s) <=> at[s].field = "clear"
           /\ board' = IF at[s].field = "clear" THEN EmptyBoard
                       ELSE IF at[s].field = "board" THEN NewBoard ELSE board
           /\ player' = IF at[s].field = "clear" THEN PlayerWhite
                        ELSE IF at[s].field = "turn" THEN PlayerBlack ELSE player
           /\ flags' = IF at[s].field = "clear" THEN {} ELSE flags
           /\ score' = IF at[s].field = "clear" THEN [p \in Player |-> 0]
                       ELSE IF at[s].field = "score" THEN [p \in Player |-> 2] ELSE score
           /\ state' = IF at[s].field = "state" THEN "playing" ELSE state
<1>1. PICK f \in Field : at[s] = ResetField(f)
    BY WorkFacts DEF Reset, Goes
<1>2. at[s].field = f /\ at[s].op = "reset"
    BY <1>1, FieldFacts
<1>3. at'[s] = AfterField[at[s].field] /\ at'[Opponent(s)] = at[Opponent(s)]
    BY AtFacts DEF Reset, Goes
<1> QED
    BY <1>1, <1>2, <1>3 DEF Reset, SettingUp, Clears

\* Who writes to the game without setting it up is playing.
LEMMA PlayFacts ==
    ASSUME TypeInv, NEW s \in Player
    PROVE  /\ StoreMove(s) => Moving(s)
           /\ ApplyMove(s) => Moving(s)
           /\ HandleFinishMove(s) => Moving(s) \/ Ending(s)
           /\ StoreMove(s) \/ ApplyMove(s) \/ HandleFinishMove(s) => ~Reset(s)
<1>1. StoreMove(s) \/ ApplyMove(s) => /\ at[s].op \in {"move", "moving"} /\ at[s].ends = FALSE
    BY WorkFacts DEF StoreMove, ApplyMove, Goes
<1>2. HandleFinishMove(s) => at[s].op \in FinishOps
    BY FinishStep
<1> QED
    BY <1>1, <1>2 DEF Moving, Ending, Reset, Goes, FinishOps

LEMMA SetUpStep ==
    ASSUME TypeInv, ApartInv, SetUpInv, Next
    PROVE  SetUpInv'
<1>0. PICK s \in Player : Message(s) \/ GoOn(s)
    BY DEF Next
<1> DEFINE o == Opponent(s)
<1> SUFFICES ASSUME ~crossed', \E t \in Player : SettingUp(t)'
             PROVE  /\ flags' = {}
                    /\ player' = PlayerBlack \/ Pending({"turn"})'
                    /\ board' = NewBoard \/ Pending({"turn", "board"})'
                    /\ score' = [p \in Player |-> 2] \/ Pending({"turn", "board", "score"})'
    BY DEF SetUpInv
<1>1. at'[o] = at[o] /\ (SettingUp(o)' <=> SettingUp(o))
    BY <1>0, StepFrom DEF SettingUp
<1>2. CASE Clears(s)
    <2>1. Reset(s) /\ at[s].field = "clear"
        BY <1>2 DEF Clears
    <2>2. flags' = {} /\ at'[s] = ResetField("turn")
        BY <2>1, ResetSteps, FieldFacts
    <2> QED
        BY <2>2 DEF Pending
<1>3. CASE Reset(s) /\ ~Clears(s)
    <2>1. at[s].field # "clear" /\ at[s].field \in Field /\ at[s] = ResetField(at[s].field)
        BY <1>3, ResetSteps
    <2>2. ~crossed /\ SettingUp(s)
        BY <1>0, <1>3, CrossedStep, ResetSteps
    <2>3. /\ flags = {}
          /\ player = PlayerBlack \/ Pending({"turn"})
          /\ board = NewBoard \/ Pending({"turn", "board"})
          /\ score = [p \in Player |-> 2] \/ Pending({"turn", "board", "score"})
        BY <2>2 DEF SetUpInv
    <2>4. flags' = {}
        BY <1>3, <2>1, <2>3, ResetSteps
    \* What was pending still is, or s has written it.
    <2>5. ASSUME NEW fields \in SUBSET Field, Pending(fields), at[s].field \notin fields
          PROVE  Pending(fields)'
        <3>1. PICK t \in Player, f \in fields : at[t] = ResetField(f)
            BY <2>5 DEF Pending
        <3>2. t # s
            BY <2>1, <2>5, <3>1, FieldFacts
        <3> QED
            BY <1>1, <3>1, <3>2, OpponentFacts DEF Pending
    <2>6. player' = PlayerBlack \/ Pending({"turn"})'
        <3>1. CASE at[s].field = "turn"
            BY <1>3, <3>1, ResetSteps
        <3>2. CASE at[s].field # "turn"
            <4>1. player' = player /\ {"turn"} \in SUBSET Field
                BY <1>3, <2>1, <3>2, ResetSteps DEF Field
            <4> QED
                BY <2>3, <2>5, <3>2, <4>1
        <3> QED
            BY <3>1, <3>2
    <2>7. board' = NewBoard \/ Pending({"turn", "board"})'
        <3>1. CASE at[s].field = "turn"
            <4>1. at'[s] = ResetField("board")
                BY <1>3, <3>1, ResetSteps, FieldFacts
            <4> QED
                BY <4>1 DEF Pending
        <3>2. CASE at[s].field = "board"
            BY <1>3, <3>2, ResetSteps
        <3>3. CASE at[s].field \notin {"turn", "board"}
            <4>1. board' = board /\ {"turn", "board"} \in SUBSET Field
                BY <1>3, <2>1, <3>3, ResetSteps DEF Field
            <4> QED
                BY <2>3, <2>5, <3>3, <4>1
        <3> QED
            BY <3>1, <3>2, <3>3
    <2>8. score' = [p \in Player |-> 2] \/ Pending({"turn", "board", "score"})'
        <3>1. CASE at[s].field \in {"turn", "board"}
            <4>1. at'[s] \in {ResetField("board"), ResetField("score")}
                BY <1>3, <3>1, ResetSteps, FieldFacts
            <4> QED
                BY <4>1 DEF Pending
        <3>2. CASE at[s].field = "score"
            BY <1>3, <3>2, ResetSteps
        <3>3. CASE at[s].field \notin {"turn", "board", "score"}
            <4>1. score' = score /\ {"turn", "board", "score"} \in SUBSET Field
                BY <1>3, <2>1, <3>3, ResetSteps DEF Field
            <4> QED
                BY <2>3, <2>5, <3>3, <4>1
        <3> QED
            BY <3>1, <3>2, <3>3
    <2> QED
        BY <2>4, <2>6, <2>7, <2>8
<1>4. CASE ~Reset(s)
    <2>1. ~crossed /\ ~Clears(s)
        BY <1>0, <1>4, CrossedStep DEF Clears
    <2>2. ~SettingUp(s)
        BY <1>0, <1>4, OnlyStep DEF SettingUp
    <2>3. SettingUp(o)
        BY <1>0, <1>1, <2>1, <2>2, StepFrom, OpponentFacts
    <2>4. ~Moving(s) /\ ~Ending(s)
        BY <1>0, <2>1, <2>3, OpponentFacts DEF ApartInv
    <2>5. ~EndsGame(s)
        BY <1>0, <2>3, CrossedStep
    <2>6. board' = board /\ player' = player /\ flags' = flags /\ score' = score
        BY <1>0, <1>4, <2>4, <2>5, Effects, PlayFacts DEF HandleFinishMove
    <2>7. /\ flags = {}
          /\ player = PlayerBlack \/ Pending({"turn"})
          /\ board = NewBoard \/ Pending({"turn", "board"})
          /\ score = [p \in Player |-> 2] \/ Pending({"turn", "board", "score"})
        BY <1>0, <2>1, <2>3, OpponentFacts DEF SetUpInv
    <2>8. ASSUME NEW fields \in SUBSET {"turn", "board", "score"}, Pending(fields)
          PROVE  Pending(fields)'
        <3>1. PICK t \in Player, f \in fields : at[t] = ResetField(f)
            BY <2>8 DEF Pending
        <3>2. t # s
            BY <2>2, <3>1, FieldFacts DEF SettingUp, Field
        <3> QED
            BY <1>1, <3>1, <3>2, OpponentFacts DEF Pending
    <2> QED
        BY <2>6, <2>7, <2>8
<1> QED
    BY <1>2, <1>3, <1>4

-----------------------------------------------------------------------------
(* A move that is about to be stored *)

\* Until it is stored, a move is one of the board as it is.
MoveInv ==
    ~crossed => \A s \in Player : at[s].op = "move" =>
        \E sq \in Squares : /\ IsLegal(board, at[s].player, sq)
                            /\ at[s].board = BoardAfter(board, at[s].player, sq)

LEMMA OnlyApply ==
    ASSUME TypeInv, NEW s \in Player, Message(s) \/ GoOn(s), at'[s].op = "move"
    PROVE  ApplyMove(s)
<1>1. ~HandleNewGame(s)
    <2>1. HandleNewGame(s) => at'[s] = [op |-> "voted"]
        BY AtFacts DEF HandleNewGame, Goes
    <2> QED
        BY <2>1
<1>2. ~MovesNow(s) /\ ~EndsGame(s)
    BY BeginFacts
<1>3. ~CountVotes(s)
    <2>1. CountVotes(s) => at'[s] \in {ResetField("clear"), Idle}
        BY AtFacts DEF CountVotes, Goes
    <2> QED
        BY <2>1 DEF ResetField, Idle
<1>4. ~Reset(s)
    BY StepFrom, FieldFacts, ResetSteps DEF Field
<1>5. ~StoreMove(s)
    <2>1. StoreMove(s) => at'[s] = [op |-> "flip", ends |-> FALSE]
        BY AtFacts DEF StoreMove, Goes
    <2> QED
        BY <2>1
<1>6. ~HandleFinishMove(s)
    BY FinishStep DEF FinishOps, Idle
<1> QED
    BY <1>1, <1>2, <1>3, <1>4, <1>5, <1>6 DEF Message, GoOn, MovesNow, EndsGame

LEMMA MoveStep ==
    ASSUME TypeInv, ApartInv, MoveInv, Next
    PROVE  MoveInv'
<1>0. PICK s \in Player : Message(s) \/ GoOn(s)
    BY DEF Next
<1> DEFINE o == Opponent(s)
<1> SUFFICES ASSUME ~crossed', NEW t \in Player, at'[t].op = "move"
             PROVE  \E sq \in Squares : /\ IsLegal(board', at'[t].player, sq)
                                        /\ at'[t].board = BoardAfter(board', at'[t].player, sq)
    BY DEF MoveInv
<1>1. at'[o] = at[o]
    BY <1>0, StepFrom
<1>2. CASE t = s
    <2>1. ApplyMove(s)
        BY <1>0, <1>2, OnlyApply
    <2> DEFINE move == [op |-> "move", ends |-> FALSE, player |-> player,
                        board |-> BoardAfter(board, player, at[s].square)]
               legal == IsLegal(board, player, at[s].square)
    <2>2. at'[s] = IF legal THEN move ELSE Idle
        <3> DEFINE w == IF legal THEN move ELSE Idle
        <3>1. at' = [at EXCEPT ![s] = w]
            BY <2>1 DEF ApplyMove, Goes
        <3> HIDE DEF w
        <3>2. at'[s] = w
            BY <1>0, <3>1, AtFacts
        <3> QED
            BY <3>2 DEF w
    <2> HIDE DEF legal, move
    <2>3. legal /\ at'[s] = move
        BY <1>2, <2>2, FieldFacts
    <2>4. at[s].square \in Squares /\ board' = board
        BY <1>0, <2>1, WorkFacts DEF ApplyMove, Goes
    <2>5. at'[s].player = player /\ at'[s].board = BoardAfter(board, player, at[s].square)
        BY <2>3 DEF move
    <2> QED
        BY <1>2, <2>3, <2>4, <2>5 DEF legal
<1>3. CASE t = o
    <2>1. at[o].op = "move"
        BY <1>1, <1>3
    <2>2. at[o].ends = FALSE /\ o \in Player
        BY <1>0, <2>1, WorkFacts, OpponentFacts
    <2>3. Moving(o)
        BY <2>1, <2>2 DEF Moving
    <2>4. ~Clears(s) /\ ~crossed
        BY <1>0, <2>3, CrossedStep
    <2>5. ~Moving(s) /\ ~SettingUp(s)
        BY <1>0, <2>2, <2>3, <2>4, OpponentFacts DEF ApartInv
    <2>6. ~StoreMove(s) /\ ~Reset(s)
        BY <1>0, <2>4, <2>5, PlayFacts, ResetSteps
    <2>7. board' = board
        BY <1>0, <2>6, Effects
    <2> QED
        BY <1>1, <1>3, <2>1, <2>2, <2>4, <2>7 DEF MoveInv
<1> QED
    BY <1>0, <1>2, <1>3, OpponentFacts

-----------------------------------------------------------------------------
(* The turn *)

\* No message crossed another, and no game is being set up.
InStep == ~crossed /\ ~endCrossed /\ \A s \in Player : ~SettingUp(s)

MovesLeft == \E p \in Player : LegalMoveExists(board, p)

\* What HandleFinishMove has found out of the board is still so.
TurnOf(s) ==
    /\ at[s].op = "back" => ~LegalMoveExists(board, player)
    /\ at[s].op \in {"count", "flags", "scores", "over"} /\ MovesLeft => LegalMoveExists(board, player)
    /\ at[s].op = "flags" => at[s].flags = ResultFlags(board)
    /\ at[s].op \in {"flags", "scores"} => at[s].score = Scores(board)
    /\ at[s].op \in {"scores", "over", "end", "final"} => ResultFlags(board) \subseteq flags
    /\ at[s].op = "final" => state = "over"

Resting(s) == at[s].op \in {"idle", "voted", "reset", "moving", "move"}

\* The scores are those of the board, and when no seat is passing the turn, a game
\* that is not over waits for one who can move.
TurnInv ==
    InStep =>
        /\ score = Scores(board)
        /\ state # "over" /\ (\A s \in Player : Resting(s)) => LegalMoveExists(board, player)
        /\ \A s \in Player : TurnOf(s)

\* A step after which no message crossed another and no game is being set up.
LEMMA InStepFrom ==
    ASSUME TypeInv, ApartInv, NEW s \in Player, Message(s) \/ GoOn(s), InStep'
    PROVE  /\ ~Clears(s) /\ ~crossed /\ ~endCrossed
           /\ Reset(s) => /\ at[s].field = "state" /\ SettingUp(s) /\ at'[s] = Idle
                          /\ ~Moving(Opponent(s)) /\ ~Ending(Opponent(s))
           /\ ~Reset(s) => InStep
           /\ StoreMove(s) \/ HandleFinishMove(s) \/ EndsGame(s) =>
                ~Moving(Opponent(s)) /\ ~Ending(Opponent(s))
<1> DEFINE o == Opponent(s)
<1>1. /\ ~crossed' /\ ~endCrossed' /\ ~SettingUp(s)' /\ ~SettingUp(o)'
      /\ o \in Player /\ Opponent(o) = s /\ \A q \in Player : q = s \/ q = o
    BY OpponentFacts DEF InStep
<1>2. at'[o] = at[o] /\ (SettingUp(o)' <=> SettingUp(o))
    BY StepFrom DEF SettingUp
<1>3. ~Clears(s)
    <2>1. Clears(s) => at'[s] = ResetField("turn")
        BY ResetSteps, FieldFacts DEF Clears
    <2>2. at'[s] = ResetField("turn") => SettingUp(s)'
        BY FieldFacts DEF SettingUp, Field
    <2> QED
        BY <1>1, <2>1, <2>2
<1>4. ~crossed /\ ~endCrossed
    BY <1>1, <1>3, CrossedStep, EndCrossedStep
<1>5. ASSUME Reset(s)
      PROVE  /\ at[s].field = "state" /\ SettingUp(s) /\ at'[s] = Idle
             /\ ~Moving(o) /\ ~Ending(o)
    <2>1. at[s].field \in Field /\ at[s].field # "clear" /\ SettingUp(s) /\ at'[s] = AfterField[at[s].field]
        BY <1>3, <1>5, ResetSteps
    <2>2. at[s].field = "state"
        <3>1. at[s].field \notin {"clear", "state"} => \E g \in Field \ {"clear"} : at'[s] = ResetField(g)
            BY <2>1, FieldFacts DEF Field
        <3>2. (\E g \in Field \ {"clear"} : at'[s] = ResetField(g)) => SettingUp(s)'
            BY FieldFacts DEF SettingUp
        <3> QED
            BY <1>1, <2>1, <3>1, <3>2
    <2> QED
        BY <1>4, <2>1, <2>2, FieldFacts DEF ApartInv
<1>6. ~Reset(s) => InStep
    BY <1>1, <1>2, <1>4, OnlyStep DEF InStep, SettingUp
<1>7. StoreMove(s) \/ HandleFinishMove(s) => ~Moving(o) /\ ~Ending(o)
    BY <1>1, <1>4, PlayFacts DEF ApartInv
<1>8. EndsGame(s) => ~Moving(o) /\ ~Ending(o)
    BY <1>1, EndCrossedStep
<1> QED
    BY <1>3, <1>4, <1>5, <1>6, <1>7, <1>8

\* A goroutine that is not playing has found out nothing.
LEMMA NotPlaying ==
    ASSUME TypeInv, NEW s \in Player
    PROVE  /\ ~Moving(s) /\ ~Ending(s) <=> at[s].op \in {"idle", "voted", "reset"}
           /\ Resting(s) => TurnOf(s)
<1>1. at[s].op \notin {"idle", "voted", "reset"} => at[s].ends \in BOOLEAN
    BY WorkFacts DEF TypeInv, Work
<1> QED
    BY <1>1 DEF Moving, Ending, TurnOf, Resting

\* The board of a new game, when the last field of it is written.
LEMMA SetUpDone ==
    ASSUME TypeInv, ApartInv, SetUpInv, NEW s \in Player, Reset(s), Message(s) \/ GoOn(s), InStep'
    PROVE  /\ board' = NewBoard /\ player' = PlayerBlack /\ flags' = {}
           /\ score' = Scores(NewBoard) /\ state' = "playing"
           /\ \A t \in Player : at'[t].op \in {"idle", "voted", "reset"}
<1> DEFINE o == Opponent(s)
<1>1. /\ ~crossed /\ at[s].field = "state" /\ SettingUp(s) /\ at'[s] = Idle
      /\ ~Moving(o) /\ ~Ending(o)
    BY InStepFrom
<1>2. o \in Player /\ (\A q \in Player : q = s \/ q = o) /\ at'[o] = at[o]
    BY OpponentFacts, StepFrom
<1>3. ~SettingUp(o)
    <2>1. ~SettingUp(o)'
        BY <1>2 DEF InStep
    <2> QED
        BY <1>2, <2>1 DEF SettingUp
<1>4. ASSUME NEW fields \in SUBSET {"turn", "board", "score"}
      PROVE  ~Pending(fields)
    <2> SUFFICES ASSUME NEW t \in Player, NEW f \in fields, at[t] = ResetField(f) PROVE FALSE
        BY DEF Pending
    <2>1. at[t].op = "reset" /\ at[t].field = f /\ f \in {"turn", "board", "score"}
        BY FieldFacts DEF Field
    <2> QED
        BY <1>1, <1>2, <1>3, <2>1 DEF SettingUp
<1>5. /\ flags = {} /\ player = PlayerBlack /\ board = NewBoard /\ score = [p \in Player |-> 2]
    BY <1>1, <1>4 DEF SetUpInv
<1>6. at[o].op \in {"idle", "voted", "reset"}
    BY <1>1, <1>2, NotPlaying
<1> QED
    BY <1>1, <1>2, <1>5, <1>6, ResetSteps, NewScores, FieldFacts

LEMMA TurnInit == Init => TurnInv
<1> SUFFICES ASSUME Init PROVE TurnInv
    OBVIOUS
<1>1. \A s \in Player : at[s].op = "idle"
    BY FieldFacts DEF Init
<1>2. score = Scores(board) /\ LegalMoveExists(board, player)
    BY NewScores, BothCanStart DEF Init
<1> QED
    BY <1>1, <1>2 DEF TurnInv, TurnOf

\* A step that HandleFinishMove takes leaves what it found out true.
LEMMA TurnOfStep ==
    ASSUME TypeInv, NEW s \in Player, HandleFinishMove(s), TurnOf(s), score = Scores(board)
    PROVE  /\ board' = board /\ TurnOf(s)'
           /\ score' = Scores(board')
           /\ at'[s] = Idle => \/ state' = "over"
                               \/ MovesLeft /\ player' = player /\ LegalMoveExists(board, player)
<1>1. /\ Idle.op = "idle"
      /\ MovesLeft <=> ResultFlags(board) = {}
    BY FieldFacts, ResultFacts DEF MovesLeft
<1>2. CASE Flip(s)
    <2>1. at'[s].op = "look" /\ board' = board /\ score' = score
        BY <1>2, FinishFacts DEF Flip
    <2> QED
        BY <2>1, <1>1 DEF TurnOf
<1>3. CASE Look(s)
    <2>1. /\ at'[s].op = IF LegalMoveExists(board, player) THEN "count" ELSE "back"
          /\ board' = board /\ score' = score /\ player' = player
        BY <1>3, FinishFacts DEF Look
    <2> QED
        BY <2>1, <1>1 DEF TurnOf
<1>4. CASE FlipBack(s)
    <2>1. /\ at[s].op = "back" /\ at'[s].op = "count"
          /\ board' = board /\ score' = score /\ player' = Opponent(player)
        BY <1>4, FinishFacts DEF FlipBack
    <2>2. MovesLeft' => LegalMoveExists(board, Opponent(player))
        <3>1. ~LegalMoveExists(board, player) /\ player \in Player
            BY <2>1 DEF TurnOf, TypeInv
        <3>2. \A q \in Player : q = player \/ q = Opponent(player)
            BY <3>1, OpponentFacts
        <3> QED
            BY <2>1, <3>1, <3>2 DEF MovesLeft
    <2> QED
        BY <2>1, <2>2, <1>1 DEF TurnOf
<1>5. CASE CountBoard(s)
    <2>1. /\ at[s].op = "count" /\ at'[s].op = "flags"
          /\ at'[s].flags = ResultFlags(board) /\ at'[s].score = Scores(board)
          /\ board' = board /\ score' = score /\ player' = player
        BY <1>5, FinishFacts DEF CountBoard
    <2> QED
        BY <2>1, <1>1 DEF TurnOf, MovesLeft
<1>6. CASE AddFlags(s)
    <2>1. /\ at[s].op = "flags" /\ at'[s].op = "scores" /\ at'[s].score = at[s].score
          /\ board' = board /\ score' = score /\ player' = player
          /\ flags' = flags \cup at[s].flags
        BY <1>6, FinishFacts DEF AddFlags
    <2> QED
        BY <2>1, <1>1 DEF TurnOf, MovesLeft
<1>7. CASE StoreScores(s)
    <2>1. /\ at[s].op = "scores" /\ at'[s].op = "over" /\ score' = at[s].score
          /\ board' = board /\ flags' = flags /\ player' = player
        BY <1>7, FinishFacts DEF StoreScores
    <2> QED
        BY <2>1, <1>1 DEF TurnOf, MovesLeft
<1>8. CASE IsGameOver(s)
    <2>1. /\ at[s].op = "over" /\ score' = score
          /\ board' = board /\ flags' = flags /\ player' = player
          /\ ScoreOf(flags) = -1 => at'[s] = Idle
          /\ ScoreOf(flags) # -1 => at'[s].op = "end"
        BY <1>8, FinishFacts DEF IsGameOver
    <2>2. ScoreOf(flags) = -1 => MovesLeft /\ LegalMoveExists(board, player)
        <3>1. ResultFlags(board) \subseteq flags
            BY <2>1 DEF TurnOf
        <3>2. ScoreOf(flags) = -1 => ResultFlags(board) = {}
            BY <3>1, ScoreFacts, ResultFacts
        <3> QED
            BY <1>1, <2>1, <3>2 DEF TurnOf
    <2> QED
        BY <2>1, <2>2, <1>1 DEF TurnOf
<1>9. CASE EndState(s)
    <2>1. /\ at[s].op = "end" /\ at'[s].op = "final" /\ score' = score
          /\ board' = board /\ flags' = flags /\ state' = "over"
        BY <1>9, FinishFacts DEF EndState
    <2> QED
        BY <2>1, <1>1 DEF TurnOf
<1>10. CASE StoreFinal(s)
    <2>1. /\ at[s].op = "final" /\ at'[s] = Idle /\ score' = score
          /\ board' = board /\ state' = state
        BY <1>10, FinishFacts DEF StoreFinal
    <2> QED
        BY <2>1, <1>1 DEF TurnOf
<1> QED
    BY <1>2, <1>3, <1>4, <1>5, <1>6, <1>7, <1>8, <1>9, <1>10 DEF HandleFinishMove

LEMMA TurnStep ==
    ASSUME TypeInv, ApartInv, SetUpInv, TurnInv, Next
    PROVE  TurnInv'
<1>0. PICK s \in Player : Message(s) \/ GoOn(s)
    BY DEF Next
<1> DEFINE o == Opponent(s)
<1>1. o \in Player /\ (\A q \in Player : q = s \/ q = o) /\ at'[o] = at[o]
    BY <1>0, OpponentFacts, StepFrom
<1> SUFFICES ASSUME InStep'
             PROVE  /\ score' = Scores(board')
                    /\ state' # "over" /\ (\A t \in Player : Resting(t)') => LegalMoveExists(board', player')
                    /\ TurnOf(s)' /\ TurnOf(o)'
    BY <1>1 DEF TurnInv
<1>2. Resting(o)' <=> Resting(o)
    BY <1>1 DEF Resting
<1>3. CASE Reset(s)
    <2>1. /\ board' = NewBoard /\ player' = PlayerBlack /\ score' = Scores(NewBoard)
          /\ \A t \in Player : at'[t].op \in {"idle", "voted", "reset"}
        BY <1>0, <1>3, SetUpDone
    <2> QED
        BY <1>0, <1>1, <2>1, BothCanStart DEF TurnOf
<1>4. CASE ~Reset(s)
    <2>1. /\ score = Scores(board) /\ TurnOf(s) /\ TurnOf(o)
          /\ state # "over" /\ (\A t \in Player : Resting(t)) => LegalMoveExists(board, player)
        BY <1>0, <1>1, <1>4, InStepFrom DEF TurnInv
    <2>2. CASE HandleNewGame(s) \/ MovesNow(s) \/ CountVotes(s) \/ ApplyMove(s)
        <3>1. /\ board' = board /\ player' = player /\ flags' = flags /\ score' = score /\ state' = state
            BY <2>2 DEF HandleNewGame, MovesNow, HandleMove, CountVotes, ApplyMove
        <3>2. Resting(s) /\ at'[s].op \in {"idle", "voted", "reset", "moving", "move"}
            <4>1. CASE HandleNewGame(s)
                <5>1. at[s].op = "idle" /\ at'[s] = [op |-> "voted"]
                    BY <1>0, <4>1, AtFacts DEF HandleNewGame, Goes
                <5> QED
                    BY <5>1 DEF Resting
            <4>2. CASE MovesNow(s)
                BY <1>0, <4>2, BeginFacts DEF Resting
            <4>3. CASE CountVotes(s)
                <5>1. at[s].op = "voted" /\ at'[s] \in {ResetField("clear"), Idle}
                    BY <1>0, <4>3, AtFacts DEF CountVotes, Goes
                <5> QED
                    BY <5>1 DEF Resting, ResetField, Idle
            <4>4. CASE ApplyMove(s)
                <5> DEFINE copy == [op |-> "move", ends |-> FALSE, player |-> player,
                                    board |-> BoardAfter(board, player, at[s].square)]
                <5>1. at[s].op = "moving" /\ at'[s] \in {copy, Idle}
                    BY <1>0, <4>4, AtFacts DEF ApplyMove, Goes
                <5>2. copy.op = "move"
                    OBVIOUS
                <5> HIDE DEF copy
                <5> QED
                    BY <5>1, <5>2, FieldFacts DEF Resting
            <4> QED
                BY <2>2, <4>1, <4>2, <4>3, <4>4
        <3>3. TurnOf(s)'
            BY <3>2 DEF TurnOf
        <3>4. TurnOf(o)'
            BY <1>1, <2>1, <3>1 DEF TurnOf, MovesLeft
        <3>5. (\A t \in Player : Resting(t)') => \A t \in Player : Resting(t)
            BY <1>1, <1>2, <3>2
        <3> QED
            BY <2>1, <3>1, <3>3, <3>4, <3>5
    <2>3. CASE EndsGame(s) \/ StoreMove(s)
        <3>1. at[o].op \in {"idle", "voted", "reset"}
            BY <1>0, <1>1, <2>3, InStepFrom, NotPlaying
        <3>2. at'[s].op = "flip"
            <4>1. StoreMove(s) => at'[s] = [op |-> "flip", ends |-> FALSE]
                BY <1>0, AtFacts DEF StoreMove, Goes
            <4>2. StoreMove(s) => at'[s].op = "flip"
                BY <4>1
            <4> QED
                BY <1>0, <2>3, <4>2, BeginFacts
        <3>3. score' = Scores(board')
            BY <2>1, <2>3 DEF EndsGame, HandleEndGame, StoreMove
        <3>4. TurnOf(s)' /\ TurnOf(o)'
            BY <1>1, <3>1, <3>2 DEF TurnOf
        <3>5. ~Resting(s)'
            BY <3>2 DEF Resting
        <3> QED
            BY <1>0, <3>3, <3>4, <3>5
    <2>4. CASE HandleFinishMove(s)
        <3>1. at[o].op \in {"idle", "voted", "reset"}
            BY <1>0, <1>1, <2>4, InStepFrom, NotPlaying
        <3>2. /\ board' = board /\ TurnOf(s)' /\ score' = Scores(board')
              /\ at'[s] = Idle => \/ state' = "over"
                                  \/ MovesLeft /\ player' = player /\ LegalMoveExists(board, player)
            BY <1>0, <2>1, <2>4, TurnOfStep
        <3>3. TurnOf(o)'
            BY <1>1, <3>1 DEF TurnOf
        <3>4. at'[s] # Idle => ~Resting(s)'
            BY <1>0, <2>4, FinishStep DEF FinishOps, Resting
        <3> QED
            BY <1>0, <3>2, <3>3, <3>4
    <2> QED
        BY <1>0, <1>4, <2>2, <2>3, <2>4 DEF Message, GoOn, MovesNow, EndsGame
<1> QED
    BY <1>3, <1>4

-----------------------------------------------------------------------------
(* The result *)

\* A client ends a game only by giving up or running out of time.
LossOnly == \A f \in EndFlags : f \cap {"resign", "timeLoss"} # {}

Clean == flags \cap {"resign", "timeLoss"} = {}

ResultOf(s) ==
    /\ Moving(s) /\ at[s].op # "final" => state = "playing"
    /\ at[s].op \in {"end", "final"} => at[s].result = ScoreOf(flags) /\ at[s].result # -1
    /\ Ending(s) => ~Clean

\* In a game that nobody gave up the flags are those of the board.
ResultInv ==
    InStep =>
        /\ \A s \in Player : ResultOf(s)
        /\ Clean => flags = ResultFlags(board)
        /\ Clean /\ state = "over" /\ (\A s \in Player : at[s].op # "final") =>
              finalScore = ScoreOf(flags) /\ finalScore # -1

LEMMA ResultInit == Init => ResultInv
<1> SUFFICES ASSUME Init PROVE ResultInv
    OBVIOUS
<1>1. \A s \in Player : at[s].op = "idle"
    BY FieldFacts DEF Init
<1>2. flags = {} /\ ResultFlags(board) = {} /\ state = "waiting"
    <2>1. \E p \in Player : LegalMoveExists(NewBoard, p)
        BY BothCanStart, PieceFacts
    <2> QED
        BY <2>1, ResultFacts DEF Init
<1> QED
    BY <1>1, <1>2 DEF ResultInv, ResultOf, Moving, Ending

\* Who is not playing has no result to write.
LEMMA NoResult ==
    ASSUME NEW s \in Player, at[s].op \in {"idle", "voted", "reset"}
    PROVE  ResultOf(s)
BY DEF ResultOf, Moving, Ending

\* A step of HandleFinishMove, when it knows of the board what is so.
LEMMA ResultOfStep ==
    ASSUME TypeInv, NEW s \in Player, HandleFinishMove(s), TurnOf(s), ResultOf(s),
           Clean => flags = ResultFlags(board),
           \A t \in Player : at[t].op = "final" => t = s,
           Clean /\ state = "over" /\ (\A t \in Player : at[t].op # "final") =>
              finalScore = ScoreOf(flags) /\ finalScore # -1
    PROVE  /\ ResultOf(s)'
           /\ Clean' => flags' = ResultFlags(board')
           /\ Clean' /\ state' = "over" /\ at'[s].op # "final" =>
                finalScore' = ScoreOf(flags') /\ finalScore' # -1
<1> DEFINE F == Clean' => flags' = ResultFlags(board')
           S == Clean' /\ state' = "over" /\ at'[s].op # "final" =>
                    finalScore' = ScoreOf(flags') /\ finalScore' # -1
<1>1. /\ at[s].op \in FinishOps /\ at[s].ends \in BOOLEAN
      /\ at'[s] = Idle \/ (at'[s].op \in FinishOps /\ at'[s].ends = at[s].ends)
    BY FinishStep
<1>2. /\ Moving(s) <=> ~at[s].ends
      /\ Ending(s) <=> at[s].ends
      /\ Moving(s)' => ~at[s].ends
      /\ Ending(s)' => at[s].ends
    BY <1>1 DEF Moving, Ending, FinishOps, Idle
<1>3. at[s].op # "final" => \A t \in Player : at[t].op # "final"
    OBVIOUS
<1>4. CASE Flip(s) \/ Look(s) \/ FlipBack(s) \/ CountBoard(s) \/ StoreScores(s)
    <2>1. /\ board' = board /\ flags' = flags /\ state' = state /\ finalScore' = finalScore
          /\ at[s].op \notin {"end", "final"} /\ at'[s].op \notin {"end", "final"}
        BY <1>4, FinishFacts DEF Flip, Look, FlipBack, CountBoard, StoreScores
    <2>2. ResultOf(s)'
        BY <1>2, <2>1 DEF ResultOf, Clean
    <2> QED
        BY <1>3, <2>1, <2>2 DEF Clean
<1>5. CASE AddFlags(s)
    <2>1. /\ board' = board /\ state' = state /\ finalScore' = finalScore
          /\ at[s].op = "flags" /\ at'[s].op = "scores"
          /\ flags' = flags \cup at[s].flags
        BY <1>5, FinishFacts DEF AddFlags
    <2>2. at[s].flags = ResultFlags(board)
        BY <2>1 DEF TurnOf
    <2>3. Clean' <=> Clean
        BY <2>1, <2>2, ResultFacts DEF Clean
    <2>4. Clean => flags' = flags
        BY <2>1, <2>2
    <2>5. ResultOf(s)'
        BY <1>2, <2>1, <2>3 DEF ResultOf
    <2> QED
        BY <1>3, <2>1, <2>3, <2>4, <2>5
<1>6. CASE IsGameOver(s)
    <2>1. /\ board' = board /\ flags' = flags /\ state' = state /\ finalScore' = finalScore
          /\ at[s].op = "over"
          /\ ScoreOf(flags) = -1 => at'[s] = Idle
          /\ ScoreOf(flags) # -1 => at'[s].op = "end" /\ at'[s].result = ScoreOf(flags)
        BY <1>6, FinishFacts DEF IsGameOver
    <2>2. ResultOf(s)'
        <3>1. /\ Moving(s)' => state' = "playing"
              /\ Ending(s)' => ~Clean'
            BY <1>2, <2>1 DEF ResultOf, Clean
        <3>2. at'[s].op \in {"end", "final"} => at'[s].result = ScoreOf(flags') /\ at'[s].result # -1
            BY <2>1, FieldFacts
        <3> QED
            BY <3>1, <3>2 DEF ResultOf
    <2> QED
        BY <1>3, <2>1, <2>2 DEF Clean
<1>7. CASE EndState(s)
    <2>1. /\ board' = board /\ flags' = flags /\ state' = "over" /\ finalScore' = finalScore
          /\ at[s].op = "end" /\ at'[s].op = "final" /\ at'[s].result = at[s].result
        BY <1>7, FinishFacts DEF EndState
    <2>2. ResultOf(s)'
        BY <1>2, <2>1 DEF ResultOf, Clean
    <2> QED
        BY <2>1, <2>2 DEF Clean
<1>8. CASE StoreFinal(s)
    <2>1. /\ board' = board /\ flags' = flags /\ state' = state /\ finalScore' = at[s].result
          /\ at[s].op = "final" /\ at'[s] = Idle
        BY <1>8, FinishFacts DEF StoreFinal
    <2>2. ResultOf(s)'
        BY <2>1, FieldFacts DEF ResultOf, Moving, Ending
    <2>3. finalScore' = ScoreOf(flags') /\ finalScore' # -1
        BY <2>1 DEF ResultOf
    <2> QED
        BY <2>1, <2>2, <2>3 DEF Clean
<1> QED
    BY <1>4, <1>5, <1>6, <1>7, <1>8 DEF HandleFinishMove

LEMMA ResultStep ==
    ASSUME LossOnly, TypeInv, ApartInv, SetUpInv, TurnInv, ResultInv, Next
    PROVE  ResultInv'
<1>0. PICK s \in Player : Message(s) \/ GoOn(s)
    BY DEF Next
<1> DEFINE o == Opponent(s)
           F == Clean' => flags' = ResultFlags(board')
           S == Clean' /\ state' = "over" /\ (\A t \in Player : at'[t].op # "final") =>
                    finalScore' = ScoreOf(flags') /\ finalScore' # -1
<1>1. o \in Player /\ (\A q \in Player : q = s \/ q = o) /\ at'[o] = at[o]
    BY <1>0, OpponentFacts, StepFrom
<1> SUFFICES ASSUME InStep'
             PROVE  ResultOf(s)' /\ ResultOf(o)' /\ F /\ S
    BY <1>1 DEF ResultInv
<1>2. at[o].op \in {"idle", "voted", "reset"} => ResultOf(o)'
    BY <1>1 DEF ResultOf, Moving, Ending
<1>3. CASE Reset(s)
    <2>1. /\ board' = NewBoard /\ flags' = {} /\ state' = "playing"
          /\ \A t \in Player : at'[t].op \in {"idle", "voted", "reset"}
        BY <1>0, <1>3, SetUpDone
    <2>2. ResultFlags(NewBoard) = {}
        BY BothCanStart, PieceFacts, ResultFacts
    <2> QED
        BY <1>0, <1>1, <2>1, <2>2 DEF ResultOf, Moving, Ending
<1>4. CASE ~Reset(s)
    <2>1. /\ ResultOf(s) /\ ResultOf(o) /\ TurnOf(s)
          /\ Clean => flags = ResultFlags(board)
          /\ Clean /\ state = "over" /\ (\A t \in Player : at[t].op # "final") =>
                finalScore = ScoreOf(flags) /\ finalScore # -1
        BY <1>0, <1>1, <1>4, InStepFrom DEF TurnInv, ResultInv
    <2>2. CASE HandleNewGame(s) \/ MovesNow(s) \/ CountVotes(s) \/ ApplyMove(s)
        <3>1. /\ board' = board /\ flags' = flags /\ state' = state /\ finalScore' = finalScore
            BY <2>2 DEF HandleNewGame, MovesNow, HandleMove, CountVotes, ApplyMove
        <3>2. /\ at[s].op \notin {"end", "final"} /\ at'[s].op \notin {"end", "final"}
              /\ Moving(s)' => state' = "playing"
              /\ ~Ending(s)'
            <4>1. CASE HandleNewGame(s)
                <5>1. at[s].op = "idle" /\ at'[s] = [op |-> "voted"]
                    BY <1>0, <4>1, AtFacts DEF HandleNewGame, Goes
                <5> QED
                    BY <5>1 DEF Moving, Ending
            <4>2. CASE MovesNow(s)
                <5>1. at[s].op = "idle" /\ at'[s].op = "moving" /\ at'[s].ends = FALSE
                    BY <1>0, <4>2, BeginFacts
                <5>2. state = "playing"
                    BY <4>2 DEF MovesNow, HandleMove
                <5> QED
                    BY <3>1, <5>1, <5>2 DEF Ending
            <4>3. CASE CountVotes(s)
                <5>1. at[s].op = "voted" /\ at'[s] \in {ResetField("clear"), Idle}
                    BY <1>0, <4>3, AtFacts DEF CountVotes, Goes
                <5> QED
                    BY <5>1 DEF Moving, Ending, ResetField, Idle
            <4>4. CASE ApplyMove(s)
                <5> DEFINE copy == [op |-> "move", ends |-> FALSE, player |-> player,
                                    board |-> BoardAfter(board, player, at[s].square)]
                <5>1. at[s].op = "moving" /\ at[s].ends = FALSE /\ at'[s] \in {copy, Idle}
                    BY <1>0, <4>4, AtFacts, WorkFacts DEF ApplyMove, Goes
                <5>2. copy.op = "move" /\ copy.ends = FALSE
                    OBVIOUS
                <5> HIDE DEF copy
                <5>3. state = "playing"
                    BY <2>1, <5>1 DEF ResultOf, Moving
                <5> QED
                    BY <3>1, <5>1, <5>2, <5>3, FieldFacts DEF Moving, Ending
            <4> QED
                BY <2>2, <4>1, <4>2, <4>3, <4>4
        <3>3. ResultOf(s)'
            BY <3>2 DEF ResultOf
        <3>4. ResultOf(o)'
            BY <1>1, <2>1, <3>1 DEF ResultOf, Moving, Ending, Clean
        <3>5. (\A t \in Player : at'[t].op # "final") => \A t \in Player : at[t].op # "final"
            BY <1>1, <3>2
        <3> QED
            BY <2>1, <3>1, <3>3, <3>4, <3>5 DEF Clean
    <2>3. CASE EndsGame(s)
        <3>1. at[o].op \in {"idle", "voted", "reset"}
            BY <1>0, <1>1, <2>3, InStepFrom, NotPlaying
        <3>2. at'[s].op = "flip" /\ at'[s].ends = TRUE
            BY <1>0, <2>3, BeginFacts
        <3>3. ~Clean'
            BY <2>3 DEF EndsGame, HandleEndGame, LossOnly, Clean
        <3>4. ResultOf(s)'
            BY <3>2, <3>3 DEF ResultOf, Moving, Ending
        <3> QED
            BY <1>2, <3>1, <3>3, <3>4
    <2>4. CASE StoreMove(s)
        <3>1. at[o].op \in {"idle", "voted", "reset"}
            BY <1>0, <1>1, <2>4, InStepFrom, NotPlaying
        <3>2. at'[s].op = "flip" /\ at'[s].ends = FALSE
            <4>1. at'[s] = [op |-> "flip", ends |-> FALSE]
                BY <1>0, <2>4, AtFacts DEF StoreMove, Goes
            <4> QED
                BY <4>1
        <3>3. state = "playing"
            <4>1. Moving(s) /\ at[s].op = "move"
                BY <1>0, <2>4, PlayFacts DEF StoreMove, Goes
            <4> QED
                BY <2>1, <4>1 DEF ResultOf
        <3>4. flags' = ResultFlags(board') /\ state' = state
            BY <2>4 DEF StoreMove
        <3>5. ResultOf(s)'
            BY <3>2, <3>3, <3>4 DEF ResultOf, Moving, Ending
        <3> QED
            BY <1>2, <3>1, <3>3, <3>4, <3>5
    <2>5. CASE HandleFinishMove(s)
        <3>1. at[o].op \in {"idle", "voted", "reset"}
            BY <1>0, <1>1, <2>5, InStepFrom, NotPlaying
        <3>2. \A t \in Player : at[t].op = "final" => t = s
            BY <1>1, <3>1
        <3>3. /\ ResultOf(s)' /\ F
              /\ Clean' /\ state' = "over" /\ at'[s].op # "final" =>
                    finalScore' = ScoreOf(flags') /\ finalScore' # -1
            BY <1>0, <2>1, <2>5, <3>2, ResultOfStep
        <3> QED
            BY <1>0, <1>2, <3>1, <3>3
    <2> QED
        BY <1>0, <1>4, <2>2, <2>3, <2>4, <2>5 DEF Message, GoOn, MovesNow, EndsGame
<1> QED
    BY <1>3, <1>4

-----------------------------------------------------------------------------
(* Theorems *)

Inv == TypeInv /\ ApartInv /\ SetUpInv /\ MoveInv /\ TurnInv

\* What a state says is said again by one that is the same.
LEMMA InvStutter == Inv /\ UNCHANGED vars => Inv'
BY DEF Inv, vars, crossings, TypeInv, ApartInv, SetUpInv, Pending, MoveInv, TurnInv, InStep, TurnOf,
   Resting, MovesLeft, SettingUp, Moving, Ending

LEMMA InvHolds == Spec => []Inv
<1>1. Init => Inv
    <2> SUFFICES ASSUME Init PROVE Inv
        OBVIOUS
    <2>1. \A s \in Player : at[s] = Idle /\ at[s].op = "idle"
        BY FieldFacts DEF Init
    <2>2. ApartInv /\ SetUpInv /\ MoveInv
        BY <2>1 DEF ApartInv, SetUpInv, MoveInv, SettingUp, Moving, Ending
    <2> QED
        BY <2>2, TypeInit, TurnInit DEF Inv
<1>2. Inv /\ [Next]_vars => Inv'
    <2>1. Inv /\ Next => Inv'
        BY TypeStep, ApartStep, SetUpStep, MoveStep, TurnStep DEF Inv
    <2> QED
        BY <2>1, InvStutter
<1> QED
    BY <1>1, <1>2, PTL DEF Spec

\* Every variable keeps its type, whatever the clients send and when.
THEOREM TypeCorrect == Spec => []TypeOK
<1>1. Inv => TypeOK
    BY TypeInvTypes DEF Inv
<1> QED
    BY <1>1, InvHolds, PTL

\* In a game in which no message crossed another, the turn is never left with a
\* player who cannot move while the other waits for it (HandleFinishMove).
THEOREM TurnNeverStuck == Spec => []NobodyIsStuck
<1>1. ASSUME Inv PROVE NobodyIsStuck
    <2> SUFFICES ASSUME ~crossed, ~endCrossed, state = "playing", Quiet
                 PROVE  LegalMoveExists(board, player)
        BY DEF NobodyIsStuck
    <2>1. \A s \in Player : at[s].op = "idle"
        BY FieldFacts DEF Quiet
    <2> QED
        BY <1>1, <2>1 DEF Inv, TurnInv, InStep, SettingUp, Resting
<1> QED
    BY <1>1, InvHolds, PTL

\* Where clients end a game only by giving up or running out of time, a game in which
\* no message crossed another and that nobody gave up is over exactly when neither can
\* move, and the count of its board is the result (calculateScores, isGameOver).
THEOREM ResultIsTheCount == LossOnly => (Spec => []ResultByCount)
<1> SUFFICES ASSUME LossOnly PROVE Spec => []ResultByCount
    OBVIOUS
<1>1. Init => ResultInv
    BY ResultInit
<1>2. Inv /\ ResultInv /\ [Next]_vars => ResultInv'
    <2>1. Inv /\ ResultInv /\ Next => ResultInv'
        BY ResultStep DEF Inv
    <2>2. ResultInv /\ UNCHANGED vars => ResultInv'
        BY DEF vars, crossings, ResultInv, InStep, ResultOf, Clean, SettingUp, Moving, Ending
    <2> QED
        BY <2>1, <2>2
<1>3. ASSUME Inv, ResultInv PROVE ResultByCount
    <2> DEFINE white == Count(board, PlayerWhite)
               black == Count(board, PlayerBlack)
    <2> SUFFICES ASSUME ~crossed, ~endCrossed, Quiet, state # "waiting"
                 PROVE  /\ score = Scores(board)
                        /\ state = "playing" => MovesLeft
                        /\ state = "over" /\ Clean =>
                             /\ ~MovesLeft
                             /\ finalScore = CASE white > black -> ScoreWhiteWins
                                               [] white < black -> ScoreBlackWins
                                               [] OTHER -> ScoreDraw
        BY DEF ResultByCount, MovesLeft, Clean
    <2>1. \A s \in Player : at[s].op = "idle"
        BY FieldFacts DEF Quiet
    <2>2. InStep /\ \A s \in Player : Resting(s)
        BY <2>1 DEF InStep, SettingUp, Resting
    <2>3. score = Scores(board)
        BY <1>3, <2>2 DEF Inv, TurnInv
    <2>4. state = "playing" => MovesLeft
        BY <1>3, <2>2 DEF Inv, TurnInv, TypeInv, MovesLeft
    <2>5. ASSUME state = "over", Clean
          PROVE  /\ ~MovesLeft
                 /\ finalScore = CASE white > black -> ScoreWhiteWins
                                   [] white < black -> ScoreBlackWins
                                   [] OTHER -> ScoreDraw
        <3>1. flags = ResultFlags(board) /\ finalScore = ScoreOf(flags) /\ finalScore # -1
            BY <1>3, <2>1, <2>2, <2>5 DEF ResultInv
        <3>2. ~MovesLeft
            <4>1. ResultFlags(board) = {} => ScoreOf(flags) = -1
                BY <3>1 DEF ScoreOf
            <4> QED
                BY <3>1, <4>1, ResultFacts DEF MovesLeft
        <3>3. flags = CASE white > black -> {"whiteWins"}
                        [] white < black -> {"blackWins"}
                        [] OTHER -> {"draw"}
            BY <3>1, <3>2 DEF ResultFlags, MovesLeft
        <3>4. white \in Nat /\ black \in Nat
            <4>1. \A n \in 0 .. Rows * Cols : n \in Nat
                OBVIOUS
            <4> QED
                BY <4>1, CountTyped
        <3> HIDE DEF white, black
        <3>5. CASE white > black
            <4>1. flags = {"whiteWins"}
                BY <3>3, <3>4, <3>5
            <4> QED
                BY <3>1, <3>2, <3>4, <3>5, <4>1 DEF ScoreOf
        <3>6. CASE white < black
            <4>1. flags = {"blackWins"}
                BY <3>3, <3>4, <3>6
            <4> QED
                BY <3>1, <3>2, <3>4, <3>6, <4>1 DEF ScoreOf
        <3>7. CASE ~(white > black) /\ ~(white < black)
            <4>1. flags = {"draw"}
                BY <3>3, <3>7
            <4>2. ScoreOf(flags) = ScoreDraw
                BY <4>1 DEF ScoreOf
            <4> QED
                BY <3>1, <3>2, <3>7, <4>2
        <3> QED
            BY <3>5, <3>6, <3>7
    <2> QED
        BY <2>3, <2>4, <2>5
<1> QED
    BY <1>1, <1>2, <1>3, InvHolds, PTL DEF Spec

\* What a move changes on the board: a piece of p on the empty square, and those turned.
LEMMA MoveFacts ==
    ASSUME NEW b \in Boards, NEW p \in Player, NEW sq \in Squares, IsLegal(b, p, sq),
           NEW after, after = BoardAfter(b, p, sq)
    PROVE  /\ {s \in Squares : after[s] # b[s] /\ b[s] = None} = {sq}
           /\ {s \in Squares : after[s] # b[s] /\ b[s] # None} = Flips(b, p, sq)
           /\ \A s \in Squares : after[s] # b[s] => after[s] = PieceOf(p)
<1>1. \A s \in Squares : after[s] = IF s = sq \/ s \in Flips(b, p, sq) THEN PieceOf(p) ELSE b[s]
    BY AfterTyped
<1>2. \A f \in Flips(b, p, sq) : f \in Squares /\ b[f] = PieceOf(Opponent(p))
    BY FlipsAreTheOpponents
<1>3. b[sq] = None
    BY DEF IsLegal
<1>4. PieceOf(p) # None /\ PieceOf(Opponent(p)) # None /\ PieceOf(p) # PieceOf(Opponent(p))
    BY PieceFacts
<1> QED
    BY <1>1, <1>2, <1>3, <1>4


\* In a game in which no move crossed a move or the set-up, a move that is stored is a
\* legal one of the board as it is then, also when an EndGame crosses it, although it
\* is made on a copy (HandleMove, applyMove).
THEOREM MovesOneAtATime == Spec => OneMoveAtATime
<1> DEFINE A == board' # board /\ (\E s \in Player : at[s].op = "move" /\ at'[s] # at[s]) /\ ~crossed =>
        \E p \in Player :
            LET turned == {sq \in Squares : board'[sq] # board[sq] /\ board[sq] # None}
            IN /\ Cardinality({sq \in Squares : board'[sq] # board[sq] /\ board[sq] = None}) = 1
               /\ \A sq \in Squares : board'[sq] # board[sq] => board'[sq] = PieceOf(p)
               /\ turned # {}
               /\ \A sq \in turned : \E r1, r2 \in Rays[sq] :
                    /\ r1 # r2 /\ Len(r1) > 0 /\ Len(r2) > 0
                    /\ r1[1][1] + r2[1][1] = 2 * sq[1] /\ r1[1][2] + r2[1][2] = 2 * sq[2]
                    /\ {board'[r1[1]], board'[r2[1]]} = {PieceOf(p)}
<1>1. ASSUME Inv, Next PROVE A
    <2> SUFFICES ASSUME board' # board, ~crossed, NEW s \in Player, at[s].op = "move", at'[s] # at[s]
                 PROVE  A
        OBVIOUS
    <2>1. PICK t \in Player : Message(t) \/ GoOn(t)
        BY <1>1 DEF Next
    <2>2. t = s
        <3>1. at'[Opponent(t)] = at[Opponent(t)]
            BY <1>1, <2>1, StepFrom DEF Inv
        <3> QED
            BY <3>1, OpponentFacts
    <2>3. StoreMove(s)
        BY <2>1, <2>2, OnlyStep
    <2>4. at[s].player \in Player /\ board \in Boards
        BY <1>1, WorkFacts DEF Inv, TypeInv
    <2> DEFINE p == at[s].player
    <2>5. PICK sq \in Squares : IsLegal(board, p, sq) /\ board' = BoardAfter(board, p, sq)
        BY <1>1, <2>3 DEF Inv, MoveInv, StoreMove
    <2> HIDE DEF p
    <2> DEFINE turned == {x \in Squares : board'[x] # board[x] /\ board[x] # None}
               filled == {x \in Squares : board'[x] # board[x] /\ board[x] = None}
    <2>6. p \in Player
        BY <2>4 DEF p
    <2>7. /\ filled = {sq} /\ turned = Flips(board, p, sq)
          /\ \A x \in Squares : board'[x] # board[x] => board'[x] = PieceOf(p)
        BY <2>4, <2>5, <2>6, MoveFacts
    <2>8. Cardinality(filled) = 1
        BY <2>7, FS_Singleton
    <2>9. turned # {}
        BY <2>5, <2>7 DEF IsLegal
    <2>10. \A f \in turned : Between(board', p, f)
        <3>1. \A f \in Flips(board, p, sq) : Between(BoardAfter(board, p, sq), p, f)
            BY <2>4, <2>6, TurnedBetween
        <3> QED
            BY <2>5, <2>7, <3>1
    <2> QED
        BY <2>6, <2>7, <2>8, <2>9, <2>10 DEF Between
<1>2. Inv /\ [Next]_vars => [A]_vars
    BY <1>1
<1> QED
    BY <1>2, InvHolds, PTL DEF Spec, OneMoveAtATime
=============================================================================
