------------------------------ MODULE MCReversi ------------------------------
(***************************************************************************)
(* Reversi on a board of four rows and three columns, for TLC.             *)
(***************************************************************************)
EXTENDS Reversi

\* Giving up, and a clock run out.
SentFlags == {{"resign"}, {"timeLoss"}}

\* Bounds: a game is followed up to a move that crossed another or the set-up, and
\* once an EndGame crossed something as long as there are at most so many pieces.
MaxPieces == 6
InStep ==
    ~crossed /\ (endCrossed => Cardinality({sq \in Squares : board[sq] # None}) <= MaxPieces)
=============================================================================
