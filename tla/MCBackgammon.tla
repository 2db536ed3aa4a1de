---------------------------- MODULE MCBackgammon ----------------------------
(***************************************************************************)
(* Backgammon with a die of two sides, for TLC.                              *)
(***************************************************************************)
EXTENDS Backgammon

\* Both sides of the die.
TwoSides == {1, 2}
=============================================================================
