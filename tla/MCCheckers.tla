----------------------------- MODULE MCCheckers -----------------------------
(***************************************************************************)
(* Small Checkers for TLC: five rows of three columns, of which each player *)
(* fills two, that is three pawns against three and room to jump twice.     *)
(***************************************************************************)
EXTENDS Checkers

\* What ends a game by message.
GivesUp == {{"resign"}}

\* Bound: a game is followed up to a message that crossed another.
InStep == ~crossed
=============================================================================
