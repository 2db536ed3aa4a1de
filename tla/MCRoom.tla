------------------------------- MODULE MCRoom -------------------------------
(***************************************************************************)
(* Small instances of Room for TLC.  Seats per game: checkers 2, hearts 3   *)
(* in place of 4; a table is created with 3 seats in place of 8, so that    *)
(* a two-player game always resizes its table and hearts never does.        *)
(***************************************************************************)
EXTENDS Room, TLC

CONSTANTS Checkers, Hearts

MCSeatsOf == [g \in Game |-> IF g = Checkers THEN 2 ELSE 3]

\* Polite clients are for checkers, the others for either game.
MCAsks == [p \in Player |-> IF p \in Polite THEN {Checkers} ELSE {Checkers, Hearts}]

\* Players are interchangeable, as far as they are equally polite: nothing in
\* Room orders them.
Symmetry == Permutations(Polite) \cup Permutations(Player \ Polite)
=============================================================================
