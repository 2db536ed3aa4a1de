------------------------------ MODULE MCSpades ------------------------------
(***************************************************************************)
(* A small instance of Spades for TLC.                                      *)
(* The deck has two ranks: eight cards, two to a seat.                      *)
(*   diamonds 0 1   clubs 2 3   hearts 4 5   spades 6 7                     *)
(***************************************************************************)
EXTENDS Spades

MinusThree == -3

\* Who is dealt cards 0 .. 7.
DealOf(owners) == [c \in Card |-> owners[c + 1]]

\* Seat 0 has nothing but spades; the others can follow suit now and then.
AllSpadesDeal == DealOf(<<1, 2, 1, 3, 2, 3, 0, 0>>)

OneDeal == {AllSpadesDeal}
=============================================================================
