------------------------------ MODULE MCHearts ------------------------------
(***************************************************************************)
(* Small instances of Hearts for TLC.                                       *)
(* The deck has two ranks (eight cards, two to a seat) and four points: the *)
(* hearts and the queen of spades, which counts two.                        *)
(*   clubs 0 1   diamonds 2 3   spades 4 5   hearts 6 7                     *)
(***************************************************************************)
EXTENDS Hearts

\* Who is dealt cards 0 .. 7.
DealOf(owners) == [c \in Card |-> owners[c + 1]]

\* Everybody has a point card or may get one; seat 1 has only high cards.
MixedDeal == DealOf(<<0, 1, 2, 1, 0, 3, 2, 3>>)

\* Seat 2 has the two of clubs and seat 3 both spades.
SpadesDeal == DealOf(<<2, 0, 0, 2, 3, 3, 1, 1>>)

TwoDeals == {MixedDeal, SpadesDeal}
OneDeal == {MixedDeal}
=============================================================================
