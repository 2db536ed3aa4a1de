----------------------------- MODULE MCRoomFair -----------------------------
(***************************************************************************)
(* Room under fairness, and as an implementation of Matchmaking.            *)
(***************************************************************************)
EXTENDS MCRoom

\* Every client is for checkers.
AllCheckers == [p \in Player |-> {Checkers}]
=============================================================================
