---------------------------- MODULE TrickTaking ----------------------------
(***************************************************************************)
(* What a session of a card game for four promises, without cards and       *)
(* points: the game starts when all four have agreed to it; a hand is       *)
(* NumTricks tricks, to each of which every seat puts one card, clockwise   *)
(* from the one who leads; after a hand there is another or the game is     *)
(* over, until all four have agreed to a new one.  Hearts implements it.    *)
(***************************************************************************)
EXTENDS Integers

CONSTANT NumTricks

VARIABLES
    stage,     \* "lobby", "opening" (a hand's pass or bids), "play", "over"
    agreed,    \* the seats that are ready, or want a new game
    turn,      \* whose turn it is to play
    placed,    \* the seats that have put a card to the trick
    tricks     \* tricks of this hand that are complete

vars == <<stage, agreed, turn, placed, tricks>>

Seat == 0 .. 3

Init ==
    /\ stage = "lobby"
    /\ agreed = {}
    /\ turn = 0
    /\ placed = {}
    /\ tricks = 0

\* A new hand, with or without an opening.
Deal ==
    /\ stage' \in {"opening", "play"}
    /\ agreed' = {}
    /\ turn' \in Seat
    /\ placed' = {}
    /\ tricks' = 0

Agree(s) ==
    /\ stage \in {"lobby", "over"}
    /\ s \notin agreed
    /\ IF agreed \cup {s} = Seat THEN Deal
       ELSE /\ agreed' = agreed \cup {s}
            /\ UNCHANGED <<stage, turn, placed, tricks>>

\* The opening is done.
Open ==
    /\ stage = "opening"
    /\ stage' = "play"
    /\ turn' \in Seat
    /\ UNCHANGED <<agreed, placed, tricks>>

Place ==
    /\ stage = "play"
    /\ turn \notin placed
    /\ placed \cup {turn} # Seat
    /\ placed' = placed \cup {turn}
    /\ turn' = (turn + 1) % 4
    /\ UNCHANGED <<stage, agreed, tricks>>

\* The fourth card: someone wins the trick and leads, or the hand is over.
CompleteTrick ==
    /\ stage = "play"
    /\ placed = Seat \ {turn}
    /\ IF tricks + 1 < NumTricks
       THEN /\ tricks' = tricks + 1
            /\ placed' = {}
            /\ turn' \in Seat
            /\ UNCHANGED <<stage, agreed>>
       ELSE \/ Deal
            \/ /\ stage' = "over"
               /\ agreed' = {}
               /\ turn' \in Seat
               /\ placed' = {}
               /\ tricks' = NumTricks

Next == (\E s \in Seat : Agree(s)) \/ Open \/ Place \/ CompleteTrick

\* What the game may do, whoever answers or does not.
SafeSpec == Init /\ [][Next]_vars

\* Players who answer complete every hand.
Spec == SafeSpec /\ WF_vars(Open) /\ WF_vars(Place \/ CompleteTrick)
=============================================================================
