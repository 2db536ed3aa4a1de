---------------------------- MODULE HeartsProofs ----------------------------
(***************************************************************************)
(* Proofs about Hearts, for every size of the deck, every set of deals that *)
(* gives each seat its cards, any pass and any points to play for.          *)
(*                                                                         *)
(* FlowInv, how far the session has come, is inductive by itself and asks   *)
(* nothing of the clients.  Upon it, PileInv: no card is lost or doubled,   *)
(* if clients pass different cards; and HoldInv: how many cards a seat has. *)
(***************************************************************************)
EXTENDS Hearts, Counting

-----------------------------------------------------------------------------
(* The layers of the invariant *)

\* Tricks and hands never rest complete, and cards lie on the table in the play
\* alone.
TrickInv ==
    /\ TrickInTurn
    /\ state \in {"pass", "play"} => trickNum < CardsPerPlayer
    /\ state # "play" => cardsPlayed = EmptyTrick /\ cardsPlayCnt = 0

FlowInv == SessionType /\ HandType /\ CountersExact /\ TrickInv

-----------------------------------------------------------------------------
(* Lemmas about the operators of Hearts *)

LEMMA SeatsAreFour == Seat = Four /\ NumPlayers = 4
BY DEF Seat, Four, NumPlayers

LEMMA HoldersCount ==
    ASSUME NEW f \in [Seat -> BOOLEAN]
    PROVE  /\ Holders(f) \in 0 .. NumPlayers
           /\ Holders(f) = NumPlayers => \A s \in Seat : f[s]
           /\ (\A s \in Seat : f[s]) => Holders(f) = NumPlayers
           /\ \A s \in Seat : ~f[s] => Holders([f EXCEPT ![s] = TRUE]) = Holders(f) + 1
<1>1. \A g : Holders(g) = HowMany(g)
    BY SeatsAreFour DEF Holders, HowMany
<1> QED
    BY <1>1, SeatsAreFour, HowManyCounts

LEMMA NobodyHolds == NoneOf \in [Seat -> BOOLEAN] /\ Holders(NoneOf) = 0
<1>1. NoneOf \in [Seat -> BOOLEAN]
    BY DEF NoneOf
<1>2. {s \in Seat : NoneOf[s]} = {}
    BY DEF NoneOf
<1>3. Cardinality({}) = 0
    BY FS_EmptySet
<1> QED
    BY <1>1, <1>2, <1>3 DEF Holders

\* A face-down place is no card, and cards have suits and ranks.
LEMMA CardFacts ==
    /\ 0 \in 0 .. CardsPerPlayer /\ 0 < CardsPerPlayer
    /\ CardNone \notin Card
    /\ \A c \in Card : Rank(c) \in Nat /\ Suit(c) \in Int
    /\ EmptyTrick \in [Seat -> Card \cup {CardNone}]
BY ConstantsAssumption DEF Card, CardNone, Rank, Suit, EmptyTrick

\* A trick is won at one of the four seats: among the cards that follow there is
\* one of highest rank, of which the code finds the first round the table.
LEMMA WinnerSeated ==
    ASSUME NEW played \in [Seat -> Card], NEW lead \in Seat
    PROVE  TrickWinner(played, lead) \in Seat
<1> DEFINE seatAt(i) == (lead + i) % NumPlayers
           card(i)   == played[seatAt(i)]
           follows   == {i \in Seat : Suit(card(i)) = Suit(played[lead])}
           first(i)  == \A j \in follows :
                            \/ Rank(card(i)) > Rank(card(j))
                            \/ Rank(card(i)) = Rank(card(j)) /\ i <= j
           value     == [i \in Four |-> 4 * Rank(card(i)) + 3 - i]
<1>1. \A i \in Seat : seatAt(i) \in Seat /\ Rank(card(i)) \in Nat
    <2>1. \A i \in Seat : seatAt(i) \in Seat
        BY DEF Seat, NumPlayers
    <2> QED
        BY <2>1, CardFacts
<1>2. follows \in SUBSET Four /\ follows # {}
    <2>1. seatAt(0) = lead /\ 0 \in Seat
        BY DEF Seat, NumPlayers
    <2>2. 0 \in follows
        BY <2>1
    <2> QED
        BY <2>2, SeatsAreFour
<1>3. value \in [Four -> Int]
    BY <1>1, SeatsAreFour DEF Four
<1>4. PICK i \in follows : \A j \in follows : value[i] >= value[j]
    BY <1>2, <1>3, BestSeat
<1>5. first(i)
    <2> SUFFICES ASSUME NEW j \in follows
                 PROVE  \/ Rank(card(i)) > Rank(card(j))
                        \/ Rank(card(i)) = Rank(card(j)) /\ i <= j
        OBVIOUS
    <2>1. i \in 0 .. 3 /\ j \in 0 .. 3 /\ i \in Seat /\ j \in Seat
        BY <1>2, SeatsAreFour DEF Four
    <2>2. 4 * Rank(card(i)) + 3 - i >= 4 * Rank(card(j)) + 3 - j
        BY <1>4, <2>1, SeatsAreFour
    <2> HIDE DEF card
    <2> QED
        BY <1>1, <2>1, <2>2
<1> HIDE DEF first, follows
<1>6. (CHOOSE n \in follows : first(n)) \in follows
    BY <1>5
<1>7. TrickWinner(played, lead) = seatAt(CHOOSE n \in follows : first(n))
    BY DEF TrickWinner, first, follows
<1> QED
    BY <1>1, <1>2, <1>6, <1>7, SeatsAreFour

LEMMA LowestSeat ==
    ASSUME NEW seats \in SUBSET Seat, seats # {}
    PROVE  Min(seats) \in seats
<1> DEFINE value == [s \in Four |-> -s]
<1>1. seats \in SUBSET Four /\ value \in [Four -> Int]
    BY SeatsAreFour DEF Four
<1>2. PICK s \in seats : \A t \in seats : value[s] >= value[t]
    BY <1>1, BestSeat
<1>3. \A t \in seats : s <= t
    <2>1. \A t \in Four : value[t] = -t /\ t \in Int
        BY DEF Four
    <2> HIDE DEF value
    <2> QED
        BY <1>1, <1>2, <2>1
<1> QED
    BY <1>3 DEF Min

LEMMA TwoOfClubsSeated == \A h : Find2CHolder(h) \in Seat
<1> SUFFICES ASSUME NEW h PROVE Find2CHolder(h) \in Seat
    OBVIOUS
<1> DEFINE holders == {s \in Seat : h[s][Card2C] > 0}
<1>1. CASE holders = {}
    BY <1>1 DEF Find2CHolder, Seat, NumPlayers
<1>2. CASE holders # {}
    <2>1. Min(holders) \in holders
        BY <1>2, LowestSeat
    <2> HIDE DEF holders
    <2>2. Find2CHolder(h) = Min(holders)
        BY <1>2 DEF Find2CHolder, holders
    <2> QED
        BY <2>1, <2>2 DEF holders
<1> QED
    BY <1>1, <1>2

-----------------------------------------------------------------------------
(* How far the session has come *)

LEMMA FlowInit == Init => FlowInv
<1> SUFFICES ASSUME Init PROVE FlowInv
    OBVIOUS
<1>1. SessionType
    BY NobodyHolds DEF Init, SessionType, NumPlayers
<1>2. HandType
    <2>1. passDir \in 0 .. 3 /\ leadPlayer \in Seat /\ playerToPlay \in Seat
        BY DEF Init, Seat, NumPlayers
    <2>5. pointsBroken \in BOOLEAN
        BY DEF Init
    <2>4. trickNum \in 0 .. CardsPerPlayer
        BY CardFacts DEF Init
    <2>2. passed \in [Seat -> BOOLEAN] /\ passCnt \in 0 .. NumPlayers
        BY NobodyHolds DEF Init, NumPlayers
    <2>3. cardsPlayed \in [Seat -> Card \cup {CardNone}] /\ cardsPlayCnt \in 0 .. NumPlayers - 1
        BY CardFacts DEF Init, NumPlayers
    <2> QED
        BY <2>1, <2>2, <2>3, <2>4, <2>5 DEF HandType
<1>3. CountersExact
    BY NobodyHolds DEF Init, CountersExact, NumPlayers
<1>4. TrickInv
    BY DEF Init, TrickInv, TrickInTurn
<1> QED
    BY <1>1, <1>2, <1>3, <1>4 DEF FlowInv

\* A new hand starts in order, whatever the last one has left behind, with a pass
\* or at once with the play.
LEMMA HandStarts ==
    ASSUME NEW n \in Nat, NEW leader \in Seat, NEW next \in Seat, StartNewHand(n, leader, next)
    PROVE  /\ HandType' /\ TrickInv'
           /\ state' \in {"pass", "play"} /\ passed' = NoneOf /\ passCnt' = 0
<1>1. /\ passDir' = PassDirs[1 + (n % 4)]
      /\ passed' = NoneOf /\ passCnt' = 0
      /\ trickNum' = 0 /\ cardsPlayed' = EmptyTrick /\ cardsPlayCnt' = 0
      /\ pointsBroken' = FALSE
    BY DEF StartNewHand
<1>2. passDir' \in 0 .. 3
    BY <1>1 DEF PassDirs
<1>3. /\ state' \in {"pass", "play"} /\ leadPlayer' \in Seat /\ playerToPlay' \in Seat
      /\ state' = "play" => playerToPlay' = leadPlayer'
    BY TwoOfClubsSeated DEF StartNewHand, BeginPlay
<1>4. HandType'
    <2>1. passed' \in [Seat -> BOOLEAN] /\ passCnt' \in 0 .. NumPlayers
        BY <1>1, NobodyHolds DEF NumPlayers
    <2>2. cardsPlayed' \in [Seat -> Card \cup {CardNone}] /\ cardsPlayCnt' \in 0 .. NumPlayers - 1
        BY <1>1, CardFacts DEF NumPlayers
    <2>3. trickNum' \in 0 .. CardsPerPlayer /\ pointsBroken' \in BOOLEAN
        <3>1. trickNum' = 0 /\ pointsBroken' = FALSE
            BY <1>1
        <3> QED
            BY <3>1, CardFacts
    <2>4. leadPlayer' \in Seat /\ playerToPlay' \in Seat
        BY <1>3
    <2> QED
        BY <1>2, <2>1, <2>2, <2>3, <2>4 DEF HandType
<1>5. TrickInTurn'
    <2> DEFINE lead == leadPlayer'
    <2>4. cardsPlayCnt' = 0 /\ lead \in Seat
        BY <1>1, <1>3
    <2> HIDE DEF lead
    <2>1. \A s \in Seat : cardsPlayed'[s] = CardNone
        BY <1>1 DEF EmptyTrick
    <2>2. lead = (lead + cardsPlayCnt') % NumPlayers
        BY <2>4 DEF Seat, NumPlayers
    <2>3. \A i \in Seat : (lead + i) % NumPlayers \in Seat /\ ~(i < cardsPlayCnt')
        BY <2>4 DEF Seat, NumPlayers
    <2> QED
        BY <1>3, <2>1, <2>2, <2>3 DEF TrickInTurn, lead
<1>6. TrickInv'
    BY <1>1, <1>5, ConstantsAssumption DEF TrickInv
<1> QED
    BY <1>1, <1>3, <1>4, <1>6

LEMMA FlowReady ==
    ASSUME FlowInv, NEW s \in Seat, HandleClientReady(s)
    PROVE  FlowInv'
<1> USE DEF FlowInv
<1>1. ready \in [Seat -> BOOLEAN] /\ readyCnt \in 0 .. NumPlayers
    BY DEF SessionType
<1>2. Holders(ready) # NumPlayers /\ Holders(ready') = Holders(ready) + 1
    BY <1>1, HoldersCount DEF HandleClientReady
<1>3. /\ state = "none" /\ readyCnt' \in 0 .. NumPlayers /\ readyCnt' = Holders(ready')
      /\ ready' \in [Seat -> BOOLEAN]
    BY <1>1, <1>2 DEF HandleClientReady, CountersExact, NumPlayers
<1>4. CASE readyCnt' = NumPlayers
    <2>1. StartNewHand(handNum, leadPlayer, playerToPlay)
        BY <1>4 DEF HandleClientReady
    <2>2. handNum \in Nat /\ leadPlayer \in Seat /\ playerToPlay \in Seat
        BY DEF SessionType, HandType
    <2>3. /\ HandType' /\ TrickInv'
          /\ state' \in {"pass", "play"} /\ passed' = NoneOf /\ passCnt' = 0
        BY <2>1, <2>2, HandStarts
    <2>4. SessionType'
        BY <1>3, <2>3 DEF HandleClientReady, SessionType, gameVars, voteVars
    <2>5. CountersExact'
        BY <1>3, <1>4, <2>3, NobodyHolds
           DEF HandleClientReady, CountersExact, voteVars, NumPlayers
    <2> QED
        BY <2>3, <2>4, <2>5
<1>5. CASE readyCnt' # NumPlayers
    <2>1. UNCHANGED <<checkedIn, state, gameVars, hands, passVars, turnVars, trickVars,
                      pointsBroken, voteVars>>
        BY <1>5 DEF HandleClientReady
    <2>2. SessionType'
        BY <1>3, <2>1 DEF SessionType, gameVars, voteVars
    <2>3. HandType'
        BY <2>1 DEF HandType, passVars, turnVars, trickVars
    <2>4. CountersExact'
        BY <1>3, <1>5, <2>1 DEF CountersExact, passVars, voteVars, NumPlayers
    <2>5. TrickInv'
        BY <1>3, <2>1 DEF TrickInv, TrickInTurn, trickVars
    <2> QED
        BY <2>2, <2>3, <2>4, <2>5
<1> QED
    BY <1>4, <1>5

LEMMA FlowPass ==
    ASSUME FlowInv, NEW s \in Seat, NEW b, HandlePassCards(s, b)
    PROVE  FlowInv'
<1> USE DEF FlowInv
<1>1. /\ state = "pass" /\ passed \in [Seat -> BOOLEAN] /\ passCnt = Holders(passed)
      /\ passCnt \in 0 .. NumPlayers - 1
    BY DEF HandlePassCards, CountersExact, HandType, NumPlayers
<1>2. /\ passed' \in [Seat -> BOOLEAN] /\ passCnt' \in 0 .. NumPlayers
      /\ passCnt' = Holders(passed')
    BY <1>1, HoldersCount DEF HandlePassCards, NumPlayers
<1>3. UNCHANGED <<readyVars, gameVars, passDir, trickVars, pointsBroken, voteVars>>
    BY DEF HandlePassCards
<1>4. \/ /\ passCnt' = NumPlayers /\ state' = "play" /\ leadPlayer' \in Seat
         /\ playerToPlay' = leadPlayer'
      \/ passCnt' # NumPlayers /\ UNCHANGED <<state, turnVars>>
    BY TwoOfClubsSeated DEF HandlePassCards, BeginPlay
<1>5. cardsPlayed = EmptyTrick /\ cardsPlayCnt = 0
    BY <1>1 DEF TrickInv
<1>6. SessionType'
    BY <1>3, <1>4 DEF SessionType, readyVars, gameVars, voteVars
<1>7. HandType'
    BY <1>2, <1>3, <1>4 DEF HandType, turnVars, trickVars
<1>8. CountersExact'
    BY <1>1, <1>2, <1>3, <1>4 DEF CountersExact, readyVars, voteVars, NumPlayers
<1>9. TrickInv'
    <2>1. trickNum' < CardsPerPlayer
        BY <1>1, <1>3 DEF TrickInv, trickVars
    <2> QED
        BY <1>1, <1>3, <1>4, <1>5, <2>1
           DEF TrickInv, TrickInTurn, trickVars, EmptyTrick, Seat, NumPlayers
<1> QED
    BY <1>6, <1>7, <1>8, <1>9

\* A card that is accepted is put down at a free place, next after those that lie
\* there; with the fourth, the trick has a winner.
LEMMA PlayFacts ==
    ASSUME FlowInv, NEW s \in Seat, NEW c \in Card, state = "play", s = playerToPlay
    PROVE  /\ cardsPlayed[s] = CardNone /\ s = (leadPlayer + cardsPlayCnt) % NumPlayers
           /\ \A i \in Seat : [cardsPlayed EXCEPT ![s] = c][(leadPlayer + i) % NumPlayers]
                                 # CardNone <=> i < cardsPlayCnt + 1
           /\ cardsPlayCnt + 1 = NumPlayers =>
                  /\ [cardsPlayed EXCEPT ![s] = c] \in [Seat -> Card]
                  /\ TrickWinner([cardsPlayed EXCEPT ![s] = c], leadPlayer) \in Seat
<1> DEFINE trick == [cardsPlayed EXCEPT ![s] = c]
<1>1. /\ s = (leadPlayer + cardsPlayCnt) % NumPlayers
      /\ \A i \in Seat : cardsPlayed[(leadPlayer + i) % NumPlayers] # CardNone
                          <=> i < cardsPlayCnt
    BY DEF FlowInv, TrickInv, TrickInTurn
<1>2. leadPlayer \in Seat /\ cardsPlayCnt \in Seat /\ cardsPlayed \in [Seat -> Card \cup {CardNone}]
    BY DEF FlowInv, HandType, Seat
<1>3. c # CardNone
    BY CardFacts
<1>4. cardsPlayed[s] = CardNone
    BY <1>1, <1>2 DEF Seat, NumPlayers
<1>5. \A i \in Seat : trick[(leadPlayer + i) % NumPlayers] # CardNone <=> i < cardsPlayCnt + 1
    BY <1>1, <1>2, <1>3 DEF Seat, NumPlayers
<1>6. ASSUME cardsPlayCnt + 1 = NumPlayers
      PROVE  trick \in [Seat -> Card] /\ TrickWinner(trick, leadPlayer) \in Seat
    <2>1. \A t \in Seat : \E i \in Seat : t = (leadPlayer + i) % NumPlayers
        BY <1>2, EveryPlace, SeatsAreFour
    <2>2. \A t \in Seat : trick[t] # CardNone
        <3>1. \A i \in Seat : i < cardsPlayCnt + 1
            BY <1>6 DEF Seat, NumPlayers
        <3> HIDE DEF trick
        <3>2. \A i \in Seat : trick[(leadPlayer + i) % NumPlayers] # CardNone
            BY <1>5, <3>1
        <3> QED
            BY <2>1, <3>2
    <2>3. trick \in [Seat -> Card \cup {CardNone}]
        BY <1>2
    <2>4. trick \in [Seat -> Card]
        BY <2>2, <2>3
    <2> QED
        BY <1>2, <2>4, WinnerSeated
<1> QED
    BY <1>1, <1>4, <1>5, <1>6

LEMMA FlowPlayOn ==
    ASSUME FlowInv, NEW s \in Seat, NEW c \in Card, state = "play", s = playerToPlay,
           cardsPlayCnt + 1 < NumPlayers, PlayOn(s, c, [cardsPlayed EXCEPT ![s] = c])
    PROVE  FlowInv'
<1> USE DEF FlowInv
<1>1. /\ s = (leadPlayer + cardsPlayCnt) % NumPlayers
      /\ \A i \in Seat : cardsPlayed'[(leadPlayer + i) % NumPlayers] # CardNone
                          <=> i < cardsPlayCnt + 1
    BY PlayFacts DEF PlayOn
<1>2. leadPlayer \in Seat /\ cardsPlayCnt \in 0 .. NumPlayers - 1
    BY DEF HandType
<1>3. /\ UNCHANGED <<readyVars, state, gameVars, passVars, leadPlayer, trickNum, voteVars>>
      /\ playerToPlay' = (s + 1) % NumPlayers /\ cardsPlayCnt' = cardsPlayCnt + 1
      /\ cardsPlayed' = [cardsPlayed EXCEPT ![s] = c]
    BY DEF PlayOn
<1>4. pointsBroken' \in BOOLEAN
    BY DEF PlayOn, TakeFromHand, HandType, IsPointCard, IsHeart
<1>5. SessionType'
    BY <1>3 DEF SessionType, readyVars, gameVars, voteVars
<1>6. HandType'
    BY <1>1, <1>2, <1>3, <1>4 DEF HandType, passVars, Seat, NumPlayers
<1>7. CountersExact'
    BY <1>3 DEF CountersExact, readyVars, passVars, voteVars
<1>8. playerToPlay' = (leadPlayer' + cardsPlayCnt') % NumPlayers
    BY <1>1, <1>2, <1>3 DEF Seat, NumPlayers
<1>9. TrickInv'
    BY <1>1, <1>3, <1>8 DEF TrickInv, TrickInTurn
<1> QED
    BY <1>5, <1>6, <1>7, <1>9

LEMMA FlowResolve ==
    ASSUME FlowInv, NEW s \in Seat, NEW c \in Card, state = "play",
           NEW winner \in Seat, NEW piles, trickNum + 1 < CardsPerPlayer,
           ResolveTrick(s, c, winner, piles)
    PROVE  FlowInv'
<1> USE DEF FlowInv
<1>1. /\ UNCHANGED <<readyVars, state, gameVars, passVars, voteVars>>
      /\ cardsPlayed' = EmptyTrick /\ cardsPlayCnt' = 0
      /\ leadPlayer' = winner /\ playerToPlay' = winner /\ trickNum' = trickNum + 1
    BY DEF ResolveTrick, ClearTrick
<1>2. pointsBroken' \in BOOLEAN /\ trickNum' \in 0 .. CardsPerPlayer
    BY <1>1, ConstantsAssumption DEF ResolveTrick, TakeFromHand, HandType, IsPointCard, IsHeart
<1>3. SessionType'
    BY <1>1 DEF SessionType, readyVars, gameVars, voteVars
<1>4. HandType'
    BY <1>1, <1>2, CardFacts DEF HandType, passVars, NumPlayers
<1>5. CountersExact'
    BY <1>1 DEF CountersExact, readyVars, passVars, voteVars
<1>6. TrickInTurn'
    <2>1. \A i \in Seat : (winner + i) % NumPlayers \in Seat
        BY DEF Seat, NumPlayers
    <2>2. winner = (winner + 0) % NumPlayers /\ \A i \in Seat : ~(i < 0)
        BY DEF Seat, NumPlayers
    <2> QED
        BY <1>1, <2>1, <2>2 DEF TrickInTurn, EmptyTrick
<1>7. TrickInv'
    BY <1>1, <1>6 DEF TrickInv
<1> QED
    BY <1>3, <1>4, <1>5, <1>7

LEMMA FlowEndHand ==
    ASSUME FlowInv, NEW s \in Seat, NEW c \in Card, state = "play",
           NEW winner \in Seat, NEW piles, ~(trickNum + 1 < CardsPerPlayer),
           EndHand(s, c, winner, piles)
    PROVE  FlowInv'
<1> USE DEF FlowInv
<1>1. handNum' = handNum + 1 /\ handNum' \in Nat /\ UNCHANGED readyVars
    BY DEF EndHand, SessionType
<1>2. CASE GameOver(scores')
    <2>1. /\ state' = "end" /\ newGameVotes' = NoneOf /\ newGameCnt' = 0 /\ UNCHANGED passVars
          /\ cardsPlayed' = EmptyTrick /\ cardsPlayCnt' = 0
          /\ leadPlayer' = winner /\ playerToPlay' = winner /\ trickNum' = trickNum + 1
        BY <1>2 DEF EndHand, EndGame, ClearTrick
    <2>2. pointsBroken' \in BOOLEAN
        BY <1>2 DEF EndHand, TakeFromHand, HandType, IsPointCard, IsHeart
    <2>3. trickNum' \in 0 .. CardsPerPlayer
        BY <2>1, ConstantsAssumption DEF HandType, TrickInv
    <2>4. SessionType'
        BY <1>1, <2>1, NobodyHolds DEF SessionType, readyVars, NumPlayers
    <2>5. HandType'
        BY <2>1, <2>2, <2>3, CardFacts DEF HandType, passVars, NumPlayers
    <2>6. CountersExact'
        BY <1>1, <2>1, NobodyHolds DEF CountersExact, readyVars, passVars, NumPlayers
    <2>7. TrickInv'
        BY <2>1 DEF TrickInv, TrickInTurn
    <2> QED
        BY <2>4, <2>5, <2>6, <2>7
<1>3. CASE ~GameOver(scores')
    <2>1. StartNewHand(handNum', winner, winner) /\ UNCHANGED voteVars
        BY <1>3 DEF EndHand
    <2>2. /\ HandType' /\ TrickInv'
          /\ state' \in {"pass", "play"} /\ passed' = NoneOf /\ passCnt' = 0
        BY <1>1, <2>1, HandStarts
    <2>3. SessionType'
        BY <1>1, <2>1, <2>2 DEF SessionType, readyVars, voteVars
    <2>4. CountersExact'
        BY <1>1, <2>1, <2>2, NobodyHolds DEF CountersExact, readyVars, voteVars, NumPlayers
    <2> QED
        BY <2>2, <2>3, <2>4
<1> QED
    BY <1>2, <1>3

LEMMA FlowNewGame ==
    ASSUME FlowInv, NEW s \in Seat, HandleNewGame(s)
    PROVE  FlowInv'
<1> USE DEF FlowInv
<1>1. /\ state = "end" /\ newGameVotes \in [Seat -> BOOLEAN] /\ newGameCnt \in 0 .. NumPlayers - 1
      /\ newGameCnt' = newGameCnt + 1 /\ newGameCnt = Holders(newGameVotes)
    BY DEF HandleNewGame, CountersExact, SessionType, NumPlayers
<1>2. /\ newGameVotes' \in [Seat -> BOOLEAN] /\ newGameCnt' \in 0 .. NumPlayers
      /\ newGameCnt' = Holders(newGameVotes')
    BY <1>1, HoldersCount DEF HandleNewGame, NumPlayers
<1>3. CASE newGameCnt' = NumPlayers
    <2>1. /\ handNum' = 0 /\ StartNewHand(0, leadPlayer, playerToPlay) /\ UNCHANGED readyVars
        BY <1>3 DEF HandleNewGame
    <2>2. leadPlayer \in Seat /\ playerToPlay \in Seat
        BY DEF HandType
    <2>3. /\ HandType' /\ TrickInv'
          /\ state' \in {"pass", "play"} /\ passed' = NoneOf /\ passCnt' = 0
        BY <2>1, <2>2, HandStarts
    <2>4. SessionType'
        BY <1>2, <2>1, <2>3 DEF SessionType, readyVars
    <2>5. CountersExact'
        BY <1>1, <1>2, <2>1, <2>3, NobodyHolds DEF CountersExact, readyVars, NumPlayers
    <2> QED
        BY <2>3, <2>4, <2>5
<1>4. CASE newGameCnt' # NumPlayers
    <2>1. UNCHANGED <<readyVars, state, gameVars, hands, passVars, turnVars, trickVars, pointsBroken>>
        BY <1>4 DEF HandleNewGame
    <2>2. SessionType'
        BY <1>2, <2>1 DEF SessionType, readyVars, gameVars
    <2>3. HandType'
        BY <2>1 DEF HandType, passVars, turnVars, trickVars
    <2>4. CountersExact'
        BY <1>1, <1>2, <1>4, <2>1 DEF CountersExact, readyVars, passVars, NumPlayers
    <2>5. TrickInv'
        BY <1>1, <2>1 DEF TrickInv, TrickInTurn, trickVars
    <2> QED
        BY <2>2, <2>3, <2>4, <2>5
<1> QED
    BY <1>3, <1>4

LEMMA FlowCheckIn ==
    ASSUME FlowInv, NEW s \in Seat, HandleCheckIn(s)
    PROVE  FlowInv'
<1> USE DEF FlowInv
<1>1. /\ UNCHANGED <<ready, readyCnt, state, gameVars, hands, passVars, turnVars,
                     trickVars, pointsBroken, voteVars>>
      /\ checkedIn' = [checkedIn EXCEPT ![s] = TRUE]
    BY DEF HandleCheckIn
<1>2. SessionType'
    BY <1>1 DEF SessionType, gameVars, voteVars
<1>3. HandType'
    BY <1>1 DEF HandType, passVars, turnVars, trickVars
<1>4. CountersExact'
    BY <1>1 DEF CountersExact, passVars, voteVars
<1>5. TrickInv'
    BY <1>1 DEF TrickInv, TrickInTurn, turnVars, trickVars
<1> QED
    BY <1>2, <1>3, <1>4, <1>5

\* handlePlayCard from the fourth card on.
TrickResolved(s, c) ==
    /\ cardsPlayCnt + 1 = NumPlayers
    /\ \E winner \in {TrickWinner([cardsPlayed EXCEPT ![s] = c], leadPlayer)} :
       \E piles \in {[trickCards EXCEPT
                          ![winner] = WithTrick(@, [cardsPlayed EXCEPT ![s] = c])]} :
          \/ trickNum + 1 < CardsPerPlayer /\ ResolveTrick(s, c, winner, piles)
          \/ ~(trickNum + 1 < CardsPerPlayer) /\ EndHand(s, c, winner, piles)

LEMMA PlayCases ==
    ASSUME NEW s \in Seat, NEW c \in Card, HandlePlayCard(s, c)
    PROVE  /\ state = "play" /\ s = playerToPlay /\ hands[s][c] > 0
           /\ \/ /\ cardsPlayCnt + 1 < NumPlayers
                 /\ PlayOn(s, c, [cardsPlayed EXCEPT ![s] = c])
              \/ TrickResolved(s, c)
BY Zenon DEF HandlePlayCard, TrickResolved

LEMMA FlowPlay ==
    ASSUME FlowInv, NEW s \in Seat, NEW c \in Card, HandlePlayCard(s, c)
    PROVE  FlowInv'
<1>1. state = "play" /\ s = playerToPlay
    BY PlayCases
<1>2. CASE cardsPlayCnt + 1 < NumPlayers /\ PlayOn(s, c, [cardsPlayed EXCEPT ![s] = c])
    BY <1>1, <1>2, FlowPlayOn
<1>3. CASE TrickResolved(s, c)
    <2>1. TrickWinner([cardsPlayed EXCEPT ![s] = c], leadPlayer) \in Seat
        BY <1>1, <1>3, PlayFacts DEF TrickResolved
    <2> QED
        BY <1>1, <1>3, <2>1, FlowResolve, FlowEndHand DEF TrickResolved
<1> QED
    BY <1>2, <1>3, PlayCases

LEMMA FlowStep == FlowInv /\ [Next]_vars => FlowInv'
<1> SUFFICES ASSUME FlowInv, [Next]_vars PROVE FlowInv'
    OBVIOUS
<1>1. CASE UNCHANGED vars
    BY <1>1 DEF vars, readyVars, gameVars, passVars, turnVars, trickVars, voteVars, FlowInv,
                SessionType, HandType, CountersExact, TrickInv, TrickInTurn
<1>2. ASSUME NEW s \in Seat, HandleCheckIn(s) PROVE FlowInv'
    BY <1>2, FlowCheckIn
<1>3. ASSUME NEW s \in Seat, HandleClientReady(s) PROVE FlowInv'
    BY <1>3, FlowReady
<1>4. ASSUME NEW s \in Seat, Pass(s) PROVE FlowInv'
    BY <1>4, FlowPass DEF Pass
<1>5. ASSUME NEW s \in Seat, Play(s) PROVE FlowInv'
    BY <1>5, FlowPlay DEF Play
<1>6. ASSUME NEW s \in Seat, HandleNewGame(s) PROVE FlowInv'
    BY <1>6, FlowNewGame
<1> QED
    BY <1>1, <1>2, <1>3, <1>4, <1>5, <1>6 DEF Next

LEMMA FlowInvariant == Spec => []FlowInv
BY FlowInit, FlowStep, PTL DEF Spec

\* The turn goes clockwise from the leader and a trick is resolved when each seat
\* has played to it once, whatever anybody sends and in whatever order
\* (handlePlayCard, resolveTrick, beginPlay).
THEOREM TurnsTaken == Spec => []TrickInTurn
<1>1. FlowInv => TrickInTurn
    BY DEF FlowInv, TrickInv
<1> QED
    BY <1>1, FlowInvariant, PTL

\* The counters that start a hand, an exchange and a new game are the numbers of
\* the seats that have answered, through all hands and games, and each is acted on
\* when it comes to four (handleClientReady, handlePassCards, handleNewGame).
THEOREM CountersRight == Spec => []CountersExact
<1>1. FlowInv => CountersExact
    BY DEF FlowInv
<1> QED
    BY <1>1, FlowInvariant, PTL

-----------------------------------------------------------------------------
(* A session is a game of tricks in turn: each step of the session is a step of *)
(* TrickTaking or changes nothing of it.                                       *)

LEMMA SameSeats == Abstract!Seat = Seat
BY DEF Abstract!Seat, Seat, NumPlayers

\* A new hand has no card on the table.
LEMMA AbstractDeal ==
    ASSUME NEW n \in Nat, NEW leader \in Seat, NEW next \in Seat, StartNewHand(n, leader, next)
    PROVE  Abstract!Deal
<1>1. state' \in {"pass", "play"} /\ cardsPlayed' = EmptyTrick /\ trickNum' = 0
    BY HandStarts DEF StartNewHand
<1>2. playerToPlay' \in Abstract!Seat
    BY HandStarts, SameSeats DEF HandType
<1>3. Placed' = {} /\ Agreed' = {} /\ Stage' \in {"opening", "play"}
    BY <1>1 DEF Placed, EmptyTrick, Agreed, Stage
<1> QED
    BY <1>1, <1>2, <1>3 DEF Abstract!Deal

LEMMA AbstractReady ==
    ASSUME FlowInv, NEW s \in Seat, HandleClientReady(s)
    PROVE  Abstract!Next
<1>1. ready \in [Seat -> BOOLEAN] /\ handNum \in Nat /\ leadPlayer \in Seat /\ playerToPlay \in Seat
    BY DEF FlowInv, SessionType, HandType
<1>2. readyCnt = Holders(ready) /\ readyCnt' = Holders(ready') /\ ready' = [ready EXCEPT ![s] = TRUE]
    BY <1>1, HoldersCount DEF HandleClientReady, FlowInv, CountersExact
<1>3. Holders(ready) # NumPlayers
    BY <1>1, HoldersCount DEF HandleClientReady
<1>4. state = "none" /\ ready' \in [Seat -> BOOLEAN]
    BY <1>1, <1>2, <1>3, HoldersCount DEF FlowInv, CountersExact, NumPlayers
<1>5. Stage = "lobby" /\ Agreed = {t \in Seat : ready[t]} /\ s \notin Agreed
    BY <1>4 DEF Stage, Agreed, HandleClientReady
<1>6. Agreed \cup {s} = {t \in Seat : ready'[t]}
    BY <1>1, <1>2, <1>5
<1>7. Agreed \cup {s} = Abstract!Seat <=> readyCnt' = NumPlayers
    BY <1>2, <1>4, <1>6, HoldersCount, SameSeats
<1>8. CASE readyCnt' = NumPlayers
    <2>1. Abstract!Deal
        BY <1>1, <1>8, AbstractDeal DEF HandleClientReady
    <2> QED
        BY <1>5, <1>7, <1>8, <2>1, SameSeats DEF Abstract!Next, Abstract!Agree
<1>9. CASE readyCnt' # NumPlayers
    <2>1. UNCHANGED <<state, playerToPlay, cardsPlayed, trickNum>>
        BY <1>9 DEF HandleClientReady, turnVars, trickVars
    <2>2. Agreed' = Agreed \cup {s}
        BY <1>4, <1>6, <2>1 DEF Agreed
    <2>3. UNCHANGED <<Stage, playerToPlay, Placed, trickNum>>
        BY <2>1 DEF Stage, Placed
    <2> QED
        BY <1>5, <1>7, <1>9, <2>2, <2>3, SameSeats DEF Abstract!Next, Abstract!Agree
<1> QED
    BY <1>8, <1>9

\* Three passes change nothing of the abstract game, the fourth opens the play.
LEMMA AbstractPass ==
    ASSUME FlowInv, NEW s \in Seat, NEW b, HandlePassCards(s, b)
    PROVE  Abstract!Next \/ UNCHANGED Abstract!vars
<1>1. state = "pass" /\ cardsPlayed' = cardsPlayed /\ trickNum' = trickNum
    BY DEF HandlePassCards, trickVars
<1>2. Placed' = Placed
    BY <1>1 DEF Placed
<1>3. CASE UNCHANGED <<state, turnVars>>
    <2>1. Stage' = Stage /\ Agreed' = Agreed /\ playerToPlay' = playerToPlay
        BY <1>1, <1>3 DEF Stage, Agreed, turnVars
    <2> QED
        BY <1>1, <1>2, <2>1 DEF Abstract!vars
<1>4. CASE state' = "play" /\ playerToPlay' \in Seat
    <2>1. Stage = "opening" /\ Stage' = "play" /\ Agreed' = Agreed
        BY <1>1, <1>4 DEF Stage, Agreed
    <2> QED
        BY <1>1, <1>2, <1>4, <2>1, SameSeats DEF Abstract!Next, Abstract!Open
<1> QED
    BY <1>3, <1>4, TwoOfClubsSeated DEF HandlePassCards, BeginPlay

LEMMA AbstractPlay ==
    ASSUME FlowInv, NEW s \in Seat, NEW c \in Card, HandlePlayCard(s, c)
    PROVE  Abstract!Next
<1> DEFINE trick == [cardsPlayed EXCEPT ![s] = c]
<1>1. /\ state = "play" /\ cardsPlayed[s] = CardNone /\ s = playerToPlay
      /\ s = (leadPlayer + cardsPlayCnt) % NumPlayers
      /\ \A i \in Seat : trick[(leadPlayer + i) % NumPlayers] # CardNone <=> i < cardsPlayCnt + 1
    BY PlayCases, PlayFacts
<1>2. /\ cardsPlayed \in [Seat -> Card \cup {CardNone}] /\ leadPlayer \in Seat
      /\ cardsPlayCnt \in Seat /\ trickNum \in Nat
    BY ConstantsAssumption DEF FlowInv, SessionType, HandType, Seat
<1>3. Stage = "play" /\ Agreed = {} /\ s \notin Placed
    BY <1>1 DEF Stage, Agreed, Placed
<1>4. Placed \cup {s} = {t \in Seat : trick[t] # CardNone}
    BY <1>1, <1>2, CardFacts DEF Placed
<1>5. CASE cardsPlayCnt + 1 < NumPlayers /\ PlayOn(s, c, trick)
    <2>1. /\ UNCHANGED <<state, trickNum>> /\ cardsPlayed' = trick
          /\ playerToPlay' = (s + 1) % NumPlayers
        BY <1>1, <1>5 DEF PlayOn
    <2>2. Placed \cup {s} # Seat
        <3>1. trick[(leadPlayer + 3) % NumPlayers] = CardNone
            BY <1>1, <1>2, <1>5 DEF Seat, NumPlayers
        <3>2. (leadPlayer + 3) % NumPlayers \in Seat
            BY <1>2 DEF Seat, NumPlayers
        <3> QED
            BY <1>4, <3>1, <3>2
    <2>3. Placed' = Placed \cup {s}
        BY <1>4, <2>1 DEF Placed
    <2>4. Stage' = Stage /\ Agreed' = Agreed /\ playerToPlay' = (playerToPlay + 1) % 4
        BY <1>1, <1>3, <2>1 DEF Stage, Agreed, NumPlayers
    <2> QED
        BY <1>1, <1>3, <2>1, <2>2, <2>3, <2>4, SameSeats DEF Abstract!Next, Abstract!Place
<1>6. CASE TrickResolved(s, c)
    <2> DEFINE winner == TrickWinner(trick, leadPlayer)
               piles  == [trickCards EXCEPT ![winner] = WithTrick(@, trick)]
    <2>1. trick \in [Seat -> Card] /\ winner \in Seat
        BY <1>1, <1>6, PlayFacts DEF TrickResolved
    <2>2. Placed = Abstract!Seat \ {playerToPlay}
        BY <1>1, <1>3, <1>4, <2>1, CardFacts, SameSeats
    <2> HIDE DEF winner, piles, trick
    <2>3. CASE trickNum + 1 < CardsPerPlayer /\ ResolveTrick(s, c, winner, piles)
        <3>1. /\ state' = state /\ trickNum' = trickNum + 1 /\ cardsPlayed' = EmptyTrick
              /\ playerToPlay' = winner
            BY <2>3 DEF ResolveTrick, ClearTrick
        <3>2. Placed' = {} /\ Stage' = Stage /\ Agreed' = Agreed /\ playerToPlay' \in Abstract!Seat
            BY <1>1, <2>1, <3>1, SameSeats DEF Placed, EmptyTrick, Stage, Agreed
        <3> QED
            BY <1>3, <2>2, <2>3, <3>1, <3>2 DEF Abstract!Next, Abstract!CompleteTrick
    <2>4. CASE ~(trickNum + 1 < CardsPerPlayer) /\ EndHand(s, c, winner, piles)
        <3>1. CASE GameOver(scores')
            <4>1. /\ state' = "end" /\ newGameVotes' = NoneOf /\ cardsPlayed' = EmptyTrick
                  /\ trickNum' = trickNum + 1 /\ playerToPlay' = winner
                BY <2>4, <3>1 DEF EndHand, EndGame, ClearTrick
            <4>2. trickNum + 1 = CardsPerPlayer
                BY <1>1, <1>2, <2>4, ConstantsAssumption DEF FlowInv, TrickInv
            <4>3. Placed' = {} /\ Stage' = "over" /\ Agreed' = {} /\ playerToPlay' \in Abstract!Seat
                BY <2>1, <4>1, SameSeats DEF Placed, EmptyTrick, Stage, Agreed, NoneOf
            <4> QED
                BY <1>3, <2>2, <2>4, <4>1, <4>2, <4>3 DEF Abstract!Next, Abstract!CompleteTrick
        <3>2. CASE ~GameOver(scores')
            <4>1. StartNewHand(handNum', winner, winner)
                BY <2>4, <3>2 DEF EndHand
            <4>2. handNum' \in Nat
                BY <2>4 DEF EndHand, FlowInv, SessionType
            <4> QED
                BY <1>3, <2>1, <2>2, <2>4, <4>1, <4>2, AbstractDeal
                   DEF Abstract!Next, Abstract!CompleteTrick
        <3> QED
            BY <3>1, <3>2
    <2> QED
        BY <1>6, <2>3, <2>4 DEF TrickResolved, winner, piles, trick
<1> QED
    BY <1>5, <1>6, PlayCases

LEMMA AbstractNewGame ==
    ASSUME FlowInv, NEW s \in Seat, HandleNewGame(s)
    PROVE  Abstract!Next
<1>1. /\ state = "end" /\ newGameVotes \in [Seat -> BOOLEAN] /\ ~newGameVotes[s]
      /\ newGameCnt = Holders(newGameVotes) /\ newGameVotes' = [newGameVotes EXCEPT ![s] = TRUE]
      /\ newGameCnt' = newGameCnt + 1 /\ leadPlayer \in Seat /\ playerToPlay \in Seat
    BY DEF HandleNewGame, FlowInv, CountersExact, SessionType, HandType
<1>2. newGameVotes' \in [Seat -> BOOLEAN] /\ newGameCnt' = Holders(newGameVotes')
    BY <1>1, HoldersCount
<1>3. Stage = "over" /\ Agreed = {t \in Seat : newGameVotes[t]} /\ s \notin Agreed
    BY <1>1 DEF Stage, Agreed
<1>4. Agreed \cup {s} = {t \in Seat : newGameVotes'[t]}
    BY <1>1, <1>3
<1>5. Agreed \cup {s} = Abstract!Seat <=> newGameCnt' = NumPlayers
    BY <1>2, <1>4, HoldersCount, SameSeats
<1>6. CASE newGameCnt' = NumPlayers
    <2>1. Abstract!Deal
        BY <1>1, <1>6, AbstractDeal DEF HandleNewGame
    <2> QED
        BY <1>3, <1>5, <1>6, <2>1, SameSeats DEF Abstract!Next, Abstract!Agree
<1>7. CASE newGameCnt' # NumPlayers
    <2>1. UNCHANGED <<state, playerToPlay, cardsPlayed, trickNum>>
        BY <1>7 DEF HandleNewGame, turnVars, trickVars
    <2>2. Agreed' = Agreed \cup {s}
        BY <1>1, <1>4, <2>1 DEF Agreed
    <2>3. UNCHANGED <<Stage, playerToPlay, Placed, trickNum>>
        BY <2>1 DEF Stage, Placed
    <2> QED
        BY <1>3, <1>5, <1>7, <2>2, <2>3, SameSeats DEF Abstract!Next, Abstract!Agree
<1> QED
    BY <1>6, <1>7

LEMMA AbstractStep == FlowInv /\ [Next]_vars => [Abstract!Next]_(Abstract!vars)
<1> SUFFICES ASSUME FlowInv, [Next]_vars PROVE Abstract!Next \/ UNCHANGED Abstract!vars
    OBVIOUS
<1>1. CASE UNCHANGED vars
    BY <1>1 DEF vars, readyVars, turnVars, trickVars, voteVars, Abstract!vars,
                Stage, Agreed, Placed
<1>2. ASSUME NEW s \in Seat, HandleCheckIn(s) PROVE UNCHANGED Abstract!vars
    BY <1>2 DEF HandleCheckIn, turnVars, trickVars, voteVars, Abstract!vars,
                Stage, Agreed, Placed
<1>3. ASSUME NEW s \in Seat, HandleClientReady(s) PROVE Abstract!Next
    BY <1>3, AbstractReady
<1>4. ASSUME NEW s \in Seat, Pass(s) PROVE Abstract!Next \/ UNCHANGED Abstract!vars
    BY <1>4, AbstractPass DEF Pass
<1>5. ASSUME NEW s \in Seat, Play(s) PROVE Abstract!Next
    BY <1>5, AbstractPlay DEF Play
<1>6. ASSUME NEW s \in Seat, HandleNewGame(s) PROVE Abstract!Next
    BY <1>6, AbstractNewGame
<1> QED
    BY <1>1, <1>2, <1>3, <1>4, <1>5, <1>6 DEF Next

LEMMA AbstractInit == Init => Abstract!Init
BY DEF Init, Abstract!Init, Stage, Agreed, Placed, NoneOf, EmptyTrick

\* Whatever the clients send, a session takes the steps of the abstract game and no
\* others: nobody plays before all four have agreed and passed, each trick gets one
\* card from each seat in turn, and a hand has exactly its tricks.
THEOREM PlaysTricksInTurn == Spec => Abstract!SafeSpec
BY FlowInvariant, AbstractInit, AbstractStep, PTL DEF Spec, Abstract!SafeSpec

-----------------------------------------------------------------------------
(* No card is lost or doubled.  PileInv adds up the copies of a card in hands,  *)
(* piles and on the table; what is passed stays in the hand until the exchange, *)
(* which therefore has to find it there.                                       *)

PassInv ==
    state = "pass" =>
        \A s \in Seat : passed[s] => \A c \in Card : passCards[s][c] <= hands[s][c]

PileInv == PileType /\ (Honest = Seat => CardsConserved /\ PassInv)

Piles == [Seat -> [Card -> Nat]]

\* Copies of card x in the piles h, one for each seat, and on the table.
Total(h, x) == h[0][x] + h[1][x] + h[2][x] + h[3][x]
OnTable(played, x) == HowMany([t \in Four |-> played[t] = x])
CopiesIn(h, won, played, x) ==
    (h[0][x] + won[0][x] + (IF played[0] = x THEN 1 ELSE 0))
    + (h[1][x] + won[1][x] + (IF played[1] = x THEN 1 ELSE 0))
    + (h[2][x] + won[2][x] + (IF played[2] = x THEN 1 ELSE 0))
    + (h[3][x] + won[3][x] + (IF played[3] = x THEN 1 ELSE 0))

\* The piles h when seat s has taken card c out, and when it has won a trick.
Taken(h, s, c) == [h EXCEPT ![s][c] = @ - 1]
Won(h, s, trick) == [h EXCEPT ![s] = WithTrick(@, trick)]

One(a, b) == IF a = b THEN 1 ELSE 0

LEMMA FourPlaces == Seat = {0, 1, 2, 3}
BY DEF Seat, NumPlayers

LEMMA TotalCount ==
    ASSUME NEW h \in Piles, NEW x \in Card
    PROVE  Total(h, x) \in Nat /\ \A s \in Seat : h[s] \in [Card -> Nat] /\ h[s][x] \in Nat
<1>1. \A s \in Seat : h[s] \in [Card -> Nat] /\ h[s][x] \in Nat
    BY DEF Piles
<1>2. h[0][x] \in Nat /\ h[1][x] \in Nat /\ h[2][x] \in Nat /\ h[3][x] \in Nat
    BY <1>1, FourPlaces
<1> QED
    BY <1>1, <1>2 DEF Total

LEMMA TableCount ==
    ASSUME NEW played, NEW x
    PROVE  /\ OnTable(played, x) \in Nat
           /\ OnTable(played, x) = One(played[0], x) + One(played[1], x)
                                   + One(played[2], x) + One(played[3], x)
<1> DEFINE f == [t \in Four |-> played[t] = x]
<1>1. f \in [Four -> BOOLEAN]
    OBVIOUS
<1>2. HowMany(f) = (IF f[0] THEN 1 ELSE 0) + (IF f[1] THEN 1 ELSE 0)
                   + (IF f[2] THEN 1 ELSE 0) + (IF f[3] THEN 1 ELSE 0)
    BY <1>1, HowManySum
<1>3. \A t \in {0, 1, 2, 3} : (IF f[t] THEN 1 ELSE 0) = One(played[t], x)
    <2> SUFFICES ASSUME NEW t \in {0, 1, 2, 3}
                 PROVE  (IF f[t] THEN 1 ELSE 0) = One(played[t], x)
        OBVIOUS
    <2>1. t \in Four
        BY DEF Four
    <2>2. f[t] <=> played[t] = x
        BY <2>1
    <2>3. CASE played[t] = x
        BY <2>2, <2>3 DEF One
    <2>4. CASE played[t] # x
        BY <2>2, <2>4 DEF One
    <2> QED
        BY <2>3, <2>4
<1>4. OnTable(played, x) = HowMany(f)
    BY DEF OnTable
<1> HIDE DEF f
<1>5. HowMany(f) = One(played[0], x) + One(played[1], x) + One(played[2], x) + One(played[3], x)
    BY <1>2, <1>3
<1>6. \A t : One(played[t], x) \in Nat
    BY DEF One
<1> QED
    BY <1>4, <1>5, <1>6

\* Copies counts what is in the hands, in the piles and on the table.
LEMMA CopiesAdd ==
    ASSUME NEW h \in Piles, NEW w \in Piles, NEW played, NEW x \in Card
    PROVE  CopiesIn(h, w, played, x) = Total(h, x) + Total(w, x) + OnTable(played, x)
<1>1. /\ h[0][x] \in Nat /\ h[1][x] \in Nat /\ h[2][x] \in Nat /\ h[3][x] \in Nat
      /\ w[0][x] \in Nat /\ w[1][x] \in Nat /\ w[2][x] \in Nat /\ w[3][x] \in Nat
    BY TotalCount, FourPlaces
<1>2. \A t : One(played[t], x) \in Nat /\ One(played[t], x) = IF played[t] = x THEN 1 ELSE 0
    BY DEF One
<1>3. OnTable(played, x) = One(played[0], x) + One(played[1], x)
                           + One(played[2], x) + One(played[3], x)
    BY TableCount
<1>4. (h[0][x] + w[0][x] + One(played[0], x)) + (h[1][x] + w[1][x] + One(played[1], x))
      + (h[2][x] + w[2][x] + One(played[2], x)) + (h[3][x] + w[3][x] + One(played[3], x))
      = Total(h, x) + Total(w, x) + OnTable(played, x)
    BY <1>1, <1>2, <1>3 DEF Total
<1> QED
    BY <1>4 DEF One, CopiesIn

LEMMA NoCardsCount ==
    /\ NoCards \in Piles
    /\ \A x \in Card : Total(NoCards, x) = 0 /\ OnTable(EmptyTrick, x) = 0
<1>1. NoCards \in Piles
    BY DEF NoCards, Piles
<1>2. ASSUME NEW x \in Card PROVE Total(NoCards, x) = 0
    BY FourPlaces DEF NoCards, Total
<1>3. ASSUME NEW x \in Card PROVE OnTable(EmptyTrick, x) = 0
    BY TableCount, CardFacts, FourPlaces DEF EmptyTrick, One
<1> QED
    BY <1>1, <1>2, <1>3

\* A deal gives every card to one seat.
LEMMA DealCount ==
    ASSUME NEW d \in Deals
    PROVE  DealtHands(d) \in Piles /\ \A x \in Card : Total(DealtHands(d), x) = 1
<1>1. DealtHands(d) \in Piles
    BY DEF DealtHands, Piles
<1>2. ASSUME NEW x \in Card PROVE Total(DealtHands(d), x) = 1
    <2>1. d[x] \in Seat
        BY ConstantsAssumption
    <2>2. \A s \in Seat : DealtHands(d)[s][x] = IF d[x] = s THEN 1 ELSE 0
        BY DEF DealtHands
    <2> QED
        BY <2>1, <2>2, FourPlaces DEF Total
<1> QED
    BY <1>1, <1>2

\* A card goes from the hand to the table.
LEMMA TakeCount ==
    ASSUME NEW h \in Piles, NEW s \in Seat, NEW c \in Card, h[s][c] > 0
    PROVE  /\ Taken(h, s, c) \in Piles
           /\ \A x \in Card : Total(Taken(h, s, c), x) = Total(h, x) - One(x, c)
<1> DEFINE h2 == Taken(h, s, c)
<1>1. \A t \in Seat : h[t] \in [Card -> Nat]
    BY DEF Piles
<1>2. h2 = [h EXCEPT ![s] = [h[s] EXCEPT ![c] = h[s][c] - 1]]
    BY DEF Taken
<1> HIDE DEF h2
<1>3. [h[s] EXCEPT ![c] = h[s][c] - 1] \in [Card -> Nat]
    BY <1>1
<1>4. h2 \in Piles
    BY <1>2, <1>3 DEF Piles
<1>5. ASSUME NEW x \in Card PROVE Total(h2, x) = Total(h, x) - One(x, c)
    <2>1. \A t \in Seat : h2[t][x] = IF t = s /\ x = c THEN h[t][x] - 1 ELSE h[t][x]
        BY <1>1, <1>2 DEF Piles
    <2>2. h[0][x] \in Nat /\ h[1][x] \in Nat /\ h[2][x] \in Nat /\ h[3][x] \in Nat
        BY <1>1, FourPlaces
    <2>3. CASE x # c
        <3>1. Total(h2, x) = Total(h, x) /\ Total(h, x) \in Nat
            BY <2>1, <2>2, <2>3, FourPlaces DEF Total
        <3> QED
            BY <2>3, <3>1 DEF One
    <2>4. CASE x = c
        <3>1. Total(h2, x) = Total(h, x) - 1
            BY <2>1, <2>2, <2>4, FourPlaces DEF Total
        <3> QED
            BY <2>4, <3>1 DEF One
    <2> QED
        BY <2>3, <2>4
<1> QED
    BY <1>4, <1>5 DEF h2

LEMMA PutCount ==
    ASSUME NEW played \in [Seat -> Card \cup {CardNone}], NEW s \in Seat, NEW c \in Card,
           played[s] = CardNone
    PROVE  \A x \in Card : OnTable([played EXCEPT ![s] = c], x)
                           = OnTable(played, x) + One(x, c)
<1> SUFFICES ASSUME NEW x \in Card
             PROVE  OnTable([played EXCEPT ![s] = c], x)
                    = OnTable(played, x) + One(x, c)
    OBVIOUS
<1> DEFINE put == [played EXCEPT ![s] = c]
<1>1. x # CardNone
    BY CardFacts
<1>2. \A t \in Seat : One(put[t], x) = IF t = s /\ x = c THEN 1 ELSE One(played[t], x)
    BY <1>1 DEF One
<1>3. One(played[s], x) = 0 /\ \A t : One(played[t], x) \in Nat
    BY <1>1 DEF One
<1> HIDE DEF put
<1>4. OnTable(put, x) = One(put[0], x) + One(put[1], x) + One(put[2], x) + One(put[3], x)
    BY TableCount
<1>5. OnTable(played, x) = One(played[0], x) + One(played[1], x)
                           + One(played[2], x) + One(played[3], x)
    BY TableCount
<1>6. CASE x # c
    <2>1. OnTable(put, x) = OnTable(played, x)
        BY <1>2, <1>3, <1>4, <1>5, <1>6, FourPlaces
    <2>2. OnTable(played, x) \in Nat
        BY TableCount
    <2> QED
        BY <1>6, <2>1, <2>2 DEF put, One
<1>7. CASE x = c
    <2>1. OnTable(put, x) = OnTable(played, x) + 1
        BY <1>2, <1>3, <1>4, <1>5, <1>7, FourPlaces
    <2> QED
        BY <1>7, <2>1 DEF put, One
<1> QED
    BY <1>6, <1>7 DEF put

\* The trick goes to the winner's pile.
LEMMA WinCount ==
    ASSUME NEW w \in Piles, NEW winner \in Seat, NEW trick
    PROVE  /\ Won(w, winner, trick) \in Piles
           /\ \A x \in Card : Total(Won(w, winner, trick), x) = Total(w, x) + OnTable(trick, x)
<1> DEFINE w2 == Won(w, winner, trick)
<1>0. w2 = [w EXCEPT ![winner] = WithTrick(w[winner], trick)]
    BY DEF Won
<1> HIDE DEF w2
<1>1. \A x \in Card : Cardinality({t \in Seat : trick[t] = x}) = OnTable(trick, x)
    <2> SUFFICES ASSUME NEW x \in Card
                 PROVE  Cardinality({t \in Seat : trick[t] = x}) = OnTable(trick, x)
        OBVIOUS
    <2>1. {t \in Seat : trick[t] = x} = {t \in Four : [u \in Four |-> trick[u] = x][t]}
        BY SeatsAreFour
    <2> QED
        BY <2>1 DEF OnTable, HowMany
<1>2. \A x \in Card : WithTrick(w[winner], trick)[x] = w[winner][x] + OnTable(trick, x)
    BY <1>1 DEF WithTrick
<1>3. \A t \in Seat : w[t] \in [Card -> Nat]
    BY DEF Piles
<1>4. WithTrick(w[winner], trick) \in [Card -> Nat]
    <2>1. \A x \in Card : w[winner][x] + Cardinality({t \in Seat : trick[t] = x}) \in Nat
        <3>1. \A x \in Card : OnTable(trick, x) \in Nat /\ w[winner][x] \in Nat
            BY <1>3, TableCount
        <3>2. \A x \in Card : w[winner][x] + OnTable(trick, x) \in Nat
            BY <3>1
        <3> QED
            BY <1>1, <3>2, Zenon
    <2> QED
        BY <2>1 DEF WithTrick
<1>5. w2 \in Piles
    BY <1>0, <1>4 DEF Piles
<1>6. ASSUME NEW x \in Card PROVE Total(w2, x) = Total(w, x) + OnTable(trick, x)
    <2>1. \A t \in Seat : w2[t][x] = w[t][x] + (IF t = winner THEN OnTable(trick, x) ELSE 0)
        BY <1>0, <1>2, <1>3 DEF Piles
    <2>2. OnTable(trick, x) \in Nat /\ \A t \in Seat : w[t][x] \in Nat
        BY <1>3, TableCount
    <2> QED
        BY <2>1, <2>2, FourPlaces DEF Total
<1> QED
    BY <1>5, <1>6 DEF w2

\* The exchange gives every pass to one other seat: cards that are in the hands of
\* those who pass them are neither lost nor doubled.
LEMMA ExchangeCount ==
    ASSUME hands \in Piles, NEW passes \in Piles, passDir \in 0 .. 3
    PROVE  /\ AfterExchange(passes) \in Piles
           /\ \A x \in Card : (\A s \in Seat : passes[s][x] <= hands[s][x])
                                => Total(AfterExchange(passes), x) = Total(hands, x)
<1> DEFINE from(s) == CHOOSE f \in Seat : PassTarget(f, passDir) = s
<1>1. \A s \in Seat : from(s) = (s + 4 - passDir) % 4 /\ from(s) \in Seat
    <2> SUFFICES ASSUME NEW s \in Seat
                 PROVE  from(s) = (s + 4 - passDir) % 4 /\ from(s) \in Seat
        OBVIOUS
    <2>1. (s + 4 - passDir) % 4 \in Seat
        BY DEF Seat, NumPlayers
    <2>2. \A f \in Seat : PassTarget(f, passDir) = s <=> f = (s + 4 - passDir) % 4
        BY DEF PassTarget, Seat, NumPlayers
    <2> QED
        BY <2>1, <2>2
<1>2. \A s \in Seat, x \in Card :
          AfterExchange(passes)[s][x] = Less(hands[s][x], passes[s][x]) + passes[from(s)][x]
    BY DEF AfterExchange
<1>3. \A s \in Seat, x \in Card : hands[s][x] \in Nat /\ passes[s][x] \in Nat
    BY TotalCount
<1>4. AfterExchange(passes) \in Piles
    <2>1. \A s \in Seat, x \in Card :
              Less(hands[s][x], passes[s][x]) + passes[from(s)][x] \in Nat
        <3>1. \A m \in Nat, n \in Nat : Less(m, n) \in Nat
            BY DEF Less
        <3>2. \A s \in Seat, x \in Card :
                  Less(hands[s][x], passes[s][x]) \in Nat /\ passes[from(s)][x] \in Nat
            <4> HIDE DEF from
            <4> QED
                BY <1>1, <1>3, <3>1
        <3> HIDE DEF from
        <3> QED
            BY <3>2
    <2> QED
        BY <2>1 DEF AfterExchange, Piles
<1> HIDE DEF from
<1>5. ASSUME NEW x \in Card, \A s \in Seat : passes[s][x] <= hands[s][x]
      PROVE  Total(AfterExchange(passes), x) = Total(hands, x)
    <2>1. \A s \in Seat : Less(hands[s][x], passes[s][x]) = hands[s][x] - passes[s][x]
        BY <1>3, <1>5 DEF Less
    <2>2. Total(AfterExchange(passes), x) =
              (hands[0][x] - passes[0][x] + passes[from(0)][x])
              + (hands[1][x] - passes[1][x] + passes[from(1)][x])
              + (hands[2][x] - passes[2][x] + passes[from(2)][x])
              + (hands[3][x] - passes[3][x] + passes[from(3)][x])
        BY <1>2, <2>1, FourPlaces DEF Total
    <2>3. \/ from(0) = 0 /\ from(1) = 1 /\ from(2) = 2 /\ from(3) = 3
          \/ from(0) = 3 /\ from(1) = 0 /\ from(2) = 1 /\ from(3) = 2
          \/ from(0) = 2 /\ from(1) = 3 /\ from(2) = 0 /\ from(3) = 1
          \/ from(0) = 1 /\ from(1) = 2 /\ from(2) = 3 /\ from(3) = 0
        BY <1>1, FourPlaces
    <2>4. /\ hands[0][x] \in Nat /\ hands[1][x] \in Nat /\ hands[2][x] \in Nat /\ hands[3][x] \in Nat
          /\ passes[0][x] \in Nat /\ passes[1][x] \in Nat
          /\ passes[2][x] \in Nat /\ passes[3][x] \in Nat
        BY <1>3, FourPlaces
    <2> QED
        BY <2>2, <2>3, <2>4 DEF Total
<1> QED
    BY <1>4, <1>5

LEMMA CopiesNow ==
    PileType => \A x \in Card :
        Copies(x) = Total(hands, x) + Total(trickCards, x) + OnTable(cardsPlayed, x)
<1> SUFFICES ASSUME PileType, NEW x \in Card
             PROVE  Copies(x) = Total(hands, x) + Total(trickCards, x) + OnTable(cardsPlayed, x)
    OBVIOUS
<1>1. hands \in Piles /\ trickCards \in Piles
    BY DEF PileType, Piles
<1>2. CopiesIn(hands, trickCards, cardsPlayed, x)
      = Total(hands, x) + Total(trickCards, x) + OnTable(cardsPlayed, x)
    BY <1>1, CopiesAdd
<1> QED
    BY <1>2, Zenon DEF Copies, CopiesAt, CopiesIn

LEMMA CopiesNext ==
    PileType' => \A x \in Card :
        Copies(x)' = Total(hands', x) + Total(trickCards', x) + OnTable(cardsPlayed', x)
<1> SUFFICES ASSUME PileType', NEW x \in Card
             PROVE  Copies(x)' = Total(hands', x) + Total(trickCards', x) + OnTable(cardsPlayed', x)
    OBVIOUS
<1>1. hands' \in Piles /\ trickCards' \in Piles
    BY DEF PileType, Piles
<1>2. CopiesIn(hands', trickCards', cardsPlayed', x)
      = Total(hands', x) + Total(trickCards', x) + OnTable(cardsPlayed', x)
    BY <1>1, CopiesAdd
<1> QED
    BY <1>2, Zenon DEF Copies, CopiesAt, CopiesIn

LEMMA PileDeal ==
    ASSUME NEW n \in Nat, NEW leader \in Seat, NEW next \in Seat, StartNewHand(n, leader, next)
    PROVE  PileInv'
<1>1. PICK d \in Deals : hands' = DealtHands(d)
    BY DEF StartNewHand
<1>2. passCards' = NoCards /\ trickCards' = NoCards /\ cardsPlayed' = EmptyTrick
    BY DEF StartNewHand
<1>3. PileType'
    BY <1>1, <1>2, DealCount, NoCardsCount DEF PileType, Piles
<1>4. \A x \in Card : Copies(x)' = 1
    BY <1>1, <1>2, <1>3, CopiesNext, DealCount, NoCardsCount
<1>5. passed' = NoneOf
    BY DEF StartNewHand
<1> QED
    BY <1>3, <1>4, <1>5 DEF PileInv, CardsConserved, PassInv, NoneOf

\* The play of a card moves it to the table, and with the fourth all four to the
\* winner's pile: there are as many copies of each card as before.
LEMMA PilePlayOn ==
    ASSUME FlowInv, PileType, NEW s \in Seat, NEW c \in Card,
           state = "play", s = playerToPlay, hands[s][c] > 0,
           PlayOn(s, c, [cardsPlayed EXCEPT ![s] = c])
    PROVE  PileType' /\ \A x \in Card : Copies(x)' = Copies(x)
<1>1. hands \in Piles /\ trickCards \in Piles /\ passCards \in Piles
    BY DEF PileType, Piles
<1>2. /\ hands' = Taken(hands, s, c) /\ cardsPlayed' = [cardsPlayed EXCEPT ![s] = c]
      /\ UNCHANGED <<trickCards, passCards>>
    BY DEF PlayOn, TakeFromHand, Taken, passVars
<1>3. hands' \in Piles /\ \A x \in Card : Total(hands', x) = Total(hands, x) - One(x, c)
    BY <1>1, <1>2, TakeCount
<1>4. \A x \in Card : OnTable(cardsPlayed', x) = OnTable(cardsPlayed, x) + One(x, c)
    <2>1. cardsPlayed \in [Seat -> Card \cup {CardNone}] /\ cardsPlayed[s] = CardNone
        BY PlayFacts DEF FlowInv, HandType
    <2> QED
        BY <1>2, <2>1, PutCount
<1>5. PileType'
    BY <1>1, <1>2, <1>3 DEF PileType, Piles
<1>6. ASSUME NEW x \in Card PROVE Copies(x)' = Copies(x)
    <2>1. /\ Total(hands, x) \in Nat /\ Total(trickCards, x) \in Nat
          /\ OnTable(cardsPlayed, x) \in Nat /\ One(x, c) \in Nat
        BY <1>1, TotalCount, TableCount DEF One
    <2>2. /\ Total(hands', x) = Total(hands, x) - One(x, c)
          /\ OnTable(cardsPlayed', x) = OnTable(cardsPlayed, x) + One(x, c)
          /\ Total(trickCards', x) = Total(trickCards, x)
        BY <1>2, <1>3, <1>4
    <2>3. /\ Copies(x) = Total(hands, x) + Total(trickCards, x) + OnTable(cardsPlayed, x)
          /\ Copies(x)' = Total(hands', x) + Total(trickCards', x) + OnTable(cardsPlayed', x)
        BY <1>5, CopiesNow, CopiesNext
    <2> QED
        BY <2>1, <2>2, <2>3
<1> QED
    BY <1>5, <1>6

LEMMA PileTrick ==
    ASSUME FlowInv, PileType, NEW s \in Seat, NEW c \in Card,
           state = "play", s = playerToPlay, hands[s][c] > 0, NEW winner \in Seat,
           TakeFromHand(s, c), UNCHANGED passCards,
           ClearTrick(winner, [trickCards EXCEPT
                                   ![winner] = WithTrick(@, [cardsPlayed EXCEPT ![s] = c])])
    PROVE  PileType' /\ \A x \in Card : Copies(x)' = Copies(x)
<1> DEFINE trick == [cardsPlayed EXCEPT ![s] = c]
<1>1. hands \in Piles /\ trickCards \in Piles /\ passCards \in Piles
    BY DEF PileType, Piles
<1>2. /\ hands' = Taken(hands, s, c) /\ cardsPlayed' = EmptyTrick
      /\ trickCards' = Won(trickCards, winner, trick)
    BY DEF TakeFromHand, ClearTrick, Taken, Won
<1>3. hands' \in Piles /\ \A x \in Card : Total(hands', x) = Total(hands, x) - One(x, c)
    BY <1>1, <1>2, TakeCount
<1>4. \A x \in Card : OnTable(trick, x) = OnTable(cardsPlayed, x) + One(x, c)
    <2>1. cardsPlayed \in [Seat -> Card \cup {CardNone}] /\ cardsPlayed[s] = CardNone
        BY PlayFacts DEF FlowInv, HandType
    <2> QED
        BY <1>2, <2>1, PutCount
<1> HIDE DEF trick
<1>5. /\ trickCards' \in Piles
      /\ \A x \in Card : Total(trickCards', x) = Total(trickCards, x) + OnTable(trick, x)
    BY <1>1, <1>2, WinCount
<1>6. PileType'
    BY <1>1, <1>3, <1>5 DEF PileType, Piles
<1>7. ASSUME NEW x \in Card PROVE Copies(x)' = Copies(x)
    <2>1. /\ Total(hands, x) \in Nat /\ Total(trickCards, x) \in Nat
          /\ OnTable(cardsPlayed, x) \in Nat /\ One(x, c) \in Nat
        BY <1>1, TotalCount, TableCount DEF One
    <2>2. /\ Total(hands', x) = Total(hands, x) - One(x, c)
          /\ Total(trickCards', x) = Total(trickCards, x) + OnTable(cardsPlayed, x) + One(x, c)
          /\ OnTable(cardsPlayed', x) = 0
        <3>1. OnTable(EmptyTrick, x) = 0
            BY NoCardsCount
        <3>2. Total(trickCards', x) = Total(trickCards, x) + (OnTable(cardsPlayed, x) + One(x, c))
            BY <1>4, <1>5
        <3>3. \A m, n, k \in Nat : m + (n + k) = m + n + k
            OBVIOUS
        <3> QED
            BY <1>2, <1>3, <2>1, <3>1, <3>2, <3>3
    <2>3. /\ Copies(x) = Total(hands, x) + Total(trickCards, x) + OnTable(cardsPlayed, x)
          /\ Copies(x)' = Total(hands', x) + Total(trickCards', x) + OnTable(cardsPlayed', x)
        BY <1>6, CopiesNow, CopiesNext
    <2> QED
        BY <2>1, <2>2, <2>3
<1> QED
    BY <1>6, <1>7

LEMMA PilePlay ==
    ASSUME FlowInv, PileInv, NEW s \in Seat, NEW c \in Card, HandlePlayCard(s, c)
    PROVE  PileInv'
<1>1. state = "play" /\ s = playerToPlay /\ hands[s][c] > 0 /\ PileType
    BY PlayCases DEF PileInv
<1>2. ASSUME PileType', \A x \in Card : Copies(x)' = Copies(x), state' # "pass"
      PROVE  PileInv'
    BY <1>1, <1>2 DEF PileInv, CardsConserved, PassInv
<1>3. CASE PlayOn(s, c, [cardsPlayed EXCEPT ![s] = c])
    <2>1. state' = state
        BY <1>3 DEF PlayOn
    <2> QED
        BY <1>1, <1>2, <1>3, <2>1, PilePlayOn
<1>4. CASE TrickResolved(s, c)
    <2> DEFINE trick  == [cardsPlayed EXCEPT ![s] = c]
               winner == TrickWinner(trick, leadPlayer)
               piles  == [trickCards EXCEPT ![winner] = WithTrick(@, trick)]
    <2>1. winner \in Seat
        BY <1>1, <1>4, PlayFacts DEF TrickResolved
    <2>2. ASSUME TakeFromHand(s, c), UNCHANGED passCards, ClearTrick(winner, piles),
                 state' # "pass"
          PROVE  PileInv'
        BY <1>1, <1>2, <2>1, <2>2, PileTrick
    <2>3. ResolveTrick(s, c, winner, piles) \/ EndHand(s, c, winner, piles)
        BY <1>4 DEF TrickResolved
    <2> HIDE DEF winner, piles
    <2>4. CASE ResolveTrick(s, c, winner, piles)
        BY <1>1, <2>2, <2>4 DEF ResolveTrick, passVars
    <2>5. CASE EndHand(s, c, winner, piles)
        <3>1. CASE GameOver(scores')
            BY <2>2, <2>5, <3>1 DEF EndHand, EndGame, passVars
        <3>2. CASE ~GameOver(scores')
            <4>1. StartNewHand(handNum', winner, winner) /\ handNum' \in Nat
                BY <2>5, <3>2 DEF EndHand, FlowInv, SessionType
            <4> QED
                BY <2>1, <4>1, PileDeal
        <3> QED
            BY <3>1, <3>2
    <2> QED
        BY <2>3, <2>4, <2>5
<1> QED
    BY <1>3, <1>4, PlayCases

\* Whoever passes different cards passes cards he holds.
LEMMA PassHeld ==
    ASSUME PileType, NEW s \in Seat, NEW b \in Passes(s)
    PROVE  /\ b \in [Card -> Nat]
           /\ s \in Honest => \A x \in Card : b[x] <= hands[s][x]
<1>1. PICK f \in [Held(s) -> 0 .. CardsToPass] :
          /\ s \in Honest => \A x \in Held(s) : f[x] <= hands[s][x]
          /\ b = [x \in Card |-> IF x \in Held(s) THEN f[x] ELSE 0]
    BY DEF Passes
<1>2. \A x \in Held(s) : f[x] \in Nat
    BY ConstantsAssumption
<1>3. \A x \in Card : hands[s][x] \in Nat
    BY DEF PileType
<1> QED
    BY <1>1, <1>2, <1>3

LEMMA PilePass ==
    ASSUME FlowInv, PileInv, NEW s \in Seat, NEW b \in Passes(s), HandlePassCards(s, b)
    PROVE  PileInv'
<1> DEFINE passes == [passCards EXCEPT ![s] = b]
<1>1. /\ hands \in Piles /\ trickCards \in Piles /\ passCards \in Piles /\ PileType
      /\ passed \in [Seat -> BOOLEAN]
    BY DEF PileInv, PileType, Piles, FlowInv, HandType
<1>2. passes \in Piles
    BY <1>1, PassHeld DEF Piles
<1>3. /\ state = "pass" /\ passed' = [passed EXCEPT ![s] = TRUE]
      /\ trickCards' = trickCards /\ cardsPlayed' = cardsPlayed
    BY DEF HandlePassCards, trickVars
<1>4. ASSUME Honest = Seat, NEW t \in Seat, passed'[t], NEW x \in Card
      PROVE  passes[t][x] <= hands[t][x]
    <2>1. CASE t = s
        BY <1>1, <1>4, <2>1, PassHeld DEF Piles
    <2>2. CASE t # s
        BY <1>1, <1>3, <1>4, <2>2 DEF PileInv, PassInv, Piles
    <2> QED
        BY <2>1, <2>2
<1> HIDE DEF passes
<1>5. CASE passCnt' = NumPlayers
    <2>1. hands' = AfterExchange(passes) /\ passCards' = NoCards /\ state' = "play"
        BY <1>5, Zenon DEF HandlePassCards, BeginPlay, passes
    <2>2. \A t \in Seat : passed'[t]
        <3>1. FlowInv'
            BY FlowPass
        <3> QED
            BY <1>5, <3>1, HoldersCount DEF FlowInv, HandType, CountersExact
    <2>3. /\ hands' \in Piles
          /\ Honest = Seat => \A x \in Card : Total(hands', x) = Total(hands, x)
        <3>1. passDir \in 0 .. 3
            BY DEF FlowInv, HandType
        <3>2. Honest = Seat => \A t \in Seat, x \in Card : passes[t][x] <= hands[t][x]
            BY <1>4, <2>2
        <3> QED
            BY <1>1, <1>2, <2>1, <3>1, <3>2, ExchangeCount
    <2>4. PileType'
        BY <1>1, <1>3, <2>1, <2>3, NoCardsCount DEF PileType, Piles
    <2>5. Honest = Seat => \A x \in Card : Copies(x)' = Copies(x)
        BY <1>1, <1>3, <2>3, <2>4, CopiesNow, CopiesNext
    <2> QED
        BY <1>3, <2>1, <2>4, <2>5 DEF PileInv, CardsConserved, PassInv
<1>6. CASE passCnt' # NumPlayers
    <2>1. passCards' = passes /\ hands' = hands /\ state' = state
        BY <1>6, Zenon DEF HandlePassCards, passes
    <2>2. PileType'
        BY <1>1, <1>2, <1>3, <2>1 DEF PileType, Piles
    <2>3. \A x \in Card : Copies(x)' = Copies(x)
        BY <1>1, <1>3, <2>1, <2>2, CopiesNow, CopiesNext
    <2>4. Honest = Seat => PassInv'
        BY <1>4, <2>1 DEF PassInv
    <2> QED
        BY <1>3, <2>1, <2>2, <2>3, <2>4 DEF PileInv, CardsConserved
<1> QED
    BY <1>5, <1>6

LEMMA PileUnmoved ==
    ASSUME PileInv, UNCHANGED <<state, hands, passVars, cardsPlayed, trickCards>>
    PROVE  PileInv'
BY DEF PileInv, PileType, CardsConserved, Copies, CopiesAt, PassInv, passVars

LEMMA PileStep == FlowInv /\ PileInv /\ [Next]_vars => PileInv'
<1> SUFFICES ASSUME FlowInv, PileInv, [Next]_vars PROVE PileInv'
    OBVIOUS
<1> USE DEF passVars, trickVars
<1>1. CASE UNCHANGED vars
    BY <1>1, PileUnmoved DEF vars
<1>2. ASSUME NEW s \in Seat, HandleCheckIn(s) PROVE PileInv'
    BY <1>2, PileUnmoved DEF HandleCheckIn
<1>3. ASSUME NEW s \in Seat, HandleClientReady(s) PROVE PileInv'
    <2>1. CASE StartNewHand(handNum, leadPlayer, playerToPlay)
        BY <2>1, PileDeal DEF FlowInv, SessionType, HandType
    <2>2. CASE UNCHANGED <<state, hands, passVars, turnVars, trickVars, pointsBroken>>
        BY <2>2, PileUnmoved
    <2> QED
        BY <1>3, <2>1, <2>2 DEF HandleClientReady
<1>4. ASSUME NEW s \in Seat, Pass(s) PROVE PileInv'
    BY <1>4, PilePass DEF Pass
<1>5. ASSUME NEW s \in Seat, Play(s) PROVE PileInv'
    BY <1>5, PilePlay DEF Play
<1>6. ASSUME NEW s \in Seat, HandleNewGame(s) PROVE PileInv'
    <2>1. CASE StartNewHand(0, leadPlayer, playerToPlay)
        BY <2>1, PileDeal DEF FlowInv, HandType
    <2>2. CASE UNCHANGED <<state, gameVars, hands, passVars, turnVars, trickVars, pointsBroken>>
        BY <2>2, PileUnmoved
    <2> QED
        BY <1>6, <2>1, <2>2 DEF HandleNewGame
<1> QED
    BY <1>1, <1>2, <1>3, <1>4, <1>5, <1>6 DEF Next

LEMMA PileInit == Init => PileInv
BY NoCardsCount DEF Init, PileInv, PileType, Piles, CardsConserved, PassInv

\* Of clients that pass different cards, every card is in one place from the deal to
\* the end of the hand, and none is in two: the deal, the exchange in any direction,
\* the play and the winning of tricks lose and double nothing (NewDeck, resolvePass,
\* handlePlayCard, resolveTrick).
THEOREM CardsKept == Spec => [](Honest = Seat => CardsConserved)
<1>1. PileInv => (Honest = Seat => CardsConserved)
    BY DEF PileInv
<1> QED
    BY <1>1, FlowInvariant, PileInit, PileStep, PTL DEF Spec

-----------------------------------------------------------------------------
(* The sizes of hands *)

\* How many cards a pile has, and a seat has on the table.
Size(pile) == SumFunctionOnSet(pile, Card)
Lying(s) == IF cardsPlayed[s] # CardNone THEN 1 ELSE 0

\* What a seat has passed are as many cards as are due, of those in its hand.
DuePass(s) ==
    /\ Size(passCards[s]) = CardsToPass
    /\ \A c \in Card : passCards[s][c] > 0 => hands[s][c] > 0

\* The cards that seat s has and has played are not fewer than dealt, and not more
\* if everybody passes different ones.
Enough(s) ==
    /\ Size(hands[s]) + trickNum + Lying(s) >= CardsPerPlayer
    /\ Honest = Seat => Size(hands[s]) + trickNum + Lying(s) = CardsPerPlayer

HoldInv ==
    /\ \A s \in Seat : Size(hands[s]) < CardsPerPlayer + CardsToPass
    /\ state = "play" => \A s \in Seat : Enough(s)
    /\ state = "pass" => /\ trickNum = 0
                         /\ \A s \in Seat : Size(hands[s]) = CardsPerPlayer
                         /\ \A s \in Seat : passed[s] => DuePass(s)

LEMMA CardsFinite == IsFiniteSet(Card)
<1>1. 4 * NumRanks - 1 \in Int /\ 0 \in Int
    BY ConstantsAssumption
<1> QED
    BY <1>1, FS_Interval DEF Card

LEMMA SizeFacts ==
    ASSUME NEW pile \in [Card -> Nat]
    PROVE  /\ Size(pile) \in Nat /\ SumFunction(pile) = Size(pile)
           /\ Size(pile) = 0 => \A x \in Card : pile[x] = 0
           /\ (\A x \in Card : pile[x] = 0) => Size(pile) = 0
<1> DEFINE zero == [x \in Card |-> 0]
<1>1. \A x \in Card : zero[x] \in Int /\ pile[x] \in Int /\ zero[x] <= pile[x] /\ zero[x] = 0
    OBVIOUS
<1>2. SumFunctionOnSet(zero, Card) = 0
    <2>1. SumFunctionOnSet(zero, Card) = SumFunctionOnSet(zero, {})
        BY CardsFinite, SumWithin
    <2> QED
        BY <1>1, <2>1, CardsFinite, SumSteps
<1> HIDE DEF zero
<1>3. /\ SumFunctionOnSet(zero, Card) <= Size(pile)
      /\ SumFunctionOnSet(zero, Card) = Size(pile) => \A x \in Card : zero[x] = pile[x]
    BY <1>1, CardsFinite, SumGrows DEF Size
<1>4. Size(pile) \in Int
    BY <1>1, CardsFinite, SumSteps DEF Size
<1>5. (\A x \in Card : pile[x] = 0) => pile = zero
    BY <1>1 DEF zero
<1>6. SumFunction(pile) = Size(pile)
    BY DEF SumFunction, Size
<1> QED
    BY <1>1, <1>2, <1>3, <1>4, <1>5, <1>6 DEF Size

\* One copy of one card.
LEMMA SizeOfOne ==
    ASSUME NEW c \in Card
    PROVE  Size([x \in Card |-> One(x, c)]) = 1
<1> DEFINE e == [x \in Card |-> One(x, c)]
           g == [x \in Card |-> 1]
<1>1. \A x \in Card : e[x] = IF x \in {c} THEN g[x] ELSE 0
    BY DEF One
<1>2. /\ \A x \in {c} : g[x] \in Int
      /\ \A x \in {c} : g[x] = 1
      /\ {c} \in SUBSET Card
    OBVIOUS
<1> HIDE DEF e, g
<1>3. SumFunctionOnSet(e, Card) = SumFunctionOnSet(g, {c})
    BY <1>1, <1>2, CardsFinite, SumWithin
<1>4. IsFiniteSet({c}) /\ Cardinality({c}) = 1
    BY FS_Singleton
<1>5. SumFunctionOnSet(g, {c}) = 1
    BY <1>2, <1>4, SumOfOnes
<1> QED
    BY <1>3, <1>5 DEF Size, e

LEMMA SizeTaken ==
    ASSUME NEW pile \in [Card -> Nat], NEW c \in Card, pile[c] > 0
    PROVE  /\ [pile EXCEPT ![c] = @ - 1] \in [Card -> Nat]
           /\ Size([pile EXCEPT ![c] = @ - 1]) = Size(pile) - 1
<1> DEFINE less == [pile EXCEPT ![c] = @ - 1]
           e == [x \in Card |-> One(x, c)]
<1>1. less \in [Card -> Nat]
    OBVIOUS
<1>2. \A x \in Card : less[x] \in Int /\ e[x] \in Int /\ pile[x] = less[x] + e[x]
    BY DEF One
<1>3. Size(e) = 1
    BY SizeOfOne
<1> HIDE DEF less, e
<1>4. Size(pile) = Size(less) + Size(e)
    BY <1>2, CardsFinite, SumAdds DEF Size
<1>5. Size(less) \in Nat
    BY <1>1, SizeFacts
<1> QED
    BY <1>1, <1>3, <1>4, <1>5 DEF less

\* A deal gives every seat its cards.
LEMMA SizeDealt ==
    ASSUME NEW d \in Deals, NEW s \in Seat
    PROVE  Size(DealtHands(d)[s]) = CardsPerPlayer
<1> DEFINE A == {c \in Card : d[c] = s}
           g == [c \in Card |-> 1]
           pile == DealtHands(d)[s]
<1>1. A \in SUBSET Card /\ \A x \in A : g[x] \in Int
    OBVIOUS
<1>2. \A x \in Card : pile[x] = IF x \in A THEN g[x] ELSE 0
    BY DEF DealtHands
<1>3. IsFiniteSet(A)
    BY CardsFinite, FS_Subset
<1>4. \A x \in A : g[x] = 1
    OBVIOUS
<1>5. Cardinality(A) = CardsPerPlayer
    BY EverySeatIsDealtAHand
<1> HIDE DEF A, g, pile
<1>6. SumFunctionOnSet(pile, Card) = SumFunctionOnSet(g, A)
    BY <1>1, <1>2, CardsFinite, SumWithin
<1>7. SumFunctionOnSet(g, A) = Cardinality(A)
    BY <1>3, <1>4, SumOfOnes
<1> QED
    BY <1>5, <1>6, <1>7 DEF Size, pile

\* A pass that is accepted.
LEMMA SizePassed ==
    ASSUME PileType, NEW s \in Seat, NEW b \in Passes(s)
    PROVE  Size(b) = CardsToPass /\ \A c \in Card : b[c] > 0 => hands[s][c] > 0
<1>1. PICK f \in [Held(s) -> 0 .. CardsToPass] :
          /\ SumFunction(f) = CardsToPass
          /\ b = [x \in Card |-> IF x \in Held(s) THEN f[x] ELSE 0]
    BY DEF Passes
<1>2. Held(s) \in SUBSET Card /\ \A x \in Held(s) : hands[s][x] > 0
    BY DEF Held
<1>3. \A x \in Card : b[x] = IF x \in Held(s) THEN f[x] ELSE 0
    BY <1>1
<1>4. \A x \in Held(s) : f[x] \in Int
    BY <1>1
<1>5. SumFunctionOnSet(b, Card) = SumFunctionOnSet(f, Held(s))
    BY <1>2, <1>3, <1>4, CardsFinite, SumWithin
<1>6. SumFunction(f) = SumFunctionOnSet(f, Held(s))
    BY DEF SumFunction
<1> QED
    BY <1>1, <1>2, <1>3, <1>5, <1>6 DEF Size

\* Giving up cards of which one at least is in the hand, and taking as many as are
\* passed.
LEMMA SizeExchanged ==
    ASSUME NEW held \in [Card -> Nat], NEW out \in [Card -> Nat], NEW new \in [Card -> Nat],
           Size(out) = CardsToPass, Size(new) = CardsToPass,
           \A x \in Card : out[x] > 0 => held[x] > 0
    PROVE  LET next == [x \in Card |-> Less(held[x], out[x]) + new[x]]
           IN /\ Size(next) >= Size(held)
              /\ Size(next) < Size(held) + CardsToPass
              /\ (\A x \in Card : out[x] <= held[x]) => Size(next) = Size(held)
<1> DEFINE left == [x \in Card |-> Less(held[x], out[x])]
           next == [x \in Card |-> left[x] + new[x]]
           both == [x \in Card |-> left[x] + out[x]]
<1>1. \A x \in Card : left[x] \in Nat /\ new[x] \in Nat /\ out[x] \in Nat /\ held[x] \in Nat
    BY DEF Less
<1>2. \A x \in Card : left[x] = IF held[x] > out[x] THEN held[x] - out[x] ELSE 0
    BY DEF Less
<1>3. /\ next = [x \in Card |-> Less(held[x], out[x]) + new[x]]
      /\ left \in [Card -> Nat]
      /\ \A x \in Card : next[x] = left[x] + new[x] /\ both[x] = left[x] + out[x]
    BY <1>1
<1> HIDE DEF left, next, both
<1>4. /\ Size(left) \in Nat /\ Size(held) \in Nat /\ CardsToPass \in Nat \ {0}
    BY <1>3, SizeFacts, ConstantsAssumption
<1>5. Size(next) = Size(left) + Size(new)
    <2>1. \A x \in Card : left[x] \in Int /\ new[x] \in Int /\ next[x] = left[x] + new[x]
        BY <1>1, <1>3
    <2> QED
        BY <2>1, CardsFinite, SumAdds DEF Size
<1>6. Size(both) = Size(left) + Size(out)
    <2>1. \A x \in Card : left[x] \in Int /\ out[x] \in Int /\ both[x] = left[x] + out[x]
        BY <1>1, <1>3
    <2> QED
        BY <2>1, CardsFinite, SumAdds DEF Size
<1>7. Size(next) = Size(left) + CardsToPass /\ Size(both) = Size(left) + CardsToPass
    BY <1>5, <1>6
<1>8. Size(held) <= Size(both)
    <2>1. \A x \in Card : held[x] \in Int /\ both[x] \in Int /\ held[x] <= both[x]
        BY <1>1, <1>2, <1>3
    <2> QED
        BY <2>1, CardsFinite, SumGrows DEF Size
<1>9. Size(left) < Size(held)
    <2>1. \A x \in Card : left[x] \in Int /\ held[x] \in Int /\ left[x] <= held[x]
        BY <1>1, <1>2
    <2>2. /\ Size(left) <= Size(held)
          /\ Size(left) = Size(held) => \A x \in Card : left[x] = held[x]
        BY <2>1, CardsFinite, SumGrows DEF Size
    <2>3. PICK x \in Card : out[x] # 0
        BY <1>4, SizeFacts
    <2>4. left[x] # held[x]
        BY <1>1, <1>2, <2>3
    <2> QED
        BY <1>4, <2>2, <2>4
<1>10. ASSUME \A x \in Card : out[x] <= held[x] PROVE Size(next) = Size(held)
    <2>1. \A x \in Card : left[x] \in Int /\ out[x] \in Int /\ held[x] = left[x] + out[x]
        BY <1>1, <1>2, <1>10
    <2>2. Size(held) = Size(left) + Size(out)
        BY <2>1, CardsFinite, SumAdds DEF Size
    <2> QED
        BY <1>7, <2>2
<1>11. Size(next) >= Size(held) /\ Size(next) < Size(held) + CardsToPass
    BY <1>4, <1>7, <1>8, <1>9
<1> QED
    BY <1>3, <1>10, <1>11

-----------------------------------------------------------------------------
(* Every seat has cards for the tricks left to it *)

LEMMA HoldDeal ==
    ASSUME NEW n \in Nat, NEW leader \in Seat, NEW next \in Seat, StartNewHand(n, leader, next)
    PROVE  HoldInv'
<1>1. PICK d \in Deals : hands' = DealtHands(d)
    BY DEF StartNewHand
<1>2. /\ trickNum' = 0 /\ cardsPlayed' = EmptyTrick /\ passed' = NoneOf
    BY DEF StartNewHand
<1>3. \A s \in Seat : Size(hands[s])' = CardsPerPlayer
    BY <1>1, SizeDealt DEF Size
<1>4. \A s \in Seat : Lying(s)' = 0 /\ ~passed'[s]
    BY <1>2 DEF Lying, EmptyTrick, NoneOf
<1>5. \A s \in Seat : Enough(s)'
    BY <1>2, <1>3, <1>4, ConstantsAssumption DEF Enough
<1> QED
    BY <1>2, <1>3, <1>4, <1>5, ConstantsAssumption DEF HoldInv

\* The hands after a card is taken from that of seat s.
LEMMA HandsTaken ==
    ASSUME PileType, NEW s \in Seat, NEW c \in Card, hands[s][c] > 0, TakeFromHand(s, c)
    PROVE  /\ hands' \in Piles /\ Size(hands'[s]) = Size(hands[s]) - 1
           /\ \A t \in Seat \ {s} : hands'[t] = hands[t]
<1>1. hands \in Piles /\ hands' = Taken(hands, s, c)
    BY DEF PileType, Piles, TakeFromHand, Taken
<1>2. hands' \in Piles
    BY <1>1, TakeCount
<1>3. hands[s] \in [Card -> Nat]
    BY <1>1 DEF Piles
<1>4. /\ hands'[s] = [hands[s] EXCEPT ![c] = @ - 1]
      /\ \A t \in Seat \ {s} : hands'[t] = hands[t]
    BY <1>1 DEF Taken, Piles
<1> QED
    BY <1>2, <1>3, <1>4, SizeTaken

LEMMA HoldPlayOn ==
    ASSUME FlowInv, PileType, HoldInv, NEW s \in Seat, NEW c \in Card,
           state = "play", s = playerToPlay, hands[s][c] > 0,
           PlayOn(s, c, [cardsPlayed EXCEPT ![s] = c])
    PROVE  HoldInv'
<1>1. /\ TakeFromHand(s, c) /\ cardsPlayed' = [cardsPlayed EXCEPT ![s] = c]
      /\ state' = state /\ trickNum' = trickNum
    BY DEF PlayOn
<1>2. /\ hands' \in Piles /\ Size(hands'[s]) = Size(hands[s]) - 1
      /\ \A t \in Seat \ {s} : hands'[t] = hands[t]
    BY <1>1, HandsTaken
<1>3. /\ cardsPlayed[s] = CardNone /\ c # CardNone
      /\ cardsPlayed \in [Seat -> Card \cup {CardNone}]
      /\ trickNum \in Nat
    BY PlayFacts, CardFacts, ConstantsAssumption DEF FlowInv, HandType
<1>4. \A t \in Seat : Size(hands[t]) \in Nat
    BY SizeFacts DEF PileType
<1>5. /\ Lying(s) = 0 /\ Lying(s)' = 1
      /\ \A t \in Seat \ {s} : Lying(t)' = Lying(t) /\ Lying(t) \in Nat
    BY <1>1, <1>3 DEF Lying
<1>6. ASSUME NEW t \in Seat
      PROVE  /\ Size(hands'[t]) <= Size(hands[t])
             /\ Size(hands'[t]) + Lying(t)' = Size(hands[t]) + Lying(t)
    BY <1>2, <1>4, <1>5
<1>7. ASSUME NEW t \in Seat
      PROVE  Size(hands'[t]) < CardsPerPlayer + CardsToPass
    <2>1. Size(hands[t]) < CardsPerPlayer + CardsToPass /\ Size(hands'[t]) \in Nat
        BY <1>2, SizeFacts DEF HoldInv, Piles
    <2> QED
        BY <1>4, <1>6, <2>1, ConstantsAssumption
<1>8. ASSUME NEW t \in Seat PROVE Enough(t)'
    <2>1. Enough(t)
        BY DEF HoldInv
    <2>2. /\ Size(hands'[t]) \in Nat /\ Size(hands[t]) \in Nat /\ CardsPerPlayer \in Nat
          /\ Lying(t) \in Nat /\ Lying(t)' \in Nat
        BY <1>2, <1>4, <1>5, SizeFacts, ConstantsAssumption DEF Piles
    <2>3. Size(hands'[t]) + trickNum + Lying(t)' = Size(hands[t]) + trickNum + Lying(t)
        BY <1>3, <1>6, <2>2
    <2> QED
        BY <1>1, <2>1, <2>3 DEF Enough
<1> QED
    BY <1>1, <1>7, <1>8 DEF HoldInv

\* The fourth card of a trick: one more trick, and none on the table.
LEMMA HoldTrick ==
    ASSUME FlowInv, PileType, HoldInv, NEW s \in Seat, NEW c \in Card,
           state = "play", s = playerToPlay, hands[s][c] > 0, cardsPlayCnt + 1 = NumPlayers,
           TakeFromHand(s, c), cardsPlayed' = EmptyTrick, trickNum' = trickNum + 1,
           state' \in {"play", "end"}
    PROVE  HoldInv'
<1>1. /\ hands' \in Piles /\ Size(hands'[s]) = Size(hands[s]) - 1
      /\ \A t \in Seat \ {s} : hands'[t] = hands[t]
    BY HandsTaken
<1>2. /\ cardsPlayed[s] = CardNone /\ trickNum \in Nat
      /\ cardsPlayed \in [Seat -> Card \cup {CardNone}]
      /\ [cardsPlayed EXCEPT ![s] = c] \in [Seat -> Card]
    <2>1. cardsPlayed[s] = CardNone /\ [cardsPlayed EXCEPT ![s] = c] \in [Seat -> Card]
        BY PlayFacts
    <2>2. trickNum \in Nat /\ cardsPlayed \in [Seat -> Card \cup {CardNone}]
        BY ConstantsAssumption DEF FlowInv, HandType
    <2> QED
        BY <2>1, <2>2
<1>3. \A t \in Seat \ {s} : cardsPlayed[t] # CardNone
    BY <1>2, CardFacts
<1>4. /\ Lying(s) = 0 /\ \A t \in Seat \ {s} : Lying(t) = 1
      /\ \A t \in Seat : Lying(t)' = 0
    BY <1>2, <1>3 DEF Lying, EmptyTrick
<1>5. \A t \in Seat : Size(hands[t]) \in Nat
    BY SizeFacts DEF PileType
<1>6. ASSUME NEW t \in Seat
      PROVE  /\ Size(hands'[t]) <= Size(hands[t])
             /\ Size(hands'[t]) + 1 = Size(hands[t]) + Lying(t)
    BY <1>1, <1>4, <1>5
<1>7. ASSUME NEW t \in Seat
      PROVE  Size(hands'[t]) < CardsPerPlayer + CardsToPass
    <2>1. Size(hands[t]) < CardsPerPlayer + CardsToPass /\ Size(hands'[t]) \in Nat
        BY <1>1, SizeFacts DEF HoldInv, Piles
    <2> QED
        BY <1>5, <1>6, <2>1, ConstantsAssumption
<1>8. ASSUME NEW t \in Seat PROVE Enough(t)'
    <2>1. Enough(t)
        BY DEF HoldInv
    <2>2. /\ Size(hands'[t]) \in Nat /\ Size(hands[t]) \in Nat
          /\ Lying(t) \in Nat /\ Lying(t)' = 0
        BY <1>1, <1>4, <1>5, SizeFacts DEF Piles
    <2>3. Size(hands'[t]) + trickNum' + Lying(t)' = Size(hands[t]) + trickNum + Lying(t)
        BY <1>2, <1>6, <2>2
    <2> QED
        BY <2>1, <2>3 DEF Enough
<1> QED
    BY <1>7, <1>8 DEF HoldInv

LEMMA HoldPlay ==
    ASSUME FlowInv, PileInv, HoldInv, NEW s \in Seat, NEW c \in Card, HandlePlayCard(s, c)
    PROVE  HoldInv'
<1>1. state = "play" /\ s = playerToPlay /\ hands[s][c] > 0 /\ PileType
    BY PlayCases DEF PileInv
<1>2. CASE PlayOn(s, c, [cardsPlayed EXCEPT ![s] = c])
    BY <1>1, <1>2, HoldPlayOn
<1>3. CASE TrickResolved(s, c)
    <2> DEFINE trick  == [cardsPlayed EXCEPT ![s] = c]
               winner == TrickWinner(trick, leadPlayer)
               piles  == [trickCards EXCEPT ![winner] = WithTrick(@, trick)]
    <2>1. winner \in Seat /\ cardsPlayCnt + 1 = NumPlayers
        BY <1>1, <1>3, PlayFacts DEF TrickResolved
    <2>2. ResolveTrick(s, c, winner, piles) \/ EndHand(s, c, winner, piles)
        BY <1>3 DEF TrickResolved
    <2> HIDE DEF winner, piles
    <2>3. ASSUME TakeFromHand(s, c), ClearTrick(winner, piles), state' \in {"play", "end"}
          PROVE  HoldInv'
        BY <1>1, <2>1, <2>3, HoldTrick DEF ClearTrick
    <2>4. CASE ResolveTrick(s, c, winner, piles)
        BY <1>1, <2>3, <2>4 DEF ResolveTrick
    <2>5. CASE EndHand(s, c, winner, piles)
        <3>1. CASE GameOver(scores')
            BY <2>3, <2>5, <3>1 DEF EndHand, EndGame
        <3>2. CASE ~GameOver(scores')
            <4>1. StartNewHand(handNum', winner, winner) /\ handNum' \in Nat
                BY <2>5, <3>2 DEF EndHand, FlowInv, SessionType
            <4> QED
                BY <2>1, <4>1, HoldDeal
        <3> QED
            BY <3>1, <3>2
    <2> QED
        BY <2>2, <2>4, <2>5
<1> QED
    BY <1>2, <1>3, PlayCases

LEMMA HoldPass ==
    ASSUME FlowInv, PileInv, HoldInv, NEW s \in Seat, NEW b \in Passes(s), HandlePassCards(s, b)
    PROVE  HoldInv'
<1> DEFINE passes == [passCards EXCEPT ![s] = b]
<1>1. /\ hands \in Piles /\ passCards \in Piles /\ PileType
      /\ passed \in [Seat -> BOOLEAN] /\ passDir \in 0 .. 3
    BY DEF PileInv, PileType, Piles, FlowInv, HandType
<1>2. /\ b \in [Card -> Nat] /\ Size(b) = CardsToPass
      /\ \A x \in Card : b[x] > 0 => hands[s][x] > 0
      /\ s \in Honest => \A x \in Card : b[x] <= hands[s][x]
    BY <1>1, PassHeld, SizePassed
<1>3. passes \in Piles
    BY <1>1, <1>2 DEF Piles
<1>4. /\ state = "pass" /\ passed' = [passed EXCEPT ![s] = TRUE]
      /\ trickNum' = trickNum /\ cardsPlayed' = cardsPlayed
      /\ trickNum = 0 /\ cardsPlayed = EmptyTrick
    BY DEF HandlePassCards, trickVars, HoldInv, FlowInv, TrickInv
<1>5. ASSUME NEW t \in Seat, passed'[t]
      PROVE  /\ Size(passes[t]) = CardsToPass
             /\ \A x \in Card : passes[t][x] > 0 => hands[t][x] > 0
             /\ Honest = Seat => \A x \in Card : passes[t][x] <= hands[t][x]
    <2>1. CASE t = s
        <3>1. passes[t] = b
            BY <1>1, <2>1 DEF Piles
        <3> QED
            BY <1>2, <2>1, <3>1
    <2>2. CASE t # s
        <3>1. passes[t] = passCards[t] /\ passed[t]
            BY <1>1, <1>4, <1>5, <2>2 DEF Piles
        <3>2. DuePass(t)
            BY <1>4, <3>1 DEF HoldInv
        <3>3. Honest = Seat => \A x \in Card : passCards[t][x] <= hands[t][x]
            BY <1>4, <3>1 DEF PileInv, PassInv
        <3> QED
            BY <3>1, <3>2, <3>3 DEF DuePass
    <2> QED
        BY <2>1, <2>2
<1> HIDE DEF passes
<1>6. CASE passCnt' = NumPlayers
    <2>1. hands' = AfterExchange(passes) /\ state' = "play"
        BY <1>6, Zenon DEF HandlePassCards, BeginPlay, passes
    <2>2. \A t \in Seat : passed'[t]
        <3>1. FlowInv'
            BY FlowPass
        <3> QED
            BY <1>6, <3>1, HoldersCount DEF FlowInv, HandType, CountersExact
    <2>3. ASSUME NEW t \in Seat
          PROVE  /\ Size(hands'[t]) >= CardsPerPlayer
                 /\ Size(hands'[t]) < CardsPerPlayer + CardsToPass
                 /\ Honest = Seat => Size(hands'[t]) = CardsPerPlayer
                 /\ Size(hands'[t]) \in Nat
        <3> DEFINE f == CHOOSE u \in Seat : PassTarget(u, passDir) = t
        <3>1. f \in Seat
            <4>1. (t + 4 - passDir) % 4 \in Seat
                BY <1>1 DEF Seat, NumPlayers
            <4>2. PassTarget((t + 4 - passDir) % 4, passDir) = t
                BY <1>1 DEF PassTarget, Seat, NumPlayers
            <4> QED
                BY <4>1, <4>2
        <3>2. hands'[t] = [x \in Card |-> Less(hands[t][x], passes[t][x]) + passes[f][x]]
            BY <2>1 DEF AfterExchange
        <3> HIDE DEF f
        <3>3. /\ hands[t] \in [Card -> Nat] /\ passes[t] \in [Card -> Nat]
              /\ passes[f] \in [Card -> Nat]
            BY <1>1, <1>3, <3>1 DEF Piles
        <3>4. /\ Size(passes[t]) = CardsToPass /\ Size(passes[f]) = CardsToPass
              /\ \A x \in Card : passes[t][x] > 0 => hands[t][x] > 0
            BY <1>5, <2>2, <3>1
        <3>5. /\ Size(hands'[t]) >= Size(hands[t])
              /\ Size(hands'[t]) < Size(hands[t]) + CardsToPass
              /\ (\A x \in Card : passes[t][x] <= hands[t][x]) => Size(hands'[t]) = Size(hands[t])
            BY <3>2, <3>3, <3>4, SizeExchanged
        <3>6. Size(hands[t]) = CardsPerPlayer
            BY <1>4 DEF HoldInv
        <3>7. hands'[t] \in [Card -> Nat]
            <4>1. hands' \in Piles
                BY <1>1, <1>3, <2>1, ExchangeCount
            <4> QED
                BY <4>1 DEF Piles
        <3> QED
            BY <1>5, <2>2, <3>5, <3>6, <3>7, SizeFacts
    <2>4. ASSUME NEW t \in Seat PROVE Enough(t)'
        <3>1. Lying(t)' = 0 /\ trickNum' = 0
            BY <1>4 DEF Lying, EmptyTrick
        <3> QED
            BY <2>3, <3>1 DEF Enough
    <2> QED
        BY <2>1, <2>3, <2>4 DEF HoldInv
<1>7. CASE passCnt' # NumPlayers
    <2>1. passCards' = passes /\ hands' = hands /\ state' = state
        BY <1>7, Zenon DEF HandlePassCards, passes
    <2>2. \A t \in Seat : passed'[t] => DuePass(t)'
        BY <1>5, <2>1 DEF DuePass
    <2> QED
        BY <1>4, <2>1, <2>2 DEF HoldInv
<1> QED
    BY <1>6, <1>7

LEMMA HoldUnmoved ==
    ASSUME HoldInv, UNCHANGED <<state, hands, passVars, cardsPlayed, trickNum>>
    PROVE  HoldInv'
BY DEF HoldInv, Enough, DuePass, Lying, passVars

LEMMA HoldStep == FlowInv /\ PileInv /\ HoldInv /\ [Next]_vars => HoldInv'
<1> SUFFICES ASSUME FlowInv, PileInv, HoldInv, [Next]_vars PROVE HoldInv'
    OBVIOUS
<1> USE DEF passVars, trickVars
<1>1. CASE UNCHANGED vars
    BY <1>1, HoldUnmoved DEF vars
<1>2. ASSUME NEW s \in Seat, HandleCheckIn(s) PROVE HoldInv'
    BY <1>2, HoldUnmoved DEF HandleCheckIn
<1>3. ASSUME NEW s \in Seat, HandleClientReady(s) PROVE HoldInv'
    <2>1. CASE StartNewHand(handNum, leadPlayer, playerToPlay)
        BY <2>1, HoldDeal DEF FlowInv, SessionType, HandType
    <2>2. CASE UNCHANGED <<state, hands, passVars, turnVars, trickVars, pointsBroken>>
        BY <2>2, HoldUnmoved
    <2> QED
        BY <1>3, <2>1, <2>2 DEF HandleClientReady
<1>4. ASSUME NEW s \in Seat, Pass(s) PROVE HoldInv'
    BY <1>4, HoldPass DEF Pass
<1>5. ASSUME NEW s \in Seat, Play(s) PROVE HoldInv'
    BY <1>5, HoldPlay DEF Play
<1>6. ASSUME NEW s \in Seat, HandleNewGame(s) PROVE HoldInv'
    <2>1. CASE StartNewHand(0, leadPlayer, playerToPlay)
        BY <2>1, HoldDeal DEF FlowInv, HandType
    <2>2. CASE UNCHANGED <<state, gameVars, hands, passVars, turnVars, trickVars, pointsBroken>>
        BY <2>2, HoldUnmoved
    <2> QED
        BY <1>6, <2>1, <2>2 DEF HandleNewGame
<1> QED
    BY <1>1, <1>2, <1>3, <1>4, <1>5, <1>6 DEF Next

LEMMA HoldInit == Init => HoldInv
<1> SUFFICES ASSUME Init PROVE HoldInv
    OBVIOUS
<1>1. \A s \in Seat : hands[s] \in [Card -> Nat] /\ \A x \in Card : hands[s][x] = 0
    BY DEF Init, NoCards
<1>2. \A s \in Seat : Size(hands[s]) = 0
    BY <1>1, SizeFacts
<1> QED
    BY <1>2, ConstantsAssumption DEF Init, HoldInv

LEMMA HoldInvariant == Spec => [](FlowInv /\ PileInv /\ HoldInv)
<1>1. Init => FlowInv /\ PileInv /\ HoldInv
    BY FlowInit, PileInit, HoldInit
<1>2. FlowInv /\ PileInv /\ HoldInv /\ [Next]_vars => (FlowInv /\ PileInv /\ HoldInv)'
    BY FlowStep, PileStep, HoldStep
<1> QED
    BY <1>1, <1>2, PTL DEF Spec

\* Every seat has a card for each trick left to it, whatever the clients pass, so
\* that no turn comes to an empty hand; and no hand holds more cards than the code's
\* array has room for, though a client that names one card three times gives up one
\* and gets three (handlePassCards, resolvePass, Add, handlePlayCard).
THEOREM HandsLastAndFit == Spec => []HandSizes
<1>1. PileInv /\ HoldInv => HandSizes
    <2> SUFFICES ASSUME PileInv, HoldInv PROVE HandSizes
        OBVIOUS
    <2>1. \A s \in Seat : SumFunction(hands[s]) = Size(hands[s])
        BY SizeFacts DEF PileInv, PileType
    <2>2. \A s \in Seat : SumFunction(hands[s]) < CardsPerPlayer + CardsToPass
        BY <2>1 DEF HoldInv
    <2>3. ASSUME state = "play", NEW s \in Seat
          PROVE  SumFunction(hands[s]) + trickNum
                     + (IF cardsPlayed[s] # CardNone THEN 1 ELSE 0) >= CardsPerPlayer
        <3>1. Size(hands[s]) + trickNum + Lying(s) >= CardsPerPlayer
            BY <2>3 DEF HoldInv, Enough
        <3> QED
            BY <2>1, <3>1 DEF Lying
    <2> QED
        BY <2>2, <2>3 DEF HandSizes
<1> QED
    BY <1>1, HoldInvariant, PTL

-----------------------------------------------------------------------------
(* The score of a hand *)

Worth(pile) == [c \in Card |-> pile[c] * CardPoints(c)]

LEMMA CardPointsFacts ==
    \A c \in Card : CardPoints(c) \in Nat
BY ConstantsAssumption DEF CardPoints

LEMMA PointsFacts ==
    ASSUME NEW pile \in [Card -> Nat]
    PROVE  /\ Worth(pile) \in [Card -> Nat]
           /\ Points(pile) = Size(Worth(pile)) /\ Points(pile) \in Nat
<1>1. \A c \in Card : pile[c] * CardPoints(c) \in Nat
    BY CardPointsFacts
<1>2. Worth(pile) \in [Card -> Nat]
    BY <1>1 DEF Worth
<1>3. Points(pile) = SumFunction(Worth(pile))
    BY DEF Points, Worth
<1> QED
    BY <1>2, <1>3, SizeFacts

\* Points are given out as they were won, but for a seat that has them all.
LEMMA ScoreFacts ==
    ASSUME NEW piles \in Piles
    PROVE  /\ ScoreHand(piles) \in [Seat -> Nat]
           /\ \/ /\ \A s \in Seat : ScoreHand(piles)[s] = Points(piles[s])
                 /\ \A s \in Seat : Points(piles[s]) # MoonPoints
              \/ \E m \in Seat : \A s \in Seat :
                    ScoreHand(piles)[s] = IF s = m THEN 0 ELSE MoonPoints
<1> DEFINE moons == {s \in Seat : Points(piles[s]) = MoonPoints}
<1>1. \A s \in Seat : Points(piles[s]) \in Nat
    BY PointsFacts DEF Piles
<1>2. CASE moons = {}
    <2>1. ScoreHand(piles) = [s \in Seat |-> Points(piles[s])]
        BY <1>2 DEF ScoreHand
    <2>2. \A s \in Seat : Points(piles[s]) # MoonPoints
        BY <1>2
    <2> QED
        BY <1>1, <2>1, <2>2
<1>3. CASE moons # {}
    <2>1. ScoreHand(piles) = [s \in Seat |-> IF s = Min(moons) THEN 0 ELSE MoonPoints]
        BY <1>3 DEF ScoreHand
    <2>2. Min(moons) \in Seat
        BY <1>3, LowestSeat
    <2>3. MoonPoints \in Nat
        BY ConstantsAssumption
    <2> HIDE DEF moons
    <2>4. /\ ScoreHand(piles) \in [Seat -> Nat]
          /\ \A s \in Seat : ScoreHand(piles)[s] = IF s = Min(moons) THEN 0 ELSE MoonPoints
        BY <2>1, <2>3
    <2> QED
        BY <2>2, <2>4
<1> QED
    BY <1>2, <1>3

\* Seat s plays card c, the last of the hand: the piles are as they are scored.
LastTrick(s, c, piles) ==
    /\ state = "play" /\ s = playerToPlay /\ hands[s][c] > 0
    /\ cardsPlayCnt + 1 = NumPlayers /\ trickNum = CardsPerPlayer - 1
    /\ \A x \in Card : Total(piles, x) = Total(trickCards, x)
                                         + OnTable([cardsPlayed EXCEPT ![s] = c], x)
    /\ scores' = [t \in Seat |-> scores[t] + ScoreHand(piles)[t]]
    /\ handNum' = handNum + 1

\* The scores after a step: those of a hand are added, or those of a game forgotten.
LEMMA ScoreStep ==
    ASSUME FlowInv, PileInv, [Next]_vars
    PROVE  \/ scores' = scores
           \/ state = "end" /\ state' \in {"pass", "play"} /\ scores' = [s \in Seat |-> 0]
           \/ \E s \in Seat, c \in Card : \E piles \in Piles : LastTrick(s, c, piles)
<1> USE DEF gameVars
<1>1. CASE UNCHANGED vars
    BY <1>1 DEF vars
<1>2. ASSUME NEW s \in Seat, HandleCheckIn(s) \/ HandleClientReady(s) \/ Pass(s)
      PROVE  scores' = scores
    BY <1>2 DEF HandleCheckIn, HandleClientReady, Pass, HandlePassCards
<1>3. ASSUME NEW s \in Seat, HandleNewGame(s)
      PROVE  \/ scores' = scores
             \/ state = "end" /\ state' \in {"pass", "play"} /\ scores' = [t \in Seat |-> 0]
    <2>1. ASSUME StartNewHand(0, leadPlayer, playerToPlay) PROVE state' \in {"pass", "play"}
        BY <2>1, HandStarts DEF FlowInv, HandType
    <2> QED
        BY <1>3, <2>1 DEF HandleNewGame
<1>4. ASSUME NEW s \in Seat, NEW c \in Card, HandlePlayCard(s, c)
      PROVE  scores' = scores \/ \E piles \in Piles : LastTrick(s, c, piles)
    <2>1. /\ state = "play" /\ s = playerToPlay /\ hands[s][c] > 0
          /\ trickCards \in Piles
        BY <1>4, PlayCases DEF PileInv, PileType, Piles
    <2>2. CASE PlayOn(s, c, [cardsPlayed EXCEPT ![s] = c])
        BY <2>2 DEF PlayOn
    <2>3. CASE TrickResolved(s, c)
        <3> DEFINE trick  == [cardsPlayed EXCEPT ![s] = c]
                   winner == TrickWinner(trick, leadPlayer)
                   piles  == Won(trickCards, winner, trick)
        <3>1. winner \in Seat /\ cardsPlayCnt + 1 = NumPlayers
            BY <2>1, <2>3, PlayFacts DEF TrickResolved
        <3>2. piles = [trickCards EXCEPT ![winner] = WithTrick(@, trick)]
            BY DEF Won
        <3>3. piles \in Piles
            BY <2>1, <3>1, WinCount
        <3>4. \/ ResolveTrick(s, c, winner, piles)
              \/ ~(trickNum + 1 < CardsPerPlayer) /\ EndHand(s, c, winner, piles)
            BY <2>3, <3>2 DEF TrickResolved
        <3>5. ASSUME ~(trickNum + 1 < CardsPerPlayer), EndHand(s, c, winner, piles)
              PROVE  LastTrick(s, c, piles)
            <4>1. /\ scores' = [t \in Seat |-> scores[t] + ScoreHand(piles)[t]]
                  /\ handNum' = handNum + 1
                BY <3>5 DEF EndHand
            <4>2. trickNum = CardsPerPlayer - 1
                BY <2>1, <3>5, ConstantsAssumption DEF FlowInv, HandType, TrickInv
            <4>3. \A x \in Card : Total(piles, x) = Total(trickCards, x) + OnTable(trick, x)
                BY <2>1, <3>1, WinCount
            <4> QED
                BY <2>1, <3>1, <4>1, <4>2, <4>3 DEF LastTrick
        <3> QED
            BY <3>3, <3>4, <3>5 DEF ResolveTrick
    <2> QED
        BY <1>4, <2>2, <2>3, PlayCases
<1> QED
    BY <1>1, <1>2, <1>3, <1>4 DEF Next, Play

\* The type invariant: no seat, turn or index runs out of the range with which the
\* code indexes its arrays, and scores only ever grow from nothing.
THEOREM TypeCorrect == Spec => []TypeOK
<1>1. FlowInv /\ PileInv /\ scores \in [Seat -> Nat] /\ [Next]_vars
          => (scores \in [Seat -> Nat])'
    <2> SUFFICES ASSUME FlowInv, PileInv, scores \in [Seat -> Nat], [Next]_vars
                 PROVE  scores' \in [Seat -> Nat]
        OBVIOUS
    <2>1. CASE scores' = scores \/ scores' = [s \in Seat |-> 0]
        BY <2>1
    <2>2. ASSUME NEW s \in Seat, NEW c \in Card, NEW piles \in Piles, LastTrick(s, c, piles)
          PROVE  scores' \in [Seat -> Nat]
        BY <2>2, ScoreFacts DEF LastTrick
    <2> QED
        BY <2>1, <2>2, ScoreStep
<1>2. Init => scores \in [Seat -> Nat]
    BY DEF Init
<1>3. FlowInv /\ PileInv /\ scores \in [Seat -> Nat] => TypeOK
    BY DEF FlowInv, PileInv, TypeOK
<1> QED
    BY <1>1, <1>2, <1>3, HoldInvariant, PTL DEF Spec

\* Cards that are in one of four piles.
LEMMA SizeFour ==
    ASSUME NEW e, NEW f \in [0 .. 3 -> [Card -> Nat]],
           \A x \in Card : e[x] = f[0][x] + f[1][x] + f[2][x] + f[3][x]
    PROVE  Size(e) = Size(f[0]) + Size(f[1]) + Size(f[2]) + Size(f[3])
<1> DEFINE a == [x \in Card |-> f[0][x] + f[1][x]]
           b == [x \in Card |-> f[2][x] + f[3][x]]
<1>1. /\ f[0] \in [Card -> Nat] /\ f[1] \in [Card -> Nat]
      /\ f[2] \in [Card -> Nat] /\ f[3] \in [Card -> Nat]
    OBVIOUS
<1>2. \A x \in Card : /\ f[0][x] \in Nat /\ f[1][x] \in Nat
                      /\ f[2][x] \in Nat /\ f[3][x] \in Nat
    BY <1>1
<1>3. \A x \in Card : a[x] = f[0][x] + f[1][x] /\ b[x] = f[2][x] + f[3][x]
    OBVIOUS
<1> HIDE DEF a, b
<1>4. SumFunctionOnSet(a, Card) = Size(f[0]) + Size(f[1])
    BY <1>2, <1>3, CardsFinite, SumAdds DEF Size
<1>5. SumFunctionOnSet(b, Card) = Size(f[2]) + Size(f[3])
    BY <1>2, <1>3, CardsFinite, SumAdds DEF Size
<1>6. \A x \in Card : a[x] \in Int /\ b[x] \in Int /\ e[x] = a[x] + b[x]
    BY <1>2, <1>3
<1>7. SumFunctionOnSet(e, Card) = SumFunctionOnSet(a, Card) + SumFunctionOnSet(b, Card)
    BY <1>6, CardsFinite, SumAdds
<1>8. /\ Size(f[0]) \in Nat /\ Size(f[1]) \in Nat /\ Size(f[2]) \in Nat /\ Size(f[3]) \in Nat
    BY <1>1, SizeFacts
<1> QED
    BY <1>4, <1>5, <1>7, <1>8 DEF Size

\* The points of a whole deck are those of the queen and of the hearts.
LEMMA DeckPoints == Size([c \in Card |-> CardPoints(c)]) = MoonPoints
<1> DEFINE Hs == 3 * NumRanks .. 4 * NumRanks - 1
           queen == [c \in Card |-> IF c \in {CardQS} THEN PointsQS ELSE 0]
           ones == [c \in Card |-> 1]
           hearts == [c \in Card |-> IF c \in Hs THEN ones[c] ELSE 0]
           all == [c \in Card |-> CardPoints(c)]
<1>1. NumRanks \in Nat \ {0} /\ PointsQS \in Nat /\ MoonPoints = PointsQS + NumRanks
    BY ConstantsAssumption
<1>2. CardQS \in Card /\ CardQS \notin Hs /\ Hs \in SUBSET Card
    BY <1>1, ConstantsAssumption DEF Card
<1>3. \A c \in Card : IsHeart(c) <=> c \in Hs
    <2> SUFFICES ASSUME NEW c \in Card PROVE IsHeart(c) <=> c \in Hs
        OBVIOUS
    <2>1. c \in Nat /\ c < 4 * NumRanks
        BY <1>1 DEF Card
    <2>2. PICK q \in Int, r \in 0 .. NumRanks - 1 : c = q * NumRanks + r /\ c \div NumRanks = q
        BY <1>1, <2>1
    <2> QED
        BY <1>1, <2>1, <2>2 DEF IsHeart, Suit
<1>4. \A c \in Card : /\ queen[c] \in Int /\ hearts[c] \in Int
                      /\ all[c] = queen[c] + hearts[c]
    BY <1>1, <1>2, <1>3 DEF CardPoints
<1>5. SumFunctionOnSet(hearts, Card) = NumRanks
    <2>1. \A c \in Card : hearts[c] = IF c \in Hs THEN ones[c] ELSE 0
        OBVIOUS
    <2>2. \A c \in Hs : ones[c] = 1 /\ ones[c] \in Int
        BY <1>2
    <2>3. IsFiniteSet(Hs) /\ Cardinality(Hs) = NumRanks
        <3>1. 3 * NumRanks \in Int /\ 4 * NumRanks - 1 \in Int
            BY <1>1
        <3>2. /\ IsFiniteSet(Hs)
              /\ Cardinality(Hs) = IF 3 * NumRanks > 4 * NumRanks - 1 THEN 0
                                   ELSE 4 * NumRanks - 1 - 3 * NumRanks + 1
            BY <3>1, FS_Interval
        <3> QED
            BY <1>1, <3>2
    <2> HIDE DEF hearts, ones, Hs
    <2>4. SumFunctionOnSet(hearts, Card) = SumFunctionOnSet(ones, Hs)
        BY <1>2, <2>1, <2>2, CardsFinite, SumWithin
    <2>5. SumFunctionOnSet(ones, Hs) = Cardinality(Hs)
        BY <2>2, <2>3, SumOfOnes
    <2> QED
        BY <2>3, <2>4, <2>5
<1>6. SumFunctionOnSet(queen, Card) = PointsQS
    <2> DEFINE p == [c \in Card |-> PointsQS]
    <2>1. \A c \in Card : queen[c] = IF c \in {CardQS} THEN p[c] ELSE 0
        OBVIOUS
    <2>2. p[CardQS] = PointsQS /\ {CardQS} \in SUBSET Card /\ \A c \in {CardQS} : p[c] \in Int
        BY <1>1, <1>2
    <2> HIDE DEF queen, p
    <2>3. SumFunctionOnSet(queen, Card) = SumFunctionOnSet(p, {CardQS})
        BY <2>1, <2>2, CardsFinite, SumWithin
    <2>4. /\ SumFunctionOnSet(p, {CardQS}) = p[CardQS] + SumFunctionOnSet(p, {CardQS} \ {CardQS})
          /\ SumFunctionOnSet(p, {}) = 0
        <3>1. IsFiniteSet({CardQS}) /\ CardQS \in {CardQS} /\ {CardQS} \in SUBSET {CardQS}
            BY FS_Singleton
        <3> QED
            BY <2>2, <3>1, SumSteps
    <2>5. {CardQS} \ {CardQS} = {}
        OBVIOUS
    <2> QED
        BY <1>1, <2>2, <2>3, <2>4, <2>5
<1> HIDE DEF queen, hearts, all
<1>7. SumFunctionOnSet(all, Card) = SumFunctionOnSet(queen, Card) + SumFunctionOnSet(hearts, Card)
    BY <1>4, CardsFinite, SumAdds
<1> QED
    BY <1>1, <1>5, <1>6, <1>7 DEF Size, all

LEMMA SumOfFour ==
    ASSUME NEW f, \A s \in {0, 1, 2, 3} : f[s] \in Int
    PROVE  SumFunctionOnSet(f, {0, 1, 2, 3}) = f[0] + f[1] + f[2] + f[3]
<1> DEFINE sum(T) == SumFunctionOnSet(f, T)
           D == {0, 1, 2, 3}
<1>1. IsFiniteSet(D) /\ \A s \in D : f[s] \in Int
    <2>1. D = Four
        BY SeatsAreFour, FourPlaces
    <2> QED
        BY <2>1, FourFinite
<1>2. /\ sum({}) = 0
      /\ \A T \in SUBSET D : \A x \in T : sum(T) = f[x] + sum(T \ {x})
      /\ \A T \in SUBSET D : sum(T) \in Int
    <2> HIDE DEF D
    <2> QED
        BY <1>1, SumSteps
<1> HIDE DEF sum
<1>3. sum(D) = f[0] + sum({1, 2, 3})
    <2>1. D \ {0} = {1, 2, 3} /\ 0 \in D /\ D \in SUBSET D
        OBVIOUS
    <2> HIDE DEF D
    <2> QED
        BY <1>2, <2>1
<1>4. sum({1, 2, 3}) = f[1] + sum({2, 3})
    <2>1. {1, 2, 3} \ {1} = {2, 3} /\ 1 \in {1, 2, 3} /\ {1, 2, 3} \in SUBSET D
        OBVIOUS
    <2> HIDE DEF D
    <2> QED
        BY <1>2, <2>1
<1>5. sum({2, 3}) = f[2] + sum({3})
    <2>1. {2, 3} \ {2} = {3} /\ 2 \in {2, 3} /\ {2, 3} \in SUBSET D
        OBVIOUS
    <2> HIDE DEF D
    <2> QED
        BY <1>2, <2>1
<1>6. sum({3}) = f[3] + sum({})
    <2>1. {3} \ {3} = {} /\ 3 \in {3} /\ {3} \in SUBSET D
        OBVIOUS
    <2> HIDE DEF D
    <2> QED
        BY <1>2, <2>1
<1>7. f[0] \in Int /\ f[1] \in Int /\ f[2] \in Int /\ f[3] \in Int
    OBVIOUS
<1>8. sum(D) = f[0] + f[1] + f[2] + f[3]
    BY <1>2, <1>3, <1>4, <1>5, <1>6, <1>7
<1> QED
    BY <1>8 DEF sum

\* Four piles with one copy of each card have the points of the deck.
LEMMA PilesPoints ==
    ASSUME NEW piles \in Piles, \A x \in Card : Total(piles, x) = 1
    PROVE  Points(piles[0]) + Points(piles[1]) + Points(piles[2]) + Points(piles[3]) = MoonPoints
<1> DEFINE f == [s \in 0 .. 3 |-> Worth(piles[s])]
           all == [c \in Card |-> CardPoints(c)]
<1>1. \A s \in 0 .. 3 : piles[s] \in [Card -> Nat]
    BY DEF Piles, Seat, NumPlayers
<1>2. f \in [0 .. 3 -> [Card -> Nat]]
    BY <1>1, PointsFacts
<1>3. ASSUME NEW x \in Card PROVE all[x] = f[0][x] + f[1][x] + f[2][x] + f[3][x]
    <2>1. \A s \in 0 .. 3 : f[s][x] = piles[s][x] * CardPoints(x) /\ piles[s][x] \in Nat
        BY <1>1 DEF Worth
    <2>2. CardPoints(x) \in Nat
        BY CardPointsFacts
    <2>3. piles[0][x] + piles[1][x] + piles[2][x] + piles[3][x] = 1
        BY DEF Total
    <2>4. \E s \in 0 .. 3 : piles[s][x] = 1 /\ \A t \in 0 .. 3 : t # s => piles[t][x] = 0
        <3>1. /\ piles[0][x] \in Nat /\ piles[1][x] \in Nat
              /\ piles[2][x] \in Nat /\ piles[3][x] \in Nat
            BY <2>1
        <3>2. PICK s \in 0 .. 3 : piles[s][x] # 0
            BY <2>3
        <3>3. \A t \in 0 .. 3 : t = 0 \/ t = 1 \/ t = 2 \/ t = 3
            OBVIOUS
        <3>4. piles[s][x] = 1 /\ \A t \in 0 .. 3 : t # s => piles[t][x] = 0
            BY <2>3, <3>1, <3>2, <3>3
        <3> QED
            BY <3>4
    <2>5. PICK s \in 0 .. 3 : f[s][x] = CardPoints(x) /\ \A t \in 0 .. 3 : t # s => f[t][x] = 0
        BY <2>1, <2>2, <2>4
    <2> HIDE DEF f
    <2>6. f[0][x] + f[1][x] + f[2][x] + f[3][x] = CardPoints(x)
        BY <2>2, <2>5
    <2> QED
        BY <2>6
<1>4. \A s \in 0 .. 3 : Points(piles[s]) = Size(f[s])
    BY <1>1, PointsFacts
<1> HIDE DEF f, all
<1>5. Size(all) = Size(f[0]) + Size(f[1]) + Size(f[2]) + Size(f[3])
    BY <1>2, <1>3, SizeFour
<1> QED
    BY <1>4, <1>5, DeckPoints DEF all

\* At the last card of a hand nothing is left to hold: all cards are in the piles.
LEMMA LastTrickPiles ==
    ASSUME FlowInv, PileInv, HoldInv, Honest = Seat, NEW s \in Seat, NEW c \in Card,
           NEW piles \in Piles, LastTrick(s, c, piles)
    PROVE  \A x \in Card : Total(piles, x) = 1
<1>1. /\ hands \in Piles /\ trickCards \in Piles /\ PileType
      /\ \A x \in Card : Copies(x) = 1
    BY DEF PileInv, PileType, Piles, LastTrick, CardsConserved
<1>2. /\ cardsPlayed[s] = CardNone
      /\ [cardsPlayed EXCEPT ![s] = c] \in [Seat -> Card]
      /\ cardsPlayed \in [Seat -> Card \cup {CardNone}]
    <2>1. cardsPlayed[s] = CardNone /\ [cardsPlayed EXCEPT ![s] = c] \in [Seat -> Card]
        BY PlayFacts DEF LastTrick
    <2> QED
        BY <2>1 DEF FlowInv, HandType
<1>3. \A t \in Seat \ {s} : cardsPlayed[t] # CardNone
    BY <1>2, CardFacts
<1>4. \A t \in Seat : Size(hands[t]) = IF t = s THEN 1 ELSE 0
    <2>1. \A t \in Seat : /\ Size(hands[t]) + trickNum + Lying(t) = CardsPerPlayer
                          /\ Size(hands[t]) \in Nat
        BY <1>1, SizeFacts DEF HoldInv, Enough, LastTrick, Piles
    <2>2. trickNum = CardsPerPlayer - 1 /\ CardsPerPlayer \in Nat
        BY ConstantsAssumption DEF LastTrick
    <2>3. \A t \in Seat : Lying(t) = IF t = s THEN 0 ELSE 1
        BY <1>2, <1>3 DEF Lying
    <2> QED
        BY <2>1, <2>2, <2>3
<1> DEFINE h == Taken(hands, s, c)
<1>5. h \in Piles /\ \A x \in Card : Total(h, x) = Total(hands, x) - One(x, c)
    BY <1>1, TakeCount DEF LastTrick
<1>6. \A t \in Seat : Size(h[t]) = 0
    <2>1. /\ h[s] = [hands[s] EXCEPT ![c] = @ - 1]
          /\ \A t \in Seat \ {s} : h[t] = hands[t]
        BY <1>1 DEF Taken, Piles
    <2>2. Size(h[s]) = Size(hands[s]) - 1
        BY <1>1, <2>1, SizeTaken DEF LastTrick, Piles
    <2> HIDE DEF h
    <2> QED
        BY <1>4, <2>1, <2>2
<1> HIDE DEF h
<1>7. \A x \in Card : Total(h, x) = 0
    <2>1. \A t \in Seat, x \in Card : h[t][x] = 0
        BY <1>5, <1>6, SizeFacts DEF Piles
    <2> QED
        BY <2>1, FourPlaces DEF Total
<1>8. ASSUME NEW x \in Card PROVE Total(piles, x) = 1
    <2>1. Total(hands, x) + Total(trickCards, x) + OnTable(cardsPlayed, x) = 1
        BY <1>1, CopiesNow
    <2>2. Total(hands, x) = One(x, c) /\ One(x, c) \in Nat
        <3>1. Total(hands, x) \in Nat /\ One(x, c) \in Nat
            BY <1>1, TotalCount DEF One
        <3> QED
            BY <1>5, <1>7, <3>1
    <2>3. Total(piles, x) = Total(trickCards, x) + (OnTable(cardsPlayed, x) + One(x, c))
        <3>1. Total(piles, x) = Total(trickCards, x)
                                + OnTable([cardsPlayed EXCEPT ![s] = c], x)
            BY DEF LastTrick
        <3>2. OnTable([cardsPlayed EXCEPT ![s] = c], x) = OnTable(cardsPlayed, x) + One(x, c)
            BY <1>2, PutCount
        <3> QED
            BY <3>1, <3>2
    <2>4. Total(trickCards, x) \in Nat /\ OnTable(cardsPlayed, x) \in Nat
        BY <1>1, TotalCount, TableCount
    <2> QED
        BY <2>1, <2>2, <2>3, <2>4
<1> QED
    BY <1>8

\* Of clients that pass different cards, each hand gives out all the points of the
\* deck, or spares the seat that won them all and charges the others with as many;
\* scores change at no other time, but to be forgotten (ScoreHand, endHand,
\* handleNewGame).
THEOREM PointsGivenOut == Honest = Seat => (Spec => HandScored)
<1> SUFFICES ASSUME Honest = Seat PROVE Spec => HandScored
    OBVIOUS
<1> DEFINE gain == [s \in Seat |-> scores'[s] - scores[s]]
           A == scores' # scores =>
                  \/ /\ handNum' = handNum + 1
                     /\ trickNum = CardsPerPlayer - 1
                     /\ \/ /\ \A s \in Seat : gain[s] \in 0 .. MoonPoints - 1
                           /\ SumFunction(gain) = MoonPoints
                        \/ \E m \in Seat : \A s \in Seat :
                              gain[s] = IF s = m THEN 0 ELSE MoonPoints
                  \/ state = "end" /\ state' # "end" /\ scores' = [s \in Seat |-> 0]
<1>1. ASSUME FlowInv, PileInv, HoldInv, scores \in [Seat -> Nat],
             NEW s \in Seat, NEW c \in Card, NEW piles \in Piles, LastTrick(s, c, piles)
      PROVE  A
    <2>1. /\ handNum' = handNum + 1 /\ trickNum = CardsPerPlayer - 1
          /\ scores' = [t \in Seat |-> scores[t] + ScoreHand(piles)[t]]
        BY <1>1 DEF LastTrick
    <2>2. \A t \in Seat : ScoreHand(piles)[t] \in Nat /\ scores[t] \in Nat
        BY <1>1, ScoreFacts
    <2>3. \A t \in Seat : gain[t] = ScoreHand(piles)[t]
        BY <2>1, <2>2
    <2> HIDE DEF gain
    <2>4. CASE /\ \A t \in Seat : ScoreHand(piles)[t] = Points(piles[t])
               /\ \A t \in Seat : Points(piles[t]) # MoonPoints
        <3>1. \A t \in Seat : gain[t] = Points(piles[t]) /\ gain[t] \in Nat /\ gain[t] # MoonPoints
            BY <2>2, <2>3, <2>4
        <3>2. gain[0] + gain[1] + gain[2] + gain[3] = MoonPoints
            <4>1. \A x \in Card : Total(piles, x) = 1
                BY <1>1, LastTrickPiles
            <4> QED
                BY <3>1, <4>1, FourPlaces, PilesPoints
        <3>3. /\ gain[0] \in Nat /\ gain[1] \in Nat /\ gain[2] \in Nat /\ gain[3] \in Nat
              /\ gain[0] # MoonPoints /\ gain[1] # MoonPoints
              /\ gain[2] # MoonPoints /\ gain[3] # MoonPoints
            BY <3>1, FourPlaces
        <3>4. MoonPoints \in Nat
            BY ConstantsAssumption
        <3>5. \A t \in Seat : gain[t] \in 0 .. MoonPoints - 1
            BY <3>2, <3>3, <3>4, FourPlaces
        <3>6. SumFunction(gain) = gain[0] + gain[1] + gain[2] + gain[3]
            <4>1. DOMAIN gain = {0, 1, 2, 3}
                BY FourPlaces DEF gain
            <4> QED
                BY <3>3, <4>1, SumOfFour DEF SumFunction
        <3> QED
            BY <2>1, <3>2, <3>5, <3>6
    <2>5. CASE \E m \in Seat : \A t \in Seat :
                   ScoreHand(piles)[t] = IF t = m THEN 0 ELSE MoonPoints
        BY <2>1, <2>3, <2>5
    <2> QED
        BY <1>1, <2>4, <2>5, ScoreFacts
<1>2. FlowInv /\ PileInv /\ HoldInv /\ TypeOK /\ [Next]_vars => [A]_vars
    <2> SUFFICES ASSUME FlowInv, PileInv, HoldInv, TypeOK, [Next]_vars PROVE A
        OBVIOUS
    <2> HIDE DEF gain
    <2>1. scores \in [Seat -> Nat]
        BY DEF TypeOK
    <2>2. CASE scores' = scores
        BY <2>2
    <2>3. CASE /\ state = "end" /\ state' \in {"pass", "play"}
               /\ scores' = [s \in Seat |-> 0]
        BY <2>3
    <2> QED
        BY <1>1, <2>1, <2>2, <2>3, ScoreStep
<1> QED
    BY <1>2, HoldInvariant, TypeCorrect, PTL DEF Spec, HandScored
=============================================================================
