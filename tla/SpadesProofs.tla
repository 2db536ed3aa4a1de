---------------------------- MODULE SpadesProofs ----------------------------
(***************************************************************************)
(* Proofs about Spades, for every size of the deck, every set of deals that *)
(* gives each seat its cards, every set of bids and every way of scoring.   *)
(*                                                                         *)
(* FlowInv, how far the session has come, is inductive by itself.  What the *)
(* hands hold (HandInv), what has been played (NobodyRevokes, BrokenBySpade)*)
(* and the scores are layers upon it.                                       *)
(***************************************************************************)
EXTENDS Spades, Counting

-----------------------------------------------------------------------------
(* The layers of the invariant *)

\* The two counters agree with their flags; the last Ready and the last vote move
\* the session on, so neither counter rests at four while it is being filled.
CountInv ==
    /\ readyCnt = Holders(ready)
    /\ state = "none" <=> readyCnt < NumPlayers
    /\ state = "end" => newGameCnt = Holders(newGameVotes) /\ newGameCnt < NumPlayers

\* Bids and tricks never rest complete either, and cards lie on the table in the
\* play alone.
TrickInv ==
    /\ TurnsInOrder
    /\ TricksCounted = trickNum
    /\ state = "bid" => bidCnt < NumPlayers /\ trickNum = 0
    /\ state = "play" => trickNum < CardsPerPlayer
    /\ state # "play" => cardsPlayed = EmptyTrick /\ cardsPlayCnt = 0

FlowInv == TypeOK /\ CountInv /\ TrickInv

\* Every seat has a card for each trick left to it, and no card is in two hands.
HandInv ==
    state \in {"bid", "play"} =>
        /\ \A s \in Seat : Cardinality(hands[s]) = CardsLeft(s)
        /\ \A s, t \in Seat : s # t => hands[s] \cap hands[t] = {}

-----------------------------------------------------------------------------
(* Lemmas about the operators of Spades *)

LEMMA SeatsAreFour == Seat = Four /\ NumPlayers = 4
BY DEF Seat, Four, NumPlayers

\* Holders counts to four, one at a time, and is four when all seats hold.
LEMMA HoldersCount ==
    ASSUME NEW f \in [Seat -> BOOLEAN]
    PROVE  /\ Holders(f) \in 0 .. NumPlayers
           /\ Holders(f) = NumPlayers => \A s \in Seat : f[s]
           /\ (\A s \in Seat : f[s]) => Holders(f) = NumPlayers
           /\ \A s \in Seat : ~f[s] => Holders([f EXCEPT ![s] = TRUE]) = Holders(f) + 1
<1>1. \A g : Holders(g) = HowMany(g)
    BY SeatsAreFour DEF Holders, HowMany
<1> QED
    BY <1>1, SeatsAreFour, HowManyCounts

LEMMA NobodyHolds == NoneOf \in [Seat -> BOOLEAN] /\ Holders(NoneOf) = 0
<1>1. NoneOf \in [Seat -> BOOLEAN]
    BY DEF NoneOf
<1>2. {s \in Seat : NoneOf[s]} = {}
    BY DEF NoneOf
<1> QED
    BY <1>1, <1>2, FS_EmptySet DEF Holders

\* A face-down place is no card, and cards have suits and ranks.
LEMMA CardFacts ==
    /\ CardNone \notin Card
    /\ \A c \in Card : Rank(c) \in Nat /\ Suit(c) \in Int
BY ConstantsAssumption DEF Card, CardNone, Rank, Suit

\* A trick is won at one of the four seats.
LEMMA WinnerSeated ==
    ASSUME NEW played \in [Seat -> Card], NEW lead \in Seat
    PROVE  TrickWinner(played, lead) \in Seat
<1> DEFINE spades   == {s \in Seat : Suit(played[s]) = SuitSpades}
           follows  == {s \in Seat : Suit(played[s]) = Suit(played[lead])}
           contends == IF spades # {} THEN spades ELSE follows
           ranks    == [s \in Seat |-> Rank(played[s])]
<1>1. contends \in SUBSET Seat /\ contends # {}
    OBVIOUS
<1>2. ranks \in [Four -> Int]
    BY CardFacts, SeatsAreFour
<1>3. \E s \in contends : \A t \in contends : ranks[s] >= ranks[t]
    BY <1>1, <1>2, BestSeat, SeatsAreFour
<1>4. \E s \in contends : \A t \in contends : Rank(played[s]) >= Rank(played[t])
    BY <1>1, <1>3
<1>5. (CHOOSE s \in contends : \A t \in contends : Rank(played[s]) >= Rank(played[t])) \in contends
    BY <1>4
<1> QED
    BY <1>1, <1>5 DEF TrickWinner

\* What a hand starts from.
LEMMA EmptyHand ==
    /\ NoBids \in [Seat -> BidsAndNone]
    /\ EmptyTrick \in [Seat -> Card \cup {CardNone}]
    /\ 0 \in 0 .. CardsPerPlayer
    /\ Zeros(Seat) \in [Seat -> 0 .. CardsPerPlayer]
    /\ Zeros(Teams) \in [Teams -> Nat] /\ Zeros(Teams) \in [Teams -> Int]
BY ConstantsAssumption DEF NoBids, BidsAndNone, EmptyTrick, Zeros

-----------------------------------------------------------------------------
(* How far the session has come *)

LEMMA FlowInit == Init => FlowInv
<1> SUFFICES ASSUME Init PROVE FlowInv
    OBVIOUS
<1>1. TypeOK
    <2>1. SessionType
        BY NobodyHolds, EmptyHand DEF Init, SessionType, Seat, NumPlayers
    <2>2. HandType
        <3>1. dealer \in Seat /\ playerToPlay \in Seat /\ hands \in [Seat -> SUBSET Card]
            BY DEF Init, Seat, NumPlayers
        <3>2. bids \in [Seat -> BidsAndNone] /\ bidCnt \in 0 .. NumPlayers
            BY EmptyHand DEF Init, NumPlayers
        <3>3. cardsPlayed \in [Seat -> Card \cup {CardNone}] /\ cardsPlayCnt \in 0 .. NumPlayers - 1
            BY EmptyHand DEF Init, NumPlayers
        <3>4. trickNum \in 0 .. CardsPerPlayer
            BY EmptyHand DEF Init
        <3>5. tricksWon \in [Seat -> 0 .. CardsPerPlayer] /\ trumpsBroken \in BOOLEAN
            BY EmptyHand DEF Init
        <3> QED
            BY <3>1, <3>2, <3>3, <3>4, <3>5 DEF HandType
    <2> QED
        BY <2>1, <2>2 DEF TypeOK
<1>2. CountInv
    BY NobodyHolds DEF Init, CountInv, NumPlayers
<1>3. TrickInv
    BY DEF Init, TrickInv, TurnsInOrder, TricksCounted, Zeros, Seat, NumPlayers
<1> QED
    BY <1>1, <1>2, <1>3 DEF FlowInv

\* A new hand starts in order, whatever the last one has left behind.
LEMMA HandStarts ==
    ASSUME NEW n \in Nat, StartNewHand(n)
    PROVE  TrickInv'
BY DEF StartNewHand, TrickInv, TurnsInOrder, TricksCounted, ClearTable, NoBids, EmptyTrick,
       Zeros, Seat, NumPlayers

LEMMA HandTyped ==
    ASSUME NEW n \in Nat, StartNewHand(n)
    PROVE  HandType'
<1>1. dealer' \in Seat /\ playerToPlay' \in Seat
    BY DEF StartNewHand, Seat, NumPlayers
<1>2. hands' \in [Seat -> SUBSET Card]
    BY DEF StartNewHand
<1>3. bids' \in [Seat -> BidsAndNone] /\ bidCnt' \in 0 .. NumPlayers
    BY EmptyHand DEF StartNewHand, NumPlayers
<1>4. cardsPlayed' \in [Seat -> Card \cup {CardNone}] /\ cardsPlayCnt' \in 0 .. NumPlayers - 1
    BY EmptyHand DEF StartNewHand, ClearTable, NumPlayers
<1>5. trickNum' \in 0 .. CardsPerPlayer
    BY EmptyHand DEF StartNewHand
<1>6. tricksWon' \in [Seat -> 0 .. CardsPerPlayer] /\ trumpsBroken' \in BOOLEAN
    BY EmptyHand DEF StartNewHand
<1> QED
    BY <1>1, <1>2, <1>3, <1>4, <1>5, <1>6 DEF HandType

LEMMA FlowReady ==
    ASSUME FlowInv, NEW s \in Seat, HandleClientReady(s)
    PROVE  FlowInv'
<1> USE DEF FlowInv
<1>1. ready \in [Seat -> BOOLEAN] /\ readyCnt \in 0 .. NumPlayers /\ handNum \in Nat
    BY DEF TypeOK, SessionType, Seat
<1>2. Holders(ready) # NumPlayers /\ Holders(ready') = Holders(ready) + 1
    BY <1>1, HoldersCount DEF HandleClientReady
<1>3. state = "none" /\ readyCnt' \in 0 .. NumPlayers /\ readyCnt' = Holders(ready')
    BY <1>1, <1>2 DEF HandleClientReady, CountInv, NumPlayers
<1>4. CASE readyCnt' = NumPlayers
    <2>1. StartNewHand(handNum) /\ leadPlayer' = leadPlayer
        BY <1>4 DEF HandleClientReady
    <2>2. SessionType'
        BY <1>3, <2>1 DEF HandleClientReady, StartNewHand, TypeOK, SessionType, gameVars, voteVars
    <2>3. CountInv'
        BY <1>3, <1>4, <2>1 DEF StartNewHand, CountInv
    <2> QED
        BY <1>1, <2>1, <2>2, <2>3, HandStarts, HandTyped DEF TypeOK
<1>5. CASE readyCnt' # NumPlayers
    <2>1. UNCHANGED <<state, gameVars, hands, bidVars, turnVars, trickVars, trumpsBroken, voteVars>>
        BY <1>5 DEF HandleClientReady
    <2>2. SessionType'
        BY <1>3, <2>1 DEF HandleClientReady, TypeOK, SessionType, gameVars, turnVars, voteVars
    <2>3. HandType'
        BY <2>1 DEF TypeOK, HandType, bidVars, turnVars, trickVars
    <2>4. CountInv'
        BY <1>3, <1>5, <2>1 DEF CountInv, NumPlayers
    <2>5. TrickInv'
        BY <1>3, <2>1 DEF TrickInv, TurnsInOrder, TricksCounted, trickVars
    <2> QED
        BY <2>2, <2>3, <2>4, <2>5 DEF TypeOK
<1> QED
    BY <1>4, <1>5

LEMMA FlowBid ==
    ASSUME FlowInv, NEW s \in Seat, NEW bid \in SentBids, HandleBid(s, bid)
    PROVE  FlowInv'
<1> USE DEF FlowInv
<1>1. state = "bid" /\ bid \in BidsAndNone /\ bid # BidNone
    BY ConstantsAssumption
       DEF HandleBid, ValidBid, BidsAndNone, BidNone, BidDoubleNil
<1>2. bids' = [bids EXCEPT ![s] = bid] /\ bidCnt' = bidCnt + 1
    BY DEF HandleBid
<1>3. UNCHANGED <<readyVars, gameVars, hands, dealer, trickVars, trumpsBroken, voteVars>>
    BY DEF HandleBid
<1>4. /\ bidCnt \in 0 .. NumPlayers - 1
      /\ s = (dealer + bidCnt) % NumPlayers
      /\ \A i \in Seat : bids[(dealer + i) % NumPlayers] # BidNone <=> i < bidCnt
      /\ cardsPlayed = EmptyTrick /\ cardsPlayCnt = 0
    BY <1>1 DEF HandleBid, TrickInv, TurnsInOrder, TypeOK, HandType, NumPlayers
<1>5. dealer \in Seat /\ bids \in [Seat -> BidsAndNone]
    BY DEF TypeOK, HandType
<1>6. \A i \in Seat : bids'[(dealer + i) % NumPlayers] # BidNone <=> i < bidCnt'
    BY <1>1, <1>2, <1>4, <1>5 DEF Seat, NumPlayers
<1>7. HandType'
    BY <1>1, <1>2, <1>3, <1>4, <1>5 DEF HandleBid, TypeOK, HandType, Seat, NumPlayers, trickVars
<1>8. SessionType'
    BY <1>3, <1>5 DEF HandleBid, TypeOK, SessionType, readyVars, gameVars, voteVars
<1>9. CountInv'
    BY <1>1, <1>3 DEF HandleBid, CountInv, readyVars
<1>10. TrickInv'
    BY <1>1, <1>2, <1>3, <1>4, <1>5, <1>6, ConstantsAssumption
       DEF HandleBid, TrickInv, TurnsInOrder, TricksCounted, EmptyTrick, Seat, NumPlayers, trickVars
<1> QED
    BY <1>7, <1>8, <1>9, <1>10 DEF TypeOK

\* A card that is accepted is put down at a free place, next after those that lie
\* there; with the fourth, the trick has a winner.
LEMMA PlayFacts ==
    ASSUME FlowInv, NEW s \in Seat, NEW c \in hands[s], HandlePlay(s, c)
    PROVE  /\ state = "play" /\ c \in Card /\ cardsPlayed[s] = CardNone
           /\ s = playerToPlay /\ s = (leadPlayer + cardsPlayCnt) % NumPlayers
           /\ \A i \in Seat : [cardsPlayed EXCEPT ![s] = c][(leadPlayer + i) % NumPlayers]
                                 # CardNone <=> i < cardsPlayCnt + 1
           /\ cardsPlayCnt + 1 = NumPlayers =>
                  /\ [cardsPlayed EXCEPT ![s] = c] \in [Seat -> Card]
                  /\ TrickWinner([cardsPlayed EXCEPT ![s] = c], leadPlayer) \in Seat
<1> DEFINE trick == [cardsPlayed EXCEPT ![s] = c]
<1>1. state = "play" /\ s = playerToPlay
    BY DEF HandlePlay
<1>2. /\ s = (leadPlayer + cardsPlayCnt) % NumPlayers
      /\ \A i \in Seat : cardsPlayed[(leadPlayer + i) % NumPlayers] # CardNone
                          <=> i < cardsPlayCnt
    BY <1>1 DEF FlowInv, TrickInv, TurnsInOrder
<1>3. leadPlayer \in Seat /\ cardsPlayCnt \in Seat /\ cardsPlayed \in [Seat -> Card \cup {CardNone}]
    BY DEF FlowInv, TypeOK, SessionType, HandType, Seat
<1>4. c \in Card /\ c # CardNone
    BY CardFacts DEF FlowInv, TypeOK, HandType
<1>5. cardsPlayed[s] = CardNone
    BY <1>2, <1>3 DEF Seat, NumPlayers
<1>6. \A i \in Seat : trick[(leadPlayer + i) % NumPlayers] # CardNone <=> i < cardsPlayCnt + 1
    BY <1>2, <1>3, <1>4 DEF Seat, NumPlayers
<1>7. ASSUME cardsPlayCnt + 1 = NumPlayers
      PROVE  trick \in [Seat -> Card] /\ TrickWinner(trick, leadPlayer) \in Seat
    <2>1. \A t \in Seat : \E i \in Seat : t = (leadPlayer + i) % NumPlayers
        BY <1>3, EveryPlace, SeatsAreFour
    <2>2. \A t \in Seat : trick[t] # CardNone
        BY <1>6, <1>7, <2>1 DEF Seat, NumPlayers
    <2>3. trick \in [Seat -> Card \cup {CardNone}]
        BY <1>3, <1>4
    <2>4. trick \in [Seat -> Card]
        BY <2>2, <2>3
    <2> QED
        BY <1>3, <2>4, WinnerSeated
<1> QED
    BY <1>1, <1>2, <1>4, <1>5, <1>6, <1>7

\* handlePlay from the fourth card on.
TrickResolved(s, c) ==
    /\ cardsPlayCnt + 1 = NumPlayers
    /\ \E winner \in {TrickWinner([cardsPlayed EXCEPT ![s] = c], leadPlayer)} :
          \/ trickNum + 1 < CardsPerPlayer /\ ResolveTrick(s, c, winner)
          \/ ~(trickNum + 1 < CardsPerPlayer) /\ EndHand(s, c, winner)

LEMMA PlayCases ==
    ASSUME NEW s \in Seat, NEW c \in hands[s], HandlePlay(s, c)
    PROVE  (cardsPlayCnt + 1 < NumPlayers /\ PlayOn(s, c)) \/ TrickResolved(s, c)
BY Zenon DEF HandlePlay, TrickResolved

LEMMA FlowPlayOn ==
    ASSUME FlowInv, NEW s \in Seat, NEW c \in hands[s], HandlePlay(s, c),
           cardsPlayCnt + 1 < NumPlayers, PlayOn(s, c), UNCHANGED readyVars
    PROVE  FlowInv'
<1> USE DEF FlowInv
<1>1. /\ state = "play" /\ c \in Card /\ s = (leadPlayer + cardsPlayCnt) % NumPlayers
      /\ \A i \in Seat : cardsPlayed'[(leadPlayer + i) % NumPlayers] # CardNone
                          <=> i < cardsPlayCnt + 1
    BY PlayFacts DEF PlayOn
<1>2. leadPlayer \in Seat /\ cardsPlayCnt \in 0 .. NumPlayers - 1
    BY DEF TypeOK, SessionType, HandType
<1>3. /\ UNCHANGED <<state, gameVars, bidVars, leadPlayer, trickNum, tricksWon, voteVars>>
      /\ playerToPlay' = (s + 1) % NumPlayers /\ cardsPlayCnt' = cardsPlayCnt + 1
      /\ cardsPlayed' = [cardsPlayed EXCEPT ![s] = c]
    BY DEF PlayOn
<1>4. hands' \in [Seat -> SUBSET Card] /\ trumpsBroken' \in BOOLEAN
    BY DEF PlayOn, TakeFromHand, TypeOK, HandType
<1>5. SessionType'
    BY <1>3 DEF TypeOK, SessionType, readyVars, gameVars, voteVars
<1>6. HandType'
    BY <1>1, <1>2, <1>3, <1>4 DEF TypeOK, HandType, bidVars, Seat, NumPlayers
<1>7. CountInv'
    BY <1>3 DEF CountInv, readyVars, voteVars
<1>8. playerToPlay' = (leadPlayer' + cardsPlayCnt') % NumPlayers
    BY <1>1, <1>2, <1>3 DEF Seat, NumPlayers
<1>9. TrickInv'
    BY <1>1, <1>3, <1>8 DEF TrickInv, TurnsInOrder, TricksCounted, bidVars
<1> QED
    BY <1>5, <1>6, <1>7, <1>9 DEF TypeOK

\* One more trick has been won, whoever won it.
LEMMA OneMoreTrick ==
    ASSUME FlowInv, state = "play", NEW winner \in Seat,
           NEW won, won = [tricksWon EXCEPT ![winner] = @ + 1]
    PROVE  /\ won[0] + won[1] + won[2] + won[3] = trickNum + 1
           /\ won \in [Seat -> 0 .. CardsPerPlayer]
<1>1. /\ tricksWon \in [Seat -> 0 .. CardsPerPlayer] /\ trickNum < CardsPerPlayer
      /\ CardsPerPlayer \in Nat /\ TricksCounted = trickNum
    BY ConstantsAssumption DEF FlowInv, TypeOK, HandType, TrickInv
<1>2. won \in [Seat -> Nat] /\ won[0] + won[1] + won[2] + won[3] = trickNum + 1
    BY <1>1 DEF TricksCounted, Seat, NumPlayers
<1>3. \A n \in 0 .. 3 : won[n] \in Nat
    BY <1>2 DEF Seat, NumPlayers
<1>4. won[0] \in Nat /\ won[1] \in Nat /\ won[2] \in Nat /\ won[3] \in Nat
    BY <1>3
<1>5. /\ won[0] <= CardsPerPlayer /\ won[1] <= CardsPerPlayer
      /\ won[2] <= CardsPerPlayer /\ won[3] <= CardsPerPlayer
    BY <1>1, <1>2, <1>4 DEF TricksCounted
<1>6. \A s \in Seat : won[s] <= CardsPerPlayer
    BY <1>5 DEF Seat, NumPlayers
<1> QED
    BY <1>1, <1>2, <1>6

LEMMA FlowResolve ==
    ASSUME FlowInv, NEW s \in Seat, NEW c \in hands[s], HandlePlay(s, c), UNCHANGED readyVars,
           NEW winner \in Seat, trickNum + 1 < CardsPerPlayer, ResolveTrick(s, c, winner)
    PROVE  FlowInv'
<1> USE DEF FlowInv
<1>1. state = "play" /\ trickNum \in Nat /\ CardsPerPlayer \in Nat
    BY ConstantsAssumption DEF HandlePlay, TypeOK, HandType
<1>2. /\ UNCHANGED <<state, gameVars, bidVars, voteVars>>
      /\ cardsPlayed' = EmptyTrick /\ cardsPlayCnt' = 0
      /\ leadPlayer' = winner /\ playerToPlay' = winner /\ trickNum' = trickNum + 1
    BY DEF ResolveTrick, ClearTable
<1>3. tricksWon' \in [Seat -> 0 .. CardsPerPlayer] /\ TricksCounted' = trickNum'
    BY <1>1, OneMoreTrick DEF ResolveTrick, TricksCounted
<1>4. hands' \in [Seat -> SUBSET Card] /\ trumpsBroken' \in BOOLEAN
    BY DEF ResolveTrick, TakeFromHand, TypeOK, HandType
<1>5. SessionType'
    BY <1>2 DEF TypeOK, SessionType, readyVars, gameVars, voteVars
<1>6. HandType'
    BY <1>1, <1>2, <1>3, <1>4, EmptyHand DEF TypeOK, HandType, bidVars, NumPlayers
<1>7. CountInv'
    BY <1>2 DEF CountInv, readyVars, voteVars
<1>8. TrickInv'
    <2>1. bidCnt' = NumPlayers /\ playerToPlay' = (leadPlayer' + cardsPlayCnt') % NumPlayers
        BY <1>1, <1>2 DEF TrickInv, TurnsInOrder, bidVars, Seat, NumPlayers
    <2>2. \A i \in Seat : cardsPlayed'[(leadPlayer' + i) % NumPlayers] # CardNone
                           <=> i < cardsPlayCnt'
        BY <1>2 DEF EmptyTrick, Seat, NumPlayers
    <2> QED
        BY <1>1, <1>2, <1>3, <2>1, <2>2 DEF TrickInv, TurnsInOrder, TricksCounted, bidVars
<1> QED
    BY <1>5, <1>6, <1>7, <1>8 DEF TypeOK

\* A hand is worth a number of points, and leaves bags.
LEMMA ScoreTypes ==
    ASSUME TypeOK, NEW won \in [Seat -> 0 .. CardsPerPlayer], NEW t \in Teams
    PROVE  HandScore(t, won) \in Int /\ NewBags(t, won) \in Nat /\ BagsLeft(t, won) \in Nat
<1>1. BidPoints \in Nat /\ BagPenalty \in Nat /\ NilPoints \in Nat /\ BagLimit \in Nat
    BY ConstantsAssumption, Zenon
<1>2. t \in Seat /\ t + 2 \in Seat
    BY DEF Teams, Seat, NumPlayers
<1>3. won[t] \in Nat /\ won[t + 2] \in Nat
    BY <1>2, ConstantsAssumption
<1>4. bids[t] \in Nat /\ bids[t + 2] \in Nat
    BY <1>2, ConstantsAssumption DEF TypeOK, HandType, BidsAndNone, BidDoubleNil, BidNone
<1>5. TeamBid(t) \in Nat /\ TeamTricks(t, won) \in Nat
    BY <1>3, <1>4 DEF TeamBid, EffectiveBid, TeamTricks
<1>6. TeamNil(t, won) \in Int
    BY <1>1 DEF TeamNil, NilBonus
<1>7. NewBags(t, won) \in Nat
    BY <1>5 DEF NewBags
<1>8. bags[t] \in Nat
    BY DEF TypeOK, SessionType
<1>9. BagsLeft(t, won) \in Nat
    BY <1>1, <1>7, <1>8 DEF BagsLeft
<1>10. BidPoints * TeamBid(t) \in Int
    BY <1>1, <1>5
<1>11. HandScore(t, won) \in Int
    BY <1>1, <1>6, <1>7, <1>10 DEF HandScore
<1> QED
    BY <1>7, <1>9, <1>11

LEMMA FlowEndHand ==
    ASSUME FlowInv, NEW s \in Seat, NEW c \in hands[s], HandlePlay(s, c), UNCHANGED readyVars,
           NEW winner \in Seat, ~(trickNum + 1 < CardsPerPlayer), EndHand(s, c, winner)
    PROVE  FlowInv'
<1> USE DEF FlowInv
<1> DEFINE won == [tricksWon EXCEPT ![winner] = @ + 1]
<1>1. /\ state = "play" /\ CardsPerPlayer \in Nat /\ trickNum \in Nat
      /\ trickNum + 1 = CardsPerPlayer
    BY ConstantsAssumption DEF HandlePlay, TypeOK, HandType, TrickInv
<1>2. won \in [Seat -> 0 .. CardsPerPlayer] /\ won[0] + won[1] + won[2] + won[3] = CardsPerPlayer
    BY <1>1, OneMoreTrick
<1>3. /\ teamScores' = [t \in Teams |-> teamScores[t] + HandScore(t, won)]
      /\ bags' = [t \in Teams |-> BagsLeft(t, won)]
      /\ handNum' = (handNum + 1) % NumPlayers /\ leadPlayer' = winner
    BY DEF EndHand
<1>4. teamScores' \in [Teams -> Int] /\ bags' \in [Teams -> Nat]
    <2>1. \A t \in Teams : HandScore(t, won) \in Int /\ BagsLeft(t, won) \in Nat
        BY <1>2, ScoreTypes
    <2> HIDE DEF won
    <2> QED
        BY <1>3, <2>1 DEF TypeOK, SessionType
<1>5. handNum' \in Seat /\ handNum' \in Nat /\ leadPlayer' \in Seat
    BY <1>3 DEF TypeOK, SessionType, Seat, NumPlayers
<1>6. CASE GameOver(teamScores')
    <2>1. /\ state' = "end" /\ newGameVotes' = NoneOf /\ newGameCnt' = 0
          /\ cardsPlayed' = EmptyTrick /\ cardsPlayCnt' = 0
          /\ trickNum' = CardsPerPlayer /\ tricksWon' = won
          /\ playerToPlay' = winner /\ UNCHANGED bidVars
        BY <1>6 DEF EndHand, EndGame, ClearTable
    <2>2. hands' \in [Seat -> SUBSET Card] /\ trumpsBroken' \in BOOLEAN
        BY <1>6 DEF EndHand, TakeFromHand, TypeOK, HandType
    <2>3. SessionType'
        BY <1>4, <1>5, <2>1, NobodyHolds DEF TypeOK, SessionType, readyVars, NumPlayers
    <2>4. HandType'
        <3>1. dealer' \in Seat /\ bids' \in [Seat -> BidsAndNone] /\ bidCnt' \in 0 .. NumPlayers
            BY <2>1 DEF TypeOK, HandType, bidVars
        <3>2. trickNum' \in 0 .. CardsPerPlayer /\ cardsPlayCnt' \in 0 .. NumPlayers - 1
            BY <1>1, <2>1 DEF NumPlayers
        <3> HIDE DEF won
        <3> QED
            BY <1>2, <2>1, <2>2, <3>1, <3>2, EmptyHand DEF HandType
    <2>5. CountInv'
        BY <1>1, <2>1, NobodyHolds DEF CountInv, readyVars, NumPlayers
    <2>6. TrickInv'
        BY <1>2, <2>1 DEF TrickInv, TurnsInOrder, TricksCounted
    <2> QED
        BY <2>3, <2>4, <2>5, <2>6 DEF TypeOK
<1>7. CASE ~GameOver(teamScores')
    <2>1. StartNewHand(handNum') /\ UNCHANGED voteVars
        BY <1>7 DEF EndHand
    <2>2. SessionType'
        BY <1>4, <1>5, <2>1 DEF StartNewHand, TypeOK, SessionType, readyVars, voteVars
    <2>3. CountInv'
        BY <1>1, <2>1 DEF StartNewHand, CountInv, readyVars
    <2> QED
        BY <1>5, <2>1, <2>2, <2>3, HandStarts, HandTyped DEF TypeOK
<1> QED
    BY <1>6, <1>7

LEMMA FlowNewGame ==
    ASSUME FlowInv, NEW s \in Seat, HandleNewGame(s)
    PROVE  FlowInv'
<1> USE DEF FlowInv
<1>1. /\ state = "end" /\ newGameVotes \in [Seat -> BOOLEAN] /\ newGameCnt \in 0 .. NumPlayers - 1
      /\ newGameCnt' = newGameCnt + 1 /\ newGameCnt = Holders(newGameVotes)
    BY DEF HandleNewGame, CountInv, TypeOK, SessionType, NumPlayers
<1>2. /\ newGameVotes' \in [Seat -> BOOLEAN] /\ newGameCnt' \in 0 .. NumPlayers
      /\ newGameCnt' = Holders(newGameVotes')
    BY <1>1, HoldersCount DEF HandleNewGame, NumPlayers
<1>3. CASE newGameCnt' = NumPlayers
    <2>1. /\ teamScores' = Zeros(Teams) /\ bags' = Zeros(Teams) /\ handNum' = 0
          /\ StartNewHand(0) /\ UNCHANGED <<readyVars, leadPlayer>>
        BY <1>3 DEF HandleNewGame
    <2>2. SessionType'
        BY <1>2, <2>1, EmptyHand
           DEF StartNewHand, TypeOK, SessionType, readyVars, Seat, NumPlayers
    <2>3. CountInv'
        BY <1>1, <2>1 DEF StartNewHand, CountInv, readyVars
    <2> QED
        BY <2>1, <2>2, <2>3, HandStarts, HandTyped DEF TypeOK
<1>4. CASE newGameCnt' # NumPlayers
    <2>1. UNCHANGED <<readyVars, leadPlayer, state, gameVars, hands, bidVars, playerToPlay,
                      trickVars, trumpsBroken>>
        BY <1>4 DEF HandleNewGame
    <2>2. SessionType'
        BY <1>2, <2>1 DEF TypeOK, SessionType, readyVars, gameVars
    <2>3. HandType'
        BY <2>1 DEF TypeOK, HandType, bidVars, trickVars
    <2>4. CountInv'
        BY <1>1, <1>2, <1>4, <2>1 DEF CountInv, readyVars, NumPlayers
    <2>5. TrickInv'
        BY <1>1, <2>1 DEF TrickInv, TurnsInOrder, TricksCounted, trickVars
    <2> QED
        BY <2>2, <2>3, <2>4, <2>5 DEF TypeOK
<1> QED
    BY <1>3, <1>4

LEMMA FlowPlay ==
    ASSUME FlowInv, NEW s \in Seat, NEW c \in hands[s], HandlePlay(s, c)
    PROVE  FlowInv'
<1>1. UNCHANGED readyVars
    BY DEF HandlePlay
<1>2. CASE cardsPlayCnt + 1 < NumPlayers /\ PlayOn(s, c)
    BY <1>1, <1>2, FlowPlayOn
<1>3. CASE TrickResolved(s, c)
    BY <1>1, <1>3, PlayFacts, FlowResolve, FlowEndHand DEF TrickResolved
<1> QED
    BY <1>2, <1>3, PlayCases

LEMMA FlowStep == FlowInv /\ [Next]_vars => FlowInv'
<1> SUFFICES ASSUME FlowInv, [Next]_vars PROVE FlowInv'
    OBVIOUS
<1>1. CASE UNCHANGED vars
    BY <1>1 DEF vars, readyVars, gameVars, bidVars, turnVars, trickVars, voteVars, FlowInv,
       TypeOK, SessionType, HandType, CountInv, TrickInv, TurnsInOrder, TricksCounted
<1>2. ASSUME NEW s \in Seat, HandleClientReady(s) PROVE FlowInv'
    BY <1>2, FlowReady
<1>3. ASSUME NEW s \in Seat, Bid(s) PROVE FlowInv'
    BY <1>3, FlowBid DEF Bid
<1>4. ASSUME NEW s \in Seat, Play(s) PROVE FlowInv'
    BY <1>4, FlowPlay DEF Play
<1>5. ASSUME NEW s \in Seat, HandleNewGame(s) PROVE FlowInv'
    BY <1>5, FlowNewGame
<1> QED
    BY <1>1, <1>2, <1>3, <1>4, <1>5 DEF Next

LEMMA FlowInvariant == Spec => []FlowInv
BY FlowInit, FlowStep, PTL DEF Spec

\* Every variable keeps its type: no counter, seat number or index runs out of the
\* range the code indexes its arrays with.
THEOREM TypeCorrect == Spec => []TypeOK
<1>1. FlowInv => TypeOK
    BY DEF FlowInv
<1> QED
    BY <1>1, FlowInvariant, PTL

\* Bids go round once from the dealer and cards once from the leader, the play
\* waits for the fourth bid, and each complete trick has one winner (handleBid,
\* handlePlay, resolveTrick, startNewHand).
THEOREM TurnsTaken == Spec => []TurnsInOrder
<1>1. FlowInv => TurnsInOrder
    BY DEF FlowInv, TrickInv
<1> QED
    BY <1>1, FlowInvariant, PTL

-----------------------------------------------------------------------------
(* The hands *)

LEMMA HandsFinite ==
    ASSUME TypeOK, NEW s \in Seat
    PROVE  IsFiniteSet(hands[s]) /\ Cardinality(hands[s]) \in Nat
<1>1. 4 * NumRanks - 1 \in Int
    BY ConstantsAssumption
<1>2. IsFiniteSet(Card)
    BY <1>1, FS_Interval DEF Card
<1>3. hands[s] \in SUBSET Card
    BY DEF TypeOK, HandType
<1> QED
    BY <1>2, <1>3, FS_Subset, FS_CardinalityType

\* The deal gives every seat a full hand and every card to one seat.
LEMMA HandsDealt ==
    ASSUME NEW n \in Nat, StartNewHand(n)
    PROVE  HandInv' /\ BrokenBySpade' /\ state' = "bid"
<1>1. PICK d \in Deals : hands' = [s \in Seat |-> {c \in Card : d[c] = s}]
    BY DEF StartNewHand
<1>2. /\ state' = "bid" /\ cardsPlayed' = EmptyTrick /\ trickNum' = 0 /\ trumpsBroken' = FALSE
    BY DEF StartNewHand, ClearTable
<1>3. \A s \in Seat : Cardinality(hands'[s]) = CardsPerPlayer
    BY <1>1, EverySeatIsDealtAHand
<1>4. \A s \in Seat : CardsLeft(s)' = CardsPerPlayer
    BY <1>2, ConstantsAssumption DEF CardsLeft, EmptyTrick
<1>5. \A s, t \in Seat : s # t => hands'[s] \cap hands'[t] = {}
    BY <1>1
<1>6. \A c \in Card : \E s \in Seat : c \in hands'[s]
    BY <1>1, ConstantsAssumption
<1> QED
    BY <1>2, <1>3, <1>4, <1>5, <1>6 DEF HandInv, BrokenBySpade

\* Taking a card keeps no card in two hands, and breaks spades if it is one.
LEMMA CardTaken ==
    ASSUME FlowInv, HandInv, state = "play", NEW s \in Seat, NEW c \in hands[s],
           TakeFromHand(s, c)
    PROVE  /\ Cardinality(hands'[s]) = Cardinality(hands[s]) - 1
           /\ \A t \in Seat \ {s} : hands'[t] = hands[t]
           /\ \A t, u \in Seat : t # u => hands'[t] \cap hands'[u] = {}
           /\ BrokenBySpade => (BrokenBySpade)'
<1>1. hands \in [Seat -> SUBSET Card] /\ IsFiniteSet(hands[s]) /\ trumpsBroken \in BOOLEAN
    BY HandsFinite DEF FlowInv, TypeOK, HandType
<1>2. hands' = [hands EXCEPT ![s] = @ \ {c}] /\ c \in Card
    BY <1>1 DEF TakeFromHand
<1>3. Cardinality(hands'[s]) = Cardinality(hands[s]) - 1
    BY <1>1, <1>2, FS_RemoveElement
<1>4. \A t, u \in Seat : t # u => hands[t] \cap hands[u] = {}
    BY DEF HandInv
<1>5. \A t, u \in Seat : t # u => hands'[t] \cap hands'[u] = {}
    BY <1>1, <1>2, <1>4
<1>6. \A t \in Seat : c \notin hands'[t]
    BY <1>1, <1>2, <1>4
<1>7. \A e \in Card \ {c} : \A t \in Seat : e \in hands'[t] <=> e \in hands[t]
    BY <1>1, <1>2
<1>8. BrokenBySpade => BrokenBySpade'
    BY <1>1, <1>2, <1>6, <1>7 DEF BrokenBySpade, TakeFromHand
<1> QED
    BY <1>1, <1>2, <1>3, <1>5, <1>8

LEMMA HandPlay ==
    ASSUME FlowInv, HandInv, BrokenBySpade, NEW s \in Seat, NEW c \in hands[s], HandlePlay(s, c)
    PROVE  HandInv' /\ BrokenBySpade'
<1>1. state = "play" /\ c \in Card /\ cardsPlayed[s] = CardNone
    BY PlayFacts
<1>2. \A t \in Seat : Cardinality(hands[t]) = CardsLeft(t)
    BY <1>1 DEF HandInv
<1>3. /\ cardsPlayed \in [Seat -> Card \cup {CardNone}]
      /\ trickNum \in Nat /\ CardsPerPlayer \in Nat
    BY ConstantsAssumption DEF FlowInv, TypeOK, HandType
<1>4. CASE cardsPlayCnt + 1 < NumPlayers /\ PlayOn(s, c)
    <2>1. /\ TakeFromHand(s, c) /\ cardsPlayed' = [cardsPlayed EXCEPT ![s] = c]
          /\ UNCHANGED <<state, trickNum>>
        BY <1>4 DEF PlayOn
    <2>2. \A t \in Seat : CardsLeft(t)' = IF t = s THEN CardsLeft(t) - 1 ELSE CardsLeft(t)
        BY <1>1, <1>3, <2>1, CardFacts DEF CardsLeft
    <2> QED
        BY <1>1, <1>2, <2>1, <2>2, CardTaken DEF HandInv
<1>5. CASE TrickResolved(s, c)
    <2> DEFINE trick  == [cardsPlayed EXCEPT ![s] = c]
               winner == TrickWinner(trick, leadPlayer)
    <2>1. trick \in [Seat -> Card]
        BY <1>5, PlayFacts DEF TrickResolved
    <2>2. \A t \in Seat \ {s} : cardsPlayed[t] # CardNone
        BY <1>3, <2>1, CardFacts
    <2>3. CASE ResolveTrick(s, c, winner)
        <3>1. /\ TakeFromHand(s, c) /\ cardsPlayed' = EmptyTrick
              /\ trickNum' = trickNum + 1 /\ state' = state
            BY <2>3 DEF ResolveTrick, ClearTable
        <3>2. \A t \in Seat : CardsLeft(t)' = IF t = s THEN CardsLeft(t) - 1 ELSE CardsLeft(t)
            BY <1>1, <1>3, <2>2, <3>1 DEF CardsLeft, EmptyTrick
        <3> QED
            BY <1>1, <1>2, <3>1, <3>2, CardTaken DEF HandInv
    <2>4. CASE EndHand(s, c, winner)
        <3>1. handNum' \in Nat
            BY <2>4 DEF EndHand, FlowInv, TypeOK, SessionType, Seat, NumPlayers
        <3>2. state' = "end" \/ StartNewHand(handNum')
            BY <2>4 DEF EndHand, EndGame
        <3> QED
            BY <3>1, <3>2, HandsDealt DEF HandInv, BrokenBySpade
    <2> QED
        BY <1>5, <2>3, <2>4 DEF TrickResolved
<1> QED
    BY <1>4, <1>5, PlayCases

LEMMA HandInit == Init => HandInv /\ BrokenBySpade
BY DEF Init, HandInv, BrokenBySpade

\* A step that moves no card and starts no play out of the lobby or the end.
LEMMA NoCardMoved ==
    ASSUME HandInv, BrokenBySpade, hands' = hands, trumpsBroken' = trumpsBroken,
           trickNum' = trickNum, cardsPlayed' = cardsPlayed,
           state' = state \/ (state = "bid" /\ state' = "play")
    PROVE  HandInv' /\ BrokenBySpade'
BY DEF HandInv, BrokenBySpade, CardsLeft

LEMMA HandStep == FlowInv /\ HandInv /\ BrokenBySpade /\ [Next]_vars => HandInv' /\ BrokenBySpade'
<1> SUFFICES ASSUME FlowInv, HandInv, BrokenBySpade, [Next]_vars
             PROVE  HandInv' /\ BrokenBySpade'
    OBVIOUS
<1>2. CASE UNCHANGED vars
    BY <1>2, NoCardMoved DEF vars, trickVars
<1>3. ASSUME NEW s \in Seat, HandleClientReady(s) PROVE HandInv' /\ BrokenBySpade'
    <2>1. handNum \in Nat
        BY DEF FlowInv, TypeOK, SessionType, Seat
    <2>2. CASE StartNewHand(handNum)
        BY <2>1, <2>2, HandsDealt
    <2> QED
        BY <1>3, <2>2, NoCardMoved DEF HandleClientReady, trickVars
<1>4. ASSUME NEW s \in Seat, Bid(s) PROVE HandInv' /\ BrokenBySpade'
    BY <1>4, NoCardMoved DEF Bid, HandleBid, trickVars
<1>5. ASSUME NEW s \in Seat, Play(s) PROVE HandInv' /\ BrokenBySpade'
    BY <1>5, HandPlay DEF Play
<1>6. ASSUME NEW s \in Seat, HandleNewGame(s) PROVE HandInv' /\ BrokenBySpade'
    <2>1. CASE StartNewHand(0)
        BY <2>1, HandsDealt
    <2> QED
        BY <1>6, <2>1, NoCardMoved DEF HandleNewGame, trickVars
<1> QED
    BY <1>2, <1>3, <1>4, <1>5, <1>6 DEF Next

LEMMA HandInvariant == Spec => [](FlowInv /\ HandInv /\ BrokenBySpade)
<1>1. Init => FlowInv /\ HandInv /\ BrokenBySpade
    BY FlowInit, HandInit
<1>2. FlowInv /\ HandInv /\ BrokenBySpade /\ [Next]_vars => (FlowInv /\ HandInv /\ BrokenBySpade)'
    BY FlowStep, HandStep
<1> QED
    BY <1>1, <1>2, PTL DEF Spec

\* The seat whose turn it is has a card left, and the rules on leading and
\* following allow one of those it has.
LEMMA CardToPlay == FlowInv /\ HandInv => NobodyIsStuck
<1> SUFFICES ASSUME FlowInv, HandInv, state = "play"
             PROVE  \E c \in hands[playerToPlay] : ValidCardToPlay(c, hands[playerToPlay])
    BY DEF NobodyIsStuck, HandInv
<1> DEFINE hand == hands[playerToPlay]
<1>1. /\ playerToPlay \in Seat /\ leadPlayer \in Seat /\ cardsPlayCnt \in Seat
      /\ playerToPlay = (leadPlayer + cardsPlayCnt) % NumPlayers
      /\ \A i \in Seat : cardsPlayed[(leadPlayer + i) % NumPlayers] # CardNone <=> i < cardsPlayCnt
      /\ trickNum \in Nat /\ CardsPerPlayer \in Nat /\ trickNum < CardsPerPlayer
    BY ConstantsAssumption
       DEF FlowInv, TypeOK, SessionType, HandType, TrickInv, TurnsInOrder, Seat
<1>2. cardsPlayed[playerToPlay] = CardNone
    BY <1>1 DEF Seat, NumPlayers
<1>3. Cardinality(hand) = CardsPerPlayer - trickNum
    BY <1>1, <1>2 DEF HandInv, CardsLeft
<1>4. hand # {}
    <2> SUFFICES ASSUME hand = {} PROVE FALSE
        OBVIOUS
    <2>1. Cardinality(hand) = 0
        BY FS_EmptySet
    <2> QED
        BY <1>1, <1>3, <2>1
<1> QED
    BY <1>4 DEF ValidCardToPlay

\* No seat's turn can come without a card the server would take: every seat has a
\* card for each trick left to it, no card is in two hands, and the rules on
\* leading and following allow one (handlePlay, ValidCardToPlay).
THEOREM SomebodyCanPlay == Spec => []NobodyIsStuck
BY HandInvariant, CardToPlay, PTL

\* Spades are broken as soon as one has left a hand, and not before (handlePlay,
\* startNewHand).
THEOREM SpadesBroken == Spec => []BrokenBySpade
BY HandInvariant, PTL

-----------------------------------------------------------------------------
(* Following suit *)

LEMMA RevokePlay ==
    ASSUME FlowInv, NobodyRevokes, NEW s \in Seat, NEW c \in hands[s], HandlePlay(s, c)
    PROVE  NobodyRevokes'
<1>1. /\ state = "play" /\ cardsPlayed[s] = CardNone
      /\ s = (leadPlayer + cardsPlayCnt) % NumPlayers
    BY PlayFacts
<1>2. /\ cardsPlayed \in [Seat -> Card \cup {CardNone}] /\ leadPlayer \in Seat
      /\ hands \in [Seat -> SUBSET Card] /\ cardsPlayCnt \in Seat
      /\ \A i \in Seat : cardsPlayed[(leadPlayer + i) % NumPlayers] # CardNone <=> i < cardsPlayCnt
    BY <1>1 DEF FlowInv, TypeOK, SessionType, HandType, TrickInv, TurnsInOrder, Seat
<1>3. CASE cardsPlayCnt + 1 < NumPlayers /\ PlayOn(s, c)
    <2>1. /\ hands' = [hands EXCEPT ![s] = @ \ {c}] /\ cardsPlayed' = [cardsPlayed EXCEPT ![s] = c]
          /\ leadPlayer' = leadPlayer
        BY <1>3 DEF PlayOn, TakeFromHand
    <2>2. CASE cardsPlayCnt = 0
        <3>1. s = leadPlayer
            BY <1>1, <1>2, <2>2 DEF Seat, NumPlayers
        <3>2. \A t \in Seat : cardsPlayed[t] = CardNone
            <4>1. \A i \in Seat : cardsPlayed[(leadPlayer + i) % NumPlayers] = CardNone
                BY <1>2, <2>2 DEF Seat
            <4> QED
                BY <1>2, <4>1, EveryPlace, SeatsAreFour
        <3> QED
            BY <1>2, <2>1, <3>1, <3>2 DEF NobodyRevokes
    <2>3. CASE cardsPlayCnt # 0
        <3>1. cardsPlayCnt > 0 /\ s # leadPlayer
            BY <1>1, <1>2, <2>3 DEF Seat, NumPlayers
        <3>2. Suit(c) = Suit(cardsPlayed[leadPlayer])
              \/ \A h \in hands[s] : Suit(h) # Suit(cardsPlayed[leadPlayer])
            BY <2>3 DEF HandlePlay, ValidCardToPlay
        <3>3. \A t \in Seat \ {s} :
                cardsPlayed[t] # CardNone /\ Suit(cardsPlayed[t]) # Suit(cardsPlayed[leadPlayer])
                    => \A h \in hands[t] : Suit(h) # Suit(cardsPlayed[leadPlayer])
            BY <1>1, <3>1 DEF NobodyRevokes
        <3> QED
            BY <1>2, <2>1, <3>1, <3>2, <3>3 DEF NobodyRevokes
    <2> QED
        BY <2>2, <2>3
<1>4. CASE TrickResolved(s, c)
    <2>1. cardsPlayCnt' = 0 \/ state' # "play"
        BY <1>4 DEF TrickResolved, ResolveTrick, EndHand, StartNewHand, ClearTable
    <2> QED
        BY <2>1 DEF NobodyRevokes
<1> QED
    BY <1>3, <1>4, PlayCases

LEMMA RevokeStep == FlowInv /\ NobodyRevokes /\ [Next]_vars => NobodyRevokes'
<1> SUFFICES ASSUME FlowInv, NobodyRevokes, [Next]_vars PROVE NobodyRevokes'
    OBVIOUS
<1>1. CASE UNCHANGED vars
    BY <1>1 DEF vars, trickVars, turnVars, NobodyRevokes
<1>2. ASSUME NEW s \in Seat, HandleClientReady(s) PROVE NobodyRevokes'
    BY <1>2 DEF HandleClientReady, StartNewHand, NobodyRevokes, trickVars, turnVars
<1>3. ASSUME NEW s \in Seat, Bid(s) PROVE NobodyRevokes'
    <2>1. state = "bid" /\ cardsPlayCnt' = cardsPlayCnt
        BY <1>3 DEF Bid, HandleBid, trickVars
    <2>2. cardsPlayCnt = 0
        BY <2>1 DEF FlowInv, TrickInv
    <2> QED
        BY <2>1, <2>2 DEF NobodyRevokes
<1>4. ASSUME NEW s \in Seat, Play(s) PROVE NobodyRevokes'
    BY <1>4, RevokePlay DEF Play
<1>5. ASSUME NEW s \in Seat, HandleNewGame(s) PROVE NobodyRevokes'
    BY <1>5 DEF HandleNewGame, StartNewHand, NobodyRevokes
<1> QED
    BY <1>1, <1>2, <1>3, <1>4, <1>5 DEF Next

\* Nobody revokes: who has not followed suit has no card of it left, and cannot
\* come up with one later in the hand (ValidCardToPlay).
THEOREM SuitFollowed == Spec => []NobodyRevokes
<1>1. Init => NobodyRevokes
    BY DEF Init, NobodyRevokes
<1> QED
    BY <1>1, RevokeStep, FlowInvariant, PTL DEF Spec

-----------------------------------------------------------------------------
(* Scores and bags *)

Multiple(x) == x \in Int /\ x % BagLimit = 0

LEMMA ScoreConstants ==
    /\ BagLimit \in Nat \ {0}
    /\ BidPoints \in Nat /\ BidPoints % BagLimit = 0
    /\ BagPenalty \in Nat /\ BagPenalty % BagLimit = 0
    /\ NilPoints \in Nat /\ NilPoints % BagLimit = 0
BY ConstantsAssumption, Zenon

LEMMA MultipleIs ==
    /\ \A x : Multiple(x) => \E k \in Int : x = k * BagLimit
    /\ \A k \in Int : Multiple(k * BagLimit)
<1>1. BagLimit \in Nat \ {0}
    BY ScoreConstants
<1> QED
    BY <1>1 DEF Multiple

\* Sums, differences and products of multiples of BagLimit are multiples of it.
LEMMA MultipleSum ==
    ASSUME NEW x, NEW y, Multiple(x), Multiple(y)
    PROVE  Multiple(x + y) /\ Multiple(x - y) /\ Multiple(-x)
<1>1. PICK j \in Int : x = j * BagLimit
    BY MultipleIs
<1>2. PICK k \in Int : y = k * BagLimit
    BY MultipleIs
<1>3. BagLimit \in Int
    BY ScoreConstants
<1>4. x + y = (j + k) * BagLimit /\ x - y = (j - k) * BagLimit /\ -x = (-j) * BagLimit
    BY <1>1, <1>2, <1>3
<1> QED
    BY <1>4, MultipleIs

LEMMA MultipleTimes ==
    ASSUME NEW x, Multiple(x), NEW n \in Int
    PROVE  Multiple(x * n)
<1>1. PICK k \in Int : x = k * BagLimit
    BY MultipleIs
<1>2. BagLimit \in Int
    BY ScoreConstants
<1>3. x * n = (k * n) * BagLimit
    BY <1>1, <1>2
<1> QED
    BY <1>3, MultipleIs

\* What a hand adds to a score beyond the bags it adds is a multiple of BagLimit.
LEMMA HandShowsBags ==
    ASSUME TypeOK, NEW won \in [Seat -> 0 .. CardsPerPlayer], NEW t \in Teams
    PROVE  Multiple(HandScore(t, won) - (BagsLeft(t, won) - bags[t]))
<1> DEFINE base    == IF TeamTricks(t, won) >= TeamBid(t) THEN BidPoints * TeamBid(t)
                      ELSE -(BidPoints * TeamBid(t))
           reached == bags[t] + NewBags(t, won) >= BagLimit
           penalty == IF reached THEN BagPenalty - BagLimit ELSE 0
<1>1. /\ Multiple(BidPoints) /\ Multiple(BagPenalty) /\ Multiple(NilPoints)
      /\ Multiple(BagLimit) /\ Multiple(0)
    BY ScoreConstants DEF Multiple
<1>2. t \in Seat /\ t + 2 \in Seat
    BY DEF Teams, Seat, NumPlayers
<1>3. bids[t] \in Nat /\ bids[t + 2] \in Nat
    BY <1>2, ConstantsAssumption DEF TypeOK, HandType, BidsAndNone, BidDoubleNil, BidNone
<1>4. TeamBid(t) \in Nat
    BY <1>3 DEF TeamBid, EffectiveBid
<1>5. Multiple(base)
    <2>1. Multiple(BidPoints * TeamBid(t))
        BY <1>1, <1>4, MultipleTimes
    <2>2. Multiple(-(BidPoints * TeamBid(t)))
        BY <1>1, <2>1, MultipleSum
    <2> QED
        BY <2>1, <2>2
<1>6. \A s \in Seat : Multiple(NilBonus(bids[s], won[s]))
    <2>1. Multiple(2 * NilPoints) /\ Multiple(-NilPoints) /\ Multiple(-(2 * NilPoints)) /\ Multiple(-0)
        <3>1. NilPoints \in Int /\ 2 * NilPoints = NilPoints + NilPoints
            BY <1>1 DEF Multiple
        <3> QED
            BY <1>1, <3>1, MultipleSum
    <2> QED
        BY <1>1, <2>1 DEF NilBonus
<1>7. Multiple(TeamNil(t, won))
    BY <1>2, <1>6, MultipleSum DEF TeamNil
<1>8. Multiple(penalty)
    BY <1>1, MultipleSum
<1>9. Multiple(base + TeamNil(t, won) - penalty)
    BY <1>5, <1>7, <1>8, MultipleSum
<1>10. HandScore(t, won) - (BagsLeft(t, won) - bags[t]) = base + TeamNil(t, won) - penalty
    <2>1. NewBags(t, won) \in Nat /\ bags[t] \in Nat
        BY ScoreTypes DEF TypeOK, SessionType
    <2>2. base \in Int /\ TeamNil(t, won) \in Int /\ BagPenalty \in Int /\ BagLimit \in Int
        BY <1>1, <1>5, <1>7 DEF Multiple
    <2>3. HandScore(t, won) = base + NewBags(t, won) + TeamNil(t, won)
                              - (IF reached THEN BagPenalty ELSE 0)
        BY DEF HandScore
    <2>4. BagsLeft(t, won) = bags[t] + NewBags(t, won) - (IF reached THEN BagLimit ELSE 0)
        BY <2>1, <2>2 DEF BagsLeft
    <2> HIDE DEF base
    <2> QED
        BY <2>1, <2>2, <2>3, <2>4
<1> QED
    BY <1>9, <1>10

LEMMA ScoreStep == FlowInv /\ ScoreShowsBags /\ [Next]_vars => ScoreShowsBags'
<1> SUFFICES ASSUME FlowInv, ScoreShowsBags, [Next]_vars PROVE ScoreShowsBags'
    OBVIOUS
<1>1. teamScores \in [Teams -> Int] /\ bags \in [Teams -> Nat]
    BY DEF FlowInv, TypeOK, SessionType
<1>2. \A t \in Teams : Multiple(teamScores[t] - bags[t])
    BY <1>1 DEF ScoreShowsBags, Multiple
<1>3. CASE UNCHANGED gameVars
    BY <1>3 DEF ScoreShowsBags, gameVars
<1>4. CASE UNCHANGED vars
    BY <1>3, <1>4 DEF vars
<1>5. ASSUME NEW s \in Seat, HandleClientReady(s) PROVE ScoreShowsBags'
    BY <1>3, <1>5 DEF HandleClientReady
<1>6. ASSUME NEW s \in Seat, Bid(s) PROVE ScoreShowsBags'
    BY <1>3, <1>6 DEF Bid, HandleBid
<1>7. ASSUME NEW s \in Seat, NEW c \in hands[s], HandlePlay(s, c) PROVE ScoreShowsBags'
    <2>1. CASE cardsPlayCnt + 1 < NumPlayers /\ PlayOn(s, c)
        BY <1>3, <2>1 DEF PlayOn
    <2> DEFINE winner == TrickWinner([cardsPlayed EXCEPT ![s] = c], leadPlayer)
               won    == [tricksWon EXCEPT ![winner] = @ + 1]
    <2>2. CASE TrickResolved(s, c)
        <3>1. CASE ResolveTrick(s, c, winner)
            BY <1>3, <3>1 DEF ResolveTrick
        <3>2. CASE EndHand(s, c, winner)
            <4>1. won \in [Seat -> 0 .. CardsPerPlayer]
                BY <1>7, <2>2, PlayFacts, OneMoreTrick DEF TrickResolved
            <4>2. /\ teamScores' = [t \in Teams |-> teamScores[t] + HandScore(t, won)]
                  /\ bags' = [t \in Teams |-> BagsLeft(t, won)]
                BY <3>2 DEF EndHand
            <4> HIDE DEF won
            <4>3. ASSUME NEW t \in Teams PROVE (teamScores'[t] - bags'[t]) % BagLimit = 0
                <5>1. HandScore(t, won) \in Int /\ BagsLeft(t, won) \in Nat
                    BY <4>1, ScoreTypes DEF FlowInv
                <5>2. teamScores'[t] - bags'[t] = (teamScores[t] - bags[t])
                          + (HandScore(t, won) - (BagsLeft(t, won) - bags[t]))
                    BY <1>1, <4>2, <5>1
                <5>3. Multiple(HandScore(t, won) - (BagsLeft(t, won) - bags[t]))
                    BY <4>1, HandShowsBags DEF FlowInv
                <5>4. Multiple((teamScores[t] - bags[t])
                               + (HandScore(t, won) - (BagsLeft(t, won) - bags[t])))
                    BY <1>2, <5>3, MultipleSum
                <5> QED
                    BY <5>2, <5>4 DEF Multiple
            <4> QED
                BY <4>3 DEF ScoreShowsBags
        <3> QED
            BY <2>2, <3>1, <3>2 DEF TrickResolved
    <2> QED
        BY <1>7, <2>1, <2>2, PlayCases
<1>8. ASSUME NEW s \in Seat, HandleNewGame(s) PROVE ScoreShowsBags'
    <2>1. CASE teamScores' = Zeros(Teams) /\ bags' = Zeros(Teams)
        BY <2>1, ConstantsAssumption DEF ScoreShowsBags, Zeros
    <2> QED
        BY <1>3, <1>8, <2>1 DEF HandleNewGame
<1> QED
    BY <1>4, <1>5, <1>6, <1>7, <1>8 DEF Next, Play

\* Bids, nils and penalties count in multiples of BagLimit and only a bag counts
\* one: the last digit of a score shows the bags, through all the hands of a game
\* (ScoreHand, endHand).
THEOREM BagsInScore == Spec => []ScoreShowsBags
<1>1. Init => ScoreShowsBags
    BY ConstantsAssumption DEF Init, ScoreShowsBags, Zeros
<1> QED
    BY <1>1, ScoreStep, FlowInvariant, PTL DEF Spec

-----------------------------------------------------------------------------
(* A session is a game of tricks in turn: each step of the session is a step of *)
(* TrickTaking or changes nothing of it.                                       *)

LEMMA SameSeats == Abstract!Seat = Seat
BY DEF Abstract!Seat, Seat, NumPlayers

\* A new hand has no card on the table.
LEMMA AbstractDeal ==
    ASSUME NEW n \in Nat, StartNewHand(n)
    PROVE  Abstract!Deal
<1>1. /\ state' = "bid" /\ dealer' = n % NumPlayers /\ cardsPlayed' = EmptyTrick /\ trickNum' = 0
    BY DEF StartNewHand, ClearTable
<1>2. Turn' \in Abstract!Seat
    BY <1>1, SameSeats DEF Turn, Seat, NumPlayers
<1>3. Placed' = {} /\ Agreed' = {} /\ Stage' = "opening"
    BY <1>1 DEF Placed, EmptyTrick, Agreed, Stage
<1> QED
    BY <1>1, <1>2, <1>3 DEF Abstract!Deal

LEMMA AbstractReady ==
    ASSUME FlowInv, NEW s \in Seat, HandleClientReady(s)
    PROVE  Abstract!Next
<1>1. ready \in [Seat -> BOOLEAN] /\ handNum \in Nat
    BY DEF FlowInv, TypeOK, SessionType, Seat
<1>2. readyCnt = Holders(ready) /\ readyCnt' = Holders(ready') /\ ready' = [ready EXCEPT ![s] = TRUE]
    BY <1>1, HoldersCount DEF HandleClientReady, FlowInv, CountInv
<1>3. Holders(ready) # NumPlayers
    BY <1>1, HoldersCount DEF HandleClientReady
<1>4. state = "none" /\ ready' \in [Seat -> BOOLEAN]
    BY <1>1, <1>2, <1>3, HoldersCount DEF FlowInv, CountInv, NumPlayers
<1>5. Stage = "lobby" /\ Agreed = {t \in Seat : ready[t]} /\ s \notin Agreed
    BY <1>4 DEF Stage, Agreed, HandleClientReady
<1>6. Agreed \cup {s} = {t \in Seat : ready'[t]}
    BY <1>1, <1>2, <1>5
<1>7. Agreed \cup {s} = Abstract!Seat <=> readyCnt' = NumPlayers
    BY <1>2, <1>4, <1>6, HoldersCount, SameSeats
<1>8. CASE readyCnt' = NumPlayers
    <2>1. Abstract!Deal
        BY <1>1, <1>8, AbstractDeal DEF HandleClientReady
    <2> QED
        BY <1>5, <1>7, <1>8, <2>1, SameSeats DEF Abstract!Next, Abstract!Agree
<1>9. CASE readyCnt' # NumPlayers
    <2>1. UNCHANGED <<state, dealer, playerToPlay, cardsPlayed, trickNum>>
        BY <1>9 DEF HandleClientReady, bidVars, turnVars, trickVars
    <2>2. Agreed' = Agreed \cup {s}
        BY <1>4, <1>6, <2>1 DEF Agreed
    <2>3. UNCHANGED <<Stage, Turn, Placed, trickNum>>
        BY <2>1 DEF Stage, Turn, Placed
    <2> QED
        BY <1>5, <1>7, <1>9, <2>2, <2>3, SameSeats DEF Abstract!Next, Abstract!Agree
<1> QED
    BY <1>8, <1>9

\* Three bids change nothing of the abstract game, the fourth opens the play.
LEMMA AbstractBid ==
    ASSUME FlowInv, NEW s \in Seat, NEW bid \in SentBids, HandleBid(s, bid)
    PROVE  Abstract!Next \/ UNCHANGED Abstract!vars
<1>1. /\ state = "bid" /\ dealer' = dealer /\ dealer \in Seat
      /\ cardsPlayed' = cardsPlayed /\ trickNum' = trickNum
    BY DEF HandleBid, trickVars, FlowInv, TypeOK, HandType
<1>2. Placed' = Placed
    BY <1>1 DEF Placed
<1>3. CASE state' = state
    <2>1. Stage' = Stage /\ Agreed' = Agreed /\ Turn' = Turn
        BY <1>1, <1>3 DEF Stage, Agreed, Turn
    <2> QED
        BY <1>1, <1>2, <2>1 DEF Abstract!vars
<1>4. CASE state' = "play" /\ playerToPlay' = dealer
    <2>1. Stage = "opening" /\ Stage' = "play" /\ Agreed' = Agreed /\ Turn' \in Seat
        BY <1>1, <1>4 DEF Stage, Agreed, Turn
    <2> QED
        BY <1>1, <1>2, <2>1, SameSeats DEF Abstract!Next, Abstract!Open
<1> QED
    BY <1>3, <1>4 DEF HandleBid

LEMMA AbstractPlay ==
    ASSUME FlowInv, NEW s \in Seat, NEW c \in hands[s], HandlePlay(s, c)
    PROVE  Abstract!Next
<1> DEFINE trick == [cardsPlayed EXCEPT ![s] = c]
<1>1. /\ state = "play" /\ c \in Card /\ cardsPlayed[s] = CardNone /\ s = playerToPlay
      /\ s = (leadPlayer + cardsPlayCnt) % NumPlayers
      /\ \A i \in Seat : trick[(leadPlayer + i) % NumPlayers] # CardNone <=> i < cardsPlayCnt + 1
    BY PlayFacts
<1>2. /\ cardsPlayed \in [Seat -> Card \cup {CardNone}] /\ leadPlayer \in Seat
      /\ cardsPlayCnt \in Seat /\ trickNum \in Nat
    BY ConstantsAssumption DEF FlowInv, TypeOK, SessionType, HandType, Seat
<1>3. Stage = "play" /\ Turn = s /\ Agreed = {} /\ s \notin Placed
    BY <1>1 DEF Stage, Turn, Agreed, Placed
<1>4. Placed \cup {s} = {t \in Seat : trick[t] # CardNone}
    BY <1>1, <1>2, CardFacts DEF Placed
<1>5. CASE cardsPlayCnt + 1 < NumPlayers /\ PlayOn(s, c)
    <2>1. /\ UNCHANGED <<state, trickNum>> /\ cardsPlayed' = trick
          /\ playerToPlay' = (s + 1) % NumPlayers
        BY <1>5 DEF PlayOn
    <2>2. Placed \cup {s} # Seat
        <3>1. trick[(leadPlayer + 3) % NumPlayers] = CardNone
            BY <1>1, <1>2, <1>5 DEF Seat, NumPlayers
        <3>2. (leadPlayer + 3) % NumPlayers \in Seat
            BY <1>2 DEF Seat, NumPlayers
        <3> QED
            BY <1>4, <3>1, <3>2
    <2>3. Placed' = Placed \cup {s}
        BY <1>4, <2>1 DEF Placed
    <2>4. Stage' = Stage /\ Agreed' = Agreed /\ Turn' = (Turn + 1) % 4
        BY <1>1, <1>3, <2>1 DEF Stage, Agreed, Turn, NumPlayers
    <2> QED
        BY <1>3, <2>1, <2>2, <2>3, <2>4, SameSeats DEF Abstract!Next, Abstract!Place
<1>6. CASE TrickResolved(s, c)
    <2> DEFINE winner == TrickWinner(trick, leadPlayer)
    <2>1. trick \in [Seat -> Card] /\ winner \in Seat
        BY <1>6, PlayFacts DEF TrickResolved
    <2>2. Placed = Abstract!Seat \ {Turn}
        BY <1>3, <1>4, <2>1, CardFacts, SameSeats
    <2>3. CASE trickNum + 1 < CardsPerPlayer /\ ResolveTrick(s, c, winner)
        <3>1. /\ state' = state /\ trickNum' = trickNum + 1 /\ cardsPlayed' = EmptyTrick
              /\ playerToPlay' = winner
            BY <2>3 DEF ResolveTrick, ClearTable
        <3>2. Placed' = {} /\ Stage' = Stage /\ Agreed' = Agreed /\ Turn' \in Abstract!Seat
            BY <1>1, <2>1, <3>1, SameSeats DEF Placed, EmptyTrick, Stage, Agreed, Turn
        <3> QED
            BY <1>3, <2>2, <2>3, <3>1, <3>2 DEF Abstract!Next, Abstract!CompleteTrick
    <2>4. CASE ~(trickNum + 1 < CardsPerPlayer) /\ EndHand(s, c, winner)
        <3>1. CASE GameOver(teamScores')
            <4>1. /\ state' = "end" /\ newGameVotes' = NoneOf /\ cardsPlayed' = EmptyTrick
                  /\ trickNum' = CardsPerPlayer /\ playerToPlay' = winner
                BY <2>4, <3>1 DEF EndHand, EndGame, ClearTable
            <4>2. Placed' = {} /\ Stage' = "over" /\ Agreed' = {} /\ Turn' \in Abstract!Seat
                BY <2>1, <4>1, SameSeats DEF Placed, EmptyTrick, Stage, Agreed, NoneOf, Turn
            <4> QED
                BY <1>3, <2>2, <2>4, <4>1, <4>2 DEF Abstract!Next, Abstract!CompleteTrick
        <3>2. CASE ~GameOver(teamScores')
            <4>1. StartNewHand(handNum')
                BY <2>4, <3>2 DEF EndHand
            <4>2. handNum' \in Nat
                BY <2>4 DEF EndHand, FlowInv, TypeOK, SessionType, Seat, NumPlayers
            <4> QED
                BY <1>3, <2>2, <2>4, <4>1, <4>2, AbstractDeal
                   DEF Abstract!Next, Abstract!CompleteTrick
        <3> QED
            BY <3>1, <3>2
    <2> QED
        BY <1>6, <2>3, <2>4 DEF TrickResolved
<1> QED
    BY <1>5, <1>6, PlayCases

LEMMA AbstractNewGame ==
    ASSUME FlowInv, NEW s \in Seat, HandleNewGame(s)
    PROVE  Abstract!Next
<1>1. /\ state = "end" /\ newGameVotes \in [Seat -> BOOLEAN] /\ ~newGameVotes[s]
      /\ newGameCnt = Holders(newGameVotes) /\ newGameVotes' = [newGameVotes EXCEPT ![s] = TRUE]
      /\ newGameCnt' = newGameCnt + 1
    BY DEF HandleNewGame, FlowInv, CountInv, TypeOK, SessionType
<1>2. newGameVotes' \in [Seat -> BOOLEAN] /\ newGameCnt' = Holders(newGameVotes')
    BY <1>1, HoldersCount
<1>3. Stage = "over" /\ Agreed = {t \in Seat : newGameVotes[t]} /\ s \notin Agreed
    BY <1>1 DEF Stage, Agreed
<1>4. Agreed \cup {s} = {t \in Seat : newGameVotes'[t]}
    BY <1>1, <1>3
<1>5. Agreed \cup {s} = Abstract!Seat <=> newGameCnt' = NumPlayers
    BY <1>2, <1>4, HoldersCount, SameSeats
<1>6. CASE newGameCnt' = NumPlayers
    <2>1. Abstract!Deal
        BY <1>6, AbstractDeal DEF HandleNewGame
    <2> QED
        BY <1>3, <1>5, <1>6, <2>1, SameSeats DEF Abstract!Next, Abstract!Agree
<1>7. CASE newGameCnt' # NumPlayers
    <2>1. UNCHANGED <<state, dealer, playerToPlay, cardsPlayed, trickNum>>
        BY <1>7 DEF HandleNewGame, bidVars, trickVars
    <2>2. Agreed' = Agreed \cup {s}
        BY <1>1, <1>4, <2>1 DEF Agreed
    <2>3. UNCHANGED <<Stage, Turn, Placed, trickNum>>
        BY <2>1 DEF Stage, Turn, Placed
    <2> QED
        BY <1>3, <1>5, <1>7, <2>2, <2>3, SameSeats DEF Abstract!Next, Abstract!Agree
<1> QED
    BY <1>6, <1>7

LEMMA AbstractStep == FlowInv /\ [Next]_vars => [Abstract!Next]_(Abstract!vars)
<1> SUFFICES ASSUME FlowInv, [Next]_vars PROVE Abstract!Next \/ UNCHANGED Abstract!vars
    OBVIOUS
<1>1. CASE UNCHANGED vars
    BY <1>1 DEF vars, readyVars, bidVars, turnVars, trickVars, voteVars, Abstract!vars,
                Stage, Agreed, Turn, Placed
<1>2. ASSUME NEW s \in Seat, HandleClientReady(s) PROVE Abstract!Next
    BY <1>2, AbstractReady
<1>3. ASSUME NEW s \in Seat, Bid(s) PROVE Abstract!Next \/ UNCHANGED Abstract!vars
    BY <1>3, AbstractBid DEF Bid
<1>4. ASSUME NEW s \in Seat, Play(s) PROVE Abstract!Next
    BY <1>4, AbstractPlay DEF Play
<1>5. ASSUME NEW s \in Seat, HandleNewGame(s) PROVE Abstract!Next
    BY <1>5, AbstractNewGame
<1> QED
    BY <1>1, <1>2, <1>3, <1>4, <1>5 DEF Next

LEMMA AbstractInit == Init => Abstract!Init
BY DEF Init, Abstract!Init, Stage, Agreed, Turn, Placed, NoneOf, EmptyTrick

\* Whatever the clients send, a session takes the steps of the abstract game and no
\* others: nobody plays before all four have agreed and bid, each trick gets one
\* card from each seat in turn, and a hand has exactly its tricks.
THEOREM PlaysTricksInTurn == Spec => Abstract!SafeSpec
BY FlowInvariant, AbstractInit, AbstractStep, PTL DEF Spec, Abstract!SafeSpec
=============================================================================
