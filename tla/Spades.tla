------------------------------- MODULE Spades -------------------------------
(***************************************************************************)
(* A Spades session: bids and cards of four seats, every handler run from   *)
(* start to end under the session's lock and so one action.  What a handler *)
(* ignores (wrong state, wrong turn, an invalid bid, a card that may not be *)
(* played, a repeated Ready or vote) is a stutter.  Hands are sets: no card *)
(* is dealt twice and the server takes each from the hand it is played      *)
(* from.  The messages sent to the clients are not modelled.                *)
(***************************************************************************)
EXTENDS Integers, FiniteSets

CONSTANTS
    NumRanks,        \* 13
    CardsPerPlayer,  \* 13
    PointsForGame,   \* 500
    MinPoints,       \* -200
    BidPoints,       \* 10 for each trick bid
    BagLimit,        \* 10, the bags that cost a penalty
    BagPenalty,      \* 100
    NilPoints,       \* 100, and twice that for a double nil
    Deals,           \* deals the shuffle may come to: the seat of every card
    SentBids         \* the bids that clients send, valid or not

NumPlayers == 4
Seat == 0 .. NumPlayers - 1
Teams == {0, 1}
Card == 0 .. 4 * NumRanks - 1
CardNone == 127
SuitSpades == 3
BidNone == 255
BidDoubleNil == 128

ASSUME ConstantsAssumption ==
    /\ NumRanks \in 1 .. 31
    /\ CardsPerPlayer \in 1 .. NumRanks
    /\ PointsForGame \in Nat \ {0}
    /\ MinPoints \in Int /\ MinPoints < 0
    /\ BagLimit \in Nat \ {0}
    /\ \A points \in {BidPoints, BagPenalty, NilPoints} :
            points \in Nat /\ points % BagLimit = 0
    /\ Deals \subseteq [Card -> Seat] /\ Deals # {}
    /\ SentBids \subseteq 0 .. 255

ASSUME EverySeatIsDealtAHand ==
    \A d \in Deals, s \in Seat :
        Cardinality({c \in Card : d[c] = s}) = CardsPerPlayer

VARIABLES
    ready, readyCnt,
    state,           \* "none", "bid", "play", "end"
    handNum,         \* hands played, of which only the remainder by NumPlayers is kept
    teamScores, bags,
    hands,
    bids, bidCnt,
    dealer, leadPlayer, playerToPlay,
    cardsPlayed, cardsPlayCnt, trickNum, tricksWon,
    trumpsBroken,
    newGameVotes, newGameCnt

readyVars == <<ready, readyCnt>>
gameVars  == <<handNum, teamScores, bags>>
bidVars   == <<bids, bidCnt, dealer>>
turnVars  == <<leadPlayer, playerToPlay>>
trickVars == <<cardsPlayed, cardsPlayCnt, trickNum, tricksWon>>
voteVars  == <<newGameVotes, newGameCnt>>
vars == <<readyVars, state, gameVars, hands, bidVars, turnVars, trickVars,
          trumpsBroken, voteVars>>

-----------------------------------------------------------------------------
(* The rules, package spades *)

Suit(c) == c \div NumRanks
Rank(c) == c % NumRanks
Team(s) == s % 2

\* The highest spade wins, or without one the highest card of the suit led.
TrickWinner(played, lead) ==
    LET spades   == {s \in Seat : Suit(played[s]) = SuitSpades}
        follows  == {s \in Seat : Suit(played[s]) = Suit(played[lead])}
        contends == IF spades # {} THEN spades ELSE follows
    IN CHOOSE s \in contends : \A t \in contends : Rank(played[s]) >= Rank(played[t])

ValidBid(bid) == bid <= CardsPerPlayer \/ bid = BidDoubleNil

\* A nil adds nothing to what the team has bid.
EffectiveBid(bid) == IF bid = BidDoubleNil THEN 0 ELSE bid

NilBonus(bid, won) ==
    LET stake == CASE bid = 0 -> NilPoints
                   [] bid = BidDoubleNil -> 2 * NilPoints
                   [] OTHER -> 0
    IN IF won = 0 THEN stake ELSE -stake

TeamBid(t) == EffectiveBid(bids[t]) + EffectiveBid(bids[t + 2])
TeamTricks(t, won) == won[t] + won[t + 2]
TeamNil(t, won) == NilBonus(bids[t], won[t]) + NilBonus(bids[t + 2], won[t + 2])

\* Tricks beyond the bid, one bag each; a team of two nils collects none.
NewBags(t, won) ==
    LET over == TeamTricks(t, won) - TeamBid(t)
    IN IF TeamBid(t) > 0 /\ over > 0 THEN over ELSE 0

\* A penalty is charged once in a hand, however many bags there are.
BagsLeft(t, won) ==
    LET all == bags[t] + NewBags(t, won)
    IN IF all >= BagLimit THEN all - BagLimit ELSE all

\* Mutant of HandScore: a failed bid costs the tricks that are missing.
HandScoreShort(t, won) ==
    LET tricks == TeamTricks(t, won)
        base   == IF tricks >= TeamBid(t) THEN BidPoints * TeamBid(t)
                  ELSE tricks - TeamBid(t)
    IN base + NewBags(t, won) + TeamNil(t, won)
       - (IF bags[t] + NewBags(t, won) >= BagLimit THEN BagPenalty ELSE 0)

HandScore(t, won) ==
    LET base == BidPoints * TeamBid(t)
    IN (IF TeamTricks(t, won) >= TeamBid(t) THEN base ELSE -base)
       + NewBags(t, won) + TeamNil(t, won)
       - (IF bags[t] + NewBags(t, won) >= BagLimit THEN BagPenalty ELSE 0)

\* Mutant of ValidCardToPlay: spades may not be led before they are broken, even
\* by a seat that has nothing else.
ValidCardToPlayStrict(c, hand) ==
    IF cardsPlayCnt = 0
    THEN Suit(c) = SuitSpades => trumpsBroken
    ELSE LET led == Suit(cardsPlayed[leadPlayer])
         IN Suit(c) = led \/ \A h \in hand : Suit(h) # led

\* Mutant of ValidCardToPlay: any card may follow.
ValidCardToPlayAny(c, hand) ==
    cardsPlayCnt = 0 /\ Suit(c) = SuitSpades =>
        trumpsBroken \/ \A h \in hand : Suit(h) = SuitSpades

ValidCardToPlay(c, hand) ==
    IF cardsPlayCnt = 0
    THEN Suit(c) = SuitSpades => trumpsBroken \/ \A h \in hand : Suit(h) = SuitSpades
    ELSE LET led == Suit(cardsPlayed[leadPlayer])
         IN Suit(c) = led \/ \A h \in hand : Suit(h) # led

-----------------------------------------------------------------------------
(* Hands and games *)

NoneOf == [s \in Seat |-> FALSE]
Zeros(S) == [x \in S |-> 0]
NoBids == [s \in Seat |-> BidNone]
EmptyTrick == [s \in Seat |-> CardNone]

ClearTable == cardsPlayed' = EmptyTrick /\ cardsPlayCnt' = 0

\* Mutant of StartNewHand: spades stay broken from the last hand.
StartNewHandBroken(n) ==
    /\ state' = "bid"
    /\ dealer' = n % NumPlayers /\ playerToPlay' = n % NumPlayers
    /\ \E d \in Deals : hands' = [s \in Seat |-> {c \in Card : d[c] = s}]
    /\ bids' = NoBids /\ bidCnt' = 0
    /\ ClearTable /\ trickNum' = 0 /\ tricksWon' = Zeros(Seat)
    /\ UNCHANGED trumpsBroken

\* Mutant of StartNewHand: the tricks of the last hand stay counted.
StartNewHandKeepsTricks(n) ==
    /\ state' = "bid"
    /\ dealer' = n % NumPlayers /\ playerToPlay' = n % NumPlayers
    /\ \E d \in Deals : hands' = [s \in Seat |-> {c \in Card : d[c] = s}]
    /\ bids' = NoBids /\ bidCnt' = 0
    /\ ClearTable /\ trickNum' = trickNum /\ tricksWon' = tricksWon
    /\ trumpsBroken' = FALSE

\* startNewHand; who led last is not forgotten, and not read before the play.
StartNewHand(n) ==
    /\ state' = "bid"
    /\ dealer' = n % NumPlayers /\ playerToPlay' = n % NumPlayers
    /\ \E d \in Deals : hands' = [s \in Seat |-> {c \in Card : d[c] = s}]
    /\ bids' = NoBids /\ bidCnt' = 0
    /\ ClearTable /\ trickNum' = 0 /\ tricksWon' = Zeros(Seat)
    /\ trumpsBroken' = FALSE

\* The last of the four to be ready has the first hand dealt.
HandleClientReady(s) ==
    /\ ~ready[s]
    /\ ready' = [ready EXCEPT ![s] = TRUE]
    /\ readyCnt' = readyCnt + 1
    /\ IF readyCnt' = NumPlayers THEN StartNewHand(handNum) /\ UNCHANGED leadPlayer
       ELSE UNCHANGED <<state, hands, bidVars, turnVars, trickVars, trumpsBroken>>
    /\ UNCHANGED <<gameVars, voteVars>>

\* Mutant of HandleBid: the play begins before the last bid.
HandleBidTooEarly(s, bid) ==
    /\ state = "bid"
    /\ s = playerToPlay
    /\ ValidBid(bid)
    /\ bids' = [bids EXCEPT ![s] = bid]
    /\ bidCnt' = bidCnt + 1
    /\ IF bidCnt + 2 = NumPlayers
       THEN state' = "play" /\ leadPlayer' = dealer /\ playerToPlay' = dealer
       ELSE playerToPlay' = (s + 1) % NumPlayers /\ UNCHANGED <<state, leadPlayer>>
    /\ UNCHANGED <<readyVars, gameVars, hands, dealer, trickVars, trumpsBroken, voteVars>>

\* Bids go round the table; the fourth begins the play, which the dealer leads.
HandleBid(s, bid) ==
    /\ state = "bid"
    /\ s = playerToPlay
    /\ ValidBid(bid)
    /\ bids' = [bids EXCEPT ![s] = bid]
    /\ bidCnt' = bidCnt + 1
    /\ IF bidCnt' = NumPlayers
       THEN state' = "play" /\ leadPlayer' = dealer /\ playerToPlay' = dealer
       ELSE playerToPlay' = (s + 1) % NumPlayers /\ UNCHANGED <<state, leadPlayer>>
    /\ UNCHANGED <<readyVars, gameVars, hands, dealer, trickVars, trumpsBroken, voteVars>>

-----------------------------------------------------------------------------
(* The play: handlePlay and, by how far the card takes the hand, what it calls *)

TakeFromHand(s, c) ==
    /\ hands' = [hands EXCEPT ![s] = @ \ {c}]
    /\ trumpsBroken' = (trumpsBroken \/ Suit(c) = SuitSpades)

\* Mutant of PlayOn: the turn does not wrap around.
PlayOnPastLast(s, c) ==
    /\ TakeFromHand(s, c)
    /\ cardsPlayed' = [cardsPlayed EXCEPT ![s] = c]
    /\ cardsPlayCnt' = cardsPlayCnt + 1
    /\ playerToPlay' = s + 1
    /\ UNCHANGED <<state, gameVars, bidVars, leadPlayer, trickNum, tricksWon, voteVars>>

PlayOn(s, c) ==
    /\ TakeFromHand(s, c)
    /\ cardsPlayed' = [cardsPlayed EXCEPT ![s] = c]
    /\ cardsPlayCnt' = cardsPlayCnt + 1
    /\ playerToPlay' = (s + 1) % NumPlayers
    /\ UNCHANGED <<state, gameVars, bidVars, leadPlayer, trickNum, tricksWon, voteVars>>

\* resolveTrick, when the hand goes on: the table is cleared, the winner leads.
ResolveTrick(s, c, winner) ==
    /\ TakeFromHand(s, c)
    /\ ClearTable
    /\ trickNum' = trickNum + 1
    /\ tricksWon' = [tricksWon EXCEPT ![winner] = @ + 1]
    /\ leadPlayer' = winner /\ playerToPlay' = winner
    /\ UNCHANGED <<state, gameVars, bidVars, voteVars>>

GameOver(scores) ==
    \E t \in Teams : scores[t] >= PointsForGame \/ scores[t] <= MinPoints

\* endGame.
EndGame == state' = "end" /\ newGameVotes' = NoneOf /\ newGameCnt' = 0

\* resolveTrick for the last trick, and endHand: the hand is scored, and the next
\* one is dealt in the same handler if the game is not over.
EndHand(s, c, winner) ==
    /\ \E won \in {[tricksWon EXCEPT ![winner] = @ + 1]} :
        /\ teamScores' = [t \in Teams |-> teamScores[t] + HandScore(t, won)]
        /\ bags' = [t \in Teams |-> BagsLeft(t, won)]
        /\ handNum' = (handNum + 1) % NumPlayers
        /\ leadPlayer' = winner
        /\ IF GameOver(teamScores')
           THEN /\ EndGame
                /\ TakeFromHand(s, c)
                /\ ClearTable /\ trickNum' = CardsPerPlayer /\ tricksWon' = won
                /\ playerToPlay' = winner
                /\ UNCHANGED bidVars
           ELSE StartNewHand(handNum') /\ UNCHANGED voteVars

HandlePlay(s, c) ==
    /\ state = "play"
    /\ s = playerToPlay
    /\ c \in hands[s]
    /\ ValidCardToPlay(c, hands[s])
    /\ UNCHANGED readyVars
    /\ \/ cardsPlayCnt + 1 < NumPlayers /\ PlayOn(s, c)
       \/ /\ cardsPlayCnt + 1 = NumPlayers
          /\ \E winner \in {TrickWinner([cardsPlayed EXCEPT ![s] = c], leadPlayer)} :
                IF trickNum + 1 < CardsPerPlayer THEN ResolveTrick(s, c, winner)
                ELSE EndHand(s, c, winner)

\* The fourth vote starts a new game.
HandleNewGame(s) ==
    /\ state = "end"
    /\ ~newGameVotes[s]
    /\ newGameVotes' = [newGameVotes EXCEPT ![s] = TRUE]
    /\ newGameCnt' = newGameCnt + 1
    /\ IF newGameCnt' = NumPlayers
       THEN /\ teamScores' = Zeros(Teams) /\ bags' = Zeros(Teams) /\ handNum' = 0
            /\ StartNewHand(0)
       ELSE UNCHANGED <<state, gameVars, hands, bidVars, playerToPlay, trickVars,
                        trumpsBroken>>
    /\ UNCHANGED <<readyVars, leadPlayer>>

-----------------------------------------------------------------------------
\* newSpadesSession.
Init ==
    /\ ready = NoneOf /\ readyCnt = 0
    /\ state = "none"
    /\ handNum = 0 /\ teamScores = Zeros(Teams) /\ bags = Zeros(Teams)
    /\ hands = [s \in Seat |-> {}]
    /\ bids = NoBids /\ bidCnt = 0
    /\ dealer = 0 /\ leadPlayer = 0 /\ playerToPlay = 0
    /\ cardsPlayed = EmptyTrick /\ cardsPlayCnt = 0
    /\ trickNum = 0 /\ tricksWon = Zeros(Seat)
    /\ trumpsBroken = FALSE
    /\ newGameVotes = NoneOf /\ newGameCnt = 0

Bid(s) == \E bid \in SentBids : HandleBid(s, bid)

Play(s) == \E c \in hands[s] : HandlePlay(s, c)

Next ==
    \E s \in Seat : HandleClientReady(s) \/ Bid(s) \/ Play(s) \/ HandleNewGame(s)

Spec == Init /\ [][Next]_vars

\* Clients that answer: while a bid or a card is awaited, one comes that the
\* server takes, if there is one.  Nothing in the server makes them.
Answer == \E s \in Seat : Bid(s) \/ Play(s)

FairSpec == Spec /\ WF_vars(Answer)

-----------------------------------------------------------------------------
(* Type correctness *)

SessionType ==
    /\ ready \in [Seat -> BOOLEAN] /\ readyCnt \in 0 .. NumPlayers
    /\ newGameVotes \in [Seat -> BOOLEAN] /\ newGameCnt \in 0 .. NumPlayers
    /\ state \in {"none", "bid", "play", "end"}
    /\ handNum \in Seat /\ leadPlayer \in Seat
    /\ teamScores \in [Teams -> Int] /\ bags \in [Teams -> Nat]

BidsAndNone == 0 .. CardsPerPlayer \cup {BidDoubleNil, BidNone}

HandType ==
    /\ dealer \in Seat /\ playerToPlay \in Seat
    /\ hands \in [Seat -> SUBSET Card]
    /\ bids \in [Seat -> BidsAndNone]
    /\ bidCnt \in 0 .. NumPlayers
    /\ cardsPlayed \in [Seat -> Card \cup {CardNone}]
    /\ cardsPlayCnt \in 0 .. NumPlayers - 1
    /\ trickNum \in 0 .. CardsPerPlayer
    /\ tricksWon \in [Seat -> 0 .. CardsPerPlayer]
    /\ trumpsBroken \in BOOLEAN

TypeOK == SessionType /\ HandType

-----------------------------------------------------------------------------
(* Safety *)

Holders(f) == Cardinality({s \in Seat : f[s]})

\* Cards the seat has yet to play in this hand, by the tricks that are left to it.
CardsLeft(s) == CardsPerPlayer - trickNum - (IF cardsPlayed[s] # CardNone THEN 1 ELSE 0)

\* No seat's turn can come without a card the server would take (handlePlay,
\* ValidCardToPlay): every seat has a card for each trick left to it, no card is
\* in two hands, and the rules on leading and following allow one of those of
\* the seat whose turn it is.
NobodyIsStuck ==
    state = "play" =>
        /\ \A s \in Seat : Cardinality(hands[s]) = CardsLeft(s)
        /\ \A s, t \in Seat : s # t => hands[s] \cap hands[t] = {}
        /\ \E c \in hands[playerToPlay] : ValidCardToPlay(c, hands[playerToPlay])

TricksCounted == tricksWon[0] + tricksWon[1] + tricksWon[2] + tricksWon[3]

\* Bids go round once from the dealer, and the play does not begin before all four
\* are there; the cards on the table are those of the leader and the seats after it,
\* as many as have been counted, and each complete trick has been won by one seat
\* (handleBid, handlePlay, resolveTrick, startNewHand).
TurnsInOrder ==
    /\ state \in {"bid", "play"} =>
        \A i \in Seat : bids[(dealer + i) % NumPlayers] # BidNone <=> i < bidCnt
    /\ state = "bid" => playerToPlay = (dealer + bidCnt) % NumPlayers
    /\ state = "play" =>
        /\ bidCnt = NumPlayers
        /\ playerToPlay = (leadPlayer + cardsPlayCnt) % NumPlayers
        /\ \A i \in Seat : cardsPlayed[(leadPlayer + i) % NumPlayers] # CardNone
                           <=> i < cardsPlayCnt
        /\ TricksCounted = trickNum

\* Nobody revokes: who has not followed suit has no card of it left, and cannot
\* come up with one later in the hand (ValidCardToPlay).
NobodyRevokes ==
    state = "play" /\ cardsPlayCnt > 0 =>
        \A s \in Seat :
            cardsPlayed[s] # CardNone /\ Suit(cardsPlayed[s]) # Suit(cardsPlayed[leadPlayer])
                => \A c \in hands[s] : Suit(c) # Suit(cardsPlayed[leadPlayer])

\* Spades are broken as soon as one has left a hand, and not before: neither the
\* last hand nor a card that was refused can break them (handlePlay, startNewHand).
BrokenBySpade ==
    state \in {"bid", "play"} =>
        (trumpsBroken <=> \E c \in Card : Suit(c) = SuitSpades /\ \A s \in Seat : c \notin hands[s])

\* What bids, nils and penalties give or take are multiples of BagLimit and only a
\* bag counts one: the last digit of a score shows the bags, through all the
\* hands of a game (ScoreHand, endHand).
ScoreShowsBags == \A t \in Teams : (teamScores[t] - bags[t]) % BagLimit = 0

-----------------------------------------------------------------------------
(* A Spades session is a game of tricks in turn.  The seat that opens a hand is
   the one that will lead it, so the turn stands still while the bids go round. *)

Stage == CASE state = "none" -> "lobby"
           [] state = "bid"  -> "opening"
           [] state = "play" -> "play"
           [] state = "end"  -> "over"

Agreed == CASE state = "none" -> {s \in Seat : ready[s]}
            [] state = "end"  -> {s \in Seat : newGameVotes[s]}
            [] OTHER -> {}

Turn == IF state = "bid" THEN dealer ELSE playerToPlay

Placed == {s \in Seat : cardsPlayed[s] # CardNone}

Abstract == INSTANCE TrickTaking WITH
    NumTricks <- CardsPerPlayer,
    stage <- Stage, agreed <- Agreed, turn <- Turn, placed <- Placed, tricks <- trickNum

\* The session plays the abstract game, of which every hand ends if the clients
\* answer.
ImplementsTrickTaking == Abstract!Spec
=============================================================================
