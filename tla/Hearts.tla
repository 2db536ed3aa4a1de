------------------------------- MODULE Hearts -------------------------------
(***************************************************************************)
(* A Hearts session: the messages of four seats, each handled from start to *)
(* end under the session's lock, so that a handler with all it calls is one *)
(* action.  A message is known by the seat of the player that sent it; what *)
(* a handler ignores (wrong state, wrong turn, a card not in the hand, a    *)
(* repeated Ready or vote) changes nothing and is a stutter.                *)
(*                                                                         *)
(* Hands, passes and won tricks are piles: how many copies of each card the *)
(* code's arrays hold, which look a card up, remove one copy, append one.   *)
(* The messages sent to the clients are not modelled.                       *)
(***************************************************************************)
EXTENDS Integers, FiniteSetsExt, Functions

CONSTANTS
    NumRanks,        \* 13
    CardsPerPlayer,  \* 13
    CardsToPass,     \* 3
    PointsForGame,   \* 100
    CardQS,          \* the queen of spades, 36
    PointsQS,        \* 13
    MoonPoints,      \* 26, the points of a whole deck
    Deals,           \* deals the shuffle may come to: the seat of every card
    Honest,          \* seats whose client passes CardsToPass different cards
    ChecksIn         \* seats whose client sends CheckIn

NumPlayers == 4
Seat == 0 .. NumPlayers - 1
Card == 0 .. 4 * NumRanks - 1
Card2C == 0
CardNone == 127

ASSUME ConstantsAssumption ==
    /\ NumRanks \in 1 .. 31
    /\ CardsPerPlayer \in 1 .. NumRanks
    /\ CardsToPass \in 1 .. CardsPerPlayer
    /\ PointsForGame \in Nat \ {0}
    /\ CardQS \in 2 * NumRanks .. 3 * NumRanks - 1
    /\ PointsQS \in Nat \ {0}
    /\ MoonPoints = PointsQS + NumRanks      \* the queen and the hearts
    /\ Deals \subseteq [Card -> Seat] /\ Deals # {}
    /\ Honest \subseteq Seat
    /\ ChecksIn \subseteq Seat

ASSUME EverySeatIsDealtAHand ==
    \A d \in Deals, s \in Seat :
        Cardinality({c \in Card : d[c] = s}) = CardsPerPlayer

VARIABLES
    ready, readyCnt, checkedIn,
    state,           \* "none", "pass", "play", "end"
    handNum, scores,
    hands,           \* hands[s]: the pile seat s holds
    passDir,
    passCards,       \* passCards[s]: the pile s has passed, until the exchange
    passed, passCnt,
    leadPlayer, playerToPlay,
    cardsPlayed, cardsPlayCnt,
    trickNum,
    pointsBroken,
    trickCards,      \* trickCards[s]: the pile s has won in this hand
    newGameVotes, newGameCnt

readyVars == <<ready, readyCnt, checkedIn>>
gameVars  == <<handNum, scores>>
passVars  == <<passDir, passCards, passed, passCnt>>
turnVars  == <<leadPlayer, playerToPlay>>
trickVars == <<cardsPlayed, cardsPlayCnt, trickNum, trickCards>>
voteVars  == <<newGameVotes, newGameCnt>>
vars == <<readyVars, state, gameVars, hands, passVars, turnVars, trickVars,
          pointsBroken, voteVars>>

-----------------------------------------------------------------------------
(* The rules, package hearts *)

Suit(c) == c \div NumRanks
Rank(c) == c % NumRanks
IsHeart(c) == Suit(c) = 3
IsPointCard(c) == IsHeart(c) \/ c = CardQS
CardPoints(c) == IF c = CardQS THEN PointsQS ELSE IF IsHeart(c) THEN 1 ELSE 0

\* Left, across, right, hold: how many seats further the cards go.
PassDirs == <<1, 2, 3, 0>>
PassHold == 0
PassTarget(from, dir) == (from + dir) % NumPlayers

\* The highest card of the suit that was led wins; of two equal cards (there
\* are none in a proper deck) the one played first.
TrickWinner(played, lead) ==
    LET seatAt(i) == (lead + i) % NumPlayers
        card(i)   == played[seatAt(i)]
        follows   == {i \in Seat : Suit(card(i)) = Suit(played[lead])}
    IN seatAt(CHOOSE i \in follows : \A j \in follows :
                  \/ Rank(card(i)) > Rank(card(j))
                  \/ Rank(card(i)) = Rank(card(j)) /\ i <= j)

Points(pile) == SumFunction([c \in Card |-> pile[c] * CardPoints(c)])

\* Mutant of ScoreHand: whoever shot the moon is charged for it.
ScoreHandNoMoon(piles) == [s \in Seat |-> Points(piles[s])]

\* Points won, unless a seat has them all: then it gets none and the others all.
ScoreHand(piles) ==
    LET moons == {s \in Seat : Points(piles[s]) = MoonPoints}
    IN IF moons = {} THEN [s \in Seat |-> Points(piles[s])]
       ELSE [s \in Seat |-> IF s = Min(moons) THEN 0 ELSE MoonPoints]

-----------------------------------------------------------------------------
(* Dealing and passing *)

NoCards == [s \in Seat |-> [c \in Card |-> 0]]
NoneOf == [s \in Seat |-> FALSE]
EmptyTrick == [s \in Seat |-> CardNone]

DealtHands(d) == [s \in Seat |-> [c \in Card |-> IF d[c] = s THEN 1 ELSE 0]]

\* The lowest seat that holds the two of clubs, or 0.
Find2CHolder(h) ==
    LET holders == {s \in Seat : h[s][Card2C] > 0}
    IN IF holders = {} THEN 0 ELSE Min(holders)

\* beginPlay, once the hands are h.  The trick is empty already.
BeginPlay(h) ==
    /\ state' = "play"
    /\ leadPlayer' = Find2CHolder(h)
    /\ playerToPlay' = leadPlayer'

\* Mutant of StartNewHand: the count of passes is that of the last hand.
StartNewHandKeepsCount(n, leader, next) ==
    \E d \in Deals :
        /\ passDir' = PassDirs[1 + (n % 4)]
        /\ hands' = DealtHands(d)
        /\ passed' = NoneOf /\ passCards' = NoCards /\ passCnt' = passCnt
        /\ trickCards' = NoCards /\ trickNum' = 0
        /\ cardsPlayed' = EmptyTrick /\ cardsPlayCnt' = 0
        /\ pointsBroken' = FALSE
        /\ IF passDir' = PassHold THEN BeginPlay(hands')
           ELSE state' = "pass" /\ leadPlayer' = leader /\ playerToPlay' = next

\* startNewHand for hand number n.  leader and next are who led and whose turn it
\* was: without a hold they stay so until the play begins.
StartNewHand(n, leader, next) ==
    \E d \in Deals :
        /\ passDir' = PassDirs[1 + (n % 4)]
        /\ hands' = DealtHands(d)
        /\ passed' = NoneOf /\ passCards' = NoCards /\ passCnt' = 0
        /\ trickCards' = NoCards /\ trickNum' = 0
        /\ cardsPlayed' = EmptyTrick /\ cardsPlayCnt' = 0
        /\ pointsBroken' = FALSE
        /\ IF passDir' = PassHold THEN BeginPlay(hands')
           ELSE state' = "pass" /\ leadPlayer' = leader /\ playerToPlay' = next

-----------------------------------------------------------------------------
(* Before the game *)

HandleCheckIn(s) ==
    /\ s \in ChecksIn
    /\ checkedIn' = [checkedIn EXCEPT ![s] = TRUE]
    /\ UNCHANGED <<ready, readyCnt, state, gameVars, hands, passVars, turnVars,
                   trickVars, pointsBroken, voteVars>>

\* Mutant of HandleClientReady: a repeated ClientReady counts.
HandleClientReadyTwice(s) ==
    /\ readyCnt < NumPlayers
    /\ ready' = [ready EXCEPT ![s] = TRUE]
    /\ readyCnt' = readyCnt + 1
    /\ IF readyCnt' = NumPlayers THEN StartNewHand(handNum, leadPlayer, playerToPlay)
       ELSE UNCHANGED <<state, hands, passVars, turnVars, trickVars, pointsBroken>>
    /\ UNCHANGED <<checkedIn, gameVars, voteVars>>

\* The last of the four to be ready has the first hand dealt.
HandleClientReady(s) ==
    /\ ~ready[s]
    /\ ready' = [ready EXCEPT ![s] = TRUE]
    /\ readyCnt' = readyCnt + 1
    /\ IF readyCnt' = NumPlayers THEN StartNewHand(handNum, leadPlayer, playerToPlay)
       ELSE UNCHANGED <<state, hands, passVars, turnVars, trickVars, pointsBroken>>
    /\ UNCHANGED <<checkedIn, gameVars, voteVars>>

-----------------------------------------------------------------------------
(* The pass *)

Held(s) == {c \in Card : hands[s][c] > 0}

\* What a client may pass: the handler looks each card up in the hand, and
\* does not look whether one is named twice.
Passes(s) ==
    {[c \in Card |-> IF c \in Held(s) THEN b[c] ELSE 0] : b \in
        {f \in [Held(s) -> 0 .. CardsToPass] :
            /\ SumFunction(f) = CardsToPass
            /\ s \in Honest => \A c \in Held(s) : f[c] <= hands[s][c]}}

\* Mutant of AfterExchange: the cards passed are not removed.
AfterExchangeKeeping(passes) ==
    [s \in Seat |->
        LET from == CHOOSE f \in Seat : PassTarget(f, passDir) = s
        IN [c \in Card |-> hands[s][c] + passes[from][c]]]

Less(m, n) == IF m > n THEN m - n ELSE 0

\* resolvePass takes one card after the other; as the hands dealt have no card
\* in common, the order makes no difference.
AfterExchange(passes) ==
    [s \in Seat |->
        LET from == CHOOSE f \in Seat : PassTarget(f, passDir) = s
        IN [c \in Card |-> Less(hands[s][c], passes[s][c]) + passes[from][c]]]

\* Mutant of HandlePassCards: the exchange is made without the last pass.
HandlePassCardsTooEarly(s, b) ==
    /\ state = "pass"
    /\ ~passed[s]
    /\ passed' = [passed EXCEPT ![s] = TRUE]
    /\ passCnt' = passCnt + 1
    /\ IF passCnt' = NumPlayers
       THEN /\ hands' = AfterExchange(passCards)
            /\ passCards' = NoCards
            /\ BeginPlay(hands')
       ELSE /\ passCards' = [passCards EXCEPT ![s] = b]
            /\ UNCHANGED <<hands, state, turnVars>>
    /\ UNCHANGED <<readyVars, gameVars, passDir, trickVars, pointsBroken, voteVars>>

\* The last pass makes the exchange and begins the play; what was passed is not
\* read again and forgotten.
HandlePassCards(s, b) ==
    /\ state = "pass"
    /\ ~passed[s]
    /\ passed' = [passed EXCEPT ![s] = TRUE]
    /\ passCnt' = passCnt + 1
    /\ LET passes == [passCards EXCEPT ![s] = b]
       IN IF passCnt' = NumPlayers
          THEN /\ hands' = AfterExchange(passes)
               /\ passCards' = NoCards
               /\ BeginPlay(hands')
          ELSE passCards' = passes /\ UNCHANGED <<hands, state, turnVars>>
    /\ UNCHANGED <<readyVars, gameVars, passDir, trickVars, pointsBroken, voteVars>>

-----------------------------------------------------------------------------
(* The play: handlePlayCard and, by how far the card takes the hand, what it   *)
(* calls                                                                      *)

WithTrick(pile, trick) ==
    [c \in Card |-> pile[c] + Cardinality({t \in Seat : trick[t] = c})]

TakeFromHand(s, c) ==
    /\ hands' = [hands EXCEPT ![s][c] = @ - 1]
    /\ pointsBroken' = (pointsBroken \/ IsPointCard(c))

\* Mutant of PlayOn: the turn does not wrap around.
PlayOnPastLast(s, c, trick) ==
    /\ TakeFromHand(s, c)
    /\ cardsPlayed' = trick
    /\ cardsPlayCnt' = cardsPlayCnt + 1
    /\ playerToPlay' = playerToPlay + 1
    /\ UNCHANGED <<readyVars, state, gameVars, passVars, leadPlayer, trickNum,
                   trickCards, voteVars>>

PlayOn(s, c, trick) ==
    /\ TakeFromHand(s, c)
    /\ cardsPlayed' = trick
    /\ cardsPlayCnt' = cardsPlayCnt + 1
    /\ playerToPlay' = (playerToPlay + 1) % NumPlayers
    /\ UNCHANGED <<readyVars, state, gameVars, passVars, leadPlayer, trickNum,
                   trickCards, voteVars>>

\* Mutant of ClearTrick: the turn goes on clockwise, not to the winner.
ClearTrickInTurn(winner, piles) ==
    /\ trickCards' = piles
    /\ trickNum' = trickNum + 1
    /\ leadPlayer' = winner /\ playerToPlay' = (playerToPlay + 1) % NumPlayers
    /\ cardsPlayed' = EmptyTrick /\ cardsPlayCnt' = 0

\* The table is cleared, the winner leads.
ClearTrick(winner, piles) ==
    /\ trickCards' = piles
    /\ trickNum' = trickNum + 1
    /\ leadPlayer' = winner /\ playerToPlay' = winner
    /\ cardsPlayed' = EmptyTrick /\ cardsPlayCnt' = 0

\* resolveTrick, when the hand goes on.
ResolveTrick(s, c, winner, piles) ==
    /\ TakeFromHand(s, c)
    /\ ClearTrick(winner, piles)
    /\ UNCHANGED <<readyVars, state, gameVars, passVars, voteVars>>

\* endGame.
EndGame == state' = "end" /\ newGameVotes' = NoneOf /\ newGameCnt' = 0

GameOver(sc) == \E s \in Seat : sc[s] >= PointsForGame

\* resolveTrick for the last trick, and endHand: the hand is scored, and the
\* next one is dealt in the same handler if the game is not over.
EndHand(s, c, winner, piles) ==
    /\ \E handScores \in {ScoreHand(piles)} :
          scores' = [t \in Seat |-> scores[t] + handScores[t]]
    /\ handNum' = handNum + 1
    /\ IF GameOver(scores')
       THEN /\ EndGame
            /\ TakeFromHand(s, c)
            /\ ClearTrick(winner, piles)
            /\ UNCHANGED passVars
       ELSE /\ StartNewHand(handNum', winner, winner)
            /\ UNCHANGED voteVars
    /\ UNCHANGED readyVars

\* The server asks no more of a card than that the seat has it.
HandlePlayCard(s, c) ==
    /\ state = "play"
    /\ s = playerToPlay
    /\ hands[s][c] > 0
    /\ \E trick \in {[cardsPlayed EXCEPT ![s] = c]} :
        \/ /\ cardsPlayCnt + 1 < NumPlayers
           /\ PlayOn(s, c, trick)
        \/ /\ cardsPlayCnt + 1 = NumPlayers
           /\ \E winner \in {TrickWinner(trick, leadPlayer)} :
              \E piles \in {[trickCards EXCEPT ![winner] = WithTrick(@, trick)]} :
                IF trickNum + 1 < CardsPerPlayer
                THEN ResolveTrick(s, c, winner, piles)
                ELSE EndHand(s, c, winner, piles)

-----------------------------------------------------------------------------
(* After the game *)

\* The fourth vote starts a new game.
HandleNewGame(s) ==
    /\ state = "end"
    /\ ~newGameVotes[s]
    /\ newGameVotes' = [newGameVotes EXCEPT ![s] = TRUE]
    /\ newGameCnt' = newGameCnt + 1
    /\ IF newGameCnt' = NumPlayers
       THEN /\ scores' = [t \in Seat |-> 0]
            /\ handNum' = 0
            /\ StartNewHand(0, leadPlayer, playerToPlay)
       ELSE UNCHANGED <<state, gameVars, hands, passVars, turnVars, trickVars,
                        pointsBroken>>
    /\ UNCHANGED readyVars

-----------------------------------------------------------------------------
\* newHeartsSession.
Init ==
    /\ ready = NoneOf /\ readyCnt = 0 /\ checkedIn = NoneOf
    /\ state = "none"
    /\ handNum = 0 /\ scores = [s \in Seat |-> 0]
    /\ hands = NoCards
    /\ passDir = 0 /\ passCards = NoCards /\ passed = NoneOf /\ passCnt = 0
    /\ leadPlayer = 0 /\ playerToPlay = 0
    /\ cardsPlayed = EmptyTrick /\ cardsPlayCnt = 0 /\ trickNum = 0
    /\ pointsBroken = FALSE
    /\ trickCards = NoCards
    /\ newGameVotes = NoneOf /\ newGameCnt = 0

Pass(s) == state = "pass" /\ ~passed[s] /\ \E b \in Passes(s) : HandlePassCards(s, b)

Play(s) == \E c \in Card : HandlePlayCard(s, c)

Next ==
    \E s \in Seat :
        \/ HandleCheckIn(s) \/ HandleClientReady(s)
        \/ Pass(s) \/ Play(s)
        \/ HandleNewGame(s)

Spec == Init /\ [][Next]_vars

\* Clients that answer: while a pass or a card is awaited, one comes that the
\* server takes.  Nothing in the server makes them.
Answer == \E s \in Seat : Pass(s) \/ Play(s)

FairSpec == Spec /\ WF_vars(Answer)

-----------------------------------------------------------------------------
(* Type correctness *)

SessionType ==
    /\ ready \in [Seat -> BOOLEAN] /\ readyCnt \in 0 .. NumPlayers
    /\ checkedIn \in [Seat -> BOOLEAN]
    /\ newGameVotes \in [Seat -> BOOLEAN] /\ newGameCnt \in 0 .. NumPlayers
    /\ state \in {"none", "pass", "play", "end"}
    /\ handNum \in Nat

HandType ==
    /\ passDir \in 0 .. 3
    /\ passed \in [Seat -> BOOLEAN] /\ passCnt \in 0 .. NumPlayers
    /\ leadPlayer \in Seat /\ playerToPlay \in Seat
    /\ cardsPlayed \in [Seat -> Card \cup {CardNone}]
    /\ cardsPlayCnt \in 0 .. NumPlayers - 1
    /\ trickNum \in 0 .. CardsPerPlayer
    /\ pointsBroken \in BOOLEAN

PileType ==
    /\ hands \in [Seat -> [Card -> Nat]]
    /\ passCards \in [Seat -> [Card -> Nat]]
    /\ trickCards \in [Seat -> [Card -> Nat]]

TypeOK == SessionType /\ HandType /\ PileType /\ scores \in [Seat -> Nat]

-----------------------------------------------------------------------------
(* Safety *)

CopiesAt(c, s) ==
    hands[s][c] + trickCards[s][c] + (IF cardsPlayed[s] = c THEN 1 ELSE 0)

Copies(c) == CopiesAt(c, 0) + CopiesAt(c, 1) + CopiesAt(c, 2) + CopiesAt(c, 3)

\* From the deal to the end of the hand every card is in one place, a hand, the
\* table or a pile, and no card is in two or lost (NewDeck, resolvePass,
\* handlePlayCard, resolveTrick).  True of clients that pass different cards.
CardsConserved == state # "none" => \A c \in Card : Copies(c) = 1

\* The sizes of hands, whatever the clients pass.  Every seat has a card for each
\* trick left to it, so that nobody's turn can come with an empty hand: nobody else
\* may play then.  And a hand never grows beyond the cards dealt and all but one of
\* those passed to it: Add puts a card into an array of fixed length without a
\* check, and who names one card several times gives up one and gets as many as are
\* passed.
HandSizes ==
    /\ state = "play" =>
           \A s \in Seat :
               SumFunction(hands[s]) + trickNum
                   + (IF cardsPlayed[s] # CardNone THEN 1 ELSE 0) >= CardsPerPlayer
    /\ \A s \in Seat : SumFunction(hands[s]) < CardsPerPlayer + CardsToPass

\* The cards on the table are those of the leader and the seats after it, as
\* many as have been counted, and it is the turn of the next one clockwise; so a
\* trick is resolved when each seat has played to it once.
TrickInTurn ==
    state = "play" =>
        /\ playerToPlay = (leadPlayer + cardsPlayCnt) % NumPlayers
        /\ \A i \in Seat : cardsPlayed[(leadPlayer + i) % NumPlayers] # CardNone
                           <=> i < cardsPlayCnt

Holders(f) == Cardinality({s \in Seat : f[s]})

\* The counters that start a hand, an exchange and a new game count the seats
\* that have answered, and reach four in the step that acts on it: none is
\* stale, counts a seat twice or is passed over while everybody waits.
CountersExact ==
    /\ readyCnt = Holders(ready) /\ (state = "none" <=> readyCnt < NumPlayers)
    /\ passCnt = Holders(passed) /\ (state = "pass" => passCnt < NumPlayers)
    /\ newGameCnt = Holders(newGameVotes)
    /\ (state = "end" => newGameCnt < NumPlayers)

\* Scores change at the end of a hand, when all the points of the deck are given
\* out, or one seat is spared and each of the others charged with all of them; and
\* they are forgotten when a new game starts.
HandScored ==
    [][LET gain == [s \in Seat |-> scores'[s] - scores[s]]
       IN scores' # scores =>
            \/ /\ handNum' = handNum + 1
               /\ trickNum = CardsPerPlayer - 1
               /\ \/ /\ \A s \in Seat : gain[s] \in 0 .. MoonPoints - 1
                     /\ SumFunction(gain) = MoonPoints
                  \/ \E m \in Seat : \A s \in Seat :
                        gain[s] = IF s = m THEN 0 ELSE MoonPoints
            \/ state = "end" /\ state' # "end" /\ scores' = [s \in Seat |-> 0]]_vars

-----------------------------------------------------------------------------
(* Liveness *)

\* With clients that answer, a game that has started comes to its end: no hand
\* gets stuck, and hands do not go on for ever.
GameEnds == state \in {"pass", "play"} ~> state = "end"

-----------------------------------------------------------------------------
(* A Hearts session is a game of tricks in turn *)

Stage == CASE state = "none" -> "lobby"
           [] state = "pass" -> "opening"
           [] state = "play" -> "play"
           [] state = "end"  -> "over"

Agreed == CASE state = "none" -> {s \in Seat : ready[s]}
            [] state = "end"  -> {s \in Seat : newGameVotes[s]}
            [] OTHER -> {}

Placed == {s \in Seat : cardsPlayed[s] # CardNone}

Abstract == INSTANCE TrickTaking WITH
    NumTricks <- CardsPerPlayer,
    stage <- Stage, agreed <- Agreed, turn <- playerToPlay, placed <- Placed,
    tricks <- trickNum

\* The session plays the abstract game, of which every hand ends if the clients
\* answer.
ImplementsTrickTaking == Abstract!Spec
=============================================================================
