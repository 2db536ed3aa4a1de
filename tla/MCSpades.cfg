SPECIFICATION FairSpec
CONSTANTS
    NumRanks = 2
    CardsPerPlayer = 2
    PointsForGame = 4
    MinPoints <- MinusThree
    BidPoints = 2
    BagLimit = 2
    BagPenalty = 4
    NilPoints = 2
    Deals <- OneDeal
    SentBids = {0, 1, 9, 128}
INVARIANTS
    TypeOK
    NobodyIsStuck
    TurnsInOrder
    NobodyRevokes
    BrokenBySpade
    ScoreShowsBags
PROPERTIES
    ImplementsTrickTaking
