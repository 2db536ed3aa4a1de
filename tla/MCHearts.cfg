SPECIFICATION Spec
CONSTANTS
    NumRanks = 2
    CardsPerPlayer = 2
    CardsToPass = 2
    PointsForGame = 5
    CardQS = 5
    PointsQS = 2
    MoonPoints = 4
    Deals <- TwoDeals
    Honest = {0, 1, 2}
    ChecksIn = {}
INVARIANTS
    TypeOK
    HandSizes
    TrickInTurn
    CountersExact
