SPECIFICATION FairSpec
CONSTANTS
    NumRanks = 2
    CardsPerPlayer = 2
    CardsToPass = 1
    PointsForGame = 4
    CardQS = 5
    PointsQS = 2
    MoonPoints = 4
    Deals <- OneDeal
    Honest = {0, 1, 2, 3}
    ChecksIn = {0}
INVARIANTS
    CardsConserved
PROPERTIES
    HandScored
    GameEnds
    ImplementsTrickTaking
