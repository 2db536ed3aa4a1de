SPECIFICATION FairSpec
CONSTANTS
    Rows = 5
    Cols = 3
    PawnRows = 2
    EndFlags <- GivesUp
CONSTRAINT
    InStep
INVARIANTS
    TypeOK
    NobodyIsStuck
PROPERTIES
    OneMoveAtATime
    LateResetLosesOneTurn
    VotedGameStarts
