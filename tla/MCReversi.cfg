SPECIFICATION Spec
CONSTANTS
    Rows = 4
    Cols = 3
    EndFlags <- SentFlags
CONSTRAINT
    InStep
INVARIANTS
    TypeOK
    NobodyIsStuck
    ResultByCount
PROPERTIES
    OneMoveAtATime
