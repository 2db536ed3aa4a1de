SPECIFICATION Spec
CONSTANTS
    Rows = 5
    Cols = 3
    PawnRows = 2
    EndFlags <- GivesUp
CONSTRAINT
    InStep
PROPERTIES
    StalemateScored
