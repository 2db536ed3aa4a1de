SPECIFICATION Spec
CONSTANTS
    Die <- TwoSides
    MaxQueue = 4
CHECK_DEADLOCK FALSE
INVARIANTS
    TypeOK
    CheckInsComplete
    ClientsAgree
