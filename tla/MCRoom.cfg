SPECIFICATION Spec
CONSTANTS
    Player = {p1, p2, p3}
    p1 = p1
    p2 = p2
    p3 = p3
    Checkers = checkers
    Hearts = hearts
    Game = {checkers, hearts}
    SeatsOf <- MCSeatsOf
    Asks <- MCAsks
    NumTables = 2
    MaxSeats = 3
    NoPlayer = noPlayer
    NoGame = noGame
    MaxRequests = 2
    Polite = {p1, p2}
SYMMETRY Symmetry
INVARIANTS
    TypeOK
    TableCoherent
    StarterStays
    BestStillHasRoom
    SeatedSessionLives
    GameIDsUnique
    OneSeatEach
    NoGhostSeat
PROPERTIES
    OnlyOwnerVacates
