SPECIFICATION FairSpec
CONSTANTS
    Player = {p1, p2, p3}
    p1 = p1
    p2 = p2
    p3 = p3
    Checkers = checkers
    Hearts = hearts
    Game = {checkers}
    SeatsOf <- MCSeatsOf
    Asks <- AllCheckers
    NumTables = 1
    MaxSeats = 3
    NoPlayer = noPlayer
    NoGame = noGame
    MaxRequests = 1
    Polite = {p1, p2, p3}
PROPERTIES
    ImplementsMatchmaking
    FullTableStarts
    ClosedIsCleanedUp
