\* findPath(to:) returns, so the search really stops.
CONSTANTS
    Parts = {"path"}
    Node <- SixPlaces
    Point <- SixPlaces
    Graphs <- Campus
    n1 = n1
    n2 = n2
    n3 = n3
    n4 = n4
    Place <- MCPlace
    NameCount = 3
    Matchings <- MCMatchings
    Distance <- MCDistance
    Nowhere <- Middle
    Far = 1000
    MaxLength = 8
    MaxHalves = 1
    Arrays <- MCArrays
    NoStep = NoStep
SPECIFICATION PlacesSpec
INVARIANTS
    PathIsOptimal
CHECK_DEADLOCK FALSE
