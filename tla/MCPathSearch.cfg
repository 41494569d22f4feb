\* The functions return, so they really stop.
CONSTANTS
    Parts = {"path", "buildings", "closest", "bisection"}
    Node <- FivePlaces
    Point <- FivePlaces
    Graphs <- MCGraphs
    n1 = n1
    n2 = n2
    n3 = n3
    n4 = n4
    Place <- MCPlace
    NameCount = 3
    Matchings <- MCMatchings
    Distance <- MCDistance
    Nowhere <- Middle
    Far = 1000
    MaxLength = 8
    MaxHalves = 1
    Arrays <- MCArrays
    NoStep = NoStep
SPECIFICATION PlacesSpec
INVARIANTS
    ReturnedPathIsWalk
    NoNodeTwice
    FindsGoal
    ListedUnderFirstName
    FewPlacesLost
    ReturnsClosest
    ReturnsPartitionIndex
PROPERTIES
    PopsInCostOrder
    FunctionsReturn
CHECK_DEADLOCK FALSE
