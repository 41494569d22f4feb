\* An unlocated user who selects a building stops the app.
CONSTANTS
    Node <- MCNode
    Point <- MCPoint
    Distance <- MCDistance
    Far = 1000
    Nowhere <- MCNowhere
    Graphs <- MCGraphs
    Building <- MCBuilding
    Entrances <- MCEntrances
    Near <- MCNear
    NoLocation = NoLocation
SPECIFICATION FairSpec
INVARIANTS
    NoTrapWhenLocated
    PathLeadsToDestination
    ArrowAimsAtNextPlace
PROPERTIES
    ArrivesNearDestination
    ArrowEventuallyHidden
    KeepsPromise
CHECK_DEADLOCK FALSE
