CONSTANTS
    Editor = {"editor"}
    Writer = {"editor"}
    MaxId = 2
    MaxWindows = 2
    MaxBacklog = 2
    Drawings <- MCDrawings
SPECIFICATION CampusSpec
INVARIANTS
    NoDanglingEdge
    IndexCoversNodes
    NoNodeOverwritten
PROPERTIES
    PairsStayPaired
    DeletionNeverTraps
CHECK_DEADLOCK FALSE
