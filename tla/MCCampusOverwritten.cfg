CONSTANTS
    Editor = {"first", "second"}
    Writer = {"first", "second"}
    MaxId = 3
    MaxWindows = 1
    MaxBacklog = 0
    Drawings <- TwoPlaces
SPECIFICATION CampusSpec
INVARIANTS
    NoNodeOverwritten
