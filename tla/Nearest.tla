------------------------------ MODULE Nearest ------------------------------
(***************************************************************************)
(* What DataManager's two searches for a nearest place may return.  Both   *)
(* run over collections whose order follows a dictionary, so which of      *)
(* several places at the same distance is returned is left open.           *)
(***************************************************************************)
EXTENDS Naturals

CONSTANTS
    Point,     \* all coordinates: places of the graph and positions of the user
    Distance,  \* Distance[p][q]: cost(to:) and estimatedCost(to:), in degrees
    Far,       \* 99999.9 and infinity: more than any distance in degrees
    Nowhere    \* latitude and longitude 0, which both classes use for "none yet"

ASSUME DistanceAssumption == Distance \in [Point -> [Point -> Nat]]

ASSUME NowhereAssumption == Nowhere \in Point

Cost(p, q) == Distance[p][q]

ASSUME FarAssumption ==
    /\ Far \in Nat
    /\ \A p, q \in Point : Cost(p, q) < Far

\* The members of S that no other is nearer to p than.
NearestIn(S, p) == {x \in S : \A y \in S : Cost(p, x) <= Cost(p, y)}

\* A route may start at a place that is not farther from the destination than
\* the user is, the destination itself excepted.
Candidates(nodes, current, destination) ==
    {x \in nodes \ {destination} : Cost(x, destination) <= Cost(current, destination)}

\* findClosest(current:destination:): the user's own position if there is none.
ClosestNodes(nodes, current, destination) ==
    LET candidates == Candidates(nodes, current, destination)
    IN  IF candidates = {} THEN {current} ELSE NearestIn(candidates, current)

\* findClosestEntrance(current:buildingEntrances:)
ClosestEntrances(entrances, current) ==
    IF entrances = {} THEN {Nowhere} ELSE NearestIn(entrances, current)

=============================================================================
