---------------------------- MODULE ClosestNode ----------------------------
(***************************************************************************)
(* The loops of DataManager.findClosest and findClosestEntrance, one       *)
(* action per branch.  The order in which places are visited is that of a  *)
(* dictionary: any place left may be next.                                 *)
(***************************************************************************)
EXTENDS Nearest

VARIABLES
    call,         \* which of the two runs: "findClosest" or "findClosestEntrance"
    nodes,        \* navLocations, or the entrances of a building
    current,      \* the user's position
    destination,  \* of no effect on findClosestEntrance
    left,         \* places the loop has not come to yet
    closest,
    distance

closestVars == <<call, nodes, current, destination, left, closest, distance>>

arguments == <<call, nodes, current, destination>>

ClosestInit ==
    /\ call \in {"findClosest", "findClosestEntrance"}
    /\ nodes \in SUBSET Point
    /\ current \in Point
    /\ destination \in Point
    /\ left = nodes
    /\ closest = IF call = "findClosest" THEN current ELSE Nowhere
    /\ distance = Far

closestReturned == left = {}

Visit(x) == x \in left /\ left' = left \ {x}

Keep == UNCHANGED <<closest, distance>>

Take(x) == closest' = x /\ distance' = Cost(current, x)

\* Mutant: a place as far from the destination as the user is left out.
TooFarOrAsFar(x) ==
    x = destination \/ Cost(x, destination) >= Cost(current, destination)

\* The two continue statements of findClosest.
TooFar(x) ==
    x = destination \/ Cost(x, destination) > Cost(current, destination)

SkipNode(x) ==
    /\ call = "findClosest"
    /\ Visit(x)
    /\ TooFar(x) \/ Cost(current, x) >= distance
    /\ Keep
    /\ UNCHANGED arguments

TakeNode(x) ==
    /\ call = "findClosest"
    /\ Visit(x)
    /\ ~TooFar(x)
    /\ Cost(current, x) < distance
    /\ Take(x)
    /\ UNCHANGED arguments

SkipEntrance(x) ==
    /\ call = "findClosestEntrance"
    /\ Visit(x)
    /\ Cost(current, x) > distance
    /\ Keep
    /\ UNCHANGED arguments

\* Of entrances that are equally near the last one is taken.
TakeEntrance(x) ==
    /\ call = "findClosestEntrance"
    /\ Visit(x)
    /\ Cost(current, x) <= distance
    /\ Take(x)
    /\ UNCHANGED arguments

ClosestNext == \E x \in Point : SkipNode(x) \/ TakeNode(x) \/ SkipEntrance(x) \/ TakeEntrance(x)

ClosestSpec == ClosestInit /\ [][ClosestNext]_closestVars

-----------------------------------------------------------------------------

\* What has been found is one of the places searched or the value it began with.
ClosestTypeOK ==
    /\ call \in {"findClosest", "findClosestEntrance"}
    /\ nodes \in SUBSET Point
    /\ current \in Point
    /\ destination \in Point
    /\ left \in SUBSET nodes
    /\ closest \in nodes \cup {IF call = "findClosest" THEN current ELSE Nowhere}
    /\ distance \in 0..Far

\* Whatever the order of the dictionary and however the two tests interplay,
\* where a route may start anywhere findClosest returns a nearest one of those
\* places, a place of the graph.  Places farther from the destination than the
\* user are passed over, of which the comment (DataManager.swift:131, "the closest
\* node ... that is in the graph") says nothing; and when all of them are, the
\* code returns the position it was given, a place in no graph, against that
\* comment.  This case is left out here.
ReturnsClosestNode ==
    /\ closestReturned
    /\ call = "findClosest"
    /\ Candidates(nodes, current, destination) # {}
    => closest \in nodes \cap NearestIn(Candidates(nodes, current, destination), current)

\* findClosestEntrance returns a nearest entrance, whatever their order.
ReturnsClosestEntrance ==
    closestReturned /\ call = "findClosestEntrance" =>
        closest \in ClosestEntrances(nodes, current)

\* Of what the loop has visited, closest is what the search is to return: why
\* it is right when nothing is left.
BestSoFar ==
    LET visited == nodes \ left
        found == IF call = "findClosest"
                 THEN Candidates(visited, current, destination)
                 ELSE visited
    IN  IF found = {}
        THEN /\ closest = IF call = "findClosest" THEN current ELSE Nowhere
             /\ distance = Far
        ELSE /\ closest \in NearestIn(found, current)
             /\ distance = Cost(current, closest)

\* Both searches return a nearest of the places a route or a visit may begin at.
ReturnsClosest == ReturnsClosestNode /\ ReturnsClosestEntrance

=============================================================================
