---------------------------- MODULE MCPathSearch ----------------------------
(***************************************************************************)
(* The functions of the app's model, side by side: part tells which of     *)
(* them runs, and the state of the others stays as it is.                  *)
(*   - path: searches for a route among places in the plane whose          *)
(*     distances are all whole numbers;                                    *)
(*   - buildings: four places and three names, every way of carrying them; *)
(*   - closest: the same places in the plane, some of them as far from a   *)
(*     third;                                                              *)
(*   - bisection: every array of up to MaxLength values of a predicate.    *)
(***************************************************************************)
EXTENDS PathSearch, Buildings, ClosestNode, BinarySearch

CONSTANTS Parts, n1, n2, n3, n4, MaxLength, MaxHalves

VARIABLE part

Abs(x) == IF x < 0 THEN -x ELSE x

\* Places on a line, one of them at latitude and longitude 0, and one off it:
\* 12-16-20, 5-12-13, 9-12-15.
West == <<-14, 0>>
East == <<4, 0>>
North == <<-5, 12>>
FarWest == <<-21, 0>>
Middle == <<0, 0>>
FarEast == <<11, 0>>

FourPlaces == {FarWest, West, North, Middle}
FivePlaces == FourPlaces \cup {East}
SixPlaces == FivePlaces \cup {FarEast}

MCDistance ==
    [p \in Point |-> [q \in Point |->
        LET dx == Abs(p[1] - q[1])
            dy == Abs(p[2] - q[2])
        IN  CHOOSE d \in 0..(dx + dy) : d * d = dx * dx + dy * dy]]

Loops == {{n} : n \in Node}
Edges == {{m, n} : m \in Node, n \in Node} \ Loops

GraphOf(E) == [n \in Node |-> {m \in Node : {m, n} \in E}]

\* Graphs whose edges run both ways, as the map editor writes them, with at most
\* as many edges as places.
Undirected == {GraphOf(E) : E \in {D \in SUBSET Edges : Cardinality(D) <= Cardinality(Node)}}

\* Among four of the places, and with a loop, which the map editor lets through,
\* at one of them.
UndirectedWithLoop ==
    {GraphOf(E \cup {{FarWest}}) : E \in SUBSET {e \in Edges : e \subseteq FourPlaces}}

\* Edges among four of the places, some of which run one way, as are left behind
\* when half of a two-way edge is written: at most MaxHalves of them.
HalvesMissing ==
    {[n \in Node |-> {m \in FourPlaces : {m, n} \in E /\ <<n, m>> \notin missing}] :
        E \in {D \in SUBSET Edges : D \subseteq SUBSET FourPlaces},
        missing \in {H \in SUBSET (FourPlaces \X FourPlaces) : Cardinality(H) <= MaxHalves}}

MCGraphs == Undirected \cup UndirectedWithLoop \cup HalvesMissing

\* A graph on which the way found is not the shortest.
Campus == {GraphOf({{FarWest, North}, {FarWest, Middle}, {North, East},
                    {North, FarEast}, {Middle, East}, {East, FarEast},
                    {FarEast, West}})}

-----------------------------------------------------------------------------
MCPlace == {n1, n2, n3, n4}

\* Every way of carrying names, up to an exchange of places.
Code(names) == SumSet({2^k : k \in names})
MCMatchings ==
    {f \in [Place -> SUBSET Name] : Code(f[n1]) <= Code(f[n2]) /\ Code(f[n2]) <= Code(f[n3]) /\ Code(f[n3]) <= Code(f[n4])}

MCArrays == UNION {[1..n -> BOOLEAN] : n \in 0..MaxLength}

placesVars == <<part, vars, buildingsVars, closestVars, bisectionVars>>

NoSearch ==
    /\ connectedNodes = [n \in Point |-> {}] /\ start = Middle /\ goalNode = Middle /\ possibleSteps = <<>>
    /\ eliminatedNodes = {} /\ step = NoStep /\ toVisit = {} /\ path = <<>> /\ phase = "none"
NoBuildings ==
    /\ matches = [n \in Place |-> {}]
    /\ connectors = {}
    /\ unlisted = Place
    /\ buildings = [k \in Name |-> {}]
NoClosest ==
    /\ call = "none"
    /\ nodes = {} /\ current = Middle /\ destination = Middle /\ left = {} /\ closest = Middle /\ distance = 0
NoBisection == holds = <<>> /\ low = 0 /\ high = 0

PlacesInit ==
    /\ part \in Parts
    /\ IF part = "path" THEN Init ELSE NoSearch
    /\ IF part = "buildings" THEN BuildingsInit ELSE NoBuildings
    /\ IF part = "closest" THEN ClosestInit ELSE NoClosest
    /\ IF part = "bisection" THEN BisectionInit ELSE NoBisection

PlacesNext ==
    /\ \/ part = "path" /\ Next /\ UNCHANGED <<buildingsVars, closestVars, bisectionVars>>
       \/ part = "buildings" /\ BuildingsNext /\ UNCHANGED <<vars, closestVars, bisectionVars>>
       \/ part = "closest" /\ ClosestNext /\ UNCHANGED <<vars, buildingsVars, bisectionVars>>
       \/ part = "bisection" /\ BisectionNext /\ UNCHANGED <<vars, buildingsVars, closestVars>>
    /\ UNCHANGED part

\* A function that was called runs on until it returns.
PlacesSpec == PlacesInit /\ [][PlacesNext]_placesVars /\ WF_placesVars(PlacesNext)

-----------------------------------------------------------------------------
\* Every call returns: the bisection leaves no interval as it is, and a route
\* search comes to an end although its look for duplicates finds only some of
\* them, so that a place may be taken from the queue several times.
FunctionsReturn ==
    <>(\/ part = "path" /\ phase = "returned"
       \/ part = "buildings" /\ buildingsReturned
       \/ part = "closest" /\ closestReturned
       \/ part = "bisection" /\ bisectionReturned)

=============================================================================
