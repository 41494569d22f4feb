----------------------------- MODULE Navigation -----------------------------
(***************************************************************************)
(* ARViewController and the navigation menu: from the choice of a building *)
(* to the arrival.  All of it runs on the main thread, so each callback is *)
(* one action, but location updates, heading updates, the end of loading   *)
(* and the user's taps come in any order.                                  *)
(*                                                                         *)
(* The route search enters with what is proved of it in PathSearchProofs,  *)
(* the searches for nearest places with what is proved in                  *)
(* PlacesProofs.                                                           *)
(***************************************************************************)
EXTENDS Nearest, SequencesExt

CONSTANTS
    Node,        \* the places of navLocations, told apart by their coordinates
    Graphs,      \* the graphs that may be loaded, as functions to connectedNodes
    Building,
    Entrances,   \* the nodes of each building
    Near,        \* Near[p]: the points less than 8.0 metres away from p
    NoLocation   \* location is nil

ASSUME NodeAssumption == Node \subseteq Point \ {Nowhere} /\ IsFiniteSet(Node)

ASSUME GraphsAssumption == Graphs \subseteq [Node -> SUBSET Node]

ASSUME EntrancesAssumption == Entrances \in [Building -> (SUBSET Node) \ {{}}]

ASSUME NearAssumption ==
    /\ Near \in [Point -> SUBSET Point]
    /\ \A p \in Point : p \in Near[p]

ASSUME NoLocationAssumption == NoLocation \notin Point

VARIABLES
    loaded,           \* the graph and the buildings have been fetched
    connectedNodes,   \* the graph, once loaded
    menuOpen,
    menuRows,         \* rows of the menu that opens next or is open:
                      \* "unloaded" before its first appearance, "none" or "all"
    selectedNavLoc,   \* of that menu
    location,         \* locationManager.location
    headingKnown,     \* locationManager.heading is not nil
    path,
    pathFinding,
    destination,
    title,            \* "app", "destination" (the name of it) or "Arrived"
    arrowShown,
    aim,              \* the points the arrow was last turned by: from, to
    labelShown,       \* destinationView is not hidden
    labelTo,          \* the point the distance on the label is measured to
    crashed           \* a forced unwrap of nil has stopped the app

graphVars == <<loaded, connectedNodes>>
menuVars == <<menuOpen, menuRows, selectedNavLoc>>
routeVars == <<path, pathFinding, destination, title>>
arrowVars == <<arrowShown, aim>>
labelVars == <<labelShown, labelTo>>

vars == <<graphVars, menuVars, location, headingKnown, routeVars, arrowVars,
          labelVars, crashed>>

\* Where the user may be.
Position == Point \ {Nowhere}

Init ==
    /\ loaded = FALSE
    /\ connectedNodes = [n \in Node |-> {}]
    /\ menuOpen = FALSE
    /\ menuRows = "unloaded"
    /\ selectedNavLoc = Nowhere
    /\ location \in Position \cup {NoLocation}
    /\ headingKnown = FALSE
    /\ path = <<>>
    /\ pathFinding = FALSE
    /\ destination = Nowhere
    /\ title = "app"
    /\ arrowShown = FALSE
    /\ aim = <<Nowhere, Nowhere>>
    /\ labelShown = FALSE
    /\ labelTo = Nowhere
    /\ crashed = FALSE

-----------------------------------------------------------------------------
\* Consecutive nodes of w are connected, in the direction of travel.
IsWalk(w) == \A j \in 1..(Len(w) - 1) : w[j] \in Node /\ w[j + 1] \in connectedNodes[w[j]]

\* The walks from s to d that pass no place twice, except that a search may go
\* once round a connection of its start to itself.
Ways(s, d) ==
    {w \in SeqOf(Node, Cardinality(Node) + 1) :
        /\ w # <<>> /\ w[1] = s /\ w[Len(w)] = d
        /\ IsWalk(w)
        /\ \A j, k \in DOMAIN w : w[j] = w[k] => j = k \/ {j, k} = {1, 2}}

\* s.findPath(to: d): a way if there is one, else s alone.
Routes(s, d) == LET ways == Ways(s, d) IN IF ways = {} THEN {<<s>>} ELSE ways

\* Mutant: the arrow is only shown or hidden here, not turned.
UpdateArrowWithoutTurn ==
    /\ arrowShown' = pathFinding'
    /\ aim' = IF pathFinding' /\ headingKnown' /\ ~arrowShown
              THEN <<location', path'[1]>> ELSE aim

\* Mutant: the arrow is shown, and never hidden.
UpdateArrowNeverHidden ==
    /\ arrowShown' = (arrowShown \/ pathFinding')
    /\ aim' = IF pathFinding' /\ headingKnown'
              THEN <<location', path'[1]>> ELSE aim

\* updateArrow(), which is called when the rest of the state has been assigned.
UpdateArrow ==
    /\ arrowShown' = pathFinding'
    /\ aim' = IF pathFinding' /\ headingKnown'
              THEN <<location', path'[1]>> ELSE aim

\* updateDistanceLabel(fromLocation:)
UpdateDistanceLabel ==
    /\ labelShown' = TRUE
    /\ labelTo' = path'[Len(path')]

-----------------------------------------------------------------------------
\* The innermost completion handler of viewDidLoad.
DataLoaded ==
    /\ ~crashed
    /\ ~loaded
    /\ loaded' = TRUE
    /\ connectedNodes' \in Graphs
    /\ UNCHANGED <<menuVars, location, headingKnown, routeVars, arrowVars,
                   labelVars, crashed>>

\* The rows a menu asks for when it first appears; it does not ask again.
RowsAtFirstSight == IF loaded THEN "all" ELSE "none"

\* menuButtonTapped: the segue makes a new menu.
OpenMenuByButton ==
    /\ ~crashed
    /\ ~menuOpen
    /\ menuOpen' = TRUE
    /\ menuRows' = RowsAtFirstSight
    /\ selectedNavLoc' = Nowhere
    /\ UNCHANGED <<graphVars, location, headingKnown, routeVars, arrowVars,
                   labelVars, crashed>>

\* A swipe from the edge of the screen shows the last menu again.
OpenMenuBySwipe ==
    /\ ~crashed
    /\ ~menuOpen
    /\ menuOpen' = TRUE
    /\ menuRows' = IF menuRows = "unloaded" THEN RowsAtFirstSight ELSE menuRows
    /\ UNCHANGED <<selectedNavLoc, graphVars, location, headingKnown, routeVars,
                   arrowVars, labelVars, crashed>>

CloseMenu ==
    /\ ~crashed
    /\ menuOpen
    /\ menuOpen' = FALSE
    /\ UNCHANGED <<menuRows, selectedNavLoc, graphVars, location, headingKnown,
                   routeVars, arrowVars, labelVars, crashed>>

\* didSelectRowAt up to its call of performSegue: the menu's location manager,
\* which is never started, may have no location when the other has one.
SelectEntrance(b) ==
    /\ ~crashed
    /\ menuOpen
    /\ menuRows = "all"
    /\ menuOpen' = FALSE
    /\ \/ UNCHANGED selectedNavLoc
       \/ /\ location # NoLocation
          /\ selectedNavLoc' \in ClosestEntrances(Entrances[b], location)
    /\ UNCHANGED menuRows

\* graph.findClosest(current: ..., destination: destination)
Starts(goal) == ClosestNodes(Node, location, goal)

\* The unwind segue that ends didSelectRowAt: a route to selectedNavLoc.
SelectRow(b) ==
    /\ SelectEntrance(b)
    /\ location # NoLocation
    /\ destination' = selectedNavLoc'
    /\ title' = "destination"
    /\ \E s \in Starts(selectedNavLoc') : path' \in Routes(s, selectedNavLoc')
    /\ pathFinding' = TRUE
    /\ UNCHANGED <<graphVars, location, headingKnown, labelVars, crashed>>
    /\ UpdateArrow

\* (locationManager.location?.coordinate)! with no location.
SelectRowUnlocated(b) ==
    /\ SelectEntrance(b)
    /\ location = NoLocation
    /\ destination' = selectedNavLoc'
    /\ title' = "destination"
    /\ crashed' = TRUE
    /\ UNCHANGED <<graphVars, location, headingKnown, path, pathFinding,
                   arrowVars, labelVars>>

-----------------------------------------------------------------------------
\* didUpdateLocations while there is no route.
Wander(p) ==
    /\ ~crashed
    /\ ~pathFinding
    /\ location' = p
    /\ UNCHANGED <<graphVars, menuVars, headingKnown, routeVars, arrowVars,
                   labelVars, crashed>>

\* followPath(fromLocation: p), the next place still ahead.
Approach(p) ==
    /\ ~crashed
    /\ pathFinding
    /\ p \notin Near[path[1]]
    /\ location' = p
    /\ UNCHANGED <<graphVars, menuVars, headingKnown, routeVars, crashed>>
    /\ UpdateArrow
    /\ UpdateDistanceLabel

\* Mutant: the last place is taken from path instead of the first.
PassPlaceAtEnd(p) ==
    /\ ~crashed
    /\ pathFinding
    /\ p \in Near[path[1]]
    /\ Len(path) > 1
    /\ location' = p
    /\ path' = Front(path)
    /\ UNCHANGED <<graphVars, menuVars, headingKnown, pathFinding, destination,
                   title, crashed>>
    /\ UpdateArrow
    /\ UpdateDistanceLabel

\* The user is close to the next place, which is not the last.
PassPlace(p) ==
    /\ ~crashed
    /\ pathFinding
    /\ p \in Near[path[1]]
    /\ Len(path) > 1
    /\ location' = p
    /\ path' = Tail(path)
    /\ UNCHANGED <<graphVars, menuVars, headingKnown, pathFinding, destination,
                   title, crashed>>
    /\ UpdateArrow
    /\ UpdateDistanceLabel

\* Mutant: arrival leaves pathFinding set.
ArriveStillFinding(p) ==
    /\ ~crashed
    /\ pathFinding
    /\ p \in Near[path[1]]
    /\ Len(path) = 1
    /\ location' = p
    /\ path' = <<>>
    /\ title' = "Arrived"
    /\ labelShown' = FALSE
    /\ UNCHANGED <<graphVars, menuVars, headingKnown, pathFinding, destination,
                   arrowVars, labelTo, crashed>>

\* Mutant: any place of path ends the journey.
ArriveAnywhere(p) ==
    /\ ~crashed
    /\ pathFinding
    /\ p \in Near[path[1]]
    /\ location' = p
    /\ path' = <<>>
    /\ pathFinding' = FALSE
    /\ title' = "Arrived"
    /\ labelShown' = FALSE
    /\ UNCHANGED <<graphVars, menuVars, headingKnown, destination, arrowVars,
                   labelTo, crashed>>

\* ... or is the last.  The arrow is left as it is.
Arrive(p) ==
    /\ ~crashed
    /\ pathFinding
    /\ p \in Near[path[1]]
    /\ Len(path) = 1
    /\ location' = p
    /\ path' = <<>>
    /\ pathFinding' = FALSE
    /\ title' = "Arrived"
    /\ labelShown' = FALSE
    /\ UNCHANGED <<graphVars, menuVars, headingKnown, destination, arrowVars,
                   labelTo, crashed>>

\* didUpdateHeading
HeadingUpdate ==
    /\ ~crashed
    /\ headingKnown' = TRUE
    /\ UNCHANGED <<graphVars, menuVars, location, routeVars, labelVars, crashed>>
    /\ UpdateArrow

Walk == \E p \in Position : PassPlace(p) \/ Arrive(p)

Next ==
    \/ DataLoaded
    \/ OpenMenuByButton
    \/ OpenMenuBySwipe
    \/ CloseMenu
    \/ \E b \in Building : SelectRow(b) \/ SelectRowUnlocated(b)
    \/ \E p \in Position : Wander(p) \/ Approach(p)
    \/ Walk
    \/ HeadingUpdate

Spec == Init /\ [][Next]_vars

\* Headings keep coming, and the user gets to the place the arrow points at.
FairSpec == Spec /\ WF_vars(HeadingUpdate) /\ WF_vars(Walk)

-----------------------------------------------------------------------------
TypeOK ==
    /\ loaded \in BOOLEAN
    /\ connectedNodes \in [Node -> SUBSET Node]
    /\ menuOpen \in BOOLEAN
    /\ menuRows \in {"unloaded", "none", "all"}
    /\ selectedNavLoc \in Node \cup {Nowhere}
    /\ location \in Position \cup {NoLocation}
    /\ headingKnown \in BOOLEAN
    /\ path \in Seq(Point)
    /\ pathFinding \in BOOLEAN
    /\ destination \in Node \cup {Nowhere}
    /\ title \in {"app", "destination", "Arrived"}
    /\ arrowShown \in BOOLEAN
    /\ aim \in Point \X Point
    /\ labelShown \in BOOLEAN
    /\ labelTo \in Point
    /\ crashed \in BOOLEAN

\* path[0] and path.last! are only read while pathFinding, and there is a place
\* ahead whenever pathFinding, whatever was selected and passed before; so the
\* one trap left is the unwrapped location of a user who was never located.
NoTrapWhenLocated ==
    /\ pathFinding <=> path # <<>>
    /\ pathFinding => location # NoLocation
    /\ crashed => location = NoLocation

\* There is no way from p to the destination.
CutOff(p) == p # destination /\ Ways(p, destination) = {}

\* At every moment of a journey the rest of path follows connections to the
\* chosen destination.  If it does not, it is one single place: one from which
\* the destination cannot be reached, or the user's own position, off the graph.
PathLeadsToDestination ==
    path # <<>> =>
        /\ IsWalk(path)
        /\ \/ path[Len(path)] = destination
           \/ Len(path) = 1 /\ (path[1] \in Node => CutOff(path[1]))

\* With a heading, the arrow of a user under way is always turned from the
\* newest location to the next place: no callback changes one of the three and
\* forgets the arrow.
ArrowAimsAtNextPlace ==
    pathFinding => /\ arrowShown
                   /\ headingKnown /\ ~crashed => aim = <<location, path[1]>>

\* The title and the label tell of a journey only as long as there is one.
ScreenTellsOfJourney ==
    ~crashed => /\ title = "destination" <=> pathFinding
                /\ labelShown => pathFinding

\* The label is hidden, or measures to the end of the way ahead.
LabelRight == labelShown => pathFinding /\ labelTo = path[Len(path)]

\* Every location update sets the label right, and only the choice of another
\* building can make it wrong: until the next update it tells of the old one.
LabelFollowsJourney ==
    [][location' # location \/ (LabelRight /\ ~ \E b \in Building : SelectRow(b))
          => LabelRight']_vars

\* When the journey ends the user is near the destination, or was sent to such
\* a single place.
ArrivesNearDestination ==
    [][pathFinding /\ ~pathFinding' =>
          \/ location' \in Near[destination]
          \/ path[1] \in Node => CutOff(path[1])]_vars

\* Once no more buildings are selected the journey ends, and the arrow left
\* over from it disappears with one of the headings that keep coming.
ArrowEventuallyHidden ==
    <>[][~\E b \in Building : SelectRow(b)]_vars => <>[](~pathFinding /\ ~arrowShown)

\* An app that has stopped without a location has promised nothing.
status == IF crashed THEN "app" ELSE title
goal == IF crashed THEN Nowhere ELSE destination

Promise ==
    INSTANCE Journey WITH
        Place <- Point, Unknown <- NoLocation, asking <- menuOpen, at <- location, way <- path

\* The app keeps the promise of Journey: under every interleaving of updates
\* and selections a way begins only with a selection, its places are passed one
\* by one, in order, each when the user is near it and not otherwise, and
\* "Arrived" comes with the last one, which is reached if the user walks on.
KeepsPromise == Promise!Spec

=============================================================================
