-------------------------- MODULE NavigationProofs --------------------------
(***************************************************************************)
(* What holds of a journey on every graph, for every set of positions.     *)
(***************************************************************************)
EXTENDS Navigation, FiniteSetTheorems, TLAPS

\* A way is a walk over nodes from its start to its end.
LEMMA WayIsWalk ==
    ASSUME NEW s, NEW d, NEW w \in Ways(s, d)
    PROVE  /\ w \in Seq(Node)
           /\ w # <<>>
           /\ w[1] = s
           /\ w[Len(w)] = d
           /\ IsWalk(w)
<1>1. Cardinality(Node) \in Nat
  BY NodeAssumption, FS_CardinalityType
<1>2. PICK m \in 0..(Cardinality(Node) + 1) : w \in [1..m -> Node]
  BY DEF Ways, SeqOf
<1>3. m \in Nat
  BY <1>1, <1>2
<1>4. w \in Seq(Node)
  BY <1>2, <1>3
<1> QED
  BY <1>4 DEF Ways

\* What findPath returns is a way, or its start where there is none.
LEMMA RouteIsWayOrStart ==
    ASSUME NEW s \in Position, NEW d, NEW w \in Routes(s, d)
    PROVE  /\ w \in Seq(Position)
           /\ w # <<>>
           /\ w[1] = s
           /\ IsWalk(w)
           /\ w[Len(w)] = d \/ (Len(w) = 1 /\ Ways(s, d) = {})
<1>1. CASE Ways(s, d) = {}
  <2>1. w = <<s>>
    BY <1>1 DEF Routes
  <2> QED
    BY <1>1, <2>1 DEF IsWalk
<1>2. CASE Ways(s, d) # {}
  <2>1. w \in Ways(s, d)
    BY <1>2 DEF Routes
  <2>2. Node \subseteq Position
    BY NodeAssumption DEF Position
  <2> QED
    BY <2>1, <2>2, WayIsWalk
<1> QED
  BY <1>1, <1>2

\* A route starts at a place of the graph or where the user is.
LEMMA StartIsPosition ==
    ASSUME location \in Position, NEW d, NEW s \in Starts(d)
    PROVE  s \in Position
BY NodeAssumption DEF Starts, ClosestNodes, NearestIn, Candidates, Position

LEMMA EntranceIsNode ==
    ASSUME NEW b \in Building, NEW p, NEW e \in ClosestEntrances(Entrances[b], p)
    PROVE  e \in Node
BY EntrancesAssumption DEF ClosestEntrances, NearestIn

-----------------------------------------------------------------------------
\* The two conjuncts of the type invariant that concern the route, together
\* with what makes path[1] a position.
Located ==
    /\ path \in Seq(Position)
    /\ pathFinding <=> path # <<>>
    /\ pathFinding => location \in Position
    /\ crashed => location = NoLocation

\* TypeOK and the traps: no callback indexes an empty path.
TypeInv == TypeOK /\ Located

LEMMA SelectRowTypes ==
    ASSUME TypeInv, NEW b \in Building, SelectRow(b)
    PROVE  /\ selectedNavLoc' \in Node \cup {Nowhere}
           /\ \E s \in Position : path' \in Routes(s, selectedNavLoc')
           /\ path' \in Seq(Position) \ {<<>>}
           /\ pathFinding'
           /\ location' = location /\ location \in Position
<1>1. location' = location /\ location \in Position /\ pathFinding'
  BY DEF TypeInv, TypeOK, SelectRow
<1>2. selectedNavLoc' \in Node \cup {Nowhere}
  BY EntranceIsNode DEF TypeInv, TypeOK, SelectRow, SelectEntrance, menuVars
<1>3. PICK s \in Starts(selectedNavLoc') : path' \in Routes(s, selectedNavLoc')
  BY DEF SelectRow
<1>4. s \in Position
  BY <1>1, <1>3, StartIsPosition
<1>5. path' \in Seq(Position) \ {<<>>}
  BY <1>3, <1>4, RouteIsWayOrStart
<1> QED
  BY <1>1, <1>2, <1>3, <1>4, <1>5

\* The arrow is turned by positions of the user and of places.
LEMMA UpdateArrowTypes ==
    ASSUME aim \in Point \X Point, UpdateArrow, headingKnown' \in BOOLEAN,
           pathFinding' \in BOOLEAN,
           pathFinding' => location' \in Point /\ path'[1] \in Point
    PROVE  aim' \in Point \X Point /\ arrowShown' \in BOOLEAN
BY DEF UpdateArrow

LEMMA TypeInvInductive == TypeInv /\ [Next]_vars => TypeInv'
<1> SUFFICES ASSUME TypeInv, [Next]_vars PROVE TypeInv'
  OBVIOUS
<1> USE DEF TypeInv, TypeOK, Located
<1>0. Position \subseteq Point /\ Node \subseteq Position
  BY NodeAssumption DEF Position
<1>1. CASE DataLoaded
  BY <1>1, GraphsAssumption DEF DataLoaded, menuVars, routeVars, arrowVars, labelVars
<1>2. CASE OpenMenuByButton
  BY <1>2 DEF OpenMenuByButton, RowsAtFirstSight, graphVars, routeVars, arrowVars, labelVars
<1>3. CASE OpenMenuBySwipe
  BY <1>3 DEF OpenMenuBySwipe, RowsAtFirstSight, graphVars, routeVars, arrowVars, labelVars
<1>4. CASE CloseMenu
  BY <1>4 DEF CloseMenu, graphVars, routeVars, arrowVars, labelVars
<1>5. ASSUME NEW b \in Building, SelectRow(b) PROVE TypeInv'
  <2>1. /\ selectedNavLoc' \in Node \cup {Nowhere}
        /\ path' \in Seq(Position) \ {<<>>}
        /\ pathFinding'
        /\ location' = location /\ location \in Position
    BY <1>5, SelectRowTypes
  <2>2. aim' \in Point \X Point /\ arrowShown' \in BOOLEAN
    <3>1. path'[1] \in Point
      BY <1>0, <2>1
    <3> QED
      BY <1>0, <1>5, <2>1, <3>1, UpdateArrowTypes DEF SelectRow
  <2>3. path' \in Seq(Point)
    BY <1>0, <2>1
  <2> QED
    BY <1>5, <2>1, <2>2, <2>3 DEF SelectRow, SelectEntrance, graphVars, labelVars
<1>6. ASSUME NEW b \in Building, SelectRowUnlocated(b) PROVE TypeInv'
  <2>1. selectedNavLoc' \in Node \cup {Nowhere}
    BY <1>6, EntranceIsNode DEF SelectRowUnlocated, SelectEntrance
  <2> QED
    BY <1>6, <2>1 DEF SelectRowUnlocated, SelectEntrance, graphVars, arrowVars, labelVars
<1>7. ASSUME NEW p \in Position, Wander(p) PROVE TypeInv'
  BY <1>0, <1>7 DEF Wander, graphVars, menuVars, routeVars, arrowVars, labelVars
<1>8. ASSUME NEW p \in Position, Approach(p) PROVE TypeInv'
  <2>1. path' = path /\ pathFinding' = pathFinding /\ path # <<>> /\ location' = p
        /\ headingKnown' = headingKnown
    BY <1>8 DEF Approach, routeVars
  <2>2. path[1] \in Point /\ path[Len(path)] \in Point
    BY <1>0, <2>1
  <2>3. aim' \in Point \X Point /\ arrowShown' \in BOOLEAN
    BY <1>0, <1>8, <2>1, <2>2, UpdateArrowTypes DEF Approach
  <2> QED
    BY <1>0, <1>8, <2>1, <2>2, <2>3
       DEF Approach, UpdateDistanceLabel, graphVars, menuVars, routeVars
<1>9. ASSUME NEW p \in Position, PassPlace(p) PROVE TypeInv'
  <2>1. path' = Tail(path) /\ pathFinding' = pathFinding /\ path # <<>> /\ location' = p
        /\ Len(path) > 1 /\ headingKnown' = headingKnown
    BY <1>9 DEF PassPlace
  <2>2. path' \in Seq(Position) /\ path' # <<>>
    BY <2>1
  <2>3. path'[1] \in Point /\ path'[Len(path')] \in Point /\ path' \in Seq(Point)
    BY <1>0, <2>2
  <2>4. aim' \in Point \X Point /\ arrowShown' \in BOOLEAN
    BY <1>0, <1>9, <2>1, <2>3, UpdateArrowTypes DEF PassPlace
  <2> QED
    BY <1>0, <1>9, <2>1, <2>2, <2>3, <2>4
       DEF PassPlace, UpdateDistanceLabel, graphVars, menuVars
<1>10. ASSUME NEW p \in Position, Arrive(p) PROVE TypeInv'
  <2>1. /\ path' = <<>> /\ ~pathFinding' /\ location' = p
        /\ ~crashed' /\ pathFinding' \in BOOLEAN /\ crashed' \in BOOLEAN
    BY <1>10 DEF Arrive
  <2>2. path' \in Seq(Position) /\ path' \in Seq(Point)
    BY <2>1
  <2>3. Located'
    BY <2>1, <2>2
  <2>4. TypeOK'
    BY <1>10, <2>1, <2>2 DEF Arrive, graphVars, menuVars, arrowVars
  <2> QED
    BY <2>3, <2>4
<1>11. CASE HeadingUpdate
  <2>1. path' = path /\ pathFinding' = pathFinding /\ location' = location
        /\ headingKnown' = TRUE
    BY <1>11 DEF HeadingUpdate, routeVars
  <2>2. pathFinding => path[1] \in Point
    BY <1>0
  <2>3. aim' \in Point \X Point /\ arrowShown' \in BOOLEAN
    BY <1>0, <1>11, <2>1, <2>2, UpdateArrowTypes DEF HeadingUpdate
  <2> QED
    BY <1>11, <2>1, <2>3 DEF HeadingUpdate, graphVars, menuVars, routeVars, labelVars
<1>12. CASE UNCHANGED vars
  BY <1>12 DEF vars, graphVars, menuVars, routeVars, arrowVars, labelVars
<1> QED
  BY <1>1, <1>2, <1>3, <1>4, <1>5, <1>6, <1>7, <1>8, <1>9, <1>10, <1>11, <1>12
     DEF Next, Walk

LEMMA TypeInvHolds == Spec => []TypeInv
<1>1. Init => TypeInv
  <2> SUFFICES ASSUME Init PROVE TypeInv
    OBVIOUS
  <2>1. TypeOK
    <3>1. /\ connectedNodes \in [Node -> SUBSET Node]
          /\ location \in Position \cup {NoLocation}
          /\ path \in Seq(Point)
          /\ aim \in Point \X Point
      BY NowhereAssumption DEF Init
    <3>2. loaded \in BOOLEAN /\ menuOpen \in BOOLEAN /\ menuRows = "unloaded"
      BY DEF Init
    <3>3. headingKnown \in BOOLEAN /\ pathFinding \in BOOLEAN /\ title = "app"
      BY DEF Init
    <3>4. arrowShown \in BOOLEAN /\ labelShown \in BOOLEAN /\ crashed \in BOOLEAN
      BY DEF Init
    <3>5. selectedNavLoc = Nowhere /\ destination = Nowhere /\ labelTo = Nowhere
      BY DEF Init
    <3> QED
      BY <3>1, <3>2, <3>3, <3>4, <3>5, NowhereAssumption DEF TypeOK
  <2>2. path \in Seq(Position)
    BY DEF Init
  <2>3. ~pathFinding /\ path = <<>> /\ ~crashed
    BY DEF Init
  <2>4. Located
    BY <2>2, <2>3 DEF Located
  <2> QED
    BY <2>1, <2>4 DEF TypeInv
<1> QED
  BY <1>1, TypeInvInductive, PTL DEF Spec

\* TypeOK: type correctness of the screen, the menu and the route.
THEOREM TypeCorrect == Spec => []TypeOK
<1>1. TypeInv => TypeOK
  BY DEF TypeInv
<1> QED
  BY <1>1, TypeInvHolds, PTL

\* NoTrapWhenLocated: path is never indexed while it is empty, and the app only
\* stops on the missing location.
THEOREM NoTrap == Spec => []NoTrapWhenLocated
<1>1. TypeInv => NoTrapWhenLocated
  BY NoLocationAssumption DEF TypeInv, TypeOK, Located, NoTrapWhenLocated, Position
<1> QED
  BY <1>1, TypeInvHolds, PTL

-----------------------------------------------------------------------------
\* A row can only be tapped, and a route only be there, once the graph is
\* loaded: the graph under a route never changes.
LoadedFirst == menuRows = "all" \/ path # <<>> => loaded

RouteInv == TypeInv /\ LoadedFirst /\ PathLeadsToDestination

LEMMA TailIsEmpty ==
    ASSUME NEW S, NEW w \in Seq(S), w # <<>>
    PROVE  Tail(w) = <<>> <=> Len(w) = 1
<1>1. Len(w) \in Nat \ {0} /\ Tail(w) \in Seq(S) /\ Len(Tail(w)) = Len(w) - 1
  OBVIOUS
<1>2. \A t \in Seq(S) : t = <<>> <=> Len(t) = 0
  OBVIOUS
<1> DEFINE t == Tail(w)
           n == Len(w)
<1>3. t = <<>> <=> Len(t) = 0
  BY <1>1, <1>2
<1>4. Len(t) = 0 <=> n = 1
  BY <1>1
<1> QED
  BY <1>3, <1>4

\* What is left of a walk is a walk.
LEMMA TailOfWalk ==
    ASSUME NEW w \in Seq(Position), Len(w) > 1, IsWalk(w)
    PROVE  /\ IsWalk(Tail(w))
           /\ Tail(w) # <<>>
           /\ Tail(w)[Len(Tail(w))] = w[Len(w)]
<1>1. Tail(w) \in Seq(Position) /\ Len(Tail(w)) = Len(w) - 1
  OBVIOUS
<1>2. \A j \in 1..Len(Tail(w)) : Tail(w)[j] = w[j + 1]
  OBVIOUS
<1>3. IsWalk(Tail(w))
  <2> SUFFICES ASSUME NEW j \in 1..(Len(Tail(w)) - 1)
               PROVE  Tail(w)[j] \in Node /\ Tail(w)[j + 1] \in connectedNodes[Tail(w)[j]]
    BY DEF IsWalk
  <2>1. Tail(w)[j] = w[j + 1] /\ Tail(w)[j + 1] = w[(j + 1) + 1]
    BY <1>1, <1>2
  <2>2. j + 1 \in 1..(Len(w) - 1)
    BY <1>1
  <2> QED
    BY <2>1, <2>2 DEF IsWalk
<1>4. Tail(w)[Len(Tail(w))] = w[Len(w)]
  BY <1>1, <1>2
<1>5. Tail(w) # <<>>
  <2>1. ASSUME w = <<>> PROVE FALSE
    <3>1. Len(w) = 0
      BY <2>1
    <3> QED
      BY <3>1
  <2>2. Len(w) # 1
    <3>1. \A n \in Nat : n > 1 => n # 1
      OBVIOUS
    <3>2. Len(w) \in Nat
      OBVIOUS
    <3> QED
      BY <3>1, <3>2
  <2>3. Tail(w) = <<>> <=> Len(w) = 1
    BY <2>1, TailIsEmpty
  <2> QED
    BY <2>2, <2>3
<1> QED
  BY <1>3, <1>4, <1>5

\* A step that leaves graph, route and destination alone keeps the invariant.
LEMMA RouteUntouched ==
    ASSUME PathLeadsToDestination,
           UNCHANGED <<connectedNodes, path, destination>>
    PROVE  PathLeadsToDestination'
BY DEF PathLeadsToDestination, IsWalk, CutOff, Ways

LEMMA RouteInvInductive == RouteInv /\ [Next]_vars => RouteInv'
<1> SUFFICES ASSUME RouteInv, [Next]_vars PROVE RouteInv'
  OBVIOUS
<1>0. TypeInv /\ TypeInv'
  BY TypeInvInductive DEF RouteInv
<1>1. CASE DataLoaded
  <2>1. path = <<>> /\ path' = path /\ loaded'
    BY <1>1 DEF RouteInv, LoadedFirst, DataLoaded, routeVars
  <2> QED
    BY <1>0, <2>1 DEF RouteInv, LoadedFirst, PathLeadsToDestination
<1>2. ASSUME OpenMenuByButton \/ OpenMenuBySwipe \/ CloseMenu PROVE RouteInv'
  <2>1. UNCHANGED <<loaded, connectedNodes, path, destination>>
    BY <1>2 DEF OpenMenuByButton, OpenMenuBySwipe, CloseMenu, graphVars, routeVars
  <2>2. LoadedFirst'
    BY <1>2, <2>1 DEF RouteInv, LoadedFirst, OpenMenuByButton, OpenMenuBySwipe,
                      CloseMenu, RowsAtFirstSight
  <2> QED
    BY <1>0, <2>1, <2>2, RouteUntouched DEF RouteInv
<1>3. ASSUME NEW b \in Building, SelectRow(b) PROVE RouteInv'
  <2>1. /\ menuRows = "all" /\ menuRows' = "all"
        /\ UNCHANGED <<loaded, connectedNodes>>
        /\ destination' = selectedNavLoc'
    BY <1>3 DEF SelectRow, SelectEntrance, graphVars
  <2>2. LoadedFirst'
    BY <2>1 DEF RouteInv, LoadedFirst
  <2>3. PICK s \in Position : path' \in Routes(s, selectedNavLoc')
    BY <1>0, <1>3, SelectRowTypes
  <2>4. /\ path' # <<>> /\ path'[1] = s /\ IsWalk(path')
        /\ path'[Len(path')] = selectedNavLoc'
              \/ (Len(path') = 1 /\ Ways(s, selectedNavLoc') = {})
    BY <2>3, RouteIsWayOrStart
  <2>5. IsWalk(path)' /\ Ways(s, selectedNavLoc')
                             = {w \in SeqOf(Node, Cardinality(Node) + 1) :
                                  /\ w # <<>> /\ w[1] = s /\ w[Len(w)] = destination'
                                  /\ IsWalk(w)'
                                  /\ \A j, k \in DOMAIN w :
                                        w[j] = w[k] => j = k \/ {j, k} = {1, 2}}
    BY <2>1, <2>4 DEF IsWalk, Ways
  <2>6. PathLeadsToDestination'
    <3>1. CASE path'[Len(path')] = destination'
      BY <2>5, <3>1 DEF PathLeadsToDestination
    <3>2. CASE path'[Len(path')] # destination'
      <4>1. Len(path') = 1 /\ s # destination' /\ Ways(s, selectedNavLoc') = {}
        BY <2>1, <2>4, <3>2
      <4>2. CutOff(path[1])'
        BY <2>4, <2>5, <4>1 DEF CutOff, Ways
      <4> QED
        BY <2>5, <4>1, <4>2 DEF PathLeadsToDestination
    <3> QED
      BY <3>1, <3>2
  <2> QED
    BY <1>0, <2>2, <2>6 DEF RouteInv
<1>4. ASSUME NEW b \in Building, SelectRowUnlocated(b) PROVE RouteInv'
  <2>1. path = <<>> /\ path' = path /\ loaded' = loaded /\ menuRows' = menuRows
    BY <1>0, <1>4, NoLocationAssumption
       DEF TypeInv, Located, Position, SelectRowUnlocated, SelectEntrance, graphVars
  <2> QED
    BY <1>0, <2>1 DEF RouteInv, LoadedFirst, PathLeadsToDestination
<1>5. ASSUME NEW p \in Position, Wander(p) \/ Approach(p) PROVE RouteInv'
  <2>1. UNCHANGED <<loaded, menuRows, connectedNodes, path, destination>>
    BY <1>5 DEF Wander, Approach, graphVars, menuVars, routeVars
  <2> QED
    BY <1>0, <2>1, RouteUntouched DEF RouteInv, LoadedFirst
<1>6. ASSUME NEW p \in Position, PassPlace(p) PROVE RouteInv'
  <2>1. /\ Len(path) > 1 /\ path # <<>> /\ path' = Tail(path) /\ path \in Seq(Position)
        /\ UNCHANGED <<loaded, menuRows, connectedNodes, destination>>
    BY <1>0, <1>6 DEF PassPlace, graphVars, menuVars, TypeInv, Located
  <2>2. IsWalk(path) /\ path[Len(path)] = destination
    BY <2>1 DEF RouteInv, PathLeadsToDestination
  <2>3. IsWalk(Tail(path)) /\ Tail(path)[Len(Tail(path))] = destination
    BY <2>1, <2>2, TailOfWalk
  <2>4. PathLeadsToDestination'
    BY <2>1, <2>3 DEF PathLeadsToDestination, IsWalk
  <2> QED
    BY <1>0, <2>1, <2>4 DEF RouteInv, LoadedFirst
<1>7. ASSUME NEW p \in Position, Arrive(p) PROVE RouteInv'
  <2>1. path' = <<>> /\ UNCHANGED <<loaded, menuRows>>
    BY <1>7 DEF Arrive, graphVars, menuVars
  <2> QED
    BY <1>0, <2>1 DEF RouteInv, LoadedFirst, PathLeadsToDestination
<1>8. CASE HeadingUpdate
  <2>1. UNCHANGED <<loaded, menuRows, connectedNodes, path, destination>>
    BY <1>8 DEF HeadingUpdate, graphVars, menuVars, routeVars
  <2> QED
    BY <1>0, <2>1, RouteUntouched DEF RouteInv, LoadedFirst
<1>9. CASE UNCHANGED vars
  <2>1. UNCHANGED <<loaded, menuRows, connectedNodes, path, destination>>
    BY <1>9 DEF vars, graphVars, menuVars, routeVars
  <2> QED
    BY <1>0, <2>1, RouteUntouched DEF RouteInv, LoadedFirst
<1> QED
  BY <1>1, <1>2, <1>3, <1>4, <1>5, <1>6, <1>7, <1>8, <1>9 DEF Next, Walk

LEMMA RouteInvHolds == Spec => []RouteInv
<1>1. Init => LoadedFirst /\ PathLeadsToDestination
  BY DEF Init, LoadedFirst, PathLeadsToDestination
<1>2. Init /\ TypeInv => RouteInv
  BY <1>1 DEF RouteInv
<1> QED
  BY <1>2, RouteInvInductive, TypeInvHolds, PTL DEF Spec

\* PathLeadsToDestination: at every moment the places ahead lead over
\* connections to the destination, or are one place that is cut off from it.
THEOREM RouteCorrect == Spec => []PathLeadsToDestination
<1>1. RouteInv => PathLeadsToDestination
  BY DEF RouteInv
<1> QED
  BY <1>1, RouteInvHolds, PTL

\* ArrivesNearDestination: a journey ends near its destination, or near the
\* single place that is cut off from it.
THEOREM ArrivalCorrect == Spec => ArrivesNearDestination
<1> DEFINE Honest == \/ location' \in Near[destination]
                     \/ path[1] \in Node => CutOff(path[1])
<1>1. RouteInv /\ [Next]_vars => (pathFinding /\ ~pathFinding' => Honest)
  <2> SUFFICES ASSUME RouteInv, [Next]_vars, pathFinding, ~pathFinding' PROVE Honest
    OBVIOUS
  <2>1. PICK p \in Position : Arrive(p)
    BY DEF Next, Walk, DataLoaded, OpenMenuByButton, OpenMenuBySwipe, CloseMenu, SelectRow,
           SelectRowUnlocated, Wander, Approach, PassPlace, HeadingUpdate, vars, routeVars
  <2>2. location' \in Near[path[1]] /\ Len(path) = 1 /\ path # <<>>
    BY <2>1 DEF Arrive, RouteInv, TypeInv, Located
  <2>3. path[1] = destination \/ (path[1] \in Node => CutOff(path[1]))
    BY <2>2 DEF RouteInv, PathLeadsToDestination
  <2> QED
    BY <2>2, <2>3
<1>2. RouteInv /\ [Next]_vars => [pathFinding /\ ~pathFinding' => Honest]_vars
  BY <1>1
<1> QED
  BY <1>2, RouteInvHolds, PTL DEF Spec, ArrivesNearDestination

-----------------------------------------------------------------------------
\* ArrowAimsAtNextPlace: whichever callback comes last, the arrow has been
\* turned by the newest location and the next place.
THEOREM ArrowCorrect == Spec => []ArrowAimsAtNextPlace
<1>1. Init => ArrowAimsAtNextPlace
  BY DEF Init, ArrowAimsAtNextPlace
<1>2. TypeInv /\ ArrowAimsAtNextPlace /\ [Next]_vars => ArrowAimsAtNextPlace'
  <2> SUFFICES ASSUME TypeInv, ArrowAimsAtNextPlace, [Next]_vars
               PROVE  ArrowAimsAtNextPlace'
    OBVIOUS
  <2>1. ASSUME UpdateArrow PROVE ArrowAimsAtNextPlace'
    BY <2>1 DEF UpdateArrow, ArrowAimsAtNextPlace
  <2>2. ASSUME UNCHANGED <<location, headingKnown, path, pathFinding, arrowVars, crashed>>
        PROVE  ArrowAimsAtNextPlace'
    BY <2>2 DEF ArrowAimsAtNextPlace, arrowVars
  <2>3. ASSUME ~pathFinding' PROVE ArrowAimsAtNextPlace'
    BY <2>3 DEF ArrowAimsAtNextPlace
  <2>4. CASE DataLoaded \/ OpenMenuByButton \/ OpenMenuBySwipe \/ CloseMenu
    BY <2>2, <2>4 DEF DataLoaded, OpenMenuByButton, OpenMenuBySwipe, CloseMenu, routeVars
  <2>5. ASSUME NEW b \in Building, SelectRow(b) PROVE ArrowAimsAtNextPlace'
    BY <2>1, <2>5 DEF SelectRow
  <2>6. ASSUME NEW b \in Building, SelectRowUnlocated(b) PROVE ArrowAimsAtNextPlace'
    BY <2>3, <2>6, NoLocationAssumption
       DEF SelectRowUnlocated, TypeInv, Located, Position
  <2>7. ASSUME NEW p \in Position, Wander(p) PROVE ArrowAimsAtNextPlace'
    BY <2>3, <2>7 DEF Wander, routeVars
  <2>8. ASSUME NEW p \in Position, Approach(p) \/ PassPlace(p) PROVE ArrowAimsAtNextPlace'
    BY <2>1, <2>8 DEF Approach, PassPlace
  <2>9. ASSUME NEW p \in Position, Arrive(p) PROVE ArrowAimsAtNextPlace'
    BY <2>3, <2>9 DEF Arrive
  <2>10. CASE HeadingUpdate
    BY <2>1, <2>10 DEF HeadingUpdate
  <2>11. CASE UNCHANGED vars
    BY <2>2, <2>11 DEF vars, routeVars
  <2> QED
    BY <2>4, <2>5, <2>6, <2>7, <2>8, <2>9, <2>10, <2>11 DEF Next, Walk
<1> QED
  BY <1>1, <1>2, TypeInvHolds, PTL DEF Spec

\* ScreenTellsOfJourney, and what there is before the first location.
ScreenInv ==
    /\ TypeInv
    /\ ScreenTellsOfJourney
    /\ location = NoLocation /\ ~crashed => title = "app" /\ destination = Nowhere

LEMMA ScreenInvInductive == ScreenInv /\ [Next]_vars => ScreenInv'
<1> SUFFICES ASSUME ScreenInv, [Next]_vars PROVE ScreenInv'
  OBVIOUS
<1>0. /\ TypeInv /\ TypeInv'
      /\ NoLocation \notin Position
  BY TypeInvInductive, NoLocationAssumption DEF ScreenInv, Position
<1>1. ASSUME UNCHANGED <<location, pathFinding, title, destination, labelShown, crashed>>
      PROVE  ScreenInv'
  BY <1>0, <1>1 DEF ScreenInv, ScreenTellsOfJourney
<1>2. CASE DataLoaded \/ OpenMenuByButton \/ OpenMenuBySwipe \/ CloseMenu \/ HeadingUpdate
  BY <1>1, <1>2 DEF DataLoaded, OpenMenuByButton, OpenMenuBySwipe, CloseMenu,
                    HeadingUpdate, routeVars, labelVars
<1>3. ASSUME NEW b \in Building, SelectRow(b) PROVE ScreenInv'
  BY <1>0, <1>3 DEF ScreenInv, ScreenTellsOfJourney, SelectRow
<1>4. ASSUME NEW b \in Building, SelectRowUnlocated(b) PROVE ScreenInv'
  BY <1>0, <1>4 DEF ScreenInv, ScreenTellsOfJourney, SelectRowUnlocated
<1>5. ASSUME NEW p \in Position, Wander(p) PROVE ScreenInv'
  BY <1>0, <1>5 DEF ScreenInv, ScreenTellsOfJourney, Wander, routeVars, labelVars
<1>6. ASSUME NEW p \in Position, Approach(p) \/ PassPlace(p) PROVE ScreenInv'
  BY <1>0, <1>6 DEF ScreenInv, ScreenTellsOfJourney, Approach, PassPlace, routeVars
<1>7. ASSUME NEW p \in Position, Arrive(p) PROVE ScreenInv'
  BY <1>0, <1>7 DEF ScreenInv, ScreenTellsOfJourney, Arrive
<1>8. CASE UNCHANGED vars
  BY <1>1, <1>8 DEF vars, routeVars, labelVars
<1> QED
  BY <1>2, <1>3, <1>4, <1>5, <1>6, <1>7, <1>8 DEF Next, Walk

LEMMA ScreenInvHolds == Spec => []ScreenInv
<1>1. Init => ScreenTellsOfJourney /\ title = "app" /\ destination = Nowhere
  BY DEF Init, ScreenTellsOfJourney
<1>2. Init /\ TypeInv => ScreenInv
  BY <1>1 DEF ScreenInv
<1> QED
  BY <1>2, ScreenInvInductive, TypeInvHolds, PTL DEF Spec

\* ScreenTellsOfJourney and LabelFollowsJourney: whichever callbacks come, title
\* and label tell of a journey only while there is one, and the label measures to
\* its end except between a selection and the next location update.
THEOREM ScreenCorrect == Spec => []ScreenTellsOfJourney /\ LabelFollowsJourney
<1> DEFINE selects == \E b \in Building : SelectRow(b)
           follows == location' # location \/ (LabelRight /\ ~selects) => LabelRight'
<1>1. ScreenInv => ScreenTellsOfJourney
  BY DEF ScreenInv
<1>2. ScreenInv /\ [Next]_vars => [follows]_vars
  <2> SUFFICES ASSUME ScreenInv, Next, location' # location \/ (LabelRight /\ ~selects)
               PROVE  LabelRight'
    OBVIOUS
  <2>1. ASSUME UNCHANGED <<location, path, pathFinding, labelVars>>, ~selects
        PROVE  LabelRight'
    BY <2>1 DEF LabelRight, labelVars
  <2>2. CASE DataLoaded \/ OpenMenuByButton \/ OpenMenuBySwipe \/ CloseMenu \/ HeadingUpdate
    <3>1. UNCHANGED <<location, path, pathFinding, labelVars>>
      BY <2>2 DEF DataLoaded, OpenMenuByButton, OpenMenuBySwipe, CloseMenu, HeadingUpdate, routeVars
    <3> QED
      BY <3>1 DEF LabelRight, labelVars
  <2>3. ASSUME NEW b \in Building, SelectRow(b) PROVE LabelRight'
    BY <2>3 DEF SelectRow
  <2>4. ASSUME NEW b \in Building, SelectRowUnlocated(b) PROVE LabelRight'
    <3>1. UNCHANGED <<location, path, pathFinding, labelVars>>
      BY <2>4 DEF SelectRowUnlocated
    <3> QED
      BY <3>1 DEF LabelRight, labelVars
  <2>5. ASSUME NEW p \in Position, Wander(p) PROVE LabelRight'
    <3>1. ~labelShown /\ labelShown' = labelShown
      BY <2>5 DEF Wander, ScreenInv, ScreenTellsOfJourney, labelVars
    <3> QED
      BY <3>1 DEF LabelRight
  <2>6. ASSUME NEW p \in Position, Approach(p) \/ PassPlace(p) PROVE LabelRight'
    BY <2>6 DEF Approach, PassPlace, UpdateDistanceLabel, LabelRight, routeVars
  <2>7. ASSUME NEW p \in Position, Arrive(p) PROVE LabelRight'
    BY <2>7 DEF Arrive, LabelRight
  <2> QED
    BY <2>2, <2>3, <2>4, <2>5, <2>6, <2>7 DEF Next, Walk
<1> QED
  BY <1>1, <1>2, ScreenInvHolds, PTL DEF Spec, LabelFollowsJourney

-----------------------------------------------------------------------------
\* What is known of the state and of the step when the app keeps its promise.
JourneyInv == ScreenInv /\ RouteInv

\* The way of a journey begins with a selection and leads to what was selected.
LEMMA SelectionBegins ==
    ASSUME JourneyInv, NEW b \in Building, SelectRow(b)
    PROVE  Promise!Begin
<1>0. TypeInv /\ Position \subseteq Point /\ NoLocation \notin Point /\ Node \subseteq Point
  BY NoLocationAssumption, NodeAssumption DEF JourneyInv, RouteInv, Position
<1>1. /\ selectedNavLoc' \in Point
      /\ path' \in Seq(Position) \ {<<>>}
      /\ location' = location /\ location \in Position
  BY <1>0, SelectRowTypes, NowhereAssumption
<1>2. path' \in Seq(Point) \ {<<>>}
  BY <1>0, <1>1
<1>3. PICK s \in Position : path' \in Routes(s, selectedNavLoc')
  BY <1>0, SelectRowTypes
<1>4. path'[Len(path')] = selectedNavLoc' \/ Len(path') = 1
  BY <1>3, RouteIsWayOrStart
<1>5. menuOpen /\ ~menuOpen' /\ ~crashed /\ ~crashed'
      /\ destination' = selectedNavLoc' /\ title' = "destination"
  BY DEF SelectRow, SelectEntrance
<1>6. menuOpen' = FALSE
  BY DEF SelectRow, SelectEntrance
<1>7. goal' = selectedNavLoc' /\ status' = "destination"
  BY <1>5 DEF goal, status
<1> QED
  BY <1>0, <1>1, <1>2, <1>4, <1>5, <1>6, <1>7 DEF Promise!Begin

\* A place is passed, the last one or another, when the user is near it.
LEMMA NearnessPasses ==
    ASSUME JourneyInv, NEW p \in Position, PassPlace(p) \/ Arrive(p)
    PROVE  Promise!Pass
<1>0. /\ TypeInv /\ path \in Seq(Position) /\ (pathFinding <=> path # <<>>)
  BY DEF JourneyInv, RouteInv, TypeInv, Located
<1>1. /\ path # <<>> /\ ~crashed /\ ~crashed' /\ location' = p /\ p \in Near[path[1]]
      /\ UNCHANGED <<menuOpen, destination>>
  BY <1>0 DEF PassPlace, Arrive, menuVars
<1>2. UNCHANGED goal
  BY <1>1 DEF goal
<1>3. CASE PassPlace(p)
  <2>1. path' = Tail(path) /\ Len(path) > 1 /\ title' = title /\ title = "destination"
    BY <1>1, <1>3 DEF PassPlace, JourneyInv, ScreenInv, ScreenTellsOfJourney
  <2>2. Tail(path) # <<>>
    BY <1>0, <1>1, <2>1, TailIsEmpty
  <2> QED
    BY <1>1, <1>2, <2>1, <2>2 DEF Promise!Pass, status
<1>4. CASE Arrive(p)
  <2>1. path' = <<>> /\ Len(path) = 1 /\ title' = "Arrived"
    BY <1>4 DEF Arrive
  <2>2. Tail(path) = <<>>
    BY <1>0, <1>1, <2>1, TailIsEmpty
  <2> QED
    BY <1>1, <1>2, <2>1, <2>2 DEF Promise!Pass, status
<1> QED
  BY <1>3, <1>4

\* The safety part of KeepsPromise: a way begins only with a selection and leads
\* to it, and after that every step of the app passes its first place, because
\* the user is near it, or leaves all of it alone.
THEOREM PromiseKept == Spec => Promise!Safety
<1>1. Init => Promise!Init
  <2>1. Position \subseteq Point
    BY DEF Position
  <2> QED
    BY <2>1 DEF Init, Promise!Init, status, goal
<1>2. JourneyInv /\ [Next]_vars => [Promise!Next]_<<menuOpen, location, goal, status, path>>
  <2> SUFFICES ASSUME JourneyInv, [Next]_vars
               PROVE  Promise!Next \/ UNCHANGED <<menuOpen, location, goal, status, path>>
    OBVIOUS
  <2>0. Position \subseteq Point /\ TypeInv /\ (pathFinding <=> path # <<>>)
    BY DEF JourneyInv, RouteInv, TypeInv, Located, Position
  <2>1. ASSUME UNCHANGED <<destination, title, crashed>>
        PROVE  UNCHANGED <<goal, status>>
    BY <2>1 DEF status, goal
  <2>2. CASE DataLoaded \/ HeadingUpdate \/ UNCHANGED vars
    BY <2>1, <2>2 DEF DataLoaded, HeadingUpdate, vars, menuVars, routeVars
  <2>3. CASE OpenMenuByButton \/ OpenMenuBySwipe
    <3>1. UNCHANGED <<goal, status>>
      BY <2>1, <2>3 DEF OpenMenuByButton, OpenMenuBySwipe, routeVars
    <3>2. ~menuOpen /\ menuOpen' = TRUE /\ UNCHANGED <<location, path>>
      BY <2>3 DEF OpenMenuByButton, OpenMenuBySwipe, routeVars
    <3> QED
      BY <3>1, <3>2 DEF Promise!Next, Promise!Ask
  <2>4. CASE CloseMenu
    <3>1. UNCHANGED <<goal, status>>
      BY <2>1, <2>4 DEF CloseMenu, routeVars
    <3>2. menuOpen /\ menuOpen' = FALSE /\ UNCHANGED <<location, path>>
      BY <2>4 DEF CloseMenu, routeVars
    <3> QED
      BY <3>1, <3>2 DEF Promise!Next, Promise!Dismiss
  <2>5. ASSUME NEW b \in Building, SelectRow(b) PROVE Promise!Next
    BY <2>5, SelectionBegins DEF Promise!Next
  <2>6. ASSUME NEW b \in Building, SelectRowUnlocated(b) PROVE Promise!Next
    <3>1. /\ menuOpen /\ menuOpen' = FALSE /\ UNCHANGED <<location, path>>
          /\ ~crashed /\ crashed' /\ location = NoLocation
      BY <2>6 DEF SelectRowUnlocated, SelectEntrance
    <3>2. title = "app" /\ destination = Nowhere
      BY <3>1 DEF JourneyInv, ScreenInv
    <3>3. UNCHANGED <<goal, status>>
      BY <3>1, <3>2 DEF goal, status
    <3> QED
      BY <3>1, <3>3 DEF Promise!Next, Promise!Dismiss
  <2>7. ASSUME NEW p \in Position, Wander(p) \/ Approach(p) PROVE Promise!Next
    <3>1. UNCHANGED <<goal, status>>
      BY <2>1, <2>7 DEF Wander, Approach, routeVars
    <3>2. /\ location' \in Point /\ UNCHANGED <<menuOpen, path>>
          /\ path # <<>> => location' \notin Near[path[1]]
      BY <2>0, <2>7 DEF Wander, Approach, routeVars, menuVars
    <3> QED
      BY <3>1, <3>2 DEF Promise!Next, Promise!Walk
  <2>8. ASSUME NEW p \in Position, PassPlace(p) \/ Arrive(p) PROVE Promise!Next
    BY <2>8, NearnessPasses DEF Promise!Next
  <2> QED
    BY <2>2, <2>3, <2>4, <2>5, <2>6, <2>7, <2>8 DEF Next, Walk
<1>3. Spec => []JourneyInv
  BY ScreenInvHolds, RouteInvHolds, PTL DEF JourneyInv
<1> QED
  BY <1>1, <1>2, <1>3, PTL DEF Spec, Promise!Safety, Promise!vars

=============================================================================
