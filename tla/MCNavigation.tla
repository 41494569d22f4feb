---------------------------- MODULE MCNavigation ----------------------------
(***************************************************************************)
(* A path along a line, with a position of the user beside each end,       *)
(* between two places and far away.                                        *)
(***************************************************************************)
EXTENDS Navigation, Integers

MCNode == {0, 10, 20, 30}

\* A user at -40 or 25 is nearer to one end than any other place is.
MCPoint == MCNode \cup {-40, 14, 25} \cup {-100}

MCNowhere == -100

Apart(p, q) == IF p < q THEN q - p ELSE p - q

MCDistance == [p \in Point |-> [q \in Point |-> Apart(p, q)]]

MCNear == [p \in Point |-> {q \in Point : Apart(p, q) < 8}]

MCBuilding == {"Library", "Chapel"}

MCEntrances == [b \in Building |-> IF b = "Library" THEN {0, 30} ELSE {20}]

GraphOf(E) == [n \in Node |-> {m \in Node : {m, n} \in E}]

\* A connected graph with two ways round; a graph in two parts; a graph with
\* half of an edge missing and a place connected to itself.
MCGraphs ==
    {GraphOf({{0, 10}, {10, 20}, {20, 30}, {10, 30}}),
     GraphOf({{0, 10}, {20, 30}}),
     [GraphOf({{0, 10}, {20, 30}, {10}}) EXCEPT ![10] = @ \cup {20}]}

=============================================================================
