------------------------------ MODULE Journey ------------------------------
(***************************************************************************)
(* What the app promises to somebody who follows its arrow.  A way begins  *)
(* only when a question for the destination is answered, and leads to the  *)
(* answer, unless it is one place where nothing leads on.  From then on    *)
(* nothing but being near its first place changes it: that place is passed *)
(* then and there, and no other.  The end is announced when the last place *)
(* has been passed and not before.                                         *)
(***************************************************************************)
EXTENDS Sequences

CONSTANTS
    Place,
    Near,     \* Near[p]: the places from where p counts as reached
    Nowhere,  \* no destination has been chosen
    Unknown   \* the traveller's place before the first location

VARIABLES
    asking,  \* the traveller is asked for a destination
    at,      \* where the traveller is
    goal,
    status,  \* "app" before the first journey, then "destination" or "Arrived"
    way      \* the places ahead

vars == <<asking, at, goal, status, way>>

Init ==
    /\ asking = FALSE
    /\ at \in Place \cup {Unknown}
    /\ goal = Nowhere
    /\ status = "app"
    /\ way = <<>>

Ask == ~asking /\ asking' = TRUE /\ UNCHANGED <<at, goal, status, way>>

Dismiss == asking /\ asking' = FALSE /\ UNCHANGED <<at, goal, status, way>>

\* The question is answered, whether or not a journey is under way.
Begin ==
    /\ asking /\ at # Unknown
    /\ asking' = FALSE
    /\ goal' \in Place
    /\ way' \in Seq(Place) \ {<<>>}
    /\ way'[Len(way')] = goal' \/ Len(way') = 1
    /\ status' = "destination"
    /\ UNCHANGED at

\* The traveller gets somewhere that is not near the next place.
Walk ==
    /\ at' \in Place
    /\ way # <<>> => at' \notin Near[way[1]]
    /\ UNCHANGED <<asking, goal, status, way>>

\* The traveller gets near the next place.
Pass ==
    /\ way # <<>>
    /\ at' \in Near[way[1]]
    /\ way' = Tail(way)
    /\ status' = IF way' = <<>> THEN "Arrived" ELSE "destination"
    /\ UNCHANGED <<asking, goal>>

Next == Ask \/ Dismiss \/ Begin \/ Walk \/ Pass

Safety == Init /\ [][Next]_vars

\* The traveller keeps walking, and so comes near the next place.
Spec == Safety /\ WF_vars(Pass)

=============================================================================
