------------------------------- MODULE Campus -------------------------------
(***************************************************************************)
(* Map editors and an app that loads the graph, around one database.       *)
(***************************************************************************)
EXTENDS MapEditor

VARIABLES loading, nodesDict

Loader == INSTANCE GraphLoader

campusVars == <<vars, loading, nodesDict>>

CampusInit == Init /\ Loader!Init

CampusNext ==
    \/ Next /\ UNCHANGED <<loading, nodesDict>>
    \/ Loader!Next /\ UNCHANGED vars

CampusSpec == CampusInit /\ [][CampusNext]_campusVars

-----------------------------------------------------------------------------
\* Whatever an editor deletes while the app loads, between the two snapshots or
\* between the writes of one deletion, the conversion finds every node it
\* unwraps: it only fails where a node has been added in between.
DeletionNeverTraps ==
    [][loading # "trapped" /\ loading' = "trapped" =>
          \E n \in Nodes(store) : n \notin nodesDict]_campusVars

=============================================================================
