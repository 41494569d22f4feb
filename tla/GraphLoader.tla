---------------------------- MODULE GraphLoader -----------------------------
(***************************************************************************)
(* The app's way to its graph: one snapshot of the nodes, then one of the  *)
(* edges, then their conversion, each when the one before has been         *)
(* received.  The database goes on changing in between.  A request that is *)
(* refused, or that finds the collection empty, ends without a call of the *)
(* completion handler: the app waits for ever, here by taking no step.     *)
(***************************************************************************)
EXTENDS GraphStore

VARIABLES
    loading,   \* "nodes" or "edges", the snapshot asked for; "loaded"; "trapped"
    nodesDict  \* the ids in the snapshot of the nodes

loaderVars == <<loading, nodesDict>>

Init ==
    /\ loading = "nodes"
    /\ nodesDict = {}

\* The completion handler of fetchNodes goes on to fetchEdges.
FetchNodes ==
    /\ loading = "nodes"
    /\ Nodes(store) # {}
    /\ nodesDict' = Nodes(store)
    /\ loading' = "edges"

\* Every edge finds its nodes.
Convert ==
    /\ loading = "edges"
    /\ Edges(store) # {}
    /\ \A e \in Edges(store) : {e[1], e[2]} \subseteq nodesDict
    /\ loading' = "loaded"
    /\ nodesDict' = {}

\* navLocations[from]! or navLocations[to]! where there is no such node.
Trap ==
    /\ loading = "edges"
    /\ \E e \in Edges(store) : ~({e[1], e[2]} \subseteq nodesDict)
    /\ loading' = "trapped"
    /\ nodesDict' = {}

Next == FetchNodes \/ Convert \/ Trap

=============================================================================
