----------------------------- MODULE GraphStore -----------------------------
(***************************************************************************)
(* The database under "Graph" as the map editor uses it: every path of it  *)
(* is a register.  A client applies its own writes at once to what it      *)
(* shows; the server takes the writes of a client in their order, each on  *)
(* its own, and tells every client of what others wrote.                   *)
(***************************************************************************)
EXTENDS Naturals, SequencesExt

CONSTANTS
    Editor,  \* the pages that are open
    MaxId    \* the largest id of a node

ASSUME MaxIdAssumption == MaxId \in Nat

Id == 1..MaxId

\* Graph/Nodes/nodeNNN, Graph/Edges/nodeNNN_nodeNNN and Graph/index, in the
\* shape of one another.
NodePath(i) == <<"Nodes", i, i>>
EdgePath(i, j) == <<"Edges", i, j>>
IndexPath == <<"index", 0, 0>>

Path == {NodePath(i) : i \in Id}
        \cup {EdgePath(i, j) : i, j \in Id}
        \cup {IndexPath}

Null == 0
There == 1

\* Of a node or an edge, only whether it is there.
Value(p) == IF p = IndexPath THEN 0..MaxId ELSE {Null, There}

Write(p, v) == [path |-> p, value |-> v]

Writes == UNION {{Write(p, v) : v \in Value(p)} : p \in Path}

Graph == {g \in [Path -> (0..MaxId) \cup {Null, There}] : \A p \in Path : g[p] \in Value(p)}

Nodes(g) == {i \in Id : g[NodePath(i)] = There}

Edges(g) == {e \in Id \X Id : g[EdgePath(e[1], e[2])] = There}

Index(g) == g[IndexPath]

VARIABLES
    store,   \* what the server holds
    view,    \* view[c]: what the page c has been told, and has written itself
    pending  \* pending[c]: writes of c that have not reached the server

storeVars == <<store, view, pending>>

\* Where the last write of ws to p stands; 0 if there is none.
LastWrite(ws, p) == SelectLastInSeq(ws, LAMBDA w : w.path = p)

\* The graph g after the writes ws.
Overlay(g, ws) ==
    [p \in Path |-> IF LastWrite(ws, p) = 0 THEN g[p] ELSE ws[LastWrite(ws, p)].value]

\* ref.child(...).set(...) for each of ws, in one turn of the page's event loop.
Set(c, ws) ==
    /\ view' = [view EXCEPT ![c] = Overlay(@, ws)]
    /\ pending' = [pending EXCEPT ![c] = @ \o ws]
    /\ UNCHANGED store

\* The oldest write of c reaches the server.
Commit(c) ==
    /\ pending[c] # <<>>
    /\ LET w == Head(pending[c]) IN store' = [store EXCEPT ![w.path] = w.value]
    /\ pending' = [pending EXCEPT ![c] = Tail(@)]
    /\ UNCHANGED view

\* c is told what the server holds; its own writes under way stay on top.
Sync(c) ==
    /\ view[c] # Overlay(store, pending[c])
    /\ view' = [view EXCEPT ![c] = Overlay(store, pending[c])]
    /\ UNCHANGED <<store, pending>>

\* The page is loaded again, without the writes that did not get through.
Reopen(c) ==
    /\ view' = [view EXCEPT ![c] = store]
    /\ pending' = [pending EXCEPT ![c] = <<>>]
    /\ UNCHANGED store

=============================================================================
