----------------------------- MODULE MapEditor ------------------------------
(***************************************************************************)
(* map.js: pages on which the graph of the campus is edited.  A page       *)
(* redraws its map whenever what it shows changes, also by its own writes; *)
(* a redraw discards every window that is open.                            *)
(***************************************************************************)
EXTENDS GraphStore

CONSTANTS
    Writer,      \* the pages on which somebody edits; the others only look
    Drawings,    \* the graphs there may be at first
    MaxWindows,  \* bound: windows open on one page
    MaxBacklog   \* bound: writes under way when another edit begins

ASSUME WriterAssumption == Writer \subseteq Editor

ASSUME DrawingsAssumption == Drawings \subseteq Graph

ASSUME BoundsAssumption == MaxWindows \in Nat /\ MaxBacklog \in Nat

VARIABLES
    addingEdge,  \* addingEdge[c]: nodesForEdge, the id of the first node and the
                 \* index of its marker, until the second is clicked; else empty
    helpers,     \* helpers[c]: indices of the markers that have an infoWindow
    windows      \* windows[c]: the windows open, by the buttons they show

pageVars == <<addingEdge, helpers, windows>>

vars == <<storeVars, pageVars>>

DetailWindow(n) == [shows |-> "detail", node |-> n]
DeleteWindow(n) == [shows |-> "delete", node |-> n]
CreateWindow == [shows |-> "create"]
EdgeWindow(from, to, index) ==
    [shows |-> "edge", from |-> from, to |-> to, index |-> index]

Window == {DetailWindow(n) : n \in Id} \cup {DeleteWindow(n) : n \in Id}
          \cup {CreateWindow}
          \cup {EdgeWindow(m, n, i) : m, n \in Id, i \in Id}

Init ==
    /\ store \in Drawings
    /\ view = [c \in Editor |-> store]
    /\ pending = [c \in Editor |-> <<>>]
    /\ addingEdge = [c \in Editor |-> <<>>]
    /\ helpers = [c \in Editor |-> {}]
    /\ windows = [c \in Editor |-> {}]

-----------------------------------------------------------------------------
\* initMap fails on an empty collection, before it has made a marker.
Drawable(g) == Nodes(g) # {} /\ Edges(g) # {}

\* Markers are numbered in the order of their nodes' keys.
MarkerIndex(g, n) == Cardinality({m \in Nodes(g) : m <= n})

\* The graphs c shows one after the other when it writes ws.
ShownDuring(c, ws) == {Overlay(view[c], SubSeq(ws, 1, k)) : k \in 1..Len(ws)}

\* A redraw for each of the graphs shown: new markers take the place of the
\* first ones; those beyond are left over from before.
Redraw(c, shown) ==
    /\ windows' = [windows EXCEPT ![c] = {}]
    /\ helpers' = [helpers EXCEPT
                     ![c] = {i \in @ : \A g \in shown :
                                          Drawable(g) => i > Cardinality(Nodes(g))}]

\* An edit: writes, each of which redraws the map.
Edit(c, ws) ==
    /\ Len(pending[c]) <= MaxBacklog
    /\ ws # <<>>
    /\ Set(c, ws)
    /\ Redraw(c, ShownDuring(c, ws))
    /\ UNCHANGED addingEdge

Opened(c, w, closed) ==
    /\ windows' = [windows EXCEPT ![c] = (@ \ {closed}) \cup {w}]
    /\ Cardinality(windows'[c]) <= MaxWindows

-----------------------------------------------------------------------------
\* A click on a marker while no edge is being added.
ClickMarker(c, n) ==
    /\ Drawable(view[c])
    /\ n \in Nodes(view[c])
    /\ addingEdge[c] = <<>>
    /\ DetailWindow(n) \notin windows[c]
    /\ Opened(c, DetailWindow(n), DetailWindow(n))
    /\ UNCHANGED <<storeVars, addingEdge, helpers>>

\* A double click on the map.
DoubleClick(c) ==
    /\ Drawable(view[c])
    /\ CreateWindow \notin windows[c]
    /\ Opened(c, CreateWindow, CreateWindow)
    /\ UNCHANGED <<storeVars, addingEdge, helpers>>

\* "Add Edge" of the detail window: the marker gets a window that asks for a
\* click on another node.
addFirstEdge(c, n) ==
    /\ DetailWindow(n) \in windows[c]
    /\ windows' = [windows EXCEPT ![c] = @ \ {DetailWindow(n)}]
    /\ helpers' = [helpers EXCEPT ![c] = @ \cup {MarkerIndex(view[c], n)}]
    /\ addingEdge' = [addingEdge EXCEPT ![c] = <<n, MarkerIndex(view[c], n)>>]
    /\ UNCHANGED storeVars

\* The next click on a marker, the same one included.
addSecondEdge(c, n) ==
    /\ Drawable(view[c])
    /\ n \in Nodes(view[c])
    /\ addingEdge[c] # <<>>
    /\ Opened(c, EdgeWindow(n, addingEdge[c][1], addingEdge[c][2]), DetailWindow(n))
    /\ addingEdge' = [addingEdge EXCEPT ![c] = <<>>]
    /\ UNCHANGED <<storeVars, helpers>>

\* Mutant: only one of the two halves is written.
saveEdgeOneWay(c, w) ==
    /\ w \in windows[c] /\ w.shows = "edge"
    /\ w.index \in helpers[c]
    /\ {w.from, w.to} \subseteq Nodes(view[c])
    /\ Edit(c, <<Write(EdgePath(w.from, w.to), There)>>)

\* Mutant: the coordinates of the nodes are not asked for.
saveEdgeUnseen(c, w) ==
    /\ w \in windows[c] /\ w.shows = "edge"
    /\ Edit(c, <<Write(EdgePath(w.from, w.to), There), Write(EdgePath(w.to, w.from), There)>>)

\* "Add Edge" of the second window.  The function fails, and nothing happens,
\* when the first marker has no infoWindow any more or a node is gone.
saveEdge(c, w) ==
    /\ w \in windows[c] /\ w.shows = "edge"
    /\ w.index \in helpers[c]
    /\ {w.from, w.to} \subseteq Nodes(view[c])
    /\ Edit(c, <<Write(EdgePath(w.from, w.to), There), Write(EdgePath(w.to, w.from), There)>>)

\* Mutant: the node is written before the index.
saveNodeFirst(c) ==
    LET id == Index(view[c]) + 1
    IN  /\ CreateWindow \in windows[c]
        /\ id \in Id
        /\ Edit(c, <<Write(NodePath(id), There), Write(IndexPath, id)>>)

\* Mutant: ids are counted by the nodes there are.
saveNodeByCount(c) ==
    LET id == Cardinality(Nodes(view[c])) + 1
    IN  /\ CreateWindow \in windows[c]
        /\ id \in Id
        /\ Edit(c, <<Write(IndexPath, id), Write(NodePath(id), There)>>)

\* "Add Node" of the window a double click opened.
saveNode(c) ==
    LET id == Index(view[c]) + 1
    IN  /\ CreateWindow \in windows[c]
        /\ id \in Id
        /\ Edit(c, <<Write(IndexPath, id), Write(NodePath(id), There)>>)

\* "Delete Node" of the detail window: asks back.
deleteNodeBox(c, n) ==
    /\ DetailWindow(n) \in windows[c]
    /\ Opened(c, DeleteWindow(n), DetailWindow(n))
    /\ helpers' = [helpers EXCEPT ![c] = @ \cup {MarkerIndex(view[c], n)}]
    /\ UNCHANGED <<storeVars, addingEdge>>

\* The writes that remove the edges in E, in some order.
Removals(E) == SetToSeq({Write(EdgePath(e[1], e[2]), Null) : e \in E})

\* Mutant: the node is removed before its edges.
deleteNodeFirst(c, n) ==
    /\ DeleteWindow(n) \in windows[c]
    /\ Edit(c, <<Write(NodePath(n), Null)>>
               \o Removals({e \in Edges(view[c]) : n \in {e[1], e[2]}}))

\* "Delete": the edges the page knows of, then the node.
deleteNode(c, n) ==
    /\ DeleteWindow(n) \in windows[c]
    /\ Edit(c, Removals({e \in Edges(view[c]) : n \in {e[1], e[2]}})
               \o <<Write(NodePath(n), Null)>>)

\* "Remove" beside the edge from n to m in the detail window of n.
deleteEdge(c, m, n) ==
    /\ DetailWindow(n) \in windows[c]
    /\ <<n, m>> \in Edges(view[c])
    /\ Edit(c, Removals({<<m, n>>, <<n, m>>} \cap Edges(view[c])))

-----------------------------------------------------------------------------
\* Another page has changed what this one shows.
Update(c) ==
    /\ Sync(c)
    /\ Redraw(c, {view'[c]})
    /\ UNCHANGED addingEdge

WriteThrough(c) == Commit(c) /\ UNCHANGED pageVars

\* The page is loaded again: the variables of the script start from nothing.
Reload(c) ==
    /\ Reopen(c)
    /\ addingEdge' = [addingEdge EXCEPT ![c] = <<>>]
    /\ helpers' = [helpers EXCEPT ![c] = {}]
    /\ windows' = [windows EXCEPT ![c] = {}]

\* What somebody does on the page c.
Use(c) ==
    \/ \E n \in Id : \/ ClickMarker(c, n)
                     \/ addFirstEdge(c, n)
                     \/ addSecondEdge(c, n)
                     \/ deleteNodeBox(c, n)
                     \/ deleteNode(c, n)
    \/ \E m, n \in Id : deleteEdge(c, m, n)
    \/ \E w \in windows[c] : saveEdge(c, w)
    \/ DoubleClick(c)
    \/ saveNode(c)

Next ==
    \/ \E c \in Writer : Use(c)
    \/ \E c \in Editor : Update(c) \/ WriteThrough(c) \/ Reload(c)

Spec == Init /\ [][Next]_vars

-----------------------------------------------------------------------------
TypeOK ==
    /\ store \in Graph
    /\ view \in [Editor -> Graph]
    /\ pending \in [Editor -> Seq(Writes)]
    /\ addingEdge \in [Editor -> {<<>>} \cup (Id \X Id)]
    /\ helpers \in [Editor -> SUBSET Id]
    /\ windows \in [Editor -> SUBSET Window]

\* The server and every page.
Copies == {store} \cup {view[c] : c \in Editor}

NoDangling(g) == \A e \in Edges(g) : {e[1], e[2]} \subseteq Nodes(g)

\* No edge is left without one of its nodes on the server or on any page, at
\* any point between the writes of an edit, even if the page is closed there:
\* "remove the edge from the to be deleted node".
NoDanglingEdge == \A g \in Copies : NoDangling(g)

IndexCovers(g) == \A n \in Nodes(g) : n <= Index(g)

\* The index is never behind: no node, also of those whose index and node were
\* written apart, has an id that is given out again.
IndexCoversNodes == \A g \in Copies : IndexCovers(g)

\* A node on its way to the server takes the place of no other there: "the
\* node will be the n+1 node".
NoNodeOverwritten ==
    \A c \in Editor : \A n \in Nodes(store) :
        Write(NodePath(n), There) \notin Range(pending[c])

TwoWay(g) == \A e \in Edges(g) : <<e[2], e[1]>> \in Edges(g)

\* On the page that is edited, edges come and go with both their halves, unless
\* the page is loaded anew.
PairsStayPaired ==
    [][\A c \in Writer : TwoWay(view[c]) /\ ~Reload(c) => TwoWay(view'[c])]_vars

=============================================================================
