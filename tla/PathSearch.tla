----------------------------- MODULE PathSearch -----------------------------
(***************************************************************************)
(* GraphNode.findPath(to:), the A* search that plans every route.  The     *)
(* connections are walked in Set order, which Swift leaves open, so each   *)
(* iteration of a for loop is an action that takes any node left to visit. *)
(*                                                                         *)
(* A Step refers to the step it was reached from.  That one has left the   *)
(* queue and is never written again, so a step carries its chain by value: *)
(* previous is the sequence of nodes from the first connection of start to *)
(* the node before the step's own, empty where the code has nil.           *)
(***************************************************************************)
EXTENDS SortedArray, SequencesExt, Nearest

CONSTANTS
    Node,    \* the NavigationLocations, told apart by their coordinates
    Graphs,  \* the graphs that are searched, as functions to connectedNodes
    NoStep   \* no step has been taken from the queue yet

Step == [node : Node, previous : Seq(Node), stepCost : Nat]

ASSUME NodeAssumption == Node \subseteq Point

\* Distances are measured in a straight line.
ASSUME TriangleAssumption ==
    \A a, b, c \in Node : Distance[a][c] <= Distance[a][b] + Distance[b][c]

ASSUME GraphsAssumption == Graphs \subseteq [Node -> SUBSET Node]

ASSUME NoStepAssumption == NoStep \notin Step

VARIABLES
    connectedNodes,   \* the graph
    start,            \* self
    goalNode,
    possibleSteps,    \* the queue, cheapest step first
    eliminatedNodes,
    step,             \* the step last taken from the queue
    toVisit,          \* nodes the running for loop has not come to yet
    path,
    phase             \* "seeding", "searching" or "returned"

vars == <<connectedNodes, start, goalNode, possibleSteps, eliminatedNodes,
          step, toVisit, path, phase>>

query == <<connectedNodes, start, goalNode>>

Init ==
    /\ connectedNodes \in Graphs
    /\ start \in Node
    /\ goalNode \in Node
    /\ possibleSteps = <<>>
    /\ eliminatedNodes = {start}
    /\ step = NoStep
    /\ toVisit = connectedNodes[start]
    /\ path = <<start>>
    /\ phase = "seeding"

\* Step.cost(): the cost so far and the estimate of what is left, both of them
\* straight lines.
Total(s) == s.stepCost + Cost(s.node, goalNode)

Smaller(s) == [j \in DOMAIN possibleSteps |-> Total(possibleSteps[j]) < Total(s)]

\* possibleSteps.sortedInsert(newElement: s): the search returns the partition
\* index of a sorted queue, and a queue that is not sorted has none.
SortedInsert(s) ==
    \E index \in 0..Len(possibleSteps) :
        /\ IsPartitionIndex(Smaller(s), index)
        /\ possibleSteps' = InsertAt(possibleSteps, index + 1, s)

\* Mutant: the first steps have a step at start for their previous one.
FirstStepAfterStart(n) ==
    [node |-> n, previous |-> <<start>>, stepCost |-> Cost(start, n)]

\* Step(from: start, to: n, goal: goalNode)
FirstStep(n) == [node |-> n, previous |-> <<>>, stepCost |-> Cost(start, n)]

\* Mutant: the step before is left out of the chain.
NextStepAfterPrevious(n) ==
    [node     |-> n,
     previous |-> step.previous,
     stepCost |-> step.stepCost + Cost(step.node, n)]

\* Mutant: only the last leg counts.
NextStepByLastLeg(n) ==
    [node     |-> n,
     previous |-> Append(step.previous, step.node),
     stepCost |-> Cost(step.node, n)]

\* Step(destination: n, previous: step, goal: goalNode)
NextStep(n) ==
    [node     |-> n,
     previous |-> Append(step.previous, step.node),
     stepCost |-> step.stepCost + Cost(step.node, n)]

\* The for loop over the connections of start.
Seed(n) ==
    /\ phase = "seeding"
    /\ n \in toVisit
    /\ SortedInsert(FirstStep(n))
    /\ toVisit' = toVisit \ {n}
    /\ UNCHANGED <<query, eliminatedNodes, step, path, phase>>

Seeded ==
    /\ phase = "seeding"
    /\ toVisit = {}
    /\ phase' = "searching"
    /\ UNCHANGED <<query, possibleSteps, eliminatedNodes, step, toVisit, path>>

\* The while loop tests its condition once the inner for loop is through.
AtLoopHead == phase = "searching" /\ toVisit = {}

\* The cheapest step leads to the goal: path is rebuilt from the chain.
PopGoal ==
    /\ AtLoopHead
    /\ possibleSteps # <<>>
    /\ Head(possibleSteps).node = goalNode
    /\ step' = Head(possibleSteps)
    /\ possibleSteps' = Tail(possibleSteps)
    /\ path' = <<start>> \o Head(possibleSteps).previous \o <<goalNode>>
    /\ phase' = "returned"
    /\ UNCHANGED <<query, eliminatedNodes, toVisit>>

\* It leads elsewhere: its node is eliminated, its other connections are next.
PopOther ==
    /\ AtLoopHead
    /\ possibleSteps # <<>>
    /\ Head(possibleSteps).node # goalNode
    /\ step' = Head(possibleSteps)
    /\ possibleSteps' = Tail(possibleSteps)
    /\ eliminatedNodes' = eliminatedNodes \cup {Head(possibleSteps).node}
    /\ toVisit' = connectedNodes[Head(possibleSteps).node] \ eliminatedNodes'
    /\ UNCHANGED <<query, path, phase>>

\* Mutant: index < possibleSteps.count alone.
AnyNodeAt(position, n) ==
    /\ IsPartitionIndex(Smaller(NextStep(n)), position - 1)
    /\ position \in DOMAIN possibleSteps

\* index < possibleSteps.count && possibleSteps[index] == nextStep, where the
\* two are equal when they lead to the same node; position is index + 1.
SameNodeAt(position, n) ==
    /\ IsPartitionIndex(Smaller(NextStep(n)), position - 1)
    /\ position \in DOMAIN possibleSteps
    /\ possibleSteps[position].node = n

\* No step to n stands where the new one belongs: the new one is inserted, even
\* if another stands elsewhere in the queue.
EnqueueStep(n) ==
    /\ phase = "searching"
    /\ n \in toVisit
    /\ ~\E position \in DOMAIN possibleSteps : SameNodeAt(position, n)
    /\ SortedInsert(NextStep(n))
    /\ toVisit' = toVisit \ {n}
    /\ UNCHANGED <<query, eliminatedNodes, step, path, phase>>

\* A dearer step to n stands there: it gets the new way, and keeps its old cost.
ReparentStep(n) ==
    /\ phase = "searching"
    /\ n \in toVisit
    /\ \E position \in DOMAIN possibleSteps :
          /\ SameNodeAt(position, n)
          /\ NextStep(n).stepCost < possibleSteps[position].stepCost
          /\ possibleSteps' = [possibleSteps EXCEPT
                                 ![position].previous = NextStep(n).previous]
    /\ toVisit' = toVisit \ {n}
    /\ UNCHANGED <<query, eliminatedNodes, step, path, phase>>

\* A step to n that is as cheap stands there: the new one is dropped.
DiscardStep(n) ==
    /\ phase = "searching"
    /\ n \in toVisit
    /\ \E position \in DOMAIN possibleSteps :
          /\ SameNodeAt(position, n)
          /\ NextStep(n).stepCost >= possibleSteps[position].stepCost
    /\ toVisit' = toVisit \ {n}
    /\ UNCHANGED <<query, possibleSteps, eliminatedNodes, step, path, phase>>

\* No step is left: what is returned is the path as it was set up, start alone.
Exhausted ==
    /\ AtLoopHead
    /\ possibleSteps = <<>>
    /\ phase' = "returned"
    /\ UNCHANGED <<query, possibleSteps, eliminatedNodes, step, toVisit, path>>

Next ==
    \/ \E n \in Node : \/ Seed(n)
                       \/ EnqueueStep(n)
                       \/ ReparentStep(n)
                       \/ DiscardStep(n)
    \/ Seeded
    \/ PopGoal
    \/ PopOther
    \/ Exhausted

Spec == Init /\ [][Next]_vars
-----------------------------------------------------------------------------
TypeOK ==
    /\ connectedNodes \in [Node -> SUBSET Node]
    /\ start \in Node
    /\ goalNode \in Node
    /\ possibleSteps \in Seq(Step)
    /\ eliminatedNodes \in SUBSET Node
    /\ step \in Step \cup {NoStep}
    /\ toVisit \in SUBSET Node
    /\ path \in Seq(Node)
    /\ phase \in {"seeding", "searching", "returned"}

\* The queue stays sorted by cost although steps are rewritten in place: what
\* binarySearch asks of its array, and what makes its result an index at all.
QueueSorted ==
    \A j, k \in DOMAIN possibleSteps :
        j < k => Total(possibleSteps[j]) <= Total(possibleSteps[k])

\* Consecutive nodes of w are connected, in the direction of travel.
IsWalk(w) == \A j \in 1..(Len(w) - 1) : w[j + 1] \in connectedNodes[w[j]]

\* Every set that contains start and is closed under connections contains n.
Reachable(n) ==
    \A S \in SUBSET Node :
        /\ start \in S
        /\ \A m \in S : connectedNodes[m] \subseteq S
        => n \in S

\* Whatever chains were rewritten on the way, a path to a goal that can be
\* reached starts at self, follows connections in their direction, and ends at
\* the goal.  Of other goals it says nothing: there the code returns start alone
\* where its comment has an empty array (GraphNode.swift:88).
ReturnedPathIsWalk ==
    phase = "returned" /\ Reachable(goalNode) =>
        /\ path # <<>>
        /\ path[1] = start
        /\ IsWalk(path)
        /\ path[Len(path)] = goalNode

\* The search is complete: neither eliminating nodes nor dropping steps loses
\* the goal, and the goal is only reported when it can be reached.
FindsGoal ==
    phase = "returned" => (path[Len(path)] = goalNode <=> Reachable(goalNode))

\* No route passes a place twice, unless the graph connects start to itself.
NoNodeTwice ==
    start \notin connectedNodes[start] =>
        \A j, k \in DOMAIN path : path[j] = path[k] => j = k

\* The cost walked along w.
PathCost(w) ==
    FoldLeftDomain(LAMBDA sum, j : IF j = 1 THEN 0 ELSE sum + Cost(w[j - 1], w[j]),
                   0, w)

\* Steps leave the queue in the order of their cost, which is why a node can be
\* eliminated when its first step leaves.
PopsInCostOrder ==
    [][step' # step /\ step # NoStep => Total(step') >= Total(step)]_vars

\* "the optimal path between this node and the indicated goal node": no other
\* route to the goal is shorter.
PathIsOptimal ==
    phase = "returned" /\ path[Len(path)] = goalNode =>
        \A w \in SeqOf(Node, Cardinality(Node)) :
            w # <<>> /\ w[1] = start /\ w[Len(w)] = goalNode /\ IsWalk(w)
                => PathCost(path) <= PathCost(w)

=============================================================================
